---------------------------- MODULE ModalProofs -----------------------------
(***************************************************************************)
(* Theorems about ModalStack and what is modal over it: the dialogs        *)
(* (ModalDialog, EndSessionDialog), the overview, with the workspaces that *)
(* it shows (Overview, DynamicWorkspaces), and the agent of PolicyKit,     *)
(* which has one dialog (PolkitAgent); for every set of actors, of         *)
(* dialogs, of other users of the stack, of inhibitors, of requests, of    *)
(* windows and of startup sequences.                                       *)
(***************************************************************************)
EXTENDS EndSessionDialog, PolkitAgent, Overview, DynamicWorkspaces, SeqLemmas, FiniteSetTheorems

-----------------------------------------------------------------------------
(***************************************************************************)
(* The stack. The general part shows that a grab always has an owner:      *)
(* every unit of modalCount stands for an actor in held.  The orderly part *)
(* shows that the stack, the count and the owners agree, and that the      *)
(* focus of the session comes back when the grab is released.              *)
(***************************************************************************)

\* What the stack consists of before and after an actor is removed from it.
PopAt(a, k) ==
  /\ FoundAt(a, k)
  /\ modalActors' = RemoveAt(modalActors, k)
  /\ keyFocus' = IF k = Len(modalActors) THEN modalFocus[k].focus ELSE keyFocus

-----------------------------------------------------------------------------
(***************************************************************************)
(* Type correctness.                                                       *)
(***************************************************************************)
TypeInv == ModalTypeOK /\ CountCoversStack

LEMMA TypeInit == ModalInit => TypeInv
  <1> SUFFICES ASSUME ModalInit PROVE TypeInv
    OBVIOUS
  <1>1. /\ modalActors \in Seq(Modals \cup {None}) /\ Len(modalActors) = 0
        /\ modalFocus \in Seq(FocusRecord) /\ Len(modalFocus) = 0
    BY EmptySeq DEF ModalInit
  <1>3. /\ modalCount \in Nat /\ lostHandlers \subseteq FocusRecord /\ held \subseteq Modals
        /\ grabbed \in BOOLEAN /\ inputMode \in InputModes /\ keyFocus \in Focus
        /\ alive \subseteq Actors /\ sessionFocus \in Focus
    BY DEF ModalInit, Focus, InputModes
  <1>4. modalCount = 0
    BY DEF ModalInit
  <1> QED BY <1>1, <1>3, <1>4 DEF TypeInv, ModalTypeOK, CountCoversStack

\* What the type invariant says of the two sequences, element by element.
LEMMA StackElements ==
  ASSUME TypeInv
  PROVE  /\ Len(modalActors) \in Nat /\ Len(modalFocus) = Len(modalActors)
         /\ \A k \in 1..Len(modalActors) : /\ modalActors[k] \in Modals \cup {None}
                                           /\ modalFocus[k] \in FocusRecord
  BY LenProperties, ElementOfSeq DEF TypeInv, ModalTypeOK, CountCoversStack

\* pushModal(), with whatever actor of the stage is focused by its caller.
LEMMA PushTypes ==
  ASSUME TypeInv, NEW a, NEW f \in Focus, PushModalTo(a, f)
  PROVE  TypeInv'
  <1> USE ModalAssumption
  <1>1. a \in Modals
    BY DEF PushModalTo
  <1>2. /\ modalActors' \in Seq(Modals \cup {None})
        /\ Len(modalActors') = Len(modalActors) + 1
    BY <1>1, AppendProperties DEF PushModalTo, TypeInv, ModalTypeOK
  <1>3. [focus |-> keyFocus, by |-> a] \in FocusRecord
    BY <1>1 DEF FocusRecord, TypeInv, ModalTypeOK
  <1>4. /\ modalFocus' \in Seq(FocusRecord)
        /\ Len(modalFocus') = Len(modalFocus) + 1
    BY <1>3, AppendProperties DEF PushModalTo, TypeInv, ModalTypeOK
  <1> QED BY <1>1, <1>2, <1>4, StackElements
          DEF PushModalTo, TypeInv, ModalTypeOK, CountCoversStack, InputModes

\* popModal(), before the input mode is set and with whatever it is set to.
LEMMA PopTypes ==
  ASSUME TypeInv, NEW a, PopRecord(a), inputMode' \in InputModes
  PROVE  TypeInv'
  <1>1. PICK k \in 1..Len(modalActors) : PopAt(a, k)
    BY DEF PopRecord, PopAt
  <1>2. /\ modalActors' \in Seq(Modals \cup {None})
        /\ Len(modalActors') = Len(modalActors) - 1
    BY <1>1, RemoveAtProperties DEF PopAt, TypeInv, ModalTypeOK
  <1>3. /\ modalFocus' \in Seq(FocusRecord)
        /\ Len(modalFocus') = Len(modalFocus) - 1
    BY <1>1, StackElements, FrontProperties DEF PopRecord, TypeInv, ModalTypeOK
  <1>4. keyFocus' \in Focus
    BY <1>1, StackElements DEF PopAt, TypeInv, ModalTypeOK, FocusRecord
  <1>5. modalCount' \in Nat /\ Len(modalActors') <= modalCount'
    BY <1>1, <1>2, StackElements DEF PopRecord, TypeInv, ModalTypeOK, CountCoversStack
  <1>6. /\ held' \subseteq Modals /\ grabbed' \in BOOLEAN /\ sessionFocus' \in Focus
        /\ lostHandlers' \subseteq FocusRecord /\ alive' \subseteq Actors
    BY DEF PopRecord, TypeInv, ModalTypeOK, Focus
  <1> QED BY <1>2, <1>3, <1>4, <1>5, <1>6, StackElements DEF TypeInv, ModalTypeOK, CountCoversStack

\* A popModal() that throws.
LEMMA IncorrectPopTypes ==
  ASSUME TypeInv, NEW a, IncorrectPop(a)
  PROVE  TypeInv'
  BY DEF IncorrectPop, TypeInv, ModalTypeOK, CountCoversStack, Focus, InputModes

\* The records that are left when an actor is destroyed have lost it.
LEMMA DestroyTypes ==
  ASSUME TypeInv, NEW d \in Actors, DestroyActor(d)
  PROVE  TypeInv'
  <1> DEFINE clear(s) == [i \in 1..Len(s) |-> IF s[i] \in ClearedBy(d) THEN None ELSE s[i]]
  <1>1. ASSUME NEW s \in Seq(Modals \cup {None})
        PROVE  clear(s) \in Seq(Modals \cup {None}) /\ Len(clear(s)) = Len(s)
    <2>1. Len(s) \in Nat /\ \A i \in 1..Len(s) : s[i] \in Modals \cup {None}
      BY LenProperties, ElementOfSeq
    <2>2. clear(s) \in [1..Len(s) -> Modals \cup {None}]
      BY <2>1
    <2> HIDE DEF clear
    <2> QED BY <2>1, <2>2, FunctionIsSeq
  <1>2. CASE /\ modalActors' = clear(modalActors)
             /\ UNCHANGED <<modalFocus, lostHandlers>>
    <2>1. modalActors' \in Seq(Modals \cup {None}) /\ Len(modalActors') = Len(modalActors)
      BY <1>1, <1>2 DEF TypeInv, ModalTypeOK
    <2> HIDE DEF clear
    <2> QED BY <1>2, <2>1 DEF DestroyActor, TypeInv, ModalTypeOK, CountCoversStack, Focus
  <1>3. CASE \E k \in 1..Len(modalActors) :
               /\ modalActors' = clear(RemoveAt(modalActors, k))
               /\ modalFocus' = RemoveAt(modalFocus, k)
               /\ lostHandlers' = lostHandlers \cup {modalFocus[k]}
    <2>1. PICK k \in 1..Len(modalActors) :
               /\ modalActors' = clear(RemoveAt(modalActors, k))
               /\ modalFocus' = RemoveAt(modalFocus, k)
               /\ lostHandlers' = lostHandlers \cup {modalFocus[k]}
      BY <1>3
    <2>2. /\ RemoveAt(modalActors, k) \in Seq(Modals \cup {None})
          /\ Len(RemoveAt(modalActors, k)) = Len(modalActors) - 1
      BY RemoveAtProperties DEF TypeInv, ModalTypeOK
    <2>3. /\ modalActors' \in Seq(Modals \cup {None})
          /\ Len(modalActors') = Len(modalActors) - 1
      BY <1>1, <2>1, <2>2
    <2>4. modalFocus' \in Seq(FocusRecord) /\ Len(modalFocus') = Len(modalFocus) - 1
      BY <2>1, StackElements, RemoveAtProperties DEF TypeInv, ModalTypeOK
    <2>5. lostHandlers' \subseteq FocusRecord
      BY <2>1, StackElements DEF TypeInv, ModalTypeOK
    <2> HIDE DEF clear
    <2> QED BY StackElements, <2>3, <2>4, <2>5
            DEF DestroyActor, TypeInv, ModalTypeOK, CountCoversStack, Focus
  <1> QED BY <1>2, <1>3 DEF DestroyActor

\* What does not touch the stack: the focus that moves, and the input mode.
LEMMA OutsideTypes ==
  ASSUME TypeInv,
         (\E f \in Actors : MoveFocus(f)) \/ FocusStage \/ FocusWindowChanged \/ UNCHANGED modalVars
  PROVE  TypeInv'
  BY ModalAssumption
     DEF MoveFocus, FocusStage, FocusWindowChanged, modalVars,
         TypeInv, ModalTypeOK, CountCoversStack, Focus, InputModes

LEMMA TypeStep == TypeInv /\ [ModalNext]_modalVars => TypeInv'
  <1> SUFFICES ASSUME TypeInv, [ModalNext]_modalVars PROVE TypeInv'
    OBVIOUS
  <1>1. ASSUME NEW a \in Modals, PushModal(a) PROVE TypeInv'
    BY <1>1, ModalAssumption, PushTypes DEF PushModal, Focus
  <1>2. ASSUME NEW a \in Modals, PushModalFails(a) PROVE TypeInv'
    BY <1>2 DEF PushModalFails, TypeInv, ModalTypeOK, CountCoversStack
  <1>3. ASSUME NEW a \in Modals, PopModal(a) PROVE TypeInv'
    <2>1. inputMode' \in InputModes
      BY <1>3 DEF PopModal, TypeInv, ModalTypeOK, InputModes
    <2> QED BY <1>3, <2>1, PopTypes DEF PopModal
  <1> QED BY <1>1, <1>2, <1>3, IncorrectPopTypes, DestroyTypes, OutsideTypes DEF ModalNext

\* Every variable keeps its type.
THEOREM ModalTypeCorrect == ModalSpec => []ModalTypeOK
  <1>1. TypeInv => ModalTypeOK
    BY DEF TypeInv
  <1> QED BY <1>1, TypeInit, TypeStep, PTL DEF ModalSpec

\* The counter never falls below the number of records, whichever actors are
\* destroyed and whoever pops twice.
THEOREM ModalCountCoversStack == ModalSpec => []CountCoversStack
  <1>1. TypeInv => CountCoversStack
    BY DEF TypeInv
  <1> QED BY <1>1, TypeInit, TypeStep, PTL DEF ModalSpec

-----------------------------------------------------------------------------
(***************************************************************************)
(* The grab has an owner.  GrabHasOwner is not inductive: it needs that    *)
(* each unit of modalCount is the share of one actor of held, of which a   *)
(* push adds one to both sides and a pop takes one from both; an actor     *)
(* that is destroyed, or whose pop throws, keeps its share for ever.       *)
(***************************************************************************)
OwnerInv ==
  /\ TypeInv
  /\ IsFiniteSet(held)
  /\ modalCount <= Cardinality(held)
  /\ grabbed => modalCount > 0

LEMMA OwnerInit == ModalInit => OwnerInv
  <1> SUFFICES ASSUME ModalInit PROVE OwnerInv
    OBVIOUS
  <1>1. IsFiniteSet(held) /\ Cardinality(held) = 0 /\ modalCount = 0 /\ ~grabbed
    BY FS_EmptySet DEF ModalInit
  <1> QED BY <1>1, TypeInit DEF OwnerInv

LEMMA OwnerStep == OwnerInv /\ [ModalNext]_modalVars => OwnerInv'
  <1> SUFFICES ASSUME OwnerInv, [ModalNext]_modalVars PROVE OwnerInv'
    OBVIOUS
  <1>1. TypeInv'
    BY TypeStep DEF OwnerInv
  <1>2. modalCount \in Nat /\ Cardinality(held) \in Nat
    BY FS_CardinalityType DEF OwnerInv, TypeInv, ModalTypeOK
  <1>3. ASSUME NEW a \in Modals, PushModal(a) PROVE OwnerInv'
    <2>1. /\ IsFiniteSet(held') /\ Cardinality(held') = Cardinality(held) + 1
      BY <1>3, FS_AddElement DEF PushModal, PushModalTo, OwnerInv
    <2> QED BY <1>1, <1>2, <1>3, <2>1 DEF PushModal, PushModalTo, OwnerInv
  <1>4. ASSUME NEW a \in Modals, PushModalFails(a) PROVE OwnerInv'
    <2>1. /\ IsFiniteSet(held') /\ Cardinality(held') = Cardinality(held) + 1
      BY <1>4, FS_AddElement DEF PushModalFails, OwnerInv
    <2> QED BY <1>1, <1>2, <1>4, <2>1 DEF PushModalFails, OwnerInv
  <1>5. ASSUME NEW a \in Modals, PopModal(a) PROVE OwnerInv'
    <2>1. /\ IsFiniteSet(held') /\ Cardinality(held') = Cardinality(held) - 1
      BY <1>5, FS_RemoveElement DEF PopModal, PopRecord, OwnerInv
    <2>2. modalCount' = modalCount - 1 /\ (grabbed' => modalCount > 1)
      BY <1>2, <1>5 DEF PopModal, PopRecord
    <2> QED BY <1>1, <1>2, <2>1, <2>2 DEF OwnerInv
  <1>6. ASSUME NEW a \in Modals, IncorrectPop(a) PROVE OwnerInv'
    BY <1>1, <1>6 DEF IncorrectPop, OwnerInv
  <1>7. ASSUME NEW d \in Actors, DestroyActor(d) PROVE OwnerInv'
    BY <1>1, <1>7 DEF DestroyActor, OwnerInv
  <1>8. ASSUME NEW f \in Actors, MoveFocus(f) PROVE OwnerInv'
    BY <1>1, <1>8 DEF MoveFocus, OwnerInv
  <1>9. CASE FocusStage \/ FocusWindowChanged \/ UNCHANGED modalVars
    BY <1>1, <1>9 DEF FocusStage, FocusWindowChanged, modalVars, OwnerInv
  <1> QED BY <1>3, <1>4, <1>5, <1>6, <1>7, <1>8, <1>9 DEF ModalNext

\* All input is grabbed only while some component believes that it is modal,
\* whichever actors are destroyed, whoever ignores the result of pushModal()
\* and whoever pops what is not on the stack.
THEOREM ModalGrabHasOwner == ModalSpec => []GrabHasOwner
  <1>1. OwnerInv => GrabHasOwner
    <2> SUFFICES ASSUME OwnerInv, grabbed PROVE modalCount > 0 /\ held # {}
      BY DEF GrabHasOwner
    <2>1. modalCount > 0 /\ Cardinality(held) > 0
      BY FS_CardinalityType DEF OwnerInv, TypeInv, ModalTypeOK
    <2> QED BY <2>1, FS_EmptySet
  <1> QED BY <1>1, OwnerInit, OwnerStep, PTL DEF ModalSpec

-----------------------------------------------------------------------------
(***************************************************************************)
(* Orderly callers.  The invariants the runs check are inductive only      *)
(* together: that no pop throws follows from held being the stack, and the *)
(* focus given back at the end from the first record never being changed.  *)
(***************************************************************************)
MatchedInv ==
  /\ TypeInv
  /\ Matched
  /\ ChainStartsWithSession

LEMMA MatchedInit == ModalInit => MatchedInv
  <1> SUFFICES ASSUME ModalInit PROVE MatchedInv
    OBVIOUS
  <1>1. Len(modalActors) = 0 /\ Len(modalFocus) = 0 /\ modalCount = 0 /\ held = {} /\ ~grabbed
    BY EmptySeq DEF ModalInit
  <1>2. ToSet(modalActors) = {}
    <2>1. modalActors \in Seq(Modals \cup {None})
      BY EmptySeq DEF ModalInit
    <2>2. ToSet(modalActors) = {modalActors[i] : i \in 1..Len(modalActors)}
      BY <2>1, ToSetProperties
    <2> QED BY <1>1, <2>2
  <1>3. \A i, j \in 1..Len(modalActors) : modalActors[i] = modalActors[j] => i = j
    BY <1>1
  <1> QED BY <1>1, <1>2, <1>3, TypeInit
          DEF MatchedInv, Matched, ChainStartsWithSession

LEMMA MatchedStep ==
  ASSUME MatchedInv, [ModalNext]_modalVars
  PROVE  /\ Orderly' => MatchedInv'
         /\ grabbed /\ ~grabbed' => keyFocus' = sessionFocus
  <1> DEFINE Goal == /\ Orderly' => MatchedInv'
                     /\ grabbed /\ ~grabbed' => keyFocus' = sessionFocus
  <1> SUFFICES Goal
    OBVIOUS
  <1>1. TypeInv'
    BY TypeStep DEF MatchedInv
  <1>2. /\ modalActors \in Seq(Modals \cup {None}) /\ modalFocus \in Seq(FocusRecord)
        /\ Len(modalActors) \in Nat /\ Len(modalFocus) = Len(modalActors)
        /\ modalCount = Len(modalActors)
    BY LenProperties
       DEF MatchedInv, TypeInv, ModalTypeOK, CountCoversStack, Matched
  <1>3. /\ held = ToSet(modalActors) /\ (grabbed <=> held # {})
        /\ held = {modalActors[i] : i \in 1..Len(modalActors)}
        /\ \A i, j \in 1..Len(modalActors) : modalActors[i] = modalActors[j] => i = j
    BY <1>2, ToSetProperties DEF MatchedInv, Matched
  <1>4. ASSUME NEW a \in Modals, PushModal(a) PROVE Goal
    <2>1. /\ Len(modalActors') = Len(modalActors) + 1
          /\ \A i \in 1..Len(modalActors) : modalActors'[i] = modalActors[i]
          /\ modalActors'[Len(modalActors) + 1] = a
      BY <1>2, <1>4, AppendProperties DEF PushModal, PushModalTo
    <2>2. ToSet(modalActors') = held'
      <3>1. ToSet(Append(modalActors, a)) = ToSet(modalActors) \cup {a}
        BY <1>2, ToSetAppend
      <3>2. modalActors' = Append(modalActors, a) /\ held' = held \cup {a}
        BY <1>4 DEF PushModal, PushModalTo
      <3> QED BY <1>3, <3>1, <3>2
    <2>3. \A i, j \in 1..Len(modalActors') : modalActors'[i] = modalActors'[j] => i = j
      <3>1. a \notin held
        BY <1>4 DEF PushModal, PushModalTo
      <3> QED BY <1>2, <1>3, <2>1, <3>1
    <2>4. grabbed' /\ held' # {}
      <3>1. CASE modalCount = 0
        BY <1>4, <3>1 DEF PushModal, PushModalTo
      <3>2. CASE modalCount # 0
        <4>1. modalActors[1] \in held
          BY <1>2, <1>3, <3>2
        <4> QED BY <1>3, <1>4, <4>1 DEF PushModal, PushModalTo
      <3> QED BY <3>1, <3>2
    <2>5. Len(modalFocus') > 0 => modalFocus'[1].focus = sessionFocus'
      <3>1. [focus |-> keyFocus, by |-> a] \in FocusRecord
        BY ModalAssumption DEF FocusRecord, MatchedInv, TypeInv, ModalTypeOK
      <3>2. /\ \A i \in 1..Len(modalFocus) : modalFocus'[i] = modalFocus[i]
            /\ modalFocus'[Len(modalFocus) + 1] = [focus |-> keyFocus, by |-> a]
        BY <1>2, <1>4, <3>1, AppendProperties DEF PushModal, PushModalTo
      <3>3. CASE modalCount = 0
        BY <1>2, <1>4, <3>2, <3>3 DEF PushModal, PushModalTo
      <3>4. CASE modalCount # 0
        <4>1. 1 \in 1..Len(modalFocus) /\ modalFocus'[1] = modalFocus[1]
          BY <1>2, <3>2, <3>4
        <4> QED BY <1>2, <1>4, <3>4, <4>1
                DEF PushModal, PushModalTo, MatchedInv, ChainStartsWithSession
      <3> QED BY <3>3, <3>4
    <2>6. modalCount' = Len(modalActors')
      BY <1>2, <1>4, <2>1 DEF PushModal, PushModalTo
    <2> QED BY <1>1, <2>2, <2>3, <2>4, <2>5, <2>6
            DEF MatchedInv, Matched, ChainStartsWithSession
  <1>5. ASSUME NEW a \in Modals, PushModalFails(a) PROVE Goal
    <2>1. 1..Len(modalActors) = {}
      BY <1>2, <1>5 DEF PushModalFails
    <2>2. ToSet(modalActors) = {}
      BY <1>3, <2>1
    <2>3. a \in held' /\ modalActors' = modalActors /\ grabbed' = grabbed
      BY <1>5 DEF PushModalFails
    <2> QED BY <2>2, <2>3 DEF Orderly
  <1>6. ASSUME NEW a \in Modals, PopModal(a) PROVE Goal
    <2>1. PICK k \in 1..Len(modalActors) : PopAt(a, k)
      BY <1>6 DEF PopModal, PopRecord, PopAt
    <2>2. /\ Len(modalActors') = Len(modalActors) - 1
          /\ modalActors[k] = a
      BY <1>2, <2>1, RemoveAtProperties DEF PopAt, FoundAt
    <2>3. ToSet(modalActors') = held'
      <3>1. ToSet(RemoveAt(modalActors, k)) = ToSet(modalActors) \ {modalActors[k]}
        BY <1>2, <1>3, RemoveAtDistinct
      <3>2. modalActors' = RemoveAt(modalActors, k) /\ held' = held \ {a}
        BY <1>6, <2>1 DEF PopModal, PopRecord, PopAt
      <3> QED BY <1>3, <2>2, <3>1, <3>2
    <2>4. \A i, j \in 1..Len(modalActors') : modalActors'[i] = modalActors'[j] => i = j
      BY <1>2, <1>3, <2>1, <2>2, RemoveAtDistinct DEF PopAt
    <2>5. /\ modalFocus' \in Seq(FocusRecord)
          /\ Len(modalFocus') = Len(modalFocus) - 1
          /\ \A i \in 1..Len(modalFocus) - 1 : modalFocus'[i] = modalFocus[i]
      BY <1>2, <1>6, <2>1, FrontProperties DEF PopModal, PopRecord
    <2>6. ChainStartsWithSession'
      <3> SUFFICES ASSUME Len(modalFocus') > 0 PROVE modalFocus'[1].focus = sessionFocus'
        BY DEF ChainStartsWithSession
      <3>1. modalFocus'[1] = modalFocus[1] /\ Len(modalFocus) > 0 /\ modalCount > 1
        BY <1>2, <2>5
      <3> QED BY <1>6, <3>1 DEF PopModal, PopRecord, MatchedInv, ChainStartsWithSession
    <2>7. modalCount' = Len(modalActors')
      BY <1>2, <1>6, <2>2 DEF PopModal, PopRecord
    <2>8. CASE modalCount > 1
      <3>1. 1 \in 1..Len(modalActors') /\ modalActors' \in Seq(Modals \cup {None})
        BY <1>1, <1>2, <2>2, <2>8 DEF TypeInv, ModalTypeOK
      <3>2. modalActors'[1] \in ToSet(modalActors')
        BY <3>1, ToSetProperties
      <3>3. grabbed' = grabbed /\ grabbed
        BY <1>3, <1>6, <2>8 DEF PopModal, PopRecord
      <3> QED BY <1>1, <2>3, <2>4, <2>6, <2>7, <3>2, <3>3
              DEF MatchedInv, Matched
    <2>9. CASE ~(modalCount > 1)
      <3>1. ~grabbed' /\ k = 1 /\ Len(modalActors) = 1
        BY <1>2, <1>6, <2>1, <2>9 DEF PopModal, PopRecord
      <3>2. keyFocus' = sessionFocus
        BY <1>2, <2>1, <3>1 DEF PopAt, MatchedInv, ChainStartsWithSession
      <3>3. held' = {}
        <4>1. modalActors' \in Seq(Modals \cup {None}) /\ Len(modalActors') = 0
          BY <1>1, <2>2, <3>1 DEF TypeInv, ModalTypeOK
        <4>2. ToSet(modalActors') = {modalActors'[i] : i \in 1..Len(modalActors')}
          BY <4>1, ToSetProperties
        <4> QED BY <2>3, <4>1, <4>2
      <3> QED BY <1>1, <2>3, <2>4, <2>6, <2>7, <3>1, <3>2, <3>3
              DEF MatchedInv, Matched
    <2> QED BY <2>8, <2>9
  <1>7. ASSUME NEW a \in Modals, IncorrectPop(a) PROVE Goal
    <2>1. PICK k \in 1..Len(modalActors) : modalActors[k] = a
      BY <1>3, <1>7 DEF IncorrectPop
    <2>2. \A j \in 1..k - 1 : modalActors[j] # a
      BY <1>2, <1>3, <2>1
    <2> QED BY <1>7, <2>1, <2>2 DEF IncorrectPop, FoundAt
  <1>8. ASSUME NEW d \in Actors, DestroyActor(d) PROVE Goal
    <2>1. grabbed' = grabbed /\ alive' # Actors
      BY <1>8 DEF DestroyActor
    <2> QED BY <2>1 DEF Orderly
  <1>9. ASSUME NEW f \in Actors, MoveFocus(f) PROVE Goal
    BY <1>1, <1>9 DEF MoveFocus, MatchedInv, Matched,
                      ChainStartsWithSession
  <1>10. CASE FocusStage \/ FocusWindowChanged
    BY <1>1, <1>10 DEF FocusStage, FocusWindowChanged, MatchedInv,
                       Matched, ChainStartsWithSession
  <1>11. CASE UNCHANGED modalVars
    BY <1>1, <1>11 DEF modalVars, MatchedInv, Matched,
                        ChainStartsWithSession
  <1> HIDE DEF Goal
  <1> QED BY <1>4, <1>5, <1>6, <1>7, <1>8, <1>9, <1>10, <1>11 DEF ModalNext

\* What is out of order stays so.
LEMMA OrderlyBefore ==
  ASSUME TypeInv, [ModalNext]_modalVars, Orderly'
  PROVE  Orderly
  <1> USE ModalAssumption
  <1>1. /\ modalActors \in Seq(Modals \cup {None}) /\ alive \subseteq Actors
        /\ ToSet(modalActors) = {modalActors[i] : i \in 1..Len(modalActors)}
    BY ToSetProperties DEF TypeInv, ModalTypeOK
  <1>2. ASSUME NEW a \in Modals, PushModal(a) PROVE Orderly
    <2>1. /\ modalActors' = Append(modalActors, a) /\ a \notin held
          /\ held' = held \cup {a} /\ alive' = alive
      BY <1>2 DEF PushModal, PushModalTo
    <2>2. ToSet(modalActors') = ToSet(modalActors) \cup {a}
      BY <1>1, <2>1, ToSetAppend
    <2> QED BY <2>1, <2>2 DEF Orderly
  <1>3. ASSUME NEW a \in Modals, PushModalFails(a) PROVE Orderly
    BY <1>3 DEF PushModalFails, Orderly
  <1>4. ASSUME NEW a \in Modals, PopModal(a) PROVE Orderly
    <2>1. PICK k \in 1..Len(modalActors) : PopAt(a, k)
      BY <1>4 DEF PopModal, PopRecord, PopAt
    <2>2. ToSet(modalActors') \subseteq ToSet(modalActors)
      <3>1. /\ modalActors' \in Seq(Modals \cup {None})
            /\ Len(modalActors') = Len(modalActors) - 1 /\ Len(modalActors) \in Nat
            /\ \A i \in 1..Len(modalActors) - 1 :
                 modalActors'[i] = IF i < k THEN modalActors[i] ELSE modalActors[i + 1]
        BY <1>1, <2>1, RemoveAtProperties, LenProperties DEF PopAt
      <3>2. ToSet(modalActors') = {modalActors'[i] : i \in 1..Len(modalActors')}
        BY <3>1, ToSetProperties
      <3>3. ASSUME NEW i \in 1..Len(modalActors')
            PROVE  modalActors'[i] \in ToSet(modalActors)
        <4>1. i \in 1..Len(modalActors) - 1 /\ i \in 1..Len(modalActors)
              /\ i + 1 \in 1..Len(modalActors)
          BY <3>1
        <4>2. modalActors'[i] = modalActors[i] \/ modalActors'[i] = modalActors[i + 1]
          BY <3>1, <4>1
        <4> QED BY <1>1, <4>1, <4>2
      <3> QED BY <3>2, <3>3
    <2>3. a \in ToSet(modalActors)
      BY <1>1, <2>1 DEF PopAt, FoundAt
    <2>4. held \subseteq held' \cup {a} /\ alive' = alive
      BY <1>4 DEF PopModal, PopRecord
    <2> QED BY <2>2, <2>3, <2>4 DEF Orderly
  <1>5. ASSUME NEW a \in Modals, IncorrectPop(a) PROVE Orderly
    BY <1>5 DEF IncorrectPop, Orderly
  <1>6. ASSUME NEW d \in Actors, DestroyActor(d) PROVE Orderly
    BY <1>6 DEF DestroyActor, Orderly
  <1>7. CASE (\E f \in Actors : MoveFocus(f)) \/ FocusStage \/ FocusWindowChanged
             \/ UNCHANGED modalVars
    BY <1>7 DEF MoveFocus, FocusStage, FocusWindowChanged, modalVars, Orderly
  <1> QED BY <1>2, <1>3, <1>4, <1>5, <1>6, <1>7 DEF ModalNext

OrderlyInv == TypeInv /\ (Orderly => MatchedInv)

LEMMA OrderlyStep == OrderlyInv /\ [ModalNext]_modalVars => OrderlyInv'
  BY TypeStep, OrderlyBefore, MatchedStep DEF OrderlyInv

\* As long as the callers are orderly the stack, the count, the grab and the
\* owners agree.
THEOREM ModalStackMatchesOwners == ModalSpec => []StackMatchesOwners
  <1>1. ModalInit => OrderlyInv
    BY TypeInit, MatchedInit DEF OrderlyInv
  <1>2. OrderlyInv => StackMatchesOwners
    BY DEF OrderlyInv, MatchedInv, StackMatchesOwners
  <1> QED BY <1>1, <1>2, OrderlyStep, PTL DEF ModalSpec

\* A grab keeps the stage in the fullscreen mode, whatever the callers do.
THEOREM ModalGrabIsFullscreen == ModalSpec => []GrabIsFullscreen
  <1>1. ModalInit => GrabIsFullscreen
    BY DEF ModalInit, GrabIsFullscreen
  <1>2. GrabIsFullscreen /\ [ModalNext]_modalVars => GrabIsFullscreen'
    BY DEF GrabIsFullscreen, ModalNext, PushModal, PushModalTo, PushModalFails, PopModal, PopRecord,
           IncorrectPop, DestroyActor, MoveFocus, FocusStage, FocusWindowChanged, modalVars
  <1> QED BY <1>1, <1>2, PTL DEF ModalSpec

\* The books of pushModal() and popModal(), for every set of actors and every caller.
THEOREM ModalStackIsSound == ModalSpec => []StackIsSound
  <1>1. ModalTypeOK /\ CountCoversStack /\ GrabHasOwner /\ GrabIsFullscreen /\ StackMatchesOwners
        => StackIsSound
    BY DEF StackIsSound
  <1> QED
    BY <1>1, ModalTypeCorrect, ModalCountCoversStack, ModalGrabHasOwner, ModalGrabIsFullscreen,
       ModalStackMatchesOwners, PTL

\* As long as the callers are orderly the key focus of the session comes back
\* with the release of the grab, in whatever order the actors were popped.
THEOREM ModalSessionFocusRestored == ModalSpec => SessionFocusRestored
  <1>1. ModalInit => OrderlyInv
    BY TypeInit, MatchedInit DEF OrderlyInv
  <1>2. OrderlyInv /\ [ModalNext]_modalVars
        => [Orderly /\ grabbed /\ ~grabbed' => keyFocus' = sessionFocus]_modalVars
    BY MatchedStep DEF OrderlyInv
  <1> QED BY <1>1, <1>2, OrderlyStep, PTL DEF ModalSpec, SessionFocusRestored

-----------------------------------------------------------------------------
(***************************************************************************)
(* The dialogs. The stack is seen from a dialog: it has one record at      *)
(* most, and only while its owner believes that it has the grab.  What the *)
(* other users of the stack do never takes that record for the one of      *)
(* another actor.                                                          *)
(***************************************************************************)

(***************************************************************************)
(* The records of the dialogs.                                             *)
(***************************************************************************)
HasRecord(d) == d \in ToSet(modalActors)

RecordOf(d) ==
  /\ HasRecord(d) => d \in held
  /\ Undisturbed /\ d \in held => HasRecord(d)
  /\ \A i, j \in 1..Len(modalActors) : modalActors[i] = d /\ modalActors[j] = d => i = j

RecordsInv == TypeInv /\ \A d \in Dialogs : RecordOf(d)

\* A record, as an index.
LEMMA RecordIndex ==
  ASSUME TypeInv, NEW d
  PROVE  HasRecord(d) <=> \E i \in 1..Len(modalActors) : modalActors[i] = d
  BY ToSetProperties DEF HasRecord, TypeInv, ModalTypeOK

\* What _findModal() does not find has no record.
LEMMA NotFound ==
  ASSUME RecordsInv, NEW d \in Dialogs, \A k \in 1..Len(modalActors) : ~FoundAt(d, k)
  PROVE  ~HasRecord(d)
  <1> SUFFICES ASSUME HasRecord(d) PROVE FALSE
    OBVIOUS
  <1>1. PICK k \in 1..Len(modalActors) : modalActors[k] = d
    BY RecordIndex DEF RecordsInv
  <1>2. \A j \in 1..k - 1 : j \in 1..Len(modalActors) /\ j # k
    BY StackElements DEF RecordsInv
  <1>3. FoundAt(d, k)
    BY <1>1, <1>2 DEF FoundAt, RecordsInv, RecordOf
  <1> QED BY <1>3

\* An actor is pushed that is not a dialog with the grab.
LEMMA PushRecords ==
  ASSUME RecordsInv, NEW a, NEW f \in Focus, PushModalTo(a, f), a \in Dialogs => a \notin held
  PROVE  /\ RecordsInv' /\ alive' = alive /\ a \in held'
         /\ \A d \in Dialogs : d # a => (d \in held' <=> d \in held) /\ (HasRecord(d)' <=> HasRecord(d))
  <1>1. TypeInv'
    BY PushTypes DEF RecordsInv
  <1>2. /\ Len(modalActors) \in Nat /\ Len(modalActors') = Len(modalActors) + 1
        /\ \A i \in 1..Len(modalActors) : modalActors'[i] = modalActors[i]
        /\ modalActors'[Len(modalActors) + 1] = a
    BY ModalAssumption, AppendProperties, StackElements
       DEF PushModalTo, RecordsInv, TypeInv, ModalTypeOK
  <1>3. /\ held' = held \cup {a} /\ alive' = alive
    BY DEF PushModalTo
  <1>4. ASSUME NEW d \in Dialogs
        PROVE  HasRecord(d)' <=> HasRecord(d) \/ d = a
    <2>1. HasRecord(d)' <=> \E i \in 1..Len(modalActors') : modalActors'[i] = d
      BY <1>1, ToSetProperties DEF HasRecord, TypeInv, ModalTypeOK
    <2>2. HasRecord(d) <=> \E i \in 1..Len(modalActors) : modalActors[i] = d
      BY RecordIndex DEF RecordsInv
    <2>3. 1..Len(modalActors') = 1..Len(modalActors) \cup {Len(modalActors) + 1}
      BY <1>2
    <2> QED BY <1>2, <2>1, <2>2, <2>3
  <1>5. ASSUME NEW d \in Dialogs PROVE RecordOf(d)'
    <2>1. (HasRecord(d) => d \in held) /\ (Undisturbed /\ d \in held => HasRecord(d))
      BY DEF RecordsInv, RecordOf
    <2>2. \A i, j \in 1..Len(modalActors') : modalActors'[i] = d /\ modalActors'[j] = d => i = j
      <3>1. CASE d # a
        BY <1>2, <3>1 DEF RecordsInv, RecordOf
      <3>2. CASE d = a
        <4>1. ~HasRecord(d)
          BY <2>1, <3>2
        <4>2. \A i \in 1..Len(modalActors) : modalActors[i] # d
          BY <4>1, RecordIndex DEF RecordsInv
        <4> QED BY <1>2, <4>2
      <3> QED BY <3>1, <3>2
    <2>3. Undisturbed' = Undisturbed
      BY <1>3 DEF Undisturbed
    <2> QED BY <1>3, <1>4, <2>1, <2>2, <2>3 DEF RecordOf
  <1> QED BY <1>1, <1>3, <1>4, <1>5 DEF RecordsInv

\* popModal() of an actor that has a record.
LEMMA PopRecords ==
  ASSUME RecordsInv, NEW a, PopModal(a)
  PROVE  /\ RecordsInv' /\ alive' = alive /\ a \notin held' /\ (a \in Dialogs => ~HasRecord(a)')
         /\ \A d \in Dialogs : d # a => (d \in held' <=> d \in held) /\ (HasRecord(d)' <=> HasRecord(d))
  <1>1. TypeInv'
    <2>1. inputMode' \in InputModes
      BY DEF PopModal, RecordsInv, TypeInv, ModalTypeOK, InputModes
    <2> QED BY <2>1, PopTypes DEF PopModal, RecordsInv
  <1>2. PICK k \in 1..Len(modalActors) : PopAt(a, k)
    BY DEF PopModal, PopRecord, PopAt
  <1>3. /\ Len(modalActors) \in Nat /\ Len(modalActors') = Len(modalActors) - 1
        /\ modalActors[k] = a
        /\ \A i \in 1..Len(modalActors) - 1 :
             modalActors'[i] = IF i < k THEN modalActors[i] ELSE modalActors[i + 1]
    BY <1>2, RemoveAtProperties, StackElements DEF PopAt, FoundAt, RecordsInv, TypeInv, ModalTypeOK
  <1>4. held' = held \ {a} /\ alive' = alive
    BY DEF PopModal, PopRecord
  <1>5. ASSUME NEW d \in Dialogs
        PROVE  /\ HasRecord(d)' <=> HasRecord(d) /\ d # a
               /\ \A i, j \in 1..Len(modalActors') :
                    modalActors'[i] = d /\ modalActors'[j] = d => i = j
    <2>1. HasRecord(d)' <=> \E i \in 1..Len(modalActors') : modalActors'[i] = d
      BY <1>1, ToSetProperties DEF HasRecord, TypeInv, ModalTypeOK
    <2>2. HasRecord(d) <=> \E i \in 1..Len(modalActors) : modalActors[i] = d
      BY RecordIndex DEF RecordsInv
    <2>3. \A i, j \in 1..Len(modalActors) : modalActors[i] = d /\ modalActors[j] = d => i = j
      BY DEF RecordsInv, RecordOf
    <2>4. ASSUME NEW i \in 1..Len(modalActors'), modalActors'[i] = d
          PROVE  \E j \in 1..Len(modalActors) : modalActors[j] = d /\ j # k
      <3>1. CASE i < k
        BY <1>3, <2>4, <3>1
      <3>2. CASE ~(i < k)
        <4>1. i + 1 \in 1..Len(modalActors) /\ modalActors[i + 1] = d /\ i + 1 # k
          BY <1>3, <2>4, <3>2
        <4> QED BY <4>1
      <3> QED BY <3>1, <3>2
    <2>5. ASSUME NEW j \in 1..Len(modalActors), modalActors[j] = d, d # a
          PROVE  \E i \in 1..Len(modalActors') : modalActors'[i] = d
      <3>1. CASE j < k
        <4>1. j \in 1..Len(modalActors') /\ modalActors'[j] = d
          BY <1>3, <2>5, <3>1
        <4> QED BY <4>1
      <3>2. CASE j > k
        <4>1. j - 1 \in 1..Len(modalActors') /\ modalActors'[j - 1] = d
          BY <1>3, <2>5, <3>2
        <4> QED BY <4>1
      <3> QED BY <1>3, <2>5, <3>1, <3>2
    <2>6. HasRecord(d)' <=> HasRecord(d) /\ d # a
      BY <1>3, <2>1, <2>2, <2>3, <2>4, <2>5
    <2>7. ASSUME NEW i \in 1..Len(modalActors'), NEW j \in 1..Len(modalActors'),
                 modalActors'[i] = d, modalActors'[j] = d
          PROVE  i = j
      <3> DEFINE from(x) == IF x < k THEN x ELSE x + 1
      <3>1. i \in Int /\ j \in Int /\ k \in Int
        OBVIOUS
      <3>2. from(i) \in 1..Len(modalActors) /\ modalActors[from(i)] = d
        <4>1. CASE i < k
          BY <1>3, <2>7, <4>1
        <4>2. CASE ~(i < k)
          BY <1>3, <2>7, <4>2
        <4> QED BY <4>1, <4>2
      <3>3. from(j) \in 1..Len(modalActors) /\ modalActors[from(j)] = d
        <4>1. CASE j < k
          BY <1>3, <2>7, <4>1
        <4>2. CASE ~(j < k)
          BY <1>3, <2>7, <4>2
        <4> QED BY <4>1, <4>2
      <3>4. from(i) = from(j)
        <4> HIDE DEF from
        <4> QED BY <2>3, <3>2, <3>3
      <3> QED BY <3>1, <3>4
    <2> QED BY <2>6, <2>7
  <1>6. ASSUME NEW d \in Dialogs PROVE RecordOf(d)'
    BY <1>4, <1>5 DEF RecordsInv, RecordOf, Undisturbed
  <1> QED BY <1>1, <1>4, <1>5, <1>6 DEF RecordsInv

\* The death of another actor leaves a dialog its record, unless it had the focus.
LEMMA DestroyRecords ==
  ASSUME RecordsInv, NEW x \in Actors, DestroyActor(x)
  PROVE  /\ RecordsInv' /\ ~Undisturbed' /\ held' = held
         /\ \A d \in Dialogs : HasRecord(d)' => HasRecord(d)
  <1> DEFINE clear(s) == [i \in 1..Len(s) |-> IF s[i] \in ClearedBy(x) THEN None ELSE s[i]]
  <1>1. TypeInv'
    BY DestroyTypes DEF RecordsInv
  <1>2. held' = held /\ ~Undisturbed'
    BY DEF DestroyActor, Undisturbed
  <1>3. Len(modalActors) \in Nat
    BY StackElements DEF RecordsInv
  <1>4. ASSUME NEW d \in Dialogs
        PROVE  /\ HasRecord(d)' => HasRecord(d)
               /\ \A i, j \in 1..Len(modalActors') :
                    modalActors'[i] = d /\ modalActors'[j] = d => i = j
    <2>1. d # None
      BY ModalAssumption, DialogAssumption
    <2>2. \A i, j \in 1..Len(modalActors) : modalActors[i] = d /\ modalActors[j] = d => i = j
      BY DEF RecordsInv, RecordOf
    <2>3. HasRecord(d)' <=> \E i \in 1..Len(modalActors') : modalActors'[i] = d
      BY <1>1, ToSetProperties DEF HasRecord, TypeInv, ModalTypeOK
    <2>4. HasRecord(d) <=> \E i \in 1..Len(modalActors) : modalActors[i] = d
      BY RecordIndex DEF RecordsInv
    <2>5. CASE modalActors' = clear(modalActors)
      <3>1. /\ Len(modalActors') = Len(modalActors)
            /\ \A i \in 1..Len(modalActors) : modalActors'[i] = d => modalActors[i] = d
        <4>1. modalActors' \in Seq(Modals \cup {None}) /\ DOMAIN modalActors' = 1..Len(modalActors)
          BY <1>1, <2>5 DEF TypeInv, ModalTypeOK
        <4>2. Len(modalActors') = Len(modalActors)
          BY <1>3, <4>1, LenProperties
        <4> QED BY <2>1, <2>5, <4>2
      <3> QED BY <2>2, <2>3, <2>4, <3>1
    <2>6. CASE \E k \in 1..Len(modalActors) : modalActors' = clear(RemoveAt(modalActors, k))
      <3>1. PICK k \in 1..Len(modalActors) : modalActors' = clear(RemoveAt(modalActors, k))
        BY <2>6
      <3> DEFINE left == RemoveAt(modalActors, k)
      <3>2. /\ left \in Seq(Modals \cup {None}) /\ Len(left) = Len(modalActors) - 1
            /\ \A i \in 1..Len(modalActors) - 1 :
                 left[i] = IF i < k THEN modalActors[i] ELSE modalActors[i + 1]
        BY RemoveAtProperties DEF RecordsInv, TypeInv, ModalTypeOK
      <3>3. modalActors' = clear(left)
        BY <3>1
      <3> HIDE DEF left
      <3>4. /\ Len(modalActors') = Len(left)
            /\ \A i \in 1..Len(left) : modalActors'[i] = d => left[i] = d
        <4>1. modalActors' \in Seq(Modals \cup {None}) /\ DOMAIN modalActors' = 1..Len(left)
          BY <1>1, <3>3 DEF TypeInv, ModalTypeOK
        <4>2. Len(modalActors') = Len(left) /\ Len(left) \in Nat
          BY <3>2, <4>1, LenProperties
        <4> QED BY <2>1, <3>3, <4>2
      <3> DEFINE at(i) == IF i < k THEN i ELSE i + 1
      <3>5. ASSUME NEW i \in 1..Len(modalActors'), modalActors'[i] = d
            PROVE  at(i) \in 1..Len(modalActors) /\ modalActors[at(i)] = d
        BY <1>3, <3>2, <3>4, <3>5
      <3>6. \A i, j \in 1..Len(modalActors') : at(i) = at(j) => i = j
        BY <1>3, <3>2, <3>4
      <3> HIDE DEF at
      <3> QED BY <2>2, <2>3, <2>4, <3>5, <3>6
    <2> QED BY <2>5, <2>6 DEF DestroyActor
  <1>5. \A d \in Dialogs : RecordOf(d)'
    BY <1>2, <1>4 DEF RecordsInv, RecordOf
  <1> QED BY <1>1, <1>2, <1>4, <1>5 DEF RecordsInv

\* What neither pushes nor pops for an owner, but for the flag of a caller that ignores
\* that its push failed.
LEMMA KeptRecords ==
  ASSUME RecordsInv, TypeInv', modalActors' = modalActors, alive' = alive,
         \A d \in Dialogs : d \in held' <=> d \in held
  PROVE  RecordsInv' /\ \A d \in Dialogs : HasRecord(d)' <=> HasRecord(d)
  <1>1. Undisturbed' = Undisturbed /\ \A d \in Dialogs : HasRecord(d)' <=> HasRecord(d)
    BY DEF Undisturbed, HasRecord
  <1> QED BY <1>1 DEF RecordsInv, RecordOf

\* A popModal() that throws.
LEMMA IncorrectRecords ==
  ASSUME RecordsInv, NEW a, IncorrectPop(a)
  PROVE  /\ RecordsInv' /\ held' = held /\ alive' = alive
         /\ \A d \in Dialogs : HasRecord(d)' <=> HasRecord(d)
  <1>1. TypeInv' /\ held' = held /\ alive' = alive /\ modalActors' = modalActors
    BY IncorrectPopTypes DEF RecordsInv, IncorrectPop
  <1> QED BY <1>1, KeptRecords

\* What the others do, seen from a dialog.
LEMMA OthersRecords ==
  ASSUME RecordsInv, OtherModals
  PROVE  /\ RecordsInv' /\ (Undisturbed' => Undisturbed)
         /\ \A d \in Dialogs : (d \in held' <=> d \in held) /\ (HasRecord(d)' => HasRecord(d))
  <1> DEFINE Goal == /\ RecordsInv' /\ (Undisturbed' => Undisturbed)
                     /\ \A d \in Dialogs :
                          (d \in held' <=> d \in held) /\ (HasRecord(d)' => HasRecord(d))
  <1>1. ASSUME NEW a \in Modals \ Dialogs, PushModal(a) PROVE Goal
    <2>1. a \in Focus
      BY ModalAssumption DEF Focus
    <2> QED BY <1>1, <2>1, PushRecords DEF PushModal, Undisturbed
  <1>2. ASSUME NEW a \in Modals \ Dialogs, PushModalFails(a) PROVE Goal
    <2>1. /\ TypeInv' /\ modalActors' = modalActors /\ alive' = alive
          /\ \A d \in Dialogs : d \in held' <=> d \in held
      BY <1>2 DEF PushModalFails, RecordsInv, TypeInv, ModalTypeOK, CountCoversStack
    <2> QED BY <2>1, KeptRecords DEF Undisturbed
  <1>3. ASSUME NEW a \in Modals \ Dialogs, PopModal(a) PROVE Goal
    BY <1>3, PopRecords DEF Undisturbed
  <1>4. ASSUME NEW a \in Modals \ Dialogs, IncorrectPop(a) PROVE Goal
    BY <1>4, IncorrectRecords DEF Undisturbed
  <1>5. ASSUME NEW x \in Actors, DestroyActor(x) PROVE Goal
    BY <1>5, DestroyRecords
  <1>6. CASE (\E f \in Actors : MoveFocus(f)) \/ FocusStage \/ FocusWindowChanged
    <2>1. TypeInv' /\ modalActors' = modalActors /\ held' = held /\ alive' = alive
      BY <1>6, OutsideTypes DEF RecordsInv, MoveFocus, FocusStage, FocusWindowChanged
    <2> QED BY <2>1, KeptRecords DEF Undisturbed
  <1> QED BY <1>1, <1>2, <1>3, <1>4, <1>5, <1>6 DEF OtherModals

-----------------------------------------------------------------------------
(***************************************************************************)
(* What a dialog does with its grab.                                       *)
(***************************************************************************)
\* pushModal() of a dialog.
LEMMA TakeModalEffect ==
  ASSUME RecordsInv, DialogTypeOK, NEW x \in Dialogs, TakeModal(x)
  PROVE  /\ RecordsInv' /\ alive' = alive /\ x \in held'
         /\ savedFocus' \in [Dialogs -> Actors \cup {None}]
         /\ \A d \in Dialogs : d # x => (d \in held' <=> d \in held) /\ (HasRecord(d)' <=> HasRecord(d))
  <1>1. CASE x \in held
    <2>1. UNCHANGED <<modalVars, savedFocus>>
      BY <1>1 DEF TakeModal
    <2>2. /\ TypeInv' /\ modalActors' = modalActors /\ alive' = alive /\ held' = held
          /\ savedFocus' = savedFocus
      BY <2>1, OutsideTypes DEF modalVars, RecordsInv
    <2> QED BY <1>1, <2>2, KeptRecords DEF DialogTypeOK
  <1>2. CASE x \notin held
    <2>1. FocusOnPush(x) \in Focus
      BY DialogAssumption DEF FocusOnPush, DialogTypeOK, Focus
    <2>2. PushModalTo(x, FocusOnPush(x)) /\ savedFocus' = [savedFocus EXCEPT ![x] = None]
      BY <1>2 DEF TakeModal
    <2>3. savedFocus' \in [Dialogs -> Actors \cup {None}]
      BY <2>2 DEF DialogTypeOK
    <2> HIDE DEF FocusOnPush
    <2> QED BY <1>2, <2>1, <2>2, <2>3, PushRecords
  <1> QED BY <1>1, <1>2

\* The part of popModal() that drops the grab, when it does not throw.
LEMMA DropModalEffect ==
  ASSUME RecordsInv, NEW x \in Dialogs, DropModal(x)
  PROVE  /\ RecordsInv' /\ alive' = alive /\ x \notin held' /\ ~HasRecord(x)'
         /\ \A d \in Dialogs : d # x => (d \in held' <=> d \in held) /\ (HasRecord(d)' <=> HasRecord(d))
  <1>1. CASE x \in held
    BY <1>1, PopRecords DEF DropModal
  <1>2. CASE x \notin held
    <2>1. TypeInv' /\ modalActors' = modalActors /\ alive' = alive /\ held' = held
      BY <1>2, OutsideTypes DEF DropModal, modalVars, RecordsInv
    <2> QED BY <1>2, <2>1, KeptRecords DEF RecordsInv, RecordOf
  <1> QED BY <1>1, <1>2

\* The focus that is kept is an actor, if there is one.
LEMMA SavedFocusType ==
  ASSUME RecordsInv, DialogTypeOK, NEW x \in Dialogs,
         \/ savedFocus' = [savedFocus EXCEPT ![x] = FocusToSave(x)]
         \/ savedFocus' = [savedFocus EXCEPT ![x] = None]
         \/ savedFocus' = savedFocus
  PROVE  savedFocus' \in [Dialogs -> Actors \cup {None}]
  <1>1. FocusToSave(x) \in Actors \cup {None}
    BY DEF FocusToSave, RecordsInv, TypeInv, ModalTypeOK, Focus
  <1> QED BY <1>1 DEF DialogTypeOK

-----------------------------------------------------------------------------
(***************************************************************************)
(* What is open is modal.  ModalIsWhatIsOpen is not inductive: that a tween *)
(* which ends neither hides a modal dialog nor opens one without the grab  *)
(* needs that the tween is the one of the last open() or close(), and that *)
(* a run dialog takes its grab back or closes when its command is over.    *)
(***************************************************************************)
LooksOpen(d) == state[d] \in {"OPENED", "OPENING"}

DialogFacts(d) ==
  /\ groupTween[d] = "close" => state[d] = "CLOSING" /\ d \notin held
  /\ state[d] \in {"CLOSED", "CLOSING"} => ~HasRecord(d)
  /\ d \in held => groupVisible[d]
  /\ running = d => d \in Runners /\ d \notin held /\ groupVisible[d] /\ LooksOpen(d)
  /\ d \in Runners /\ running # d /\ (LooksOpen(d) \/ groupTween[d] = "open") => d \in held

DialogInv == RecordsInv /\ DialogTypeOK /\ \A d \in Dialogs : DialogFacts(d)

LEMMA RecordsInit == ModalInit => RecordsInv
  <1> SUFFICES ASSUME ModalInit PROVE RecordsInv
    OBVIOUS
  <1>1. TypeInv /\ held = {}
    BY TypeInit DEF ModalInit
  <1>2. Len(modalActors) = 0
    BY EmptySeq DEF ModalInit
  <1> QED BY <1>1, <1>2, RecordIndex DEF RecordsInv, RecordOf

LEMMA DialogStart == DialogInit => DialogInv
  <1> SUFFICES ASSUME DialogInit PROVE DialogInv
    OBVIOUS
  <1>1. RecordsInv /\ held = {}
    BY RecordsInit DEF DialogInit, ModalInit
  <1>2. DialogTypeOK
    BY DEF DialogInit, DialogTypeOK, DialogState, Tween
  <1>3. ASSUME NEW d \in Dialogs PROVE DialogFacts(d)
    <2>1. /\ state[d] = "CLOSED" /\ groupTween[d] = "none" /\ running = None
          /\ ~HasRecord(d) /\ d # None
      BY <1>1, DialogAssumption, ModalAssumption DEF DialogInit, RecordsInv, RecordOf
    <2> QED BY <1>1, <2>1 DEF DialogFacts, LooksOpen
  <1> QED BY <1>1, <1>2, <1>3 DEF DialogInv

\* A handler that is not about a dialog leaves it what it was.
LEMMA OtherDialogs ==
  ASSUME DialogInv, NEW d \in Dialogs, d # running, d # running',
         state'[d] = state[d], groupTween'[d] = groupTween[d], groupVisible'[d] = groupVisible[d],
         d \in held' <=> d \in held, HasRecord(d)' => HasRecord(d)
  PROVE  DialogFacts(d)'
  BY DEF DialogInv, DialogFacts, LooksOpen

LEMMA DialogStep == DialogInv /\ [DialogNext]_<<modalVars, dialogVars>> => DialogInv'
  <1> SUFFICES ASSUME DialogInv, [DialogNext]_<<modalVars, dialogVars>> PROVE DialogInv'
    OBVIOUS
  <1> DEFINE Others(x) == \A d \in Dialogs : d # x => DialogFacts(d)'
  <1>1. RecordsInv /\ DialogTypeOK /\ None \notin Dialogs /\ Runners \subseteq Dialogs
    BY DialogAssumption, ModalAssumption DEF DialogInv
  <1>2. ASSUME running = None, NEW x \in Dialogs, OpenDialog(x) PROVE DialogInv'
    <2>1. /\ RecordsInv' /\ x \in held' /\ savedFocus' \in [Dialogs -> Actors \cup {None}]
          /\ \A d \in Dialogs : d # x => (d \in held' <=> d \in held) /\ (HasRecord(d)' <=> HasRecord(d))
      BY <1>1, <1>2, TakeModalEffect DEF OpenDialog
    <2>2. /\ state' = [state EXCEPT ![x] = "OPENING"] /\ running' = None
          /\ groupTween' = [groupTween EXCEPT ![x] = "open"]
          /\ groupVisible' = [groupVisible EXCEPT ![x] = TRUE]
      BY <1>2 DEF OpenDialog, FadeOpen
    <2>3. DialogTypeOK'
      BY <1>1, <2>1, <2>2 DEF DialogTypeOK, DialogState, Tween
    <2>4. Others(x)
      BY <1>1, <1>2, <2>1, <2>2, OtherDialogs DEF DialogTypeOK
    <2>5. DialogFacts(x)'
      BY <1>1, <2>1, <2>2 DEF DialogFacts, LooksOpen, DialogTypeOK
    <2> QED BY <2>1, <2>3, <2>4, <2>5 DEF DialogInv
  <1>3. ASSUME running = None, NEW x \in Dialogs, CloseDialog(x) PROVE DialogInv'
    <2>1. /\ RecordsInv' /\ x \notin held' /\ ~HasRecord(x)'
          /\ \A d \in Dialogs : d # x => (d \in held' <=> d \in held) /\ (HasRecord(d)' <=> HasRecord(d))
      BY <1>1, <1>3, DropModalEffect DEF CloseDialog
    <2>2. /\ state' = [state EXCEPT ![x] = "CLOSING"] /\ running' = None /\ groupVisible' = groupVisible
          /\ groupTween' = [groupTween EXCEPT ![x] = "close"]
      BY <1>3 DEF CloseDialog
    <2>3. DialogTypeOK'
      BY <1>1, <1>3, <2>2, SavedFocusType DEF CloseDialog, DialogTypeOK, DialogState, Tween
    <2>4. Others(x)
      BY <1>1, <1>3, <2>1, <2>2, OtherDialogs DEF DialogTypeOK
    <2>5. DialogFacts(x)'
      BY <1>1, <2>1, <2>2 DEF DialogFacts, LooksOpen, DialogTypeOK
    <2> QED BY <2>1, <2>3, <2>4, <2>5 DEF DialogInv
  <1>4. ASSUME running = None, NEW x \in Dialogs, CloseThrows(x) PROVE DialogInv'
    <2>1. /\ RecordsInv' /\ held' = held /\ x \in held
          /\ \A d \in Dialogs : HasRecord(d)' <=> HasRecord(d)
      BY <1>1, <1>4, IncorrectRecords DEF CloseThrows, IncorrectPop
    <2>2. ~HasRecord(x) /\ groupTween[x] # "close" /\ groupVisible[x]
      BY <1>1, <1>4, <2>1, NotFound
         DEF CloseThrows, IncorrectPop, DialogInv, DialogFacts
    <2>3. /\ state' = [state EXCEPT ![x] = "CLOSING"] /\ running' = None /\ groupVisible' = groupVisible
          /\ groupTween' = groupTween
      BY <1>4 DEF CloseThrows
    <2>4. DialogTypeOK'
      BY <1>1, <1>4, <2>3, SavedFocusType DEF CloseThrows, DialogTypeOK, DialogState, Tween
    <2>5. Others(x)
      BY <1>1, <1>4, <2>1, <2>3, OtherDialogs DEF DialogTypeOK
    <2>6. DialogFacts(x)'
      BY <1>1, <2>1, <2>2, <2>3 DEF DialogFacts, LooksOpen, DialogTypeOK
    <2> QED BY <2>1, <2>4, <2>5, <2>6 DEF DialogInv
  <1>5. ASSUME running = None, NEW x \in Dialogs, OpenTweenDone(x) \/ CloseTweenDone(x)
        PROVE  DialogInv'
    <2>1. TypeInv' /\ modalActors' = modalActors /\ alive' = alive /\ held' = held
      BY <1>1, <1>5, OutsideTypes DEF OpenTweenDone, CloseTweenDone, modalVars, RecordsInv
    <2>2. RecordsInv' /\ \A d \in Dialogs : HasRecord(d)' <=> HasRecord(d)
      BY <1>1, <2>1, KeptRecords
    <2>3. \/ /\ groupTween[x] = "open" /\ state' = [state EXCEPT ![x] = "OPENED"]
             /\ groupVisible' = groupVisible
          \/ /\ groupTween[x] = "close" /\ state' = [state EXCEPT ![x] = "CLOSED"]
             /\ groupVisible' = [groupVisible EXCEPT ![x] = FALSE]
      BY <1>5 DEF OpenTweenDone, CloseTweenDone
    <2>4. /\ groupTween' = [groupTween EXCEPT ![x] = "none"]
          /\ running' = None /\ savedFocus' = savedFocus
      BY <1>5 DEF OpenTweenDone, CloseTweenDone
    <2>5. DialogTypeOK'
      BY <1>1, <2>3, <2>4 DEF DialogTypeOK, DialogState, Tween
    <2>6. Others(x)
      BY <1>1, <1>5, <2>1, <2>2, <2>3, <2>4, OtherDialogs DEF DialogTypeOK
    <2>7. DialogFacts(x)'
      BY <1>1, <1>5, <2>1, <2>2, <2>3, <2>4 DEF DialogFacts, LooksOpen, DialogTypeOK, DialogInv
    <2> QED BY <2>2, <2>5, <2>6, <2>7 DEF DialogInv
  <1>6. ASSUME running = None, NEW x \in Runners, StartCommand(x) PROVE DialogInv'
    <2>1. /\ RecordsInv' /\ x \notin held' /\ ~HasRecord(x)'
          /\ \A d \in Dialogs : d # x => (d \in held' <=> d \in held) /\ (HasRecord(d)' <=> HasRecord(d))
      BY <1>1, <1>6, PopRecords DEF StartCommand
    <2>2. /\ state' = state /\ running' = x /\ groupVisible' = groupVisible /\ groupTween' = groupTween
          /\ x \in held /\ LooksOpen(x)
      BY <1>6 DEF StartCommand, LooksOpen
    <2>3. DialogTypeOK'
      BY <1>1, <1>6, <2>2, SavedFocusType DEF StartCommand, DialogTypeOK
    <2>4. Others(x)
      BY <1>1, <1>6, <2>1, <2>2, OtherDialogs
    <2>5. DialogFacts(x)'
      BY <1>1, <1>6, <2>1, <2>2 DEF DialogFacts, LooksOpen, DialogInv
    <2> QED BY <2>1, <2>3, <2>4, <2>5 DEF DialogInv
  <1>7. ASSUME running = None, NEW x \in Runners, StartCommandThrows(x) PROVE DialogInv'
    <2>1. /\ RecordsInv' /\ held' = held /\ \A d \in Dialogs : HasRecord(d)' <=> HasRecord(d)
      BY <1>1, <1>7, IncorrectRecords DEF StartCommandThrows
    <2>2. UNCHANGED <<state, groupTween, groupVisible, running>>
      BY <1>7 DEF StartCommandThrows
    <2>3. DialogTypeOK'
      BY <1>1, <1>7, <2>2, SavedFocusType DEF StartCommandThrows, DialogTypeOK
    <2>4. \A d \in Dialogs : DialogFacts(d)'
      BY <1>1, <1>7, <2>1, <2>2, OtherDialogs
    <2> QED BY <2>1, <2>3, <2>4 DEF DialogInv
  <1>8. ASSUME running = None, OtherModals, UNCHANGED dialogVars PROVE DialogInv'
    <2>1. /\ RecordsInv'
          /\ \A d \in Dialogs : (d \in held' <=> d \in held) /\ (HasRecord(d)' => HasRecord(d))
      BY <1>1, <1>8, OthersRecords
    <2>2. \A d \in Dialogs : DialogFacts(d)'
      BY <1>1, <1>8, <2>1, OtherDialogs DEF dialogVars
    <2> QED BY <1>1, <1>8, <2>1, <2>2 DEF DialogInv, DialogTypeOK, dialogVars
  <1>9. ASSUME NEW x \in Runners, running = x, RetakeModal(x) PROVE DialogInv'
    <2>1. /\ RecordsInv' /\ x \in held' /\ savedFocus' \in [Dialogs -> Actors \cup {None}]
          /\ \A d \in Dialogs : d # x => (d \in held' <=> d \in held) /\ (HasRecord(d)' <=> HasRecord(d))
      BY <1>1, <1>9, TakeModalEffect DEF RetakeModal
    <2>2. /\ UNCHANGED <<state, groupTween, groupVisible>> /\ running' = None
          /\ LooksOpen(x) /\ groupVisible[x] /\ groupTween[x] # "close"
      BY <1>1, <1>9 DEF RetakeModal, DialogInv, DialogFacts, LooksOpen
    <2>3. DialogTypeOK'
      BY <1>1, <2>1, <2>2 DEF DialogTypeOK
    <2>4. Others(x)
      BY <1>1, <1>9, <2>1, <2>2, OtherDialogs
    <2>5. DialogFacts(x)'
      BY <1>1, <2>1, <2>2 DEF DialogFacts, LooksOpen
    <2> QED BY <2>1, <2>3, <2>4, <2>5 DEF DialogInv
  <1>10. ASSUME NEW x \in Runners, running = x, EndCommand(x) PROVE DialogInv'
    <2>1. /\ RecordsInv'
          /\ \A d \in Dialogs : (d \in held' <=> d \in held) /\ (HasRecord(d)' <=> HasRecord(d))
      <3>1. CASE UNCHANGED modalVars
        <4>1. TypeInv' /\ modalActors' = modalActors /\ alive' = alive /\ held' = held
          BY <1>1, <3>1, OutsideTypes DEF modalVars, RecordsInv
        <4> QED BY <1>1, <4>1, KeptRecords
      <3>2. ASSUME NEW a \in Modals \ Dialogs, PushModal(a)
            PROVE  /\ RecordsInv'
                   /\ \A d \in Dialogs : (d \in held' <=> d \in held) /\ (HasRecord(d)' <=> HasRecord(d))
        <4>1. a \in Focus
          BY ModalAssumption DEF Focus
        <4> QED BY <1>1, <3>2, <4>1, PushRecords DEF PushModal
      <3> QED BY <1>10, <3>1, <3>2 DEF EndCommand
    <2>2. /\ state' = [state EXCEPT ![x] = "CLOSING"] /\ running' = None /\ groupVisible' = groupVisible
          /\ groupTween' = [groupTween EXCEPT ![x] = "close"]
          /\ x \notin held /\ ~HasRecord(x)
      BY <1>1, <1>10 DEF EndCommand, DialogInv, DialogFacts, RecordsInv, RecordOf
    <2>3. DialogTypeOK'
      BY <1>1, <1>10, <2>2, SavedFocusType DEF EndCommand, DialogTypeOK, DialogState, Tween
    <2>4. Others(x)
      BY <1>1, <1>10, <2>1, <2>2, OtherDialogs DEF DialogTypeOK
    <2>5. DialogFacts(x)'
      BY <1>1, <2>1, <2>2 DEF DialogFacts, LooksOpen, DialogTypeOK
    <2> QED BY <2>1, <2>3, <2>4, <2>5 DEF DialogInv
  <1>11. CASE UNCHANGED <<modalVars, dialogVars>>
    <2>1. TypeInv' /\ modalActors' = modalActors /\ alive' = alive /\ held' = held
      BY <1>1, <1>11, OutsideTypes DEF modalVars, RecordsInv
    <2>2. RecordsInv' /\ \A d \in Dialogs : HasRecord(d)' <=> HasRecord(d)
      BY <1>1, <2>1, KeptRecords
    <2> QED BY <1>1, <1>11, <2>1, <2>2
            DEF dialogVars, DialogInv, DialogTypeOK, DialogFacts, LooksOpen
  <1> QED BY <1>2, <1>3, <1>4, <1>5, <1>6, <1>7, <1>8, <1>9, <1>10, <1>11 DEF DialogNext

\* A dialog that looks open is modal, unless it fades; one that was closed has no record
\* on the stack; and no dialog that is hidden has the grab: whatever the other users of
\* the stack do, whichever actors are destroyed, and whichever popModal() throws.
THEOREM DialogModalIsWhatIsOpen == DialogSpec => []ModalIsWhatIsOpen
  <1>1. DialogInv => ModalIsWhatIsOpen
    <2> SUFFICES ASSUME DialogInv PROVE ModalIsWhatIsOpen
      OBVIOUS
    <2>1. None \notin Dialogs /\ Runners \subseteq Dialogs
      BY DialogAssumption, ModalAssumption
    <2>2. OpenDialogHoldsModal
      BY <2>1 DEF OpenDialogHoldsModal, DialogInv, DialogFacts, LooksOpen, RecordsInv, RecordOf,
                  HasRecord
    <2>3. ClosedDialogDropsModal
      BY DEF ClosedDialogDropsModal, DialogInv, DialogFacts, HasRecord
    <2>4. GrabIsVisible
      BY DEF GrabIsVisible, DialogInv, DialogFacts
    <2> QED BY <2>2, <2>3, <2>4 DEF ModalIsWhatIsOpen
  <1> QED BY <1>1, DialogStart, DialogStep, PTL DEF DialogSpec

-----------------------------------------------------------------------------
(***************************************************************************)
(* The end session dialog.  EndDialogIsCurrent is inductive once it is     *)
(* known which tween runs in which state: a layout fades only behind a     *)
(* dialog that looks open and has dropped its grab, and a fade that waits  *)
(* behind the tween on the group waits for one that opens; and that what   *)
(* is still being loaded is one of the inhibitors of the last call.        *)
(***************************************************************************)
TweensFollowState ==
  /\ groupTween[endDialog] = "close" => state[endDialog] = "CLOSING" /\ endDialog \notin held
  /\ groupTween[endDialog] = "open" => state[endDialog] = "OPENING"
  /\ layout # "none" => IsOpen
  /\ layout = "fade" => groupTween[endDialog] = "none"
  /\ endDialog \in held => groupVisible[endDialog]
  /\ IsOpen => groupVisible[endDialog]

EndInv ==
  /\ RecordsInv /\ EndDialogIsCurrent /\ TweensFollowState
  /\ loading \subseteq inhibitors

LEMMA EndStart == EndInit => EndInv
  <1> SUFFICES ASSUME EndInit PROVE EndInv
    OBVIOUS
  <1>1. DialogInv /\ held = {} /\ state[endDialog] = "CLOSED" /\ groupTween[endDialog] = "none"
    BY DialogStart, EndSessionAssumption DEF EndInit, DialogInit, ModalInit
  <1>2. EndTypeOK
    <2>1. ModalTypeOK /\ DialogTypeOK /\ 0 \in 0..MaxCalls
      BY <1>1, EndSessionAssumption DEF DialogInv, RecordsInv, TypeInv
    <2> QED BY <2>1 DEF EndInit, EndTypeOK
  <1> QED BY <1>1, <1>2
          DEF EndInit, EndInv, DialogInv, EndDialogIsCurrent, TweensFollowState, IsOpen,
              TimerRespectsInhibitors, ListedAppsInhibit, GrabIsSeen, FadedDialogIsPassive

\* What is left to show when the stack and the dialogs were dealt with.
LEMMA EndPutTogether ==
  ASSUME RecordsInv', DialogTypeOK', TweensFollowState',
         inhibitors' \subseteq Inhibitors, loading' \subseteq inhibitors',
         timer' \in BOOLEAN, opaque' \in BOOLEAN, layout' \in {"none", "fade", "behind"},
         waiting' \in 0..MaxCalls,
         TimerRespectsInhibitors', ListedAppsInhibit', GrabIsSeen', FadedDialogIsPassive'
  PROVE  EndInv'
  <1>1. items' \subseteq Inhibitors
    BY DEF ListedAppsInhibit
  <1> QED BY <1>1 DEF EndInv, EndDialogIsCurrent, EndTypeOK, RecordsInv, TypeInv

\* Nothing of the stack and of the dialogs changes.
LEMMA DialogUntouched ==
  ASSUME RecordsInv, UNCHANGED modalVars
  PROVE  RecordsInv' /\ held' = held
  <1>1. TypeInv' /\ modalActors' = modalActors /\ alive' = alive /\ held' = held
    BY OutsideTypes DEF modalVars, RecordsInv
  <1> QED BY <1>1, KeptRecords

\* The effect of _fadeOutDialog().
LEMMA FadeOutEffect ==
  ASSUME EndInv, FadeOut
  PROVE  /\ RecordsInv' /\ DialogTypeOK' /\ TweensFollowState'
         /\ layout' \in {"none", "fade", "behind"}
         /\ UNCHANGED <<state, groupVisible>>
         /\ (endDialog \in held' => endDialog \in held /\ layout' = layout)
         /\ (layout' # "none" => endDialog \notin held')
         /\ (state[endDialog] = "FADED_OUT" => endDialog \notin held')
  <1> USE EndSessionAssumption
  <1>1. /\ RecordsInv /\ DialogTypeOK /\ TweensFollowState /\ GrabIsSeen /\ FadedDialogIsPassive
        /\ layout \in {"none", "fade", "behind"}
    BY DEF EndInv, EndDialogIsCurrent, EndTypeOK
  <1>2. CASE state[endDialog] \in {"CLOSED", "CLOSING", "FADED_OUT"}
    <2>1. UNCHANGED <<modalVars, dialogVars, layout>>
      BY <1>2 DEF FadeOut
    <2>2. RecordsInv' /\ held' = held
      BY <1>1, <2>1, DialogUntouched
    <2> QED BY <1>1, <2>1, <2>2
            DEF dialogVars, DialogTypeOK, TweensFollowState, IsOpen, GrabIsSeen, FadedDialogIsPassive
  <1>3. CASE state[endDialog] \notin {"CLOSED", "CLOSING", "FADED_OUT"}
    <2>1. /\ DropModal(endDialog)
          /\ layout' = IF groupTween[endDialog] = "none" THEN "fade" ELSE "behind"
          /\ UNCHANGED <<state, groupTween, groupVisible, running>>
          /\ \/ savedFocus' = [savedFocus EXCEPT ![endDialog] = FocusToSave(endDialog)]
             \/ savedFocus' = savedFocus
      BY <1>3 DEF FadeOut
    <2>2. RecordsInv' /\ endDialog \notin held'
      BY <1>1, <2>1, DropModalEffect
    <2>3. DialogTypeOK'
      BY <1>1, <2>1, SavedFocusType DEF DialogTypeOK
    <2>4. IsOpen
      BY <1>1, <1>3 DEF IsOpen, DialogTypeOK, DialogState
    <2> QED BY <1>1, <2>1, <2>2, <2>3, <2>4 DEF TweensFollowState, IsOpen
  <1> QED BY <1>2, <1>3

LEMMA EndStep == EndInv /\ [EndNext]_allVars => EndInv'
  <1> SUFFICES ASSUME EndInv, [EndNext]_allVars PROVE EndInv'
    OBVIOUS
  <1> USE EndSessionAssumption
  <1>1. /\ RecordsInv /\ DialogTypeOK /\ TweensFollowState
        /\ TimerRespectsInhibitors /\ ListedAppsInhibit /\ GrabIsSeen /\ FadedDialogIsPassive
        /\ inhibitors \subseteq Inhibitors /\ loading \subseteq inhibitors
        /\ timer \in BOOLEAN /\ opaque \in BOOLEAN /\ layout \in {"none", "fade", "behind"}
        /\ waiting \in 0..MaxCalls /\ MaxCalls \in Nat
    BY DEF EndInv, EndDialogIsCurrent, EndTypeOK
  <1>2. ASSUME NEW I \in SUBSET Inhibitors, OpenCall(I) PROVE EndInv'
    <2>1. inhibitors' = I /\ loading' = I /\ items' = {} /\ layout' = layout /\ waiting < MaxCalls
      BY <1>2 DEF OpenCall
    <2>2. ListedAppsInhibit'
      BY <2>1 DEF ListedAppsInhibit
    <2>3. CASE /\ IsOpen
               /\ timer' = (timer /\ I = {})
               /\ waiting' = waiting + 1
               /\ UNCHANGED <<opaque, modalVars, dialogVars>>
      <3>1. RecordsInv' /\ held' = held
        BY <1>1, <2>3, DialogUntouched
      <3>2. TimerRespectsInhibitors'
        BY <2>1, <2>3 DEF TimerRespectsInhibitors
      <3> QED BY <1>1, <2>1, <2>2, <2>3, <3>1, <3>2, EndPutTogether
              DEF dialogVars, DialogTypeOK, TweensFollowState, IsOpen, GrabIsSeen,
                  FadedDialogIsPassive
    <2>4. CASE /\ ~IsOpen
               /\ UNCHANGED <<timer, opaque, waiting, modalVars, dialogVars>>
      <3>1. RecordsInv' /\ held' = held
        BY <1>1, <2>4, DialogUntouched
      <3>2. TimerRespectsInhibitors'
        BY <2>4 DEF TimerRespectsInhibitors, IsOpen, dialogVars
      <3> QED BY <1>1, <2>1, <2>2, <2>4, <3>1, <3>2, EndPutTogether
              DEF dialogVars, DialogTypeOK, TweensFollowState, IsOpen, GrabIsSeen,
                  FadedDialogIsPassive
    <2>5. CASE /\ ~IsOpen
               /\ TakeModal(endDialog)
               /\ FadeOpen(endDialog)
               /\ opaque' = TRUE
               /\ timer' = (timer /\ I = {})
               /\ waiting' = waiting + 1
               /\ UNCHANGED running
      <3>1. /\ RecordsInv' /\ endDialog \in held'
            /\ savedFocus' \in [Dialogs -> Actors \cup {None}]
        BY <1>1, <2>5, TakeModalEffect
      <3>2. /\ state' = [state EXCEPT ![endDialog] = "OPENING"] /\ running' = running
            /\ groupTween' = [groupTween EXCEPT ![endDialog] = "open"]
            /\ groupVisible' = [groupVisible EXCEPT ![endDialog] = TRUE]
        BY <2>5 DEF FadeOpen
      <3>3. DialogTypeOK'
        BY <1>1, <3>1, <3>2 DEF DialogTypeOK, DialogState, Tween
      <3>4. layout' = "none"
        BY <1>1, <2>1, <2>5 DEF TweensFollowState
      <3>5. state'[endDialog] = "OPENING" /\ groupTween'[endDialog] = "open" /\ groupVisible'[endDialog]
        BY <1>1, <3>2 DEF DialogTypeOK
      <3>6. TweensFollowState' /\ GrabIsSeen' /\ FadedDialogIsPassive'
        BY <2>5, <3>4, <3>5 DEF TweensFollowState, IsOpen, GrabIsSeen, FadedDialogIsPassive
      <3>7. TimerRespectsInhibitors'
        BY <2>1, <2>5 DEF TimerRespectsInhibitors
      <3> QED BY <1>1, <2>1, <2>2, <2>5, <3>1, <3>3, <3>4, <3>6, <3>7, EndPutTogether
    <2> QED BY <1>2, <2>3, <2>4, <2>5 DEF OpenCall
  <1>3. ASSUME NEW i \in Inhibitors, InhibitorLoaded(i) PROVE EndInv'
    <2>1. UNCHANGED <<layout, opaque, waiting, modalVars, dialogVars>> /\ loading' = loading \ {i}
      BY <1>3 DEF InhibitorLoaded
    <2>2. RecordsInv' /\ held' = held
      BY <1>1, <2>1, DialogUntouched
    <2>3. /\ timer' \in BOOLEAN /\ inhibitors' \subseteq inhibitors /\ loading' \subseteq inhibitors'
          /\ TimerRespectsInhibitors' /\ ListedAppsInhibit'
      <3>1. CASE items' = items \cup {i} /\ timer' = FALSE /\ UNCHANGED inhibitors
        <4>1. i \in inhibitors
          BY <1>1, <1>3 DEF InhibitorLoaded
        <4>2. items \cup {i} \subseteq inhibitors \ (loading \ {i})
          BY <1>1, <4>1 DEF ListedAppsInhibit
        <4> QED BY <1>1, <2>1, <3>1, <4>2 DEF TimerRespectsInhibitors, ListedAppsInhibit
      <3>2. CASE /\ inhibitors' = inhibitors \ {i} /\ UNCHANGED items
                 /\ timer' = (timer /\ (IsOpen => inhibitors' = {}))
        BY <1>1, <1>3, <2>1, <3>2
           DEF TimerRespectsInhibitors, ListedAppsInhibit, InhibitorLoaded, IsOpen, dialogVars
      <3> QED BY <1>3, <3>1, <3>2 DEF InhibitorLoaded
    <2> QED BY <1>1, <2>1, <2>2, <2>3, EndPutTogether
            DEF dialogVars, DialogTypeOK, TweensFollowState, IsOpen, GrabIsSeen,
                FadedDialogIsPassive
  <1>4. ASSUME NEW x \in {"OPENED", "CLOSED"},
               \/ x = "OPENED" /\ OpenTweenDone(endDialog) /\ timer' = (timer \/ inhibitors = {})
                  /\ waiting' = 0
               \/ x = "CLOSED" /\ CloseTweenDone(endDialog) /\ UNCHANGED <<timer, waiting>>,
               layout' = IF layout = "behind" THEN "fade" ELSE layout,
               UNCHANGED <<inhibitors, loading, items, opaque>>
        PROVE  EndInv'
    <2>1. RecordsInv' /\ held' = held
      BY <1>1, <1>4, DialogUntouched DEF OpenTweenDone, CloseTweenDone
    <2>2. DialogTypeOK'
      BY <1>1, <1>4 DEF OpenTweenDone, CloseTweenDone, DialogTypeOK, DialogState, Tween
    <2>3. CASE x = "OPENED"
      <3>1. /\ state[endDialog] = "OPENING" /\ state'[endDialog] = "OPENED"
            /\ groupTween'[endDialog] = "none" /\ groupVisible' = groupVisible
        BY <1>1, <1>4, <2>3 DEF OpenTweenDone, DialogTypeOK, TweensFollowState
      <3>2. TimerRespectsInhibitors'
        BY <1>1, <1>4, <2>3, <3>1 DEF TimerRespectsInhibitors, IsOpen
      <3> QED BY <1>1, <1>4, <2>1, <2>2, <2>3, <3>1, <3>2, EndPutTogether
              DEF TweensFollowState, IsOpen, ListedAppsInhibit, GrabIsSeen, FadedDialogIsPassive
    <2>4. CASE x = "CLOSED"
      <3>1. /\ state[endDialog] = "CLOSING" /\ state'[endDialog] = "CLOSED" /\ endDialog \notin held
            /\ groupTween'[endDialog] = "none" /\ layout = "none"
        BY <1>1, <1>4, <2>4 DEF CloseTweenDone, DialogTypeOK, TweensFollowState, IsOpen
      <3> QED BY <1>1, <1>4, <2>1, <2>2, <2>4, <3>1, EndPutTogether
              DEF TweensFollowState, IsOpen, ListedAppsInhibit, GrabIsSeen, FadedDialogIsPassive,
                  TimerRespectsInhibitors
    <2> QED BY <2>3, <2>4
  <1>5. ASSUME Confirm PROVE EndInv'
    <2>1. /\ RecordsInv' /\ DialogTypeOK' /\ TweensFollowState'
          /\ layout' \in {"none", "fade", "behind"}
          /\ UNCHANGED <<state, groupVisible>>
          /\ (endDialog \in held' => endDialog \in held /\ layout' = layout)
          /\ (layout' # "none" => endDialog \notin held')
          /\ (state[endDialog] = "FADED_OUT" => endDialog \notin held')
      BY <1>5, FadeOutEffect DEF Confirm
    <2>2. timer' = FALSE /\ UNCHANGED <<inhibitors, loading, items, opaque, waiting>>
      BY <1>5 DEF Confirm
    <2>3. GrabIsSeen' /\ FadedDialogIsPassive'
      BY <1>1, <2>1, <2>2 DEF GrabIsSeen, FadedDialogIsPassive, TweensFollowState
    <2> QED BY <1>1, <2>1, <2>2, <2>3, EndPutTogether
            DEF TimerRespectsInhibitors, ListedAppsInhibit
  <1>6. ASSUME UserCanAnswer, CloseDialog(endDialog),
               timer' \in {timer, FALSE}, UNCHANGED <<inhibitors, loading, items, layout, opaque, waiting>>
        PROVE  EndInv'
    <2>1. RecordsInv' /\ endDialog \notin held'
      BY <1>1, <1>6, DropModalEffect DEF CloseDialog
    <2>2. DialogTypeOK'
      BY <1>1, <1>6, SavedFocusType DEF CloseDialog, DialogTypeOK, DialogState, Tween
    <2>3. /\ state'[endDialog] = "CLOSING" /\ groupTween'[endDialog] = "close"
          /\ layout' = "none" /\ groupVisible' = groupVisible
      BY <1>1, <1>6 DEF CloseDialog, DialogTypeOK, UserCanAnswer, GrabIsSeen
    <2> QED BY <1>1, <1>6, <2>1, <2>2, <2>3, EndPutTogether
            DEF TweensFollowState, IsOpen, TimerRespectsInhibitors, ListedAppsInhibit, GrabIsSeen,
                FadedDialogIsPassive
  <1>7. CASE LayoutTweenDone
    <2>1. RecordsInv' /\ held' = held
      BY <1>1, <1>7, DialogUntouched DEF LayoutTweenDone
    <2>2. /\ layout = "fade" /\ layout' = "none" /\ state' = [state EXCEPT ![endDialog] = "FADED_OUT"]
          /\ UNCHANGED <<inhibitors, loading, items, timer, waiting, groupTween, groupVisible, savedFocus,
                         running>>
          /\ opaque' = FALSE
      BY <1>7 DEF LayoutTweenDone
    <2>3. DialogTypeOK' /\ state'[endDialog] = "FADED_OUT"
      BY <1>1, <2>2 DEF DialogTypeOK, DialogState
    <2>4. groupTween[endDialog] = "none" /\ endDialog \notin held /\ groupVisible[endDialog]
      BY <1>1, <2>2 DEF TweensFollowState, IsOpen, DialogTypeOK, Tween, FadedDialogIsPassive
    <2> QED BY <1>1, <2>1, <2>2, <2>3, <2>4, EndPutTogether
            DEF TweensFollowState, IsOpen, TimerRespectsInhibitors, ListedAppsInhibit, GrabIsSeen,
                FadedDialogIsPassive
  <1>8. CASE OtherModals /\ UNCHANGED <<dialogVars, endVars>>
    <2>1. RecordsInv' /\ (endDialog \in held' <=> endDialog \in held)
      BY <1>1, <1>8, OthersRecords
    <2> QED BY <1>1, <1>8, <2>1, EndPutTogether
            DEF dialogVars, endVars, DialogTypeOK, TweensFollowState, IsOpen,
                TimerRespectsInhibitors, ListedAppsInhibit, GrabIsSeen, FadedDialogIsPassive
  <1>9. CASE UNCHANGED allVars
    <2>1. RecordsInv' /\ held' = held
      BY <1>1, <1>9, DialogUntouched DEF allVars
    <2> QED BY <1>1, <1>9, <2>1, EndPutTogether
            DEF allVars, dialogVars, endVars, DialogTypeOK, TweensFollowState, IsOpen,
                TimerRespectsInhibitors, ListedAppsInhibit, GrabIsSeen, FadedDialogIsPassive
  <1>10. Opened \/ Closed => EndInv'
    BY <1>4 DEF Opened, Closed
  <1>11. ClickConfirm \/ TimerDone => EndInv'
    BY <1>5 DEF ClickConfirm, TimerDone
  <1>12. Cancel \/ ActivateItem => EndInv'
    BY <1>6 DEF Cancel, ActivateItem, endVars
  <1> QED BY <1>2, <1>3, <1>7, <1>8, <1>9, <1>10, <1>11, <1>12 DEF EndNext, EndDialogNext

\* The end session dialog and what it shows are those of the last call and of its answer:
\* no timer runs while something inhibits, only inhibitors of the last call are listed, and
\* a dialog that fades is not modal, in whatever order calls, proxies, clicks, the timer
\* and the tweens come.
THEOREM EndSessionDialogIsCurrent == EndSpec => []EndDialogIsCurrent
  <1>1. EndInv => EndDialogIsCurrent
    BY DEF EndInv
  <1> QED BY <1>1, EndStart, EndStep, PTL DEF EndSpec

-----------------------------------------------------------------------------
(***************************************************************************)
(* PolkitAgent: the native queue and the dialogs never disagree about      *)
(* which request is being answered, whatever is cancelled, dismissed or    *)
(* late, and whatever the idle function of a freed request does short of a *)
(* crash.                                                                  *)
(***************************************************************************)
Distinct(s) == \A i, j \in 1..Len(s) : s[i] = s[j] => i = j

(***************************************************************************)
(* What makes OneDialogPerRequest inductive: a request is in one place     *)
(* only, it has a dialog once it is current and not before, and only the   *)
(* failure of a current request lingers.                                   *)
(***************************************************************************)
PolkitInv ==
  /\ PolkitTypeOK
  /\ OneDialogPerRequest
  /\ Distinct(scheduled)
  /\ current \notin ToSet(scheduled)
  /\ ToSet(scheduled) \cap made = {}
  /\ current # NoRequest => current \in made
  /\ lingering => current # NoRequest
  /\ \A r \in Known : answers[r] = "none"

LEMMA PolkitStart == PolkitInit => PolkitInv
  <1> SUFFICES ASSUME PolkitInit PROVE PolkitInv
    OBVIOUS
  <1>1. scheduled \in Seq(Requests) /\ Len(scheduled) = 0
    BY EmptySeq DEF PolkitInit
  <1>2. ToSet(scheduled) = {}
    <2>1. ToSet(scheduled) = {scheduled[i] : i \in 1..Len(scheduled)}
      BY <1>1, ToSetProperties
    <2> QED BY <1>1, <2>1
  <1>3. Distinct(scheduled)
    BY <1>1 DEF Distinct
  <1>4. PolkitTypeOK
    BY <1>1 DEF PolkitInit, PolkitTypeOK
  <1>5. OneDialogPerRequest
    BY DEF PolkitInit, OneDialogPerRequest
  <1>6. Known = {}
    BY <1>2 DEF Known, PolkitInit
  <1> QED BY <1>2, <1>3, <1>4, <1>5, <1>6 DEF PolkitInv, PolkitInit

\* Whichever queue it is given, maybe_process_next_request() makes its first
\* request the current one, with its dialog, and loses none.
LEMMA ProcessNextMoves ==
  ASSUME NEW q \in Seq(Requests), Distinct(q), ProcessNext(q)
  PROVE  /\ scheduled' \in Seq(Requests) /\ Distinct(scheduled')
         /\ current' \in Requests \cup {NoRequest} /\ dialog' = current'
         /\ current' \notin ToSet(scheduled')
         /\ current' = NoRequest => scheduled' = <<>>
         /\ Known' = ToSet(q)
         /\ made' = made \cup ({current'} \ {NoRequest})
  <1>1. CASE q = <<>>
    <2>1. scheduled' = q /\ current' = NoRequest /\ dialog' = NoRequest /\ made' = made
      BY <1>1 DEF ProcessNext
    <2>2. ToSet(q) = {}
      <3>1. Len(q) = 0
        BY <1>1, EmptySeq
      <3>2. ToSet(q) = {q[i] : i \in 1..Len(q)}
        BY ToSetProperties
      <3> QED BY <3>1, <3>2
    <2>3. Known' = {}
      BY <2>1, <2>2 DEF Known
    <2> QED BY <1>1, <2>1, <2>2, <2>3 DEF Distinct
  <1>2. CASE q # <<>>
    <2>1. /\ scheduled' = Tail(q) /\ current' = Head(q) /\ dialog' = Head(q)
          /\ made' = made \cup {Head(q)}
      BY <1>2 DEF ProcessNext
    <2>2. /\ Head(q) \in Requests /\ Tail(q) \in Seq(Requests)
          /\ ToSet(q) = {Head(q)} \cup ToSet(Tail(q))
          /\ Head(q) \notin ToSet(Tail(q))
          /\ Distinct(Tail(q))
      BY <1>2, HeadTailDistinct DEF Distinct
    <2>3. Head(q) # NoRequest
      BY <2>2, RequestsAssumption
    <2>4. Known' = ToSet(q)
      BY <2>1, <2>2, <2>3 DEF Known
    <2> QED BY <2>1, <2>2, <2>3, <2>4
  <1> QED BY <1>1, <1>2

-----------------------------------------------------------------------------
\* Completing the current request answers it, and no other.
LEMMA ReallyCompleteStep ==
  ASSUME PolkitInv, current # NoRequest,
         NEW emitted, doneEmitted \subseteq emitted, emitted \subseteq made,
         NEW dismissed \in BOOLEAN, ReallyCompleteRequest(emitted, dismissed),
         cancelled' = cancelled, cancelIdles' \subseteq cancelIdles, crashed' = crashed
  PROVE  PolkitInv'
  <1>1. /\ scheduled \in Seq(Requests) /\ Distinct(scheduled)
        /\ current \in Requests /\ current \in made /\ dialog = current
        /\ answers \in [Requests -> {"none", "complete", "dismissed"}]
        /\ Known = ToSet(scheduled) \cup {current}
        /\ current \notin ToSet(scheduled)
    BY DEF PolkitInv, PolkitTypeOK, OneDialogPerRequest, Known
  <1>2. ProcessNext(scheduled)
    BY DEF ReallyCompleteRequest
  <1>3. /\ scheduled' \in Seq(Requests) /\ Distinct(scheduled')
        /\ current' \in Requests \cup {NoRequest} /\ dialog' = current'
        /\ current' \notin ToSet(scheduled')
        /\ current' = NoRequest => scheduled' = <<>>
        /\ Known' = ToSet(scheduled)
        /\ made' = made \cup ({current'} \ {NoRequest})
    BY <1>1, <1>2, ProcessNextMoves
  <1>4. /\ doneEmitted' = emitted \cup {current}
        /\ isCompleting' = FALSE /\ lingering' = FALSE
        /\ answers' = [answers EXCEPT ![current] = IF dismissed THEN "dismissed" ELSE "complete"]
    BY <1>1 DEF ReallyCompleteRequest
  <1>5. answers' \in [Requests -> {"none", "complete", "dismissed"}]
    BY <1>1, <1>4
  <1>6. \A r \in Requests : answers'[r] = "none" <=> answers[r] = "none" /\ r # current
    BY <1>1, <1>4
  <1>7. ToSet(scheduled) \subseteq Requests /\ ToSet(scheduled') \subseteq ToSet(scheduled)
    <2>1. ToSet(scheduled') \subseteq Known'
      BY DEF Known
    <2>2. ToSet(scheduled) \subseteq Requests
      BY <1>1, ToSetProperties, ElementOfSeq
    <2> QED BY <1>3, <2>1, <2>2
  <1>8. PolkitTypeOK'
    BY <1>1, <1>3, <1>4, <1>5 DEF PolkitInv, PolkitTypeOK
  <1>9. OneDialogPerRequest'
    <2>1. made' \ {dialog'} \subseteq doneEmitted'
      BY <1>1, <1>3, <1>4 DEF PolkitInv, OneDialogPerRequest
    <2>2. ASSUME NEW r \in made' \cup cancelled' PROVE r \in Known' <=> answers'[r] = "none"
      <3>1. r \in Requests
        BY <1>8 DEF PolkitTypeOK
      <3>2. CASE r \in made \cup cancelled
        <4>1. r \in Known <=> answers[r] = "none"
          BY <3>2 DEF PolkitInv, OneDialogPerRequest
        <4> QED BY <1>1, <1>3, <1>6, <3>1, <4>1
      <3>3. CASE r \notin made \cup cancelled
        <4>1. r = current' /\ r # NoRequest
          BY <1>3, <2>2, <3>3
        <4>2. r \in Known'
          BY <4>1 DEF Known
        <4>3. r \in Known /\ r # current
          BY <1>1, <1>3, <4>2
        <4>4. answers[r] = "none"
          BY <4>3 DEF PolkitInv
        <4> QED BY <1>6, <3>1, <4>2, <4>3, <4>4
      <3> QED BY <3>2, <3>3
    <2> QED BY <1>3, <1>4, <2>1, <2>2 DEF OneDialogPerRequest
  <1>10. ToSet(scheduled') \cap made' = {}
    BY <1>3, <1>7 DEF PolkitInv
  <1>11. \A r \in Known' : answers'[r] = "none"
    BY <1>1, <1>3, <1>6, <1>7 DEF PolkitInv
  <1> QED BY <1>3, <1>4, <1>8, <1>9, <1>10, <1>11 DEF PolkitInv

LEMMA CompleteStep ==
  ASSUME PolkitInv, current # NoRequest,
         NEW emitted, doneEmitted \subseteq emitted, emitted \subseteq made,
         NEW keepVisible \in BOOLEAN, NEW dismissed \in BOOLEAN,
         CompleteRequest(emitted, keepVisible, dismissed),
         cancelled' = cancelled, cancelIdles' \subseteq cancelIdles, crashed' = crashed
  PROVE  PolkitInv'
  <1>1. CASE isCompleting \/ keepVisible
    <2>1. /\ isCompleting' = TRUE /\ lingering' = (lingering \/ ~isCompleting)
          /\ doneEmitted' = emitted
          /\ UNCHANGED <<scheduled, current, answers, dialog, made>>
      BY <1>1 DEF CompleteRequest
    <2>2. Known' = Known /\ Distinct(scheduled)' = Distinct(scheduled)
      BY <2>1 DEF Known, Distinct
    <2>3. lingering' = TRUE
      BY <2>1 DEF PolkitInv, OneDialogPerRequest, PolkitTypeOK
    <2>4. PolkitTypeOK'
      BY <2>1, <2>3 DEF PolkitInv, PolkitTypeOK
    <2>5. OneDialogPerRequest'
      BY <2>1, <2>2, <2>3 DEF PolkitInv, OneDialogPerRequest
    <2> QED BY <2>1, <2>2, <2>4, <2>5 DEF PolkitInv
  <1>2. CASE ~(isCompleting \/ keepVisible)
    BY <1>2, ReallyCompleteStep DEF CompleteRequest
  <1> QED BY <1>1, <1>2

\* done counts once, and only from the current dialog.
LEMMA EmitDoneStep ==
  ASSUME PolkitInv, NEW d \in made, NEW keepVisible \in BOOLEAN, NEW dismissed \in BOOLEAN,
         EmitDone(d, keepVisible, dismissed), UNCHANGED <<cancelIdles, cancelled, crashed>>
  PROVE  PolkitInv'
  <1>1. CASE d \in doneEmitted
    <2>1. UNCHANGED polkitVars
      BY <1>1 DEF EmitDone, polkitVars
    <2> QED BY <2>1 DEF polkitVars, PolkitInv, PolkitTypeOK, OneDialogPerRequest, Known, Distinct
  <1>2. CASE d \notin doneEmitted
    <2>1. d = current /\ d # NoRequest
      BY <1>2, RequestsAssumption DEF PolkitInv, OneDialogPerRequest, PolkitTypeOK
    <2>2. CompleteRequest(doneEmitted \cup {d}, keepVisible, dismissed)
      BY <1>2 DEF EmitDone
    <2>3. doneEmitted \cup {d} \subseteq made
      BY DEF PolkitInv, PolkitTypeOK
    <2> QED BY <2>1, <2>2, <2>3, CompleteStep
  <1> QED BY <1>1, <1>2

LEMMA InitiateStep ==
  ASSUME PolkitInv, NEW r \in Requests, InitiateAuthentication(r)
  PROVE  PolkitInv'
  <1>1. /\ scheduled \in Seq(Requests) /\ Distinct(scheduled)
        /\ r \notin Known /\ answers[r] = "none" /\ r # NoRequest
        /\ UNCHANGED <<cancelIdles, cancelled, answers, doneEmitted, isCompleting, lingering, crashed>>
    BY RequestsAssumption DEF PolkitInv, PolkitTypeOK, InitiateAuthentication
  <1> DEFINE q == Append(scheduled, r)
  <1>2. r \notin made \cup cancelled
    BY <1>1 DEF PolkitInv, OneDialogPerRequest
  <1>3. r \notin ToSet(scheduled)
    BY <1>1 DEF Known
  <1>4. q \in Seq(Requests) /\ Distinct(q) /\ ToSet(q) = ToSet(scheduled) \cup {r}
    <2>1. q \in Seq(Requests)
      BY <1>1, AppendProperties
    <2>2. Distinct(q)
      BY <1>1, <1>3, AppendDistinct DEF Distinct
    <2> QED BY <1>1, <2>1, <2>2, ToSetAppend
  <1> HIDE DEF q
  <1>5. CASE current = NoRequest
    <2>1. scheduled = <<>> /\ ToSet(scheduled) = {} /\ Known = {}
      <3>1. scheduled = <<>>
        BY <1>5 DEF PolkitInv, OneDialogPerRequest
      <3>2. Len(scheduled) = 0
        BY <3>1, EmptySeq
      <3>3. ToSet(scheduled) = {scheduled[i] : i \in 1..Len(scheduled)}
        BY <1>1, ToSetProperties
      <3> QED BY <1>5, <3>1, <3>2, <3>3 DEF Known
    <2>2. ProcessNext(q)
      BY <1>5 DEF InitiateAuthentication, q
    <2>3. /\ scheduled' \in Seq(Requests) /\ Distinct(scheduled')
          /\ current' \in Requests \cup {NoRequest} /\ dialog' = current'
          /\ current' \notin ToSet(scheduled')
          /\ current' = NoRequest => scheduled' = <<>>
          /\ Known' = {r}
          /\ made' = made \cup ({current'} \ {NoRequest})
      <3>1. Known' = ToSet(q)
        BY <1>4, <2>2, ProcessNextMoves
      <3> QED BY <1>4, <2>1, <2>2, <3>1, ProcessNextMoves
    <2>4. PolkitTypeOK'
      BY <1>1, <2>3 DEF PolkitInv, PolkitTypeOK
    <2>5. \A x \in Requests : x \in Known' => x = r
      BY <2>3
    <2>6. current' \in {r, NoRequest} /\ ToSet(scheduled') \subseteq {r}
      BY <2>3 DEF Known
    <2>7. ASSUME NEW x \in made' \cup cancelled' PROVE x \in Known' <=> answers'[x] = "none"
      <3>1. CASE x = r
        BY <1>1, <2>3, <3>1
      <3>2. CASE x # r
        <4>1. x \in made \cup cancelled
          BY <1>1, <2>3, <2>6, <3>2
        <4> QED BY <1>1, <2>1, <2>3, <3>2, <4>1 DEF PolkitInv, OneDialogPerRequest
      <3> QED BY <3>1, <3>2
    <2>8. OneDialogPerRequest'
      BY <1>1, <1>5, <2>3, <2>6, <2>7, RequestsAssumption
         DEF PolkitInv, OneDialogPerRequest, PolkitTypeOK
    <2>9. ToSet(scheduled') \cap made' = {}
      BY <1>2, <2>3, <2>6
    <2> QED BY <1>1, <1>5, <2>3, <2>4, <2>8, <2>9 DEF PolkitInv
  <1>6. CASE current # NoRequest
    <2>1. scheduled' = q /\ UNCHANGED <<current, dialog, made>>
      BY <1>6 DEF InitiateAuthentication, q
    <2>2. Known' = Known \cup {r}
      BY <1>4, <2>1 DEF Known
    <2>3. PolkitTypeOK'
      BY <1>1, <1>4, <2>1 DEF PolkitInv, PolkitTypeOK
    <2>4. OneDialogPerRequest'
      BY <1>1, <1>2, <1>6, <2>1, <2>2 DEF PolkitInv, OneDialogPerRequest
    <2>5. current' \notin ToSet(scheduled')
      BY <1>1, <1>4, <1>6, <2>1 DEF PolkitInv, Known
    <2>6. ToSet(scheduled') \cap made' = {}
      BY <1>2, <1>4, <2>1 DEF PolkitInv
    <2> QED BY <1>1, <1>4, <1>6, <2>1, <2>2, <2>3, <2>4, <2>5, <2>6 DEF PolkitInv
  <1> QED BY <1>5, <1>6

LEMMA HandleCancelledStep ==
  ASSUME PolkitInv, NEW r \in Requests, HandleCancelled(r)
  PROVE  PolkitInv'
  <1>1. /\ r \in cancelIdles /\ r \in Known /\ r \in cancelled /\ r # NoRequest
        /\ cancelIdles' = cancelIdles \ {r} /\ UNCHANGED <<cancelled, crashed>>
    BY RequestsAssumption DEF PolkitInv, PolkitTypeOK, HandleCancelled
  <1>2. CASE r = current
    <2>1. CompleteRequest(doneEmitted, FALSE, FALSE)
      BY <1>2 DEF HandleCancelled
    <2>2. doneEmitted \subseteq made
      BY DEF PolkitInv, PolkitTypeOK
    <2> QED BY <1>1, <1>2, <2>1, <2>2, CompleteStep
  <1>3. CASE r # current
    <2>1. PICK k \in 1..Len(scheduled) :
                 scheduled[k] = r /\ scheduled' = RemoveAt(scheduled, k)
      BY <1>3 DEF HandleCancelled
    <2>2. /\ answers' = [answers EXCEPT ![r] = "complete"]
          /\ UNCHANGED <<current, dialog, made, doneEmitted, isCompleting, lingering>>
      BY <1>3 DEF HandleCancelled
    <2>3. /\ scheduled \in Seq(Requests) /\ Distinct(scheduled)
          /\ answers \in [Requests -> {"none", "complete", "dismissed"}]
      BY DEF PolkitInv, PolkitTypeOK
    <2>4. /\ scheduled' \in Seq(Requests) /\ Len(scheduled') = Len(scheduled) - 1
          /\ ToSet(scheduled') = ToSet(scheduled) \ {r}
          /\ Distinct(scheduled')
      <3>1. /\ RemoveAt(scheduled, k) \in Seq(Requests)
            /\ Len(RemoveAt(scheduled, k)) = Len(scheduled) - 1
        BY <2>3, RemoveAtProperties
      <3>0. \A i, j \in 1..Len(scheduled) : scheduled[i] = scheduled[j] => i = j
        BY <2>3 DEF Distinct
      <3>2. /\ ToSet(RemoveAt(scheduled, k)) = ToSet(scheduled) \ {scheduled[k]}
            /\ \A i, j \in 1..Len(scheduled) - 1 :
                 RemoveAt(scheduled, k)[i] = RemoveAt(scheduled, k)[j] => i = j
        BY <2>3, <3>0, RemoveAtDistinct, SMTT(30)
      <3> DEFINE rest == RemoveAt(scheduled, k)
      <3>3. Distinct(rest) BY <3>1, <3>2 DEF Distinct
      <3> HIDE DEF rest
      <3>4. scheduled' = rest BY <2>1 DEF rest
      <3>5. Distinct(scheduled') BY <3>3, <3>4 DEF Distinct
      <3> QED BY <2>1, <3>1, <3>2, <3>5
    <2>5. Known' = Known \ {r}
      BY <1>3, <2>2, <2>4 DEF Known
    <2>6. /\ answers' \in [Requests -> {"none", "complete", "dismissed"}]
          /\ answers'[r] = "complete"
          /\ \A x \in Requests \ {r} : answers'[x] = answers[x]
      BY <2>2, <2>3
    <2>7. PolkitTypeOK'
      BY <1>1, <2>2, <2>4, <2>6 DEF PolkitInv, PolkitTypeOK
    <2>8. current # NoRequest
      <3>1. scheduled # <<>>
        BY <2>1, <2>3, EmptySeq
      <3> QED BY <3>1 DEF PolkitInv, OneDialogPerRequest
    <2>9. ASSUME NEW x \in made' \cup cancelled' PROVE x \in Known' <=> answers'[x] = "none"
      <3>1. x \in Requests /\ x \in made \cup cancelled
        BY <1>1, <2>2, <2>7 DEF PolkitTypeOK
      <3> QED BY <2>5, <2>6, <3>1 DEF PolkitInv, OneDialogPerRequest
    <2>10. OneDialogPerRequest'
      BY <2>2, <2>8, <2>9 DEF PolkitInv, OneDialogPerRequest
    <2>11. \A x \in Known' : answers'[x] = "none"
      <3>1. Known \subseteq Requests
        <4>1. ToSet(scheduled) \subseteq Requests
          BY <2>3, ToSetProperties, ElementOfSeq
        <4> QED BY <4>1 DEF Known, PolkitInv, PolkitTypeOK
      <3> QED BY <2>5, <2>6, <3>1 DEF PolkitInv
    <2> QED BY <2>2, <2>4, <2>7, <2>10, <2>11 DEF PolkitInv
  <1> QED BY <1>2, <1>3

\* The idle function of a freed request may complete the current one, but not
\* half of it.
LEMMA HandleStaleStep ==
  ASSUME PolkitInv, NEW r \in Requests, HandleCancelledStale(r)
  PROVE  PolkitInv'
  <1>1. cancelIdles' = cancelIdles \ {r} /\ UNCHANGED cancelled
    BY DEF HandleCancelledStale
  <1>2. CASE /\ crashed' \in BOOLEAN
             /\ UNCHANGED <<scheduled, current, answers, dialog, made, doneEmitted, isCompleting, lingering>>
    <2>1. PolkitTypeOK'
      BY <1>1, <1>2 DEF PolkitInv, PolkitTypeOK
    <2> QED BY <1>1, <1>2, <2>1 DEF PolkitInv, OneDialogPerRequest, Known, Distinct
  <1>3. CASE /\ current # NoRequest
             /\ CompleteRequest(doneEmitted, FALSE, FALSE)
             /\ UNCHANGED crashed
    <2>1. doneEmitted \subseteq made
      BY DEF PolkitInv, PolkitTypeOK
    <2> QED BY <1>1, <1>3, <2>1, CompleteStep
  <1> QED BY <1>2, <1>3 DEF HandleCancelledStale, PolkitInv, PolkitTypeOK

LEMMA PolkitStep == PolkitInv /\ [PolkitNext]_polkitVars => PolkitInv'
  <1> SUFFICES ASSUME PolkitInv, [PolkitNext]_polkitVars PROVE PolkitInv'
    OBVIOUS
  <1>1. ASSUME NEW r \in Requests, RequestCancelled(r) PROVE PolkitInv'
    <2>1. /\ r \in Known /\ cancelled' = cancelled \cup {r} /\ cancelIdles' = cancelIdles \cup {r}
          /\ UNCHANGED <<scheduled, current, answers, dialog, made, doneEmitted, isCompleting,
                         lingering, crashed>>
      BY <1>1 DEF RequestCancelled
    <2>2. Known' = Known /\ Distinct(scheduled)' = Distinct(scheduled)
      BY <2>1 DEF Known, Distinct
    <2>3. PolkitTypeOK'
      BY <2>1 DEF PolkitInv, PolkitTypeOK
    <2>4. OneDialogPerRequest'
      BY <2>1, <2>2 DEF PolkitInv, OneDialogPerRequest
    <2> QED BY <2>1, <2>2, <2>3, <2>4 DEF PolkitInv
  <1>2. ASSUME NEW r \in Requests, DialogCancel(r) PROVE PolkitInv'
    BY <1>2, EmitDoneStep DEF DialogCancel
  <1>3. ASSUME NEW r \in Requests, EnsureOpenFails(r) PROVE PolkitInv'
    BY <1>3, EmitDoneStep DEF EnsureOpenFails
  <1>4. ASSUME NEW r \in Requests, NEW gained \in BOOLEAN, SessionCompleted(r, gained)
        PROVE  PolkitInv'
    <2>1. (~gained) \in BOOLEAN
      OBVIOUS
    <2> QED BY <1>4, <2>1, EmitDoneStep DEF SessionCompleted
  <1>5. ASSUME LingerOver PROVE PolkitInv'
    <2>1. current # NoRequest /\ doneEmitted \subseteq made
      BY <1>5 DEF PolkitInv, PolkitTypeOK, LingerOver
    <2> QED BY <1>5, <2>1, ReallyCompleteStep DEF LingerOver
  <1>6. ASSUME UNCHANGED polkitVars PROVE PolkitInv'
    BY <1>6 DEF polkitVars, PolkitInv, PolkitTypeOK, OneDialogPerRequest, Known, Distinct
  <1> QED
    BY <1>1, <1>2, <1>3, <1>4, <1>5, <1>6, InitiateStep, HandleCancelledStep, HandleStaleStep
       DEF PolkitNext

-----------------------------------------------------------------------------
\* The queue of the native agent, the current dialog and the answers agree, for
\* every set of requests and in every state of the agent.
THEOREM PolkitOneDialogPerRequest == PolkitSpec => []OneDialogPerRequest
  <1>1. PolkitInv => OneDialogPerRequest
    BY DEF PolkitInv
  <1> QED BY <1>1, PolkitStart, PolkitStep, PTL DEF PolkitSpec

\* What is done in a dialog answers no request but its own, although
\* _completeRequest() is about whichever dialog is current.
THEOREM PolkitOnlyItsOwnRequest == PolkitSpec => OnlyItsOwnRequest
  <1> DEFINE Own ==
        \A d \in Requests :
          DialogCancel(d) \/ EnsureOpenFails(d) \/ (\E g \in BOOLEAN : SessionCompleted(d, g))
            => \A r \in Requests \ {d} : answers'[r] = answers[r]
  <1>1. ASSUME PolkitInv PROVE Own
    <2> SUFFICES ASSUME NEW d \in Requests, NEW keepVisible, NEW dismissed,
                        d \in made, EmitDone(d, keepVisible, dismissed),
                        NEW r \in Requests \ {d}
                 PROVE  answers'[r] = answers[r]
      BY DEF DialogCancel, EnsureOpenFails, SessionCompleted
    <2>1. CASE d \in doneEmitted
      BY <2>1 DEF EmitDone
    <2>2. CASE d \notin doneEmitted
      <3>1. d = current /\ answers \in [Requests -> {"none", "complete", "dismissed"}]
        BY <1>1, <2>2 DEF PolkitInv, OneDialogPerRequest, PolkitTypeOK
      <3>2. answers' = answers \/ \E a : answers' = [answers EXCEPT ![current] = a]
        BY <2>2 DEF EmitDone, CompleteRequest, ReallyCompleteRequest
      <3> QED BY <3>1, <3>2
    <2> QED BY <2>1, <2>2
  <1>2. PolkitInv /\ [PolkitNext]_polkitVars => [Own]_polkitVars
    BY <1>1
  <1> QED BY <1>2, PolkitStart, PolkitStep, PTL DEF PolkitSpec, OnlyItsOwnRequest

-----------------------------------------------------------------------------
(***************************************************************************)
(* The agent implements RequestQueue: every step of it is one step of the  *)
(* queue, or none.                                                         *)
(***************************************************************************)

\* What the queue of the specification is when a request is being dealt with.
LEMMA PendingProperties ==
  ASSUME PolkitInv
  PROVE  /\ Pending \in Seq(Requests)
         /\ ToSet(Pending) = Known
         /\ current = NoRequest => Pending = <<>> /\ scheduled = <<>>
         /\ current # NoRequest =>
              /\ Pending # <<>> /\ Head(Pending) = current /\ Tail(Pending) = scheduled
              /\ answers[current] = "none"
  <1>1. scheduled \in Seq(Requests) /\ current \in Requests \cup {NoRequest}
    BY DEF PolkitInv, PolkitTypeOK
  <1>2. CASE current = NoRequest
    <2>1. scheduled = <<>> /\ Pending = <<>>
      BY <1>2 DEF PolkitInv, OneDialogPerRequest, Pending
    <2>2. Known = ToSet(Pending)
      BY <1>2, <2>1 DEF Known
    <2> QED BY <1>1, <1>2, <2>1, <2>2
  <1>3. CASE current # NoRequest
    <2>1. Pending = <<current>> \o scheduled /\ current \in Requests
      BY <1>1, <1>3 DEF Pending
    <2>2. current \in Known
      BY <1>3 DEF Known
    <2>3. Known = {current} \cup ToSet(scheduled)
      BY <1>3 DEF Known
    <2>4. /\ Pending # <<>> /\ Head(Pending) = current /\ Tail(Pending) = scheduled
          /\ ToSet(Pending) = {current} \cup ToSet(scheduled)
      BY <1>1, <2>1, ConsHeadTail
    <2>5. Pending \in Seq(Requests)
      BY <1>1, <2>1, ConsProperties
    <2> QED BY <1>3, <2>2, <2>3, <2>4, <2>5 DEF PolkitInv
  <1> QED BY <1>2, <1>3

LEMMA ProcessNextPending ==
  ASSUME NEW q \in Seq(Requests), ProcessNext(q)
  PROVE  Pending' = q
  <1>1. CASE q = <<>>
    BY <1>1 DEF ProcessNext, Pending
  <1>2. CASE q # <<>>
    <2>1. current' = Head(q) /\ scheduled' = Tail(q) /\ Head(q) \in Requests
      BY <1>2, HeadTailProperties DEF ProcessNext
    <2>2. Pending' = <<Head(q)>> \o Tail(q)
      BY <2>1, RequestsAssumption DEF Pending
    <2> QED BY <1>2, <2>2, HeadTailCons
  <1> QED BY <1>1, <1>2

\* The current request is answered, in its turn, or it stays.
LEMMA CompleteServes ==
  ASSUME PolkitInv, current # NoRequest, NEW emitted, NEW keepVisible, NEW dismissed \in BOOLEAN,
         CompleteRequest(emitted, keepVisible, dismissed)
  PROVE  Promise!QueueNext \/ UNCHANGED <<Pending, answers>>
  <1>1. CASE UNCHANGED <<scheduled, current, answers>>
    BY <1>1 DEF Pending
  <1>2. CASE ReallyCompleteRequest(emitted, dismissed)
    <2>1. /\ Pending # <<>> /\ Head(Pending) = current /\ Tail(Pending) = scheduled
          /\ answers[current] = "none"
      BY PendingProperties
    <2>2. Pending' = scheduled
      BY <1>2, ProcessNextPending DEF ReallyCompleteRequest, PolkitInv, PolkitTypeOK
    <2> DEFINE answer == IF dismissed THEN "dismissed" ELSE "complete"
    <2>3. Promise!Serve(answer)
      BY <1>2, <2>1, <2>2 DEF ReallyCompleteRequest, Promise!Serve
    <2>4. answer \in {"complete", "dismissed"}
      OBVIOUS
    <2> QED BY <2>3, <2>4 DEF Promise!QueueNext
  <1> QED BY <1>1, <1>2 DEF CompleteRequest

LEMMA EmitDoneServes ==
  ASSUME PolkitInv, NEW d \in made, NEW keepVisible, NEW dismissed \in BOOLEAN,
         EmitDone(d, keepVisible, dismissed)
  PROVE  Promise!QueueNext \/ UNCHANGED <<Pending, answers>>
  <1>1. CASE d \in doneEmitted
    BY <1>1 DEF EmitDone, Pending
  <1>2. CASE d \notin doneEmitted
    <2>1. current # NoRequest
      BY <1>2, RequestsAssumption DEF PolkitInv, OneDialogPerRequest, PolkitTypeOK
    <2> QED BY <1>2, <2>1, CompleteServes DEF EmitDone
  <1> QED BY <1>1, <1>2

LEMMA InitiateBegins ==
  ASSUME PolkitInv, NEW r \in Requests, InitiateAuthentication(r)
  PROVE  Promise!Begin(r)
  <1>1. /\ scheduled \in Seq(Requests) /\ r \notin Known /\ answers[r] = "none"
        /\ UNCHANGED answers
    BY DEF InitiateAuthentication, PolkitInv, PolkitTypeOK
  <1>2. Pending' = Append(Pending, r)
    <2>1. CASE current = NoRequest
      <3>1. ProcessNext(Append(scheduled, r)) /\ Append(scheduled, r) \in Seq(Requests)
        BY <1>1, <2>1, AppendProperties DEF InitiateAuthentication
      <3>2. Pending' = Append(scheduled, r)
        BY <3>1, ProcessNextPending
      <3> QED BY <2>1, <3>2, PendingProperties
    <2>2. CASE current # NoRequest
      <3>1. Pending = <<current>> \o scheduled /\ Pending' = <<current>> \o Append(scheduled, r)
        BY <2>2 DEF InitiateAuthentication, Pending
      <3>2. current \in Requests
        BY <2>2 DEF PolkitInv, PolkitTypeOK
      <3> QED BY <1>1, <3>1, <3>2, ConsAppend
    <2> QED BY <2>1, <2>2
  <1>3. r \notin ToSet(Pending)
    BY <1>1, PendingProperties
  <1> QED BY <1>1, <1>2, <1>3 DEF Promise!Begin, Promise!ToSet, ToSet

LEMMA CancelledWithdraws ==
  ASSUME PolkitInv, NEW r \in Requests, HandleCancelled(r)
  PROVE  Promise!QueueNext \/ UNCHANGED <<Pending, answers>>
  <1>1. r \in Known /\ r # NoRequest /\ answers[r] = "none"
    BY RequestsAssumption DEF PolkitInv, HandleCancelled
  <1>2. CASE r = current
    BY <1>1, <1>2, CompleteServes DEF HandleCancelled
  <1>3. CASE r # current
    <2>1. PICK k \in 1..Len(scheduled) :
                 scheduled[k] = r /\ scheduled' = RemoveAt(scheduled, k)
      BY <1>3 DEF HandleCancelled
    <2>2. answers' = [answers EXCEPT ![r] = "complete"] /\ UNCHANGED current
      BY <1>3 DEF HandleCancelled
    <2>3. scheduled \in Seq(Requests) /\ Len(scheduled) \in Nat
      BY LenProperties DEF PolkitInv, PolkitTypeOK
    <2>4. current # NoRequest
      <3>1. scheduled # <<>>
        BY <2>1, <2>3, EmptySeq
      <3> QED BY <3>1 DEF PolkitInv, OneDialogPerRequest
    <2>5. current \in Requests
      BY <2>4 DEF PolkitInv, PolkitTypeOK
    <2>6. Pending = <<current>> \o scheduled /\ Pending' = <<current>> \o RemoveAt(scheduled, k)
      BY <2>1, <2>2, <2>4 DEF Pending
    <2>7. Pending' = RemoveAt(Pending, k + 1)
      BY <2>3, <2>5, <2>6, ConsRemoveAt
    <2>8. Len(Pending) = Len(scheduled) + 1 /\ Pending[k + 1] = r
      BY <2>1, <2>3, <2>5, <2>6, ConsProperties
    <2>9. k + 1 \in 1..Len(Pending) /\ k + 1 > 1
      BY <2>3, <2>8
    <2>10. Promise!Withdraw(k + 1)
      BY <1>1, <2>2, <2>7, <2>8, <2>9 DEF Promise!Withdraw, Promise!RemoveAt, RemoveAt
    <2> QED BY <2>9, <2>10 DEF Promise!QueueNext
  <1> QED BY <1>2, <1>3

LEMMA PolkitQueueStep ==
  ASSUME PolkitInv, [PolkitNext]_polkitVars
  PROVE  [Promise!QueueNext]_<<Pending, answers>>
  <1>1. ASSUME NEW r \in Requests, RequestCancelled(r) PROVE UNCHANGED <<Pending, answers>>
    BY <1>1 DEF RequestCancelled, Pending
  <1>2. ASSUME NEW r \in Requests, HandleCancelledStale(r)
        PROVE  Promise!QueueNext \/ UNCHANGED <<Pending, answers>>
    <2>1. CASE UNCHANGED <<scheduled, current, answers>>
      BY <2>1 DEF Pending
    <2>2. CASE current # NoRequest /\ CompleteRequest(doneEmitted, FALSE, FALSE)
      BY <2>2, CompleteServes
    <2> QED BY <1>2, <2>1, <2>2 DEF HandleCancelledStale
  <1>3. ASSUME NEW r \in Requests, DialogCancel(r) \/ EnsureOpenFails(r)
        PROVE  Promise!QueueNext \/ UNCHANGED <<Pending, answers>>
    BY <1>3, EmitDoneServes DEF DialogCancel, EnsureOpenFails
  <1>4. ASSUME NEW r \in Requests, NEW gained \in BOOLEAN, SessionCompleted(r, gained)
        PROVE  Promise!QueueNext \/ UNCHANGED <<Pending, answers>>
    BY <1>4, EmitDoneServes DEF SessionCompleted
  <1>5. ASSUME LingerOver PROVE Promise!QueueNext \/ UNCHANGED <<Pending, answers>>
    <2>1. current # NoRequest /\ isCompleting
      BY <1>5 DEF PolkitInv, OneDialogPerRequest, LingerOver
    <2>2. /\ Pending # <<>> /\ Head(Pending) = current /\ Tail(Pending) = scheduled
          /\ answers[current] = "none"
      BY <2>1, PendingProperties
    <2>3. Pending' = scheduled
      BY <1>5, ProcessNextPending DEF LingerOver, ReallyCompleteRequest, PolkitInv, PolkitTypeOK
    <2>4. Promise!Serve("complete")
      BY <1>5, <2>2, <2>3 DEF LingerOver, ReallyCompleteRequest, Promise!Serve
    <2> QED BY <2>4 DEF Promise!QueueNext
  <1>6. ASSUME UNCHANGED polkitVars PROVE UNCHANGED <<Pending, answers>>
    BY <1>6 DEF polkitVars, Pending
  <1>7. ASSUME NEW r \in Requests, InitiateAuthentication(r) PROVE Promise!QueueNext
    BY <1>7, InitiateBegins DEF Promise!QueueNext
  <1> QED
    BY <1>1, <1>2, <1>3, <1>4, <1>5, <1>6, <1>7, CancelledWithdraws DEF PolkitNext

\* Every behaviour of the agent, with its cancellations, late sessions and
\* lingering failures, is one of a queue that answers its requests in turn.
THEOREM PolkitServesInOrder == PolkitSpec => ServesInOrder
  <1>1. PolkitInit => Promise!QueueInit
    BY DEF PolkitInit, Promise!QueueInit, Pending
  <1>2. PolkitInv /\ [PolkitNext]_polkitVars => [Promise!QueueNext]_Promise!queueVars
    BY PolkitQueueStep DEF Promise!queueVars
  <1> QED
    BY <1>1, <1>2, PolkitStart, PolkitStep, PTL DEF PolkitSpec, ServesInOrder, Promise!QueueSpec

-----------------------------------------------------------------------------
(***************************************************************************)
(* The overview: what is on screen, what is modal and what was asked for   *)
(* agree at the end of every animation; and the workspaces, however many   *)
(* there are.                                                              *)
(***************************************************************************)

\* Who believes it is modal can pop: it has a record, maybe more than one.
OwnersOnStack ==
  /\ modalActors \in Seq(Modals \cup {None})
  /\ held \subseteq ToSet(modalActors)

LEMMA PushOnStack ==
  ASSUME OwnersOnStack, NEW a, NEW f, PushModalTo(a, f)
  PROVE  OwnersOnStack' /\ held' = held \cup {a}
  <1>1. a \in Modals /\ modalActors' = Append(modalActors, a) /\ held' = held \cup {a}
    BY DEF PushModalTo
  <1>2. modalActors' \in Seq(Modals \cup {None})
    BY <1>1, AppendProperties DEF OwnersOnStack
  <1>3. ToSet(modalActors') = ToSet(modalActors) \cup {a}
    BY <1>1, ToSetAppend DEF OwnersOnStack
  <1> QED BY <1>1, <1>2, <1>3 DEF OwnersOnStack

\* A pop removes one record of the actor that is popped and none of another.
LEMMA PopOnStack ==
  ASSUME OwnersOnStack, NEW a, PopRecord(a)
  PROVE  OwnersOnStack' /\ held' = held \ {a}
  <1>1. PICK k \in 1..Len(modalActors) :
               modalActors[k] = a /\ modalActors' = RemoveAt(modalActors, k)
    BY DEF PopRecord, FoundAt
  <1>2. held' = held \ {a}
    BY DEF PopRecord
  <1>3. /\ modalActors' \in Seq(Modals \cup {None})
        /\ Len(modalActors) \in Nat /\ Len(modalActors') = Len(modalActors) - 1
        /\ \A i \in 1..Len(modalActors) - 1 :
             modalActors'[i] = IF i < k THEN modalActors[i] ELSE modalActors[i + 1]
    BY <1>1, RemoveAtProperties, LenProperties DEF OwnersOnStack
  <1>4. /\ ToSet(modalActors) = {modalActors[i] : i \in 1..Len(modalActors)}
        /\ ToSet(modalActors') = {modalActors'[i] : i \in 1..Len(modalActors')}
    BY <1>3, ToSetProperties DEF OwnersOnStack
  <1>5. ASSUME NEW b \in held \ {a} PROVE b \in ToSet(modalActors')
    <2>1. PICK i \in 1..Len(modalActors) : modalActors[i] = b
      BY <1>4 DEF OwnersOnStack
    <2>2. CASE i < k
      <3>1. i \in 1..Len(modalActors) - 1
        BY <1>3, <2>2
      <3>2. modalActors'[i] = b
        BY <1>3, <2>1, <2>2, <3>1
      <3> QED BY <1>3, <1>4, <3>1, <3>2
    <2>3. CASE i > k
      <3>1. i - 1 \in 1..Len(modalActors) - 1 /\ ~(i - 1 < k) /\ (i - 1) + 1 = i
        BY <1>3, <2>3
      <3>2. modalActors'[i - 1] = b
        BY <1>3, <2>1, <3>1
      <3> QED BY <1>3, <1>4, <3>1, <3>2
    <2>4. i # k
      BY <1>1, <2>1
    <2> QED BY <1>3, <2>2, <2>3, <2>4
  <1> QED BY <1>2, <1>3, <1>5 DEF OwnersOnStack

\* The input mode is set with or without a pop.
LEMMA SyncOnStack ==
  ASSUME OwnersOnStack, NEW sh, NEW te, NEW an, SyncInputMode(sh, te, an)
  PROVE  /\ OwnersOnStack'
         /\ held' = IF an # "none" \/ sh THEN held ELSE held \ {overview}
  <1>1. CASE an # "none" \/ sh
    BY <1>1 DEF SyncInputMode, modalVars, OwnersOnStack
  <1>2. CASE ~(an # "none" \/ sh) /\ overview \in held
    <2>1. PopRecord(overview)
      BY <1>2 DEF SyncInputMode, PopModal
    <2> QED BY <1>2, <2>1, PopOnStack
  <1>3. CASE ~(an # "none" \/ sh) /\ overview \notin held
    <2>1. UNCHANGED stackVars
      BY <1>3 DEF SyncInputMode
    <2> QED BY <1>3, <2>1 DEF stackVars, OwnersOnStack
  <1> QED BY <1>1, <1>2, <1>3

-----------------------------------------------------------------------------
(***************************************************************************)
(* The two properties need each other's parts: that the calls made during  *)
(* an animation are looked at when it ends (the overview is visible until  *)
(* then), and that the grab is kept until then and no longer.              *)
(***************************************************************************)
OverviewInv ==
  /\ OwnersOnStack
  /\ shown \in BOOLEAN /\ temporarily \in BOOLEAN /\ visible \in BOOLEAN
  /\ animation \in {"none", "show", "hide"}
  /\ shown => overview \in held
  /\ animation # "none" => visible
  /\ animation = "none" => /\ visible <=> (shown \/ temporarily)
                           /\ overview \in held => shown

LEMMA OverviewInvInit == OverviewInit => OverviewInv
  <1> SUFFICES ASSUME OverviewInit PROVE OverviewInv
    OBVIOUS
  <1>1. OwnersOnStack /\ held = {}
    BY EmptySeq DEF OverviewInit, ModalInit, OwnersOnStack
  <1>2. shown = FALSE /\ temporarily = FALSE /\ visible = FALSE /\ animation = "none"
    BY DEF OverviewInit
  <1> QED BY <1>1, <1>2 DEF OverviewInv

LEMMA OverviewInvStep == OverviewInv /\ [OverviewNext]_vars => OverviewInv'
  <1> SUFFICES ASSUME OverviewInv, [OverviewNext]_vars PROVE OverviewInv'
    OBVIOUS
  <1>1. CASE Show
    <2>1. OwnersOnStack' /\ held' = held \cup {overview}
      BY <1>1, PushOnStack DEF Show, OverviewInv
    <2> QED BY <1>1, <2>1 DEF Show, AnimateVisible, OverviewInv
  <1>2. CASE Hide
    <2>1. SyncInputMode(FALSE, temporarily, animation')
      BY <1>2 DEF Hide
    <2>2. /\ OwnersOnStack'
          /\ held' = IF animation' # "none" THEN held ELSE held \ {overview}
      BY <2>1, SyncOnStack DEF OverviewInv
    <2> QED BY <1>2, <2>2 DEF Hide, AnimateNotVisible, OverviewInv
  <1>3. CASE ShowDone
    <2>1. /\ OwnersOnStack'
          /\ held' = IF animation' # "none" \/ shown THEN held ELSE held \ {overview}
      BY <1>3, SyncOnStack DEF ShowDone, OverviewInv
    <2> QED BY <1>3, <2>1 DEF ShowDone, OverviewInv
  <1>4. CASE HideDone
    <2>1. /\ OwnersOnStack'
          /\ held' = IF animation' # "none" \/ shown THEN held ELSE held \ {overview}
      BY <1>4, SyncOnStack DEF HideDone, OverviewInv
    <2> QED BY <1>4, <2>1 DEF HideDone, OverviewInv
  <1>5. ASSUME ShowTemporarily, shown' = shown PROVE OverviewInv'
    <2>1. CASE visible \/ animation # "none" \/ temporarily
      BY <1>5, <2>1 DEF ShowTemporarily, modalVars, OverviewInv, OwnersOnStack
    <2>2. CASE ~(visible \/ animation # "none" \/ temporarily)
      <3>1. OwnersOnStack' /\ held' = IF shown THEN held ELSE held \ {overview}
        BY <1>5, <2>2, SyncOnStack DEF ShowTemporarily, OverviewInv
      <3> QED BY <1>5, <2>2, <3>1 DEF ShowTemporarily, AnimateVisible, OverviewInv
    <2> QED BY <2>1, <2>2
  <1>6. ASSUME UNCHANGED <<modalVars, shown, temporarily, visible, animation>>
        PROVE  OverviewInv'
    BY <1>6 DEF modalVars, OverviewInv, OwnersOnStack
  <1>7. CASE DragBegin \/ (\E w \in DragWindows : DragOverWindow(w))
             \/ (\E start \in BOOLEAN : DragOverButton(start))
    BY <1>6, <1>7 DEF DragBegin, DragOverWindow, DragOverButton
  <1>8. CASE DragOverCorner
    BY <1>5, <1>8 DEF DragOverCorner
  <1>9. ASSUME NEW over \in BOOLEAN, ButtonTimeout(over) PROVE OverviewInv'
    BY <1>5, <1>6, <1>9 DEF ButtonTimeout
  <1>10. CASE SwitchTimeout
    <2>1. CASE ~(shown \/ temporarily)
      BY <1>6, <1>10, <2>1 DEF SwitchTimeout, OverviewInv
    <2>2. CASE shown \/ temporarily
      <3>1. /\ OwnersOnStack'
            /\ \/ held' = held
               \/ held' = held \ {overview}
            /\ animation' = "none" => held' = held \ {overview}
        <4>1. CASE shown /\ temporarily
          <5>1. SyncInputMode(FALSE, TRUE, animation)
            BY <1>10, <4>1 DEF SwitchTimeout
          <5>2. /\ OwnersOnStack'
                /\ held' = IF animation # "none" THEN held ELSE held \ {overview}
            BY <5>1, SyncOnStack DEF OverviewInv
          <5>3. animation' # "none"
            BY <1>10, <4>1 DEF SwitchTimeout, AnimateNotVisible, OverviewInv
          <5> QED BY <5>2, <5>3
        <4>2. CASE ~(shown /\ temporarily)
          <5>1. SyncInputMode(FALSE, FALSE, animation')
            BY <1>10, <2>2, <4>2 DEF SwitchTimeout
          <5>2. /\ OwnersOnStack'
                /\ held' = IF animation' # "none" THEN held ELSE held \ {overview}
            BY <5>1, SyncOnStack DEF OverviewInv
          <5> QED BY <5>2
        <4> QED BY <4>1, <4>2
      <3> QED BY <1>10, <2>2, <3>1 DEF SwitchTimeout, AnimateNotVisible, OverviewInv
    <2> QED BY <2>1, <2>2
  <1>11. CASE DragEnd
    <2>1. CASE ~temporarily
      BY <1>6, <1>11, <2>1 DEF DragEnd, OverviewInv
    <2>2. CASE temporarily
      <3>1. /\ OwnersOnStack'
            /\ held' = IF animation' # "none" \/ shown THEN held ELSE held \ {overview}
        BY <1>11, <2>2, SyncOnStack DEF DragEnd, OverviewInv
      <3> QED BY <1>11, <2>2, <3>1 DEF DragEnd, AnimateNotVisible, OverviewInv
    <2> QED BY <2>1, <2>2
  <1>12. CASE OthersNext
    <2>1. OwnersOnStack' /\ (overview \in held' <=> overview \in held)
      <3>1. ASSUME NEW a \in Modals \ {overview}, PushModal(a) PROVE OwnersOnStack' /\ (overview \in held' <=> overview \in held)
        BY <3>1, PushOnStack DEF PushModal, OverviewInv
      <3>2. ASSUME NEW a \in Modals \ {overview}, PopModal(a) PROVE OwnersOnStack' /\ (overview \in held' <=> overview \in held)
        BY <3>2, PopOnStack DEF PopModal, OverviewInv
      <3>3. CASE FocusStage \/ FocusWindowChanged
        BY <3>3 DEF FocusStage, FocusWindowChanged, OverviewInv, OwnersOnStack
      <3> QED BY <1>12, <3>1, <3>2, <3>3 DEF OthersNext
    <2> QED BY <1>12, <2>1 DEF OthersNext, overviewVars, OverviewInv
  <1>13. CASE UNCHANGED vars
    BY <1>6, <1>13 DEF vars, overviewVars
  <1> QED BY <1>1, <1>2, <1>3, <1>4, <1>7, <1>8, <1>9, <1>10, <1>11, <1>12, <1>13
          DEF OverviewNext

\* Whatever is called during an animation, at its end the overview is on screen
\* exactly when someone wants it.
THEOREM OverviewVisibleWhenWanted == OverviewSafety => []VisibleWhenWanted
  <1>1. OverviewInv => VisibleWhenWanted
    BY DEF OverviewInv, VisibleWhenWanted
  <1> QED BY <1>1, OverviewInvInit, OverviewInvStep, PTL DEF OverviewSafety

\* The overview holds the grab while it is shown, when no animation runs only
\* then, and never without a record that its popModal() will find.
THEOREM OverviewGrabFollowsShown == OverviewSafety => []GrabFollowsShown
  <1>1. OverviewInv => GrabFollowsShown
    BY DEF OverviewInv, OwnersOnStack, GrabFollowsShown
  <1> QED BY <1>1, OverviewInvInit, OverviewInvStep, PTL DEF OverviewSafety
-----------------------------------------------------------------------------
(***************************************************************************)
(* The input of the windows.  That the stage is not left in the fullscreen *)
(* mode needs what is on the stack (a record keeps the count above 0) and  *)
(* that the mode of the temporary overview is only set while somebody will *)
(* set it again: at the end of the drag or of the animation.               *)
(***************************************************************************)
ModeIsOwed ==
  modalCount = 0 /\ inputMode = "FULLSCREEN" => temporarily \/ animation # "none"

DesktopInv ==
  /\ OverviewInv
  /\ TypeInv
  /\ OverviewTypeOK
  /\ ModeIsOwed

\* An actor that can pop keeps the count above 0.
LEMMA HeldCounts ==
  ASSUME OwnersOnStack, TypeInv, held # {}
  PROVE  modalCount > 0
  <1>1. PICK a : a \in held
    OBVIOUS
  <1>2. PICK k \in 1..Len(modalActors) : modalActors[k] = a
    BY <1>1, ToSetProperties DEF OwnersOnStack
  <1> QED BY <1>2, StackElements DEF TypeInv, ModalTypeOK, CountCoversStack

LEMMA PopModalTypes ==
  ASSUME TypeInv, NEW a, PopModal(a)
  PROVE  TypeInv' /\ (modalCount' = 0 => inputMode' # "FULLSCREEN")
  <1>1. inputMode' \in InputModes
    BY DEF PopModal, TypeInv, ModalTypeOK, InputModes
  <1>2. TypeInv'
    BY <1>1, PopTypes DEF PopModal
  <1> QED BY <1>2 DEF PopModal, PopRecord, TypeInv, ModalTypeOK

LEMMA SyncTypes ==
  ASSUME TypeInv, NEW sh, NEW te, NEW an, SyncInputMode(sh, te, an)
  PROVE  TypeInv'
  <1>1. CASE UNCHANGED modalVars
    BY <1>1, OutsideTypes
  <1>2. CASE UNCHANGED stackVars /\ inputMode' \in InputModes
    BY <1>2 DEF stackVars, TypeInv, ModalTypeOK, CountCoversStack
  <1>3. CASE PopRecord(overview) /\ inputMode' \in InputModes
    BY <1>3, PopTypes
  <1>4. CASE PopModal(overview)
    BY <1>4, PopModalTypes
  <1> QED BY <1>1, <1>2, <1>3, <1>4 DEF SyncInputMode, InputModes, TypeInv, ModalTypeOK

\* The mode that is set when no animation runs and nothing is shown is not that of a grab.
LEMMA SyncFrees ==
  ASSUME OwnersOnStack, TypeInv, NEW sh, NEW te, NEW an, SyncInputMode(sh, te, an),
         sh => overview \in held
  PROVE  an = "none" /\ ~te /\ modalCount' = 0 => inputMode' # "FULLSCREEN"
  <1> SUFFICES ASSUME an = "none", ~te, modalCount' = 0
               PROVE  inputMode' # "FULLSCREEN"
    OBVIOUS
  <1>1. CASE sh
    <2>1. modalCount' = modalCount
      BY <1>1 DEF SyncInputMode, modalVars
    <2> QED BY <1>1, <2>1, HeldCounts
  <1>2. CASE ~sh /\ overview \in held
    BY <1>2, PopModalTypes DEF SyncInputMode
  <1>3. CASE ~sh /\ overview \notin held
    BY <1>3 DEF SyncInputMode
  <1> QED BY <1>1, <1>2, <1>3

LEMMA ShowTemporarilyOwes ==
  ASSUME DesktopInv, ShowTemporarily
  PROVE  TypeInv' /\ ModeIsOwed' /\ temporarily' \in BOOLEAN
  <1>1. CASE visible \/ animation # "none" \/ temporarily
    <2>1. UNCHANGED <<modalVars, temporarily, visible, animation>>
      BY <1>1 DEF ShowTemporarily
    <2> QED BY <2>1, OutsideTypes DEF modalVars, DesktopInv, ModeIsOwed, OverviewInv
  <1>2. CASE ~(visible \/ animation # "none" \/ temporarily)
    <2>1. SyncInputMode(shown, FALSE, "none") /\ temporarily' = TRUE
      BY <1>2 DEF ShowTemporarily
    <2> QED BY <2>1, SyncTypes DEF DesktopInv, ModeIsOwed
  <1> QED BY <1>1, <1>2

LEMMA DesktopStep == DesktopInv /\ [OverviewNext]_vars => DesktopInv'
  <1> SUFFICES ASSUME DesktopInv, [OverviewNext]_vars PROVE DesktopInv'
    OBVIOUS
  <1> DEFINE Kept == TypeInv' /\ ModeIsOwed'
             Typed == /\ {dragging', buttonTimer', fakePointer'} \subseteq BOOLEAN
                      /\ switchTimer' \in {"none", "running", "fired"}
                      /\ hovered' \in DragWindows \cup {None}
  <1>1. OverviewInv'
    BY OverviewInvStep DEF DesktopInv
  <1>2. Kept /\ Typed => DesktopInv'
    BY <1>1 DEF DesktopInv, OverviewTypeOK, OverviewInv, TypeInv
  <1>3. /\ {dragging, buttonTimer, fakePointer} \subseteq BOOLEAN
        /\ switchTimer \in {"none", "running", "fired"}
        /\ hovered \in DragWindows \cup {None}
    BY DEF DesktopInv, OverviewTypeOK
  <1>4. /\ TypeInv /\ OwnersOnStack /\ (shown => overview \in held) /\ ModeIsOwed
        /\ overview \in Focus
    BY OverviewAssumption, ModalAssumption DEF DesktopInv, OverviewInv, Focus
  <1>5. ASSUME UNCHANGED <<modalVars, temporarily, animation>> PROVE Kept
    BY <1>4, <1>5, OutsideTypes DEF modalVars, ModeIsOwed
  <1>6. CASE Show
    <2>1. TypeInv'
      BY <1>4, <1>6, PushTypes DEF Show
    <2>2. modalCount' = modalCount + 1 /\ modalCount \in Nat
      BY <1>4, <1>6 DEF Show, PushModalTo, TypeInv, ModalTypeOK
    <2>3. Typed
      BY <1>3, <1>6 DEF Show, dragVars
    <2> QED BY <1>2, <2>1, <2>2, <2>3 DEF ModeIsOwed
  <1>7. CASE Hide
    <2>1. SyncInputMode(FALSE, temporarily, animation') /\ temporarily' = temporarily
      BY <1>7 DEF Hide
    <2>2. Kept
      <3>1. TypeInv'
        BY <1>4, <2>1, SyncTypes
      <3> DEFINE asked == FALSE
      <3>2. SyncInputMode(asked, temporarily, animation') /\ (asked => overview \in held)
        BY <2>1
      <3> HIDE DEF asked
      <3>3. animation' = "none" /\ ~temporarily /\ modalCount' = 0 => inputMode' # "FULLSCREEN"
        BY <1>4, <3>2, SyncFrees
      <3> QED BY <2>1, <3>1, <3>3 DEF ModeIsOwed
    <2>3. Typed
      BY <1>3, <1>7 DEF Hide, dragVars
    <2> QED BY <1>2, <2>2, <2>3
  <1>8. CASE ShowDone \/ HideDone
    <2>1. SyncInputMode(shown, temporarily, animation') /\ temporarily' = temporarily
      BY <1>8 DEF ShowDone, HideDone
    <2>2. Kept
      BY <1>4, <2>1, SyncTypes, SyncFrees DEF ModeIsOwed
    <2>3. Typed
      BY <1>3, <1>8 DEF ShowDone, HideDone, dragVars
    <2> QED BY <1>2, <2>2, <2>3
  <1>9. CASE DragBegin \/ (\E w \in DragWindows : DragOverWindow(w))
             \/ (\E start \in BOOLEAN : DragOverButton(start))
    <2>1. Kept
      BY <1>5, <1>9 DEF DragBegin, DragOverWindow, DragOverButton
    <2>2. Typed
      BY <1>3, <1>9 DEF DragBegin, DragOverWindow, DragOverButton, ResetTimer
    <2> QED BY <1>2, <2>1, <2>2
  <1>10. CASE DragOverCorner
    <2>1. Kept
      BY <1>10, ShowTemporarilyOwes DEF DragOverCorner
    <2>2. Typed
      BY <1>3, <1>10 DEF DragOverCorner, ResetTimer
    <2> QED BY <1>2, <2>1, <2>2
  <1>11. ASSUME NEW over \in BOOLEAN, ButtonTimeout(over) PROVE DesktopInv'
    <2>1. Kept
      BY <1>5, <1>11, ShowTemporarilyOwes DEF ButtonTimeout
    <2>2. Typed
      BY <1>3, <1>11 DEF ButtonTimeout
    <2> QED BY <1>2, <2>1, <2>2
  <1>12. CASE SwitchTimeout
    <2>1. ASSUME ~(shown \/ temporarily) PROVE Kept
      <3>1. UNCHANGED <<modalVars, animation>> /\ temporarily' = FALSE /\ temporarily = FALSE
        BY <1>12, <2>1 DEF SwitchTimeout, DesktopInv, OverviewInv
      <3> QED BY <1>5, <3>1
    <2>2. ASSUME shown /\ temporarily PROVE Kept
      <3>1. SyncInputMode(FALSE, TRUE, animation) /\ animation' # "none"
        BY <1>12, <2>2 DEF SwitchTimeout, AnimateNotVisible, DesktopInv, OverviewInv
      <3>2. TypeInv'
        BY <1>4, <3>1, SyncTypes
      <3> QED BY <3>1, <3>2 DEF ModeIsOwed
    <2>3. ASSUME (shown \/ temporarily) /\ ~(shown /\ temporarily) PROVE Kept
      <3>1. SyncInputMode(FALSE, FALSE, animation')
        BY <1>12, <2>3 DEF SwitchTimeout
      <3>2. TypeInv'
        BY <1>4, <3>1, SyncTypes
      <3>3. animation' = "none" /\ modalCount' = 0 => inputMode' # "FULLSCREEN"
        BY <1>4, <3>1, SyncFrees
      <3> QED BY <3>2, <3>3 DEF ModeIsOwed
    <2>4. Typed
      BY <1>3, <1>12 DEF SwitchTimeout
    <2> QED BY <1>2, <2>1, <2>2, <2>3, <2>4
  <1>13. CASE DragEnd
    <2>1. ASSUME ~temporarily PROVE Kept
      <3>1. UNCHANGED <<modalVars, animation>> /\ temporarily' = FALSE /\ temporarily = FALSE
        BY <1>13, <2>1 DEF DragEnd, DesktopInv, OverviewInv
      <3> QED BY <1>5, <3>1
    <2>2. ASSUME temporarily PROVE Kept
      <3>1. SyncInputMode(shown, FALSE, animation')
        BY <1>13, <2>2 DEF DragEnd
      <3>2. TypeInv'
        BY <1>4, <3>1, SyncTypes
      <3>3. animation' = "none" /\ modalCount' = 0 => inputMode' # "FULLSCREEN"
        BY <1>4, <3>1, SyncFrees
      <3> QED BY <3>2, <3>3 DEF ModeIsOwed
    <2>3. Typed
      BY <1>3, <1>13 DEF DragEnd, ResetTimer
    <2> QED BY <1>2, <2>1, <2>2, <2>3
  <1>14. CASE OthersNext
    <2>1. ASSUME NEW a \in Modals \ {overview}, PushModal(a) PROVE Kept
      <3>1. TypeInv'
        BY <1>4, <2>1, PushTypes, ModalAssumption DEF PushModal, Focus
      <3>2. modalCount' = modalCount + 1 /\ modalCount \in Nat
        BY <1>4, <2>1 DEF PushModal, PushModalTo, TypeInv, ModalTypeOK
      <3> QED BY <3>1, <3>2 DEF ModeIsOwed
    <2>2. ASSUME NEW a \in Modals \ {overview}, PopModal(a) PROVE Kept
      BY <1>4, <2>2, PopModalTypes DEF ModeIsOwed
    <2>3. ASSUME FocusStage \/ FocusWindowChanged PROVE Kept
      <3>1. TypeInv'
        BY <1>4, <2>3, OutsideTypes
      <3> QED BY <2>3, <3>1 DEF FocusStage, FocusWindowChanged, ModeIsOwed
    <2>4. Typed
      BY <1>3, <1>14 DEF OthersNext, overviewVars
    <2> QED BY <1>2, <1>14, <2>1, <2>2, <2>3, <2>4 DEF OthersNext
  <1>15. CASE UNCHANGED vars
    <2>1. Kept
      BY <1>5, <1>15 DEF vars, overviewVars
    <2>2. Typed
      BY <1>3, <1>15 DEF vars, overviewVars
    <2> QED BY <1>2, <2>1, <2>2
  <1> QED BY <1>6, <1>7, <1>8, <1>9, <1>10, <1>11, <1>12, <1>13, <1>14, <1>15
          DEF OverviewNext

LEMMA DesktopStart == OverviewInit => DesktopInv
  <1> SUFFICES ASSUME OverviewInit PROVE DesktopInv
    OBVIOUS
  <1>1. OverviewInv /\ TypeInv
    BY OverviewInvInit, TypeInit DEF OverviewInit
  <1>2. inputMode = "NORMAL"
    BY DEF OverviewInit, ModalInit
  <1> QED BY <1>1, <1>2 DEF OverviewInit, DesktopInv, OverviewTypeOK, TypeInv, ModeIsOwed

\* The windows get the input whenever nothing is modal and the overview is neither shown
\* nor on its way, whatever drags, switches and other dialogs came before.
THEOREM OverviewDesktopGetsInput == OverviewSafety => []DesktopGetsInput
  <1>1. DesktopInv => DesktopGetsInput
    BY DEF DesktopInv, ModeIsOwed, DesktopGetsInput
  <1> QED BY <1>1, DesktopStart, DesktopStep, PTL DEF OverviewSafety

-----------------------------------------------------------------------------
(***************************************************************************)
(* Workspaces.  A check keeps the part of the workspaces at some places.   *)
(* The first lemmas say what such a part of a sequence is: the places are  *)
(* counted in their order, and a part of a part is a part of the whole.    *)
(***************************************************************************)

(***************************************************************************)
(* Places in order.                                                        *)
(***************************************************************************)
\* The place of an element among the places grows with it.
LEMMA BeforeGrows ==
  ASSUME NEW n \in Nat, NEW I \in SUBSET (1..n)
  PROVE  /\ IsFiniteSet(I) /\ Cardinality(I) \in Nat
         /\ \A i \in 1..n : /\ IsFiniteSet(Before(I, i))
                            /\ Cardinality(Before(I, i)) \in Nat
         /\ \A i \in I : Cardinality(Before(I, i)) < Cardinality(I)
         /\ \A i, j \in I : i < j => Cardinality(Before(I, i)) < Cardinality(Before(I, j))
  <1>1. IsFiniteSet(1..n)
    BY FS_Interval
  <1>2. IsFiniteSet(I) /\ Cardinality(I) \in Nat
    BY <1>1, FS_Subset, FS_CardinalityType
  <1>3. ASSUME NEW i
        PROVE  /\ IsFiniteSet(Before(I, i)) /\ Cardinality(Before(I, i)) \in Nat
               /\ Cardinality(Before(I, i)) <= Cardinality(I)
    <2>1. Before(I, i) \in SUBSET I
      BY DEF Before
    <2> QED BY <1>2, <2>1, FS_Subset, FS_CardinalityType
  <1>4. ASSUME NEW i \in I, NEW B, IsFiniteSet(B), Before(I, i) \cup {i} \subseteq B
        PROVE  Cardinality(Before(I, i)) < Cardinality(B)
    <2>1. i \notin Before(I, i)
      BY DEF Before
    <2>2. /\ IsFiniteSet(Before(I, i) \cup {i})
          /\ Cardinality(Before(I, i) \cup {i}) = Cardinality(Before(I, i)) + 1
      BY <1>3, <2>1, FS_AddElement
    <2>3. Cardinality(Before(I, i) \cup {i}) <= Cardinality(B) /\ Cardinality(B) \in Nat
      BY <1>4, FS_Subset, FS_CardinalityType
    <2> QED BY <1>3, <2>2, <2>3
  <1>5. \A i \in I : Cardinality(Before(I, i)) < Cardinality(I)
    BY <1>2, <1>4 DEF Before
  <1>6. ASSUME NEW i \in I, NEW j \in I, i < j
        PROVE  Cardinality(Before(I, i)) < Cardinality(Before(I, j))
    <2>1. Before(I, i) \cup {i} \subseteq Before(I, j)
      <3>1. I \subseteq Int
        OBVIOUS
      <3>2. ASSUME NEW k \in I, k < i PROVE k < j
        <4>1. i \in Int /\ j \in Int /\ k \in Int
          BY <3>1
        <4> QED BY <1>6, <3>2, <4>1
      <3> QED BY <1>6, <3>2 DEF Before
    <2>2. IsFiniteSet(Before(I, j))
      BY <1>3
    <2> QED BY <1>4, <2>1, <2>2
  <1>7. \A i, j \in I : i < j => Cardinality(Before(I, i)) < Cardinality(Before(I, j))
    BY <1>6
  <1>8. \A i \in 1..n : IsFiniteSet(Before(I, i)) /\ Cardinality(Before(I, i)) \in Nat
    BY <1>3
  <1> QED BY <1>2, <1>5, <1>7, <1>8

\* Every number up to their count is the place of one of them.
LEMMA NthExists ==
  ASSUME NEW n \in Nat, NEW I \in SUBSET (1..n)
  PROVE  /\ \A k \in 1..Cardinality(I) :
              Nth(I, k) \in I /\ Cardinality(Before(I, Nth(I, k))) = k - 1
         /\ \A i \in I : /\ Cardinality(Before(I, i)) + 1 \in 1..Cardinality(I)
                         /\ Nth(I, Cardinality(Before(I, i)) + 1) = i
  <1> DEFINE c == Cardinality(I)
             f == [i \in I |-> Cardinality(Before(I, i)) + 1]
  <1>1. /\ IsFiniteSet(I) /\ c \in Nat
        /\ \A i \in I : /\ Cardinality(Before(I, i)) \in Nat
                        /\ Cardinality(Before(I, i)) < c
        /\ \A i, j \in I : i < j => Cardinality(Before(I, i)) < Cardinality(Before(I, j))
    BY BeforeGrows
  <1>2. \A i, j \in I : Cardinality(Before(I, i)) = Cardinality(Before(I, j)) => i = j
    <2> SUFFICES ASSUME NEW i \in I, NEW j \in I,
                        Cardinality(Before(I, i)) = Cardinality(Before(I, j))
                 PROVE  i = j
      OBVIOUS
    <2>1. i < j \/ j < i \/ i = j
      OBVIOUS
    <2> QED BY <1>1, <2>1
  <1>3. f \in [I -> 1..c] /\ \A i, j \in I : f[i] = f[j] => i = j
    BY <1>1, <1>2
  <1>4. IsFiniteSet(1..c) /\ Cardinality(1..c) = c
    BY <1>1, FS_Interval
  <1>5. f \in Injection(I, 1..c)
    BY <1>3 DEF Injection, IsInjective
  <1>6. f \in Surjection(I, 1..c)
    <2> HIDE DEF f
    <2> QED BY <1>4, <1>5, FS_Injection
  <1>7. ASSUME NEW k \in 1..c
        PROVE  Nth(I, k) \in I /\ Cardinality(Before(I, Nth(I, k))) = k - 1
    <2>1. \E i \in I : f[i] = k
      BY <1>6 DEF Surjection
    <2>2. \E i \in I : Cardinality(Before(I, i)) = k - 1
      BY <1>1, <2>1
    <2> QED BY <2>2 DEF Nth
  <1>8. ASSUME NEW i \in I
        PROVE  /\ Cardinality(Before(I, i)) + 1 \in 1..c
               /\ Nth(I, Cardinality(Before(I, i)) + 1) = i
    <2>1. Cardinality(Before(I, i)) + 1 \in 1..c
      BY <1>1
    <2>2. /\ Nth(I, Cardinality(Before(I, i)) + 1) \in I
          /\ Cardinality(Before(I, Nth(I, Cardinality(Before(I, i)) + 1))) = Cardinality(Before(I, i))
      BY <1>1, <1>7, <2>1
    <2> QED BY <1>2, <2>1, <2>2
  <1> QED BY <1>7, <1>8

\* They come in their order.
LEMMA NthGrows ==
  ASSUME NEW n \in Nat, NEW I \in SUBSET (1..n), NEW k \in 1..Cardinality(I), NEW l \in 1..Cardinality(I)
  PROVE  Nth(I, k) < Nth(I, l) <=> k < l
  <1>1. /\ Nth(I, k) \in I /\ Cardinality(Before(I, Nth(I, k))) = k - 1
        /\ Nth(I, l) \in I /\ Cardinality(Before(I, Nth(I, l))) = l - 1
        /\ Cardinality(I) \in Nat
    BY NthExists, BeforeGrows
  <1> DEFINE p == Nth(I, k)
             q == Nth(I, l)
  <1>2. p \in I /\ q \in I /\ Cardinality(Before(I, p)) = k - 1 /\ Cardinality(Before(I, q)) = l - 1
    BY <1>1
  <1>3. \A i, j \in I : i < j => Cardinality(Before(I, i)) < Cardinality(Before(I, j))
    BY BeforeGrows
  <1> HIDE DEF p, q
  <1>4. p \in Int /\ q \in Int /\ k \in Int /\ l \in Int
    BY <1>1, <1>2
  <1>5. p < q => k < l
    BY <1>2, <1>3, <1>4
  <1>6. q < p => l < k
    BY <1>2, <1>3, <1>4
  <1>7. p = q => k = l
    BY <1>2, <1>4
  <1>8. p < q <=> k < l
    BY <1>4, <1>5, <1>6, <1>7
  <1> QED BY <1>8 DEF p, q

\* The places of a part of a part.
LEMMA PartOfPart ==
  ASSUME NEW n \in Nat, NEW I \in SUBSET (1..n), NEW H \in SUBSET I,
         NEW J, J = {k \in 1..Cardinality(I) : Nth(I, k) \in H}
  PROVE  /\ Cardinality(J) = Cardinality(H)
         /\ \A k \in 1..Cardinality(H) : Nth(J, k) \in J /\ Nth(I, Nth(J, k)) = Nth(H, k)
  <1> DEFINE c == Cardinality(I)
  <1>1. /\ c \in Nat /\ IsFiniteSet(I)
        /\ \A k \in 1..c : Nth(I, k) \in I
        /\ \A i \in I : \E k \in 1..c : Nth(I, k) = i
    BY NthExists, BeforeGrows
  <1>2. \A k, l \in 1..c : Nth(I, k) < Nth(I, l) <=> k < l
    BY NthGrows
  <1>3. \A k, l \in 1..c : Nth(I, k) = Nth(I, l) => k = l
    <2> SUFFICES ASSUME NEW k \in 1..c, NEW l \in 1..c, Nth(I, k) = Nth(I, l) PROVE k = l
      OBVIOUS
    <2>1. Nth(I, k) \in Int
      <3>1. Nth(I, k) \in 1..n
        BY <1>1
      <3> QED BY <3>1
    <2>2. ~(Nth(I, k) < Nth(I, l)) /\ ~(Nth(I, l) < Nth(I, k))
      BY <2>1
    <2> QED BY <1>1, <1>2, <2>2
  <1>4. ASSUME NEW K \in SUBSET (1..c), NEW G \in SUBSET I,
               \A k \in 1..c : k \in K <=> Nth(I, k) \in G
        PROVE  Cardinality(K) = Cardinality(G)
    <2> DEFINE f == [k \in K |-> Nth(I, k)]
    <2>1. f \in [K -> G] /\ (\A k, l \in K : f[k] = f[l] => k = l) /\ \A i \in G : \E k \in K : f[k] = i
      BY <1>1, <1>3, <1>4
    <2>2. f \in Bijection(K, G)
      BY <2>1 DEF Bijection, Injection, IsInjective, Surjection
    <2>3. IsFiniteSet(K)
      <3>1. IsFiniteSet(1..c)
        BY <1>1, FS_Interval
      <3> QED BY <3>1, FS_Subset
    <2> HIDE DEF f
    <2> QED BY <2>2, <2>3, FS_Bijection DEF ExistsBijection
  <1>5. J \in SUBSET (1..c) /\ H \in SUBSET (1..n)
    OBVIOUS
  <1>6. Cardinality(J) = Cardinality(H)
    BY <1>4, <1>5
  <1>7. ASSUME NEW k \in 1..Cardinality(H)
        PROVE  Nth(J, k) \in J /\ Nth(I, Nth(J, k)) = Nth(H, k)
    <2> DEFINE q == Nth(J, k)
    <2>1. q \in J /\ Cardinality(Before(J, q)) = k - 1
      BY <1>1, <1>5, <1>6, NthExists
    <2>2. q \in 1..c /\ Nth(I, q) \in H
      BY <2>1
    <2>3. Cardinality(Before(J, q)) = Cardinality(Before(H, Nth(I, q)))
      <3>1. Before(J, q) \in SUBSET (1..c) /\ Before(H, Nth(I, q)) \in SUBSET I
        BY DEF Before
      <3>2. \A l \in 1..c : l \in Before(J, q) <=> Nth(I, l) \in Before(H, Nth(I, q))
        BY <1>2, <2>2 DEF Before
      <3> QED BY <1>4, <3>1, <3>2
    <2>4. Nth(H, Cardinality(Before(H, Nth(I, q))) + 1) = Nth(I, q)
      BY <1>5, <2>2, NthExists
    <2>5. Cardinality(Before(H, Nth(I, q))) + 1 = k
      BY <1>1, <2>1, <2>3
    <2> QED BY <2>1, <2>4, <2>5
  <1> QED BY <1>6, <1>7

\* The part of a sequence at some of its places is a sequence.
LEMMA PartAtProperties ==
  ASSUME NEW S, NEW s \in Seq(S), NEW I \in SUBSET (1..Len(s))
  PROVE  /\ Cardinality(I) \in Nat
         /\ PartAt(s, I) \in Seq(S)
         /\ Len(PartAt(s, I)) = Cardinality(I)
         /\ \A k \in 1..Cardinality(I) : Nth(I, k) \in I /\ PartAt(s, I)[k] = s[Nth(I, k)]
  <1>1. Len(s) \in Nat /\ \A i \in 1..Len(s) : s[i] \in S
    BY LenProperties, ElementOfSeq
  <1>2. /\ Cardinality(I) \in Nat
        /\ \A k \in 1..Cardinality(I) : Nth(I, k) \in I
    BY <1>1, BeforeGrows, NthExists
  <1>3. PartAt(s, I) \in [1..Cardinality(I) -> S]
    BY <1>1, <1>2 DEF PartAt
  <1>4. PartAt(s, I) \in Seq(S) /\ Len(PartAt(s, I)) = Cardinality(I)
    BY <1>2, <1>3, FunctionIsSeq
  <1>5. \A k \in 1..Cardinality(I) : PartAt(s, I)[k] = s[Nth(I, k)]
    BY DEF PartAt
  <1> QED BY <1>2, <1>4, <1>5

\* When the end of a sequence is one of the places, it is the last of them.
LEMMA LastPlace ==
  ASSUME NEW n \in Nat, NEW I \in SUBSET (1..n), n \in I
  PROVE  /\ Cardinality(I) \in Nat \ {0}
         /\ Nth(I, Cardinality(I)) = n
         /\ \A k \in 1..Cardinality(I) - 1 : Nth(I, k) < n
  <1> DEFINE c == Cardinality(I)
             k == Cardinality(Before(I, n)) + 1
  <1>1. c \in Nat /\ k \in 1..c /\ Nth(I, k) = n
    BY BeforeGrows, NthExists
  <1>2. \A l \in 1..c : Nth(I, l) \in 1..n
    BY NthExists
  <1> HIDE DEF k
  <1>3. \A l \in 1..c : Nth(I, k) < Nth(I, l) <=> k < l
    BY <1>1, NthGrows
  <1>4. c \in 1..c
    BY <1>1
  <1>5. ~(Nth(I, k) < Nth(I, c))
    <2>1. Nth(I, c) \in 1..n
      BY <1>2, <1>4
    <2> QED BY <1>1, <2>1
  <1>6. k = c
    BY <1>1, <1>3, <1>4, <1>5
  <1>7. \A l \in 1..c : Nth(I, l) < Nth(I, c) <=> l < c
    BY <1>4, NthGrows
  <1>8. ASSUME NEW l \in 1..c - 1 PROVE Nth(I, l) < n
    <2>1. l \in 1..c /\ l < c
      BY <1>1
    <2> QED BY <1>1, <1>6, <1>7, <2>1
  <1> QED BY <1>1, <1>6, <1>8

\* A place that is kept moves down by those before it that are not.
LEMMA KeptPlace ==
  ASSUME NEW n \in Nat, NEW R \in SUBSET (1..n), NEW i \in (1..n) \ R
  PROVE  LET I == (1..n) \ R
             k == i - Cardinality(Before(R, i))
         IN k \in 1..Cardinality(I) /\ Nth(I, k) = i
  <1> DEFINE I == (1..n) \ R
             A == Before(R, i)
             B == Before(I, i)
  <1>1. I \in SUBSET (1..n) /\ i \in I /\ i \in 1..n
    OBVIOUS
  <1>2. /\ IsFiniteSet(A) /\ Cardinality(A) \in Nat
        /\ IsFiniteSet(B) /\ Cardinality(B) \in Nat
    BY <1>1, BeforeGrows
  <1>3. A \cap B = {} /\ A \cup B = 1..(i - 1)
    <2>1. A \cap B = {}
      BY DEF Before
    <2>2. ASSUME NEW j \in A \cup B PROVE j \in 1..(i - 1)
      BY DEF Before
    <2>3. ASSUME NEW j \in 1..(i - 1) PROVE j \in A \cup B
      BY DEF Before
    <2> QED BY <2>1, <2>2, <2>3
  <1>4. Cardinality(1..(i - 1)) = i - 1
    BY <1>1, FS_Interval
  <1>5. Cardinality(A) + Cardinality(B) = i - 1
    <2>1. Cardinality(A \cup B) = Cardinality(A) + Cardinality(B) - Cardinality(A \cap B)
      BY <1>2, FS_Union
    <2>2. Cardinality(A \cap B) = 0
      BY <1>3, FS_EmptySet
    <2>3. Cardinality(A \cup B) = i - 1
      BY <1>3, <1>4
    <2> HIDE DEF A, B
    <2> QED BY <1>2, <2>1, <2>2, <2>3
  <1>6. Cardinality(B) + 1 \in 1..Cardinality(I) /\ Nth(I, Cardinality(B) + 1) = i
    BY <1>1, NthExists
  <1>7. i - Cardinality(A) = Cardinality(B) + 1
    BY <1>1, <1>2, <1>5
  <1> QED BY <1>6, <1>7

-----------------------------------------------------------------------------
(***************************************************************************)
(* The check.                                                              *)
(***************************************************************************)
Workspace == [wins : SUBSET Windows, grace : BOOLEAN, kept : BOOLEAN]

\* The workspaces before the removal, and the places that are kept.
All == IF MustAppend THEN Append(workspaces, Fresh) ELSE workspaces
Kept == (1..Len(All)) \ Removed

\* What a check finds: the last place is kept and free of windows, every other
\* one that is kept has a reason.
LEMMA BeforeCheck ==
  ASSUME WorkspacesTypeOK
  PROVE  /\ All \in Seq(Workspace) /\ Len(All) \in Nat /\ Len(workspaces) \in Nat
         /\ Len(All) \in {Len(workspaces), Len(workspaces) + 1}
         /\ Removed \in SUBSET (1..Len(All)) /\ Removed \subseteq 1..Len(workspaces)
         /\ Kept \in SUBSET (1..Len(All)) /\ Len(All) \in Kept
         /\ \A i \in 1..Len(workspaces) : All[i] = workspaces[i]
         /\ Len(All) # Len(workspaces) => All[Len(All)] = Fresh
         /\ All[Len(All)].wins = {}
         /\ \A i \in Kept : i < Len(All) => i \in 1..Len(workspaces) /\ ~EmptyWorkspace(i)
  <1>1. /\ workspaces \in Seq(Workspace) /\ Len(workspaces) \in Nat
        /\ active \in 1..Len(workspaces)
    BY LenProperties DEF WorkspacesTypeOK, Workspace
  <1>2. Fresh \in Workspace /\ Fresh.wins = {}
    BY DEF Fresh, Workspace
  <1>3. Len(workspaces) \in 1..Len(workspaces)
    BY <1>1
  <1>4. CASE MustAppend
    <2>1. /\ All = Append(workspaces, Fresh)
          /\ All \in Seq(Workspace) /\ Len(All) = Len(workspaces) + 1
          /\ \A i \in 1..Len(workspaces) : All[i] = workspaces[i]
          /\ All[Len(workspaces) + 1] = Fresh
      BY <1>1, <1>2, <1>4, AppendProperties DEF All
    <2>2. Removed = {i \in 1..Len(workspaces) : EmptyWorkspace(i)}
      BY <1>4 DEF Removed
    <2>3. /\ Removed \subseteq 1..Len(workspaces) /\ Removed \subseteq 1..Len(All)
          /\ Len(All) \notin Removed /\ Len(All) \in 1..Len(All)
      BY <1>1, <2>1, <2>2
    <2>4. ASSUME NEW i \in Kept, i < Len(All)
          PROVE  i \in 1..Len(workspaces) /\ ~EmptyWorkspace(i)
      <3>1. i \in 1..Len(workspaces) /\ i \notin Removed
        BY <1>1, <2>1, <2>4 DEF Kept
      <3> QED BY <2>2, <3>1
    <2>5. Kept \in SUBSET (1..Len(All)) /\ Len(All) \in Kept
      BY <2>3 DEF Kept
    <2>6. Len(All) \in Nat /\ Len(All) # Len(workspaces) /\ All[Len(All)] = Fresh
      BY <1>1, <2>1
    <2>7. \A i \in Kept : i < Len(All) => i \in 1..Len(workspaces) /\ ~EmptyWorkspace(i)
      BY <2>4
    <2>8. /\ All \in Seq(Workspace) /\ \A i \in 1..Len(workspaces) : All[i] = workspaces[i]
          /\ Len(All) \in {Len(workspaces), Len(workspaces) + 1} /\ Len(workspaces) \in Nat
      BY <1>1, <2>1
    <2> HIDE DEF All, Kept
    <2> QED BY <1>2, <2>3, <2>5, <2>6, <2>7, <2>8
  <1>5. CASE ~MustAppend
    <2>1. All = workspaces
      BY <1>5 DEF All
    <2>2. Removed = {i \in 1..Len(workspaces) : EmptyWorkspace(i) /\ i < Len(workspaces)}
      BY <1>5 DEF Removed
    <2>3. Len(workspaces) \notin Removed /\ Removed \subseteq 1..Len(workspaces)
      BY <1>1, <2>2
    <2>4. workspaces[Len(workspaces)].wins = {}
      BY <1>5 DEF MustAppend, EmptyWorkspace
    <2>5. ASSUME NEW i \in Kept, i < Len(All)
          PROVE  i \in 1..Len(workspaces) /\ ~EmptyWorkspace(i)
      BY <2>1, <2>2, <2>5 DEF Kept
    <2> QED BY <1>1, <1>3, <2>1, <2>3, <2>4, <2>5 DEF Kept
  <1> QED BY <1>4, <1>5

\* What a check leaves: the kept places in their order, and the active one among
\* them, or the last when it was removed.
LEMMA AfterCheck ==
  ASSUME WorkspacesTypeOK, CheckWorkspaces, dynamic
  PROVE  /\ workspaces' = PartAt(All, Kept)
         /\ Cardinality(Kept) \in Nat \ {0}
         /\ workspaces' \in Seq(Workspace) /\ Len(workspaces') = Cardinality(Kept)
         /\ \A k \in 1..Len(workspaces') :
              Nth(Kept, k) \in Kept /\ workspaces'[k] = All[Nth(Kept, k)]
         /\ Nth(Kept, Len(workspaces')) = Len(All)
         /\ \A k \in 1..Len(workspaces') - 1 : Nth(Kept, k) < Len(All)
         /\ active' \in 1..Len(workspaces')
         /\ Nth(Kept, active') = IF active \in Removed THEN Len(All) ELSE active
  <1>1. /\ All \in Seq(Workspace) /\ Len(All) \in Nat /\ Len(workspaces) \in Nat
        /\ Len(All) \in {Len(workspaces), Len(workspaces) + 1}
        /\ Removed \in SUBSET (1..Len(All))
        /\ Kept \in SUBSET (1..Len(All)) /\ Len(All) \in Kept
    BY BeforeCheck
  <1>2. /\ workspaces' = PartAt(All, Kept)
        /\ active' = IF active \in Removed
                     THEN Len(PartAt(All, Kept))
                     ELSE active - Cardinality(Before(Removed, active))
    BY DEF CheckWorkspaces, All, Kept, Without
  <1>3. /\ PartAt(All, Kept) \in Seq(Workspace) /\ Len(PartAt(All, Kept)) = Cardinality(Kept)
        /\ \A k \in 1..Cardinality(Kept) :
             Nth(Kept, k) \in Kept /\ PartAt(All, Kept)[k] = All[Nth(Kept, k)]
    BY <1>1, PartAtProperties
  <1>4. /\ Cardinality(Kept) \in Nat \ {0}
        /\ Nth(Kept, Cardinality(Kept)) = Len(All)
        /\ \A k \in 1..Cardinality(Kept) - 1 : Nth(Kept, k) < Len(All)
    BY <1>1, LastPlace
  <1>5. CASE active \in Removed
    <2>1. active' = Cardinality(Kept) /\ Cardinality(Kept) \in 1..Cardinality(Kept)
      BY <1>2, <1>3, <1>4, <1>5
    <2> QED BY <1>2, <1>3, <1>4, <1>5, <2>1
  <1>6. CASE active \notin Removed
    <2>1. active \in (1..Len(All)) \ Removed
      BY <1>1, <1>6 DEF WorkspacesTypeOK
    <2>2. /\ active - Cardinality(Before(Removed, active)) \in 1..Cardinality(Kept)
          /\ Nth(Kept, active - Cardinality(Before(Removed, active))) = active
      BY <1>1, <2>1, KeptPlace DEF Kept
    <2>3. active' = active - Cardinality(Before(Removed, active))
      BY <1>2, <1>6
    <2> QED BY <1>2, <1>3, <1>4, <1>6, <2>2, <2>3
  <1> QED BY <1>5, <1>6

-----------------------------------------------------------------------------
(***************************************************************************)
(* Room at the end.                                                        *)
(***************************************************************************)
LEMMA RoomInit ==
  WorkspacesInit => RoomAtTheEnd
  <1> SUFFICES ASSUME WorkspacesInit PROVE RoomAtTheEnd
    OBVIOUS
  <1>1. Fresh \in Workspace
    BY DEF Fresh, Workspace
  <1>2. <<Fresh>> \in Seq(Workspace) /\ Len(<<Fresh>>) = 1
    BY <1>1
  <1> QED BY <1>2 DEF WorkspacesInit, RoomAtTheEnd, WorkspacesTypeOK, Workspace

\* A check leaves room.
LEMMA RoomCheck ==
  ASSUME RoomAtTheEnd, CheckWorkspaces
  PROVE  RoomAtTheEnd'
  <1>1. WorkspacesTypeOK
    BY DEF RoomAtTheEnd
  <1>2. CASE ~dynamic
    BY <1>1, <1>2 DEF CheckWorkspaces, RoomAtTheEnd, WorkspacesTypeOK
  <1>3. CASE dynamic
    <2> DEFINE c == Len(workspaces')
    <2>1. /\ All \in Seq(Workspace) /\ Len(All) \in Nat
          /\ \A i \in 1..Len(workspaces) : All[i] = workspaces[i]
          /\ All[Len(All)].wins = {}
          /\ \A i \in Kept : i < Len(All) => i \in 1..Len(workspaces) /\ ~EmptyWorkspace(i)
      BY <1>1, BeforeCheck
    <2>2. /\ workspaces' \in Seq(Workspace) /\ c \in Nat \ {0}
          /\ \A k \in 1..c : Nth(Kept, k) \in Kept /\ workspaces'[k] = All[Nth(Kept, k)]
          /\ Nth(Kept, c) = Len(All)
          /\ \A k \in 1..c - 1 : Nth(Kept, k) < Len(All)
          /\ active' \in 1..c
      BY <1>1, <1>3, AfterCheck
    <2>3. WorkspacesTypeOK'
      BY <1>1, <2>2 DEF CheckWorkspaces, WorkspacesTypeOK, Workspace
    <2>4. workspaces'[c].wins = {}
      BY <2>1, <2>2
    <2>5. ASSUME NEW k \in 1..c - 1, \A l \in Launches : launching'[l] = 0
          PROVE  ~EmptyWorkspace(k)'
      <3>1. k \in 1..c
        BY <2>2
      <3>2. /\ Nth(Kept, k) \in 1..Len(workspaces) /\ ~EmptyWorkspace(Nth(Kept, k))
            /\ workspaces'[k] = workspaces[Nth(Kept, k)]
        BY <2>1, <2>2, <3>1
      <3>3. \A l \in Launches : launching[l] = 0
        BY <2>5 DEF CheckWorkspaces
      <3>4. Nth(Kept, k) # 0
        BY <3>2
      <3> QED BY <3>2, <3>3, <3>4 DEF EmptyWorkspace
    <2> QED BY <2>3, <2>4, <2>5 DEF RoomAtTheEnd
  <1> QED BY <1>2, <1>3

\* A change of one workspace that asks for a check.
LEMMA RoomAsked ==
  ASSUME RoomAtTheEnd, checkQueued' = TRUE, dynamic' \in BOOLEAN,
         launching' \in [Launches -> Nat],
         workspaces' \in Seq(Workspace), Len(workspaces') = Len(workspaces), active' = active
  PROVE  RoomAtTheEnd'
  BY DEF RoomAtTheEnd, WorkspacesTypeOK, Workspace

\* Moving the windows on a workspace and below it leaves room: either one was
\* there to be moved and a check is due, or none was and the workspaces with a
\* reason are the same ones.
LEMMA RoomDrop ==
  ASSUME RoomAtTheEnd, NEW i \in 1..Len(workspaces), NEW order \in Stackings, DropApp(i, order)
  PROVE  RoomAtTheEnd'
  <1> DEFINE n == Len(workspaces)
             last == IF workspaces[n].wins # {} THEN n + 1 ELSE n
             below == \E k \in i..n : workspaces[k].wins # {}
             wins(k) == IF k < i THEN workspaces[k].wins
                        ELSE IF k = i THEN {} ELSE workspaces[k - 1].wins
             grace(k) == k <= n /\ GraceMoved(i, k, order)
             kept(k) == k = i \/ (k <= n /\ workspaces[k].kept)
  <1>1. /\ workspaces \in Seq(Workspace) /\ n \in Nat /\ active \in 1..n
        /\ \A k \in 1..n : workspaces[k] \in Workspace
        /\ launching \in [Launches -> Nat] /\ dynamic \in BOOLEAN /\ checkQueued \in BOOLEAN
    BY LenProperties, ElementOfSeq DEF RoomAtTheEnd, WorkspacesTypeOK, Workspace
  <1>2. /\ workspaces' = [k \in 1..last |-> [wins |-> wins(k), grace |-> grace(k), kept |-> kept(k)]]
        /\ checkQueued' = (checkQueued \/ below)
        /\ UNCHANGED <<active, launching, dynamic>>
    BY DEF DropApp
  <1>3. last \in Nat /\ last \in {n, n + 1}
    BY <1>1
  <1>4. ASSUME NEW k \in 1..last
        PROVE  [wins |-> wins(k), grace |-> grace(k), kept |-> kept(k)] \in Workspace
    <2>1. wins(k) \in SUBSET Windows
      <3>1. CASE k < i
        BY <1>1, <3>1 DEF Workspace
      <3>2. CASE ~(k < i) /\ k # i
        <4>1. k - 1 \in 1..n
          BY <1>1, <1>3, <3>2
        <4> QED BY <1>1, <3>2, <4>1 DEF Workspace
      <3> QED BY <3>1, <3>2
    <2>2. grace(k) \in BOOLEAN
      <3>1. CASE k <= n
        <4>1. workspaces[k].grace \in BOOLEAN
          BY <1>1, <3>1 DEF Workspace
        <4> QED BY <3>1, <4>1 DEF GraceMoved
      <3>2. CASE ~(k <= n)
        BY <3>2
      <3> QED BY <3>1, <3>2
    <2>3. kept(k) \in BOOLEAN
      OBVIOUS
    <2> HIDE DEF wins, grace, kept
    <2> QED BY <2>1, <2>2, <2>3 DEF Workspace
  <1>5. workspaces' \in [1..last -> Workspace]
    <2> HIDE DEF wins, grace, kept, last
    <2> QED BY <1>2, <1>4
  <1>6. workspaces' \in Seq(Workspace) /\ Len(workspaces') = last
    <2> HIDE DEF last
    <2> QED BY <1>3, <1>5, FunctionIsSeq
  <1>7. WorkspacesTypeOK'
    <2>1. active' \in 1..Len(workspaces')
      BY <1>1, <1>2, <1>3, <1>6
    <2>2. checkQueued' \in BOOLEAN
      BY <1>1, <1>2
    <2> QED BY <1>1, <1>2, <1>6, <2>1, <2>2 DEF WorkspacesTypeOK, Workspace
  <1>8. ASSUME dynamic', ~checkQueued', \A l \in Launches : launching'[l] = 0
        PROVE  /\ workspaces'[Len(workspaces')].wins = {}
               /\ \A k \in 1..(Len(workspaces') - 1) : ~EmptyWorkspace(k)'
    <2>1. ~checkQueued /\ \A k \in i..n : workspaces[k].wins = {}
      BY <1>1, <1>2, <1>8
    <2>2. n \in i..n
      BY <1>1
    <2>3. last = n /\ Len(workspaces') = n
      BY <1>6, <2>1, <2>2
    <2>4. \A k \in 1..(n - 1) : ~EmptyWorkspace(k)
      BY <1>2, <1>8, <2>1 DEF RoomAtTheEnd
    <2>5. ASSUME NEW k \in 1..n
          PROVE  /\ workspaces'[k].wins = workspaces[k].wins
                 /\ workspaces[k].grace => workspaces'[k].grace
                 /\ workspaces[k].kept => workspaces'[k].kept
      <3>1. workspaces'[k] = [wins |-> wins(k), grace |-> grace(k), kept |-> kept(k)]
        <4> HIDE DEF wins, grace, kept
        <4> QED BY <1>2, <2>3
      <3>2. workspaces'[k].wins = wins(k) /\ workspaces'[k].grace = grace(k) /\ workspaces'[k].kept = kept(k)
        <4> HIDE DEF wins, grace, kept
        <4> QED BY <3>1
      <3>3. wins(k) = workspaces[k].wins
        <4>1. CASE k < i
          BY <4>1
        <4>2. CASE ~(k < i)
          <5>1. k \in i..n /\ (k # i => k - 1 \in i..n)
            BY <1>1, <4>2
          <5> QED BY <2>1, <4>2, <5>1
        <4> QED BY <4>1, <4>2
      <3>4. grace(k) <=> workspaces[k].grace
        <4>1. k < i \/ workspaces[k].wins = {}
          BY <1>1, <2>1
        <4>2. k <= n
          BY <1>1
        <4> QED BY <4>1, <4>2 DEF GraceMoved
      <3>5. workspaces[k].kept => kept(k)
        BY <1>1
      <3> QED BY <3>2, <3>3, <3>4, <3>5
    <2>6. workspaces'[n].wins = {}
      BY <1>1, <2>1, <2>2, <2>5
    <2>7. ASSUME NEW k \in 1..(n - 1) PROVE ~EmptyWorkspace(k)'
      <3>1. k \in 1..n
        BY <1>1
      <3> QED BY <1>2, <2>4, <2>5, <2>7, <3>1 DEF EmptyWorkspace
    <2> QED BY <2>3, <2>6, <2>7
  <1> QED BY <1>7, <1>8 DEF RoomAtTheEnd

LEMMA RoomStep ==
  ASSUME RoomAtTheEnd, [WorkspacesNext]_workspaceVars
  PROVE  RoomAtTheEnd'
  <1> DEFINE n == Len(workspaces)
  <1>1. /\ workspaces \in Seq(Workspace) /\ n \in Nat /\ active \in 1..n
        /\ \A k \in 1..n : workspaces[k] \in Workspace
        /\ launching \in [Launches -> Nat] /\ dynamic \in BOOLEAN /\ checkQueued \in BOOLEAN
    BY LenProperties, ElementOfSeq DEF RoomAtTheEnd, WorkspacesTypeOK, Workspace
  <1>2. ASSUME NEW i \in 1..n, NEW ws \in Workspace, workspaces' = [workspaces EXCEPT ![i] = ws]
        PROVE  workspaces' \in Seq(Workspace) /\ Len(workspaces') = n
    BY <1>1, <1>2, ExceptSeq
  <1>3. ASSUME NEW i \in 1..n, NEW w \in Windows, WindowAdded(w, i)
        PROVE  RoomAtTheEnd'
    <2> DEFINE ws == [workspaces[i] EXCEPT !.wins = @ \cup {w}]
    <2>1. ws \in Workspace
      BY <1>1 DEF Workspace
    <2>2. /\ workspaces' = [workspaces EXCEPT ![i] = ws] /\ checkQueued' = TRUE
          /\ UNCHANGED <<active, launching, dynamic>>
      BY <1>3 DEF WindowAdded
    <2> HIDE DEF ws
    <2>3. workspaces' \in Seq(Workspace) /\ Len(workspaces') = n
      BY <1>2, <2>1, <2>2
    <2> QED BY <1>1, <2>2, <2>3, RoomAsked
  <1>4. ASSUME NEW i \in 1..n, NEW w \in Windows, WindowClosed(w, i)
        PROVE  RoomAtTheEnd'
    <2> DEFINE gone == w \in Transient
               ws == [workspaces[i] EXCEPT !.wins = @ \ {w}, !.grace = gone]
    <2>1. gone \in BOOLEAN
      OBVIOUS
    <2>2. /\ workspaces' = [workspaces EXCEPT ![i] = ws] /\ checkQueued' = TRUE
          /\ UNCHANGED <<active, launching, dynamic>>
      BY <1>1, <1>4 DEF WindowClosed, Workspace
    <2> HIDE DEF gone
    <2>4. ws \in Workspace
      BY <1>1, <2>1 DEF Workspace
    <2> HIDE DEF ws
    <2>3. workspaces' \in Seq(Workspace) /\ Len(workspaces') = n
      BY <1>2, <2>4, <2>2
    <2> QED BY <1>1, <2>2, <2>3, RoomAsked
  <1>5. ASSUME NEW i \in 1..n, NEW j \in 1..n, NEW w \in Windows, WindowMoved(w, i, j)
        PROVE  RoomAtTheEnd'
    <2> DEFINE gone == w \in Transient
               wi == [workspaces[i] EXCEPT !.wins = @ \ {w}, !.grace = gone]
               wj == [workspaces[j] EXCEPT !.wins = @ \cup {w}]
               s == [workspaces EXCEPT ![i] = wi]
    <2>2. i # j /\ checkQueued' = TRUE /\ UNCHANGED <<active, launching, dynamic>>
      BY <1>5 DEF WindowMoved
    <2>3. workspaces' = [s EXCEPT ![j] = wj]
      BY <1>1, <1>5 DEF WindowMoved, Workspace
    <2>6. gone \in BOOLEAN
      OBVIOUS
    <2> HIDE DEF gone
    <2>1. wi \in Workspace /\ wj \in Workspace
      BY <1>1, <2>6 DEF Workspace
    <2> HIDE DEF wi, wj
    <2>4. s \in Seq(Workspace) /\ Len(s) = n
      BY <1>1, <2>1, ExceptSeq
    <2> HIDE DEF s
    <2>5. workspaces' \in Seq(Workspace) /\ Len(workspaces') = n
      BY <2>1, <2>3, <2>4, ExceptSeq
    <2> QED BY <1>1, <2>2, <2>5, RoomAsked
  <1>6. ASSUME NEW i \in 1..n, GraceOver(i)
        PROVE  RoomAtTheEnd'
    <2> DEFINE ws == [workspaces[i] EXCEPT !.grace = FALSE]
    <2>1. ws \in Workspace
      BY <1>1 DEF Workspace
    <2>2. /\ workspaces' = [workspaces EXCEPT ![i] = ws] /\ checkQueued' = TRUE
          /\ UNCHANGED <<active, launching, dynamic>>
      BY <1>6 DEF GraceOver
    <2> HIDE DEF ws
    <2>3. workspaces' \in Seq(Workspace) /\ Len(workspaces') = n
      BY <1>2, <2>1, <2>2
    <2> QED BY <1>1, <2>2, <2>3, RoomAsked
  <1>7. ASSUME NEW i \in 1..n, KeepAliveOver(i)
        PROVE  RoomAtTheEnd'
    <2> DEFINE ws == [workspaces[i] EXCEPT !.kept = FALSE]
    <2>1. ws \in Workspace
      BY <1>1 DEF Workspace
    <2>2. /\ workspaces' = [workspaces EXCEPT ![i] = ws] /\ checkQueued' = TRUE
          /\ UNCHANGED <<active, launching, dynamic>>
      BY <1>7 DEF KeepAliveOver
    <2> HIDE DEF ws
    <2>3. workspaces' \in Seq(Workspace) /\ Len(workspaces') = n
      BY <1>2, <2>1, <2>2
    <2> QED BY <1>1, <2>2, <2>3, RoomAsked
  <1>8. ASSUME NEW i \in 1..n, ActivateWorkspace(i)
        PROVE  RoomAtTheEnd'
    BY <1>8 DEF ActivateWorkspace, RoomAtTheEnd, WorkspacesTypeOK, EmptyWorkspace
  <1>9. ASSUME SettingChanged \/ CheckForNothing
        PROVE  RoomAtTheEnd'
    <2>1. /\ checkQueued' = TRUE /\ dynamic' \in BOOLEAN /\ UNCHANGED <<workspaces, active, launching>>
      BY <1>1, <1>9 DEF SettingChanged, CheckForNothing
    <2> QED BY <1>1, <2>1, RoomAsked
  <1>10. ASSUME NEW l \in Launches, NEW i \in 0..n, SequenceChanged(l, i)
         PROVE  RoomAtTheEnd'
    <2>1. /\ checkQueued' = TRUE /\ launching' \in [Launches -> Nat]
          /\ UNCHANGED <<workspaces, active, dynamic>>
      BY <1>1, <1>10 DEF SequenceChanged
    <2> QED BY <1>1, <2>1, RoomAsked
  <1>11. CASE UNCHANGED workspaceVars
    BY <1>11 DEF workspaceVars, RoomAtTheEnd, WorkspacesTypeOK, EmptyWorkspace
  <1>12. CASE WorkspacesNext
    <2>1. \/ CheckWorkspaces
          \/ SettingChanged \/ CheckForNothing
          \/ \E i \in 1..n :
               \/ \E w \in Windows : WindowAdded(w, i) \/ WindowClosed(w, i)
               \/ \E w \in Windows, j \in 1..n : WindowMoved(w, i, j)
               \/ GraceOver(i)
               \/ KeepAliveOver(i)
               \/ ActivateWorkspace(i)
          \/ \E i \in 1..n, order \in Stackings : DropApp(i, order)
          \/ \E l \in Launches, i \in 0..n : SequenceChanged(l, i)
      BY <1>12, Zenon DEF WorkspacesNext
    <2> QED BY <1>3, <1>4, <1>5, <1>6, <1>7, <1>8, <1>9, <1>10, <2>1, RoomCheck, RoomDrop
  <1> QED BY <1>11, <1>12

\* _checkWorkspaces() (main.js): whenever no check is due and nothing is being
\* launched, the last workspace is free and every other one has a reason to be
\* there, for any number of windows, launches and workspaces.  The invariant is
\* inductive as it stands.
THEOREM WorkspacesRoomAtTheEnd ==
  WorkspacesSpec => []RoomAtTheEnd
  <1>1. WorkspacesInit => RoomAtTheEnd
    BY RoomInit
  <1>2. RoomAtTheEnd /\ [WorkspacesNext]_workspaceVars => RoomAtTheEnd'
    BY RoomStep
  <1> QED BY <1>1, <1>2, PTL DEF WorkspacesSpec

-----------------------------------------------------------------------------
(***************************************************************************)
(* What a check keeps.                                                     *)
(***************************************************************************)
LEMMA CheckKeeps ==
  ASSUME WorkspacesTypeOK, CheckWorkspaces
  PROVE  /\ PartAt(workspaces', Used(workspaces')) = PartAt(workspaces, Used(workspaces))
         /\ workspaces'[active'].wins = workspaces[active].wins
  <1>1. CASE ~dynamic
    BY <1>1 DEF CheckWorkspaces
  <1>2. CASE dynamic
    <2> DEFINE H == Used(workspaces)
               J == {k \in 1..Cardinality(Kept) : Nth(Kept, k) \in H}
    <2>1. /\ Len(All) \in Nat /\ Len(workspaces) \in Nat /\ active \in 1..Len(workspaces)
          /\ Kept \in SUBSET (1..Len(All))
          /\ Len(All) \in {Len(workspaces), Len(workspaces) + 1}
          /\ \A i \in 1..Len(workspaces) : All[i] = workspaces[i]
          /\ Len(All) # Len(workspaces) => All[Len(All)] = Fresh
          /\ All[Len(All)].wins = {}
      BY BeforeCheck DEF WorkspacesTypeOK
    <2>2. /\ workspaces' = PartAt(All, Kept)
          /\ workspaces' \in Seq(Workspace) /\ Len(workspaces') = Cardinality(Kept)
          /\ \A k \in 1..Cardinality(Kept) :
               Nth(Kept, k) \in Kept /\ workspaces'[k] = All[Nth(Kept, k)]
          /\ active' \in 1..Cardinality(Kept)
          /\ Nth(Kept, active') = IF active \in Removed THEN Len(All) ELSE active
      BY <1>2, AfterCheck
    <2>3. DOMAIN workspaces = 1..Len(workspaces) /\ DOMAIN workspaces' = 1..Cardinality(Kept)
      <3>1. workspaces \in Seq(Workspace)
        BY DEF WorkspacesTypeOK, Workspace
      <3> QED BY <2>2, <3>1, LenProperties
    <2>4. H \in SUBSET Kept
      <3>1. ASSUME NEW i \in H PROVE i \in 1..Len(All) /\ i \notin Removed
        <4>1. i \in 1..Len(workspaces) /\ ~EmptyWorkspace(i)
          BY <2>3 DEF Used, EmptyWorkspace
        <4> QED BY <2>1, <4>1 DEF Removed
      <3> QED BY <3>1 DEF Kept
    <2>5. ASSUME NEW i \in Kept
          PROVE  i \in H <=> All[i].wins # {} \/ All[i].kept \/ All[i].grace
      <3>1. CASE i \in 1..Len(workspaces)
        BY <2>1, <2>3, <3>1 DEF Used
      <3>2. CASE i \notin 1..Len(workspaces)
        <4>1. i = Len(All) /\ Len(All) # Len(workspaces)
          BY <2>1, <3>2
        <4>2. i \notin H
          BY <2>3, <3>2 DEF Used
        <4>3. All[i].wins = {} /\ ~All[i].kept /\ ~All[i].grace
          BY <2>1, <4>1 DEF Fresh
        <4> QED BY <4>2, <4>3
      <3> QED BY <3>1, <3>2
    <2>6. Used(workspaces') = J
      <3>1. ASSUME NEW k \in 1..Cardinality(Kept)
            PROVE  Nth(Kept, k) \in H <=>
                     workspaces'[k].wins # {} \/ workspaces'[k].kept \/ workspaces'[k].grace
        BY <2>2, <2>5
      <3> QED BY <2>3, <3>1 DEF Used
    <2>7. /\ Cardinality(J) = Cardinality(H)
          /\ \A k \in 1..Cardinality(H) : Nth(J, k) \in J /\ Nth(Kept, Nth(J, k)) = Nth(H, k)
      <3> DEFINE n == Len(All)
                 I == Kept
      <3>1. n \in Nat /\ I \in SUBSET (1..n) /\ H \in SUBSET I
        BY <2>1, <2>4
      <3>2. J = {k \in 1..Cardinality(I) : Nth(I, k) \in H}
        OBVIOUS
      <3> HIDE DEF H, J, n, I
      <3>3. /\ Cardinality(J) = Cardinality(H)
            /\ \A k \in 1..Cardinality(H) : Nth(J, k) \in J /\ Nth(I, Nth(J, k)) = Nth(H, k)
        BY <3>1, <3>2, PartOfPart
      <3> QED BY <3>3 DEF I
    <2>8. \A k \in 1..Cardinality(H) : Nth(H, k) \in H
      <3>1. H \in SUBSET (1..Len(All))
        BY <2>1, <2>4
      <3> QED BY <2>1, <3>1, NthExists
    <2>9. ASSUME NEW k \in 1..Cardinality(H)
          PROVE  workspaces'[Nth(J, k)] = workspaces[Nth(H, k)]
      <3>1. Nth(J, k) \in 1..Cardinality(Kept) /\ Nth(Kept, Nth(J, k)) = Nth(H, k)
        BY <2>7
      <3>2. Nth(H, k) \in 1..Len(workspaces)
        BY <2>3, <2>8 DEF Used
      <3> QED BY <2>1, <2>2, <3>1, <3>2
    <2>10. PartAt(workspaces', J) = PartAt(workspaces, H)
      <3> HIDE DEF H, J
      <3> QED BY <2>7, <2>9 DEF PartAt
    <2>11. workspaces'[active'].wins = workspaces[active].wins
      <3>1. CASE active \in Removed
        <4>1. workspaces[active].wins = {}
          BY <3>1 DEF Removed, EmptyWorkspace
        <4> QED BY <2>1, <2>2, <3>1, <4>1
      <3>2. CASE active \notin Removed
        BY <2>1, <2>2, <3>2
      <3> QED BY <3>1, <3>2
    <2> QED BY <2>6, <2>10, <2>11
  <1> QED BY <1>1, <1>2

\* _checkWorkspaces() (main.js): no check drops a workspace that holds windows, is
\* kept alive or had a dialog for its last window, none changes their order, and
\* the windows the user sees stay the same.
THEOREM WorkspacesCheckKeepsUsed ==
  WorkspacesSpec => CheckKeepsUsed
  <1> DEFINE Keeps == /\ PartAt(workspaces', Used(workspaces')) = PartAt(workspaces, Used(workspaces))
                      /\ workspaces'[active'].wins = workspaces[active].wins
  <1>1. RoomAtTheEnd => WorkspacesTypeOK
    BY DEF RoomAtTheEnd
  <1>2. RoomAtTheEnd => [CheckWorkspaces => Keeps]_workspaceVars
    BY <1>1, CheckKeeps
  <1>3. [][CheckWorkspaces => Keeps]_workspaceVars => CheckKeepsUsed
    BY DEF CheckKeepsUsed
  <1> HIDE DEF Keeps
  <1> QED BY <1>2, <1>3, WorkspacesRoomAtTheEnd, PTL
=============================================================================
