----------------------------- MODULE TrayProofs -----------------------------
(***************************************************************************)
(* The contract that every handler of the message tray keeps, how deep     *)
(* _updateState() calls itself, and what each event does.                  *)
(*                                                                         *)
(* A handler that asks for _updateState() before it is done goes on with   *)
(* what the call left behind: each lemma takes the contract of that call,  *)
(* NestedKeeps, and proves the same contract of the handler that makes it. *)
(* The inductive invariant TrayInv, and what an event may have done,       *)
(* Reacts, follow for each event from the handlers that it runs.           *)
(***************************************************************************)
EXTENDS MessageTray, SeqLemmas, FiniteSetTheorems, TLAPS

\* A sequence that repeats nothing.
Distinct(q) == \A i, j \in 1..Len(q) : q[i] = q[j] => i = j

\* In a finite set of numbers there is one for each rank.
LEMMA RankExists ==
  ASSUME NEW at \in SUBSET Nat, IsFiniteSet(at), NEW r \in Nat, r < Cardinality(at)
  PROVE  \E i \in at : Cardinality({j \in at : j < i}) = r
  <1> DEFINE m == Cardinality(at)
             below(i) == {j \in at : j < i}
             rank == [i \in at |-> Cardinality(below(i))]
  <1>1. m \in Nat BY FS_CardinalityType
  <1>2. ASSUME NEW i \in at
        PROVE  IsFiniteSet(below(i)) /\ Cardinality(below(i)) \in 0..m - 1
    <2>1. IsFiniteSet(at \ {i}) /\ Cardinality(at \ {i}) = m - 1 BY FS_RemoveElement
    <2>2. below(i) \in SUBSET (at \ {i}) BY <1>2
    <2> HIDE DEF m
    <2>3. IsFiniteSet(below(i)) /\ Cardinality(below(i)) <= m - 1 BY <2>1, <2>2, FS_Subset
    <2>4. Cardinality(below(i)) \in Nat BY <2>3, FS_CardinalityType
    <2> QED BY <1>1, <2>3, <2>4
  <1>3. ASSUME NEW i \in at, NEW j \in at, i < j
        PROVE  Cardinality(below(i)) < Cardinality(below(j))
    <2>1. IsFiniteSet(below(i)) /\ IsFiniteSet(below(j)) BY <1>2
    <2>2. i \notin below(i) BY <1>3
    <2>3. /\ IsFiniteSet(below(i) \cup {i})
          /\ Cardinality(below(i) \cup {i}) = Cardinality(below(i)) + 1
      BY <2>1, <2>2, FS_AddElement
    <2>4. below(i) \cup {i} \in SUBSET below(j)
      <3>1. ASSUME NEW k \in below(i) PROVE k \in below(j)
        <4>1. k \in Nat /\ i \in Nat /\ j \in Nat /\ k < i /\ k \in at BY <3>1
        <4>2. k < j BY <1>3, <4>1
        <4> QED BY <4>1, <4>2
      <3>2. i \in below(j) BY <1>3
      <3> HIDE DEF below
      <3> QED BY <3>1, <3>2
    <2>5. Cardinality(below(i) \cup {i}) <= Cardinality(below(j)) BY <2>1, <2>4, FS_Subset
    <2>6. Cardinality(below(i)) \in Int /\ Cardinality(below(j)) \in Int BY <1>1, <1>2
    <2> HIDE DEF below
    <2> QED BY <2>3, <2>5, <2>6
  <1> HIDE DEF m, below
  <1>4. rank \in [at -> 0..m - 1] BY <1>2
  <1>5. ASSUME NEW i \in at, NEW j \in at, rank[i] = rank[j] PROVE i = j
    <2>1. ~(rank[i] < rank[j]) /\ ~(rank[j] < rank[i]) BY <1>1, <1>4, <1>5
    <2>2. ~(i < j) /\ ~(j < i) BY <1>3, <2>1
    <2> QED BY <2>2
  <1>6. rank \in Injection(at, 0..m - 1) BY <1>4, <1>5 DEF Injection, IsInjective
  <1>7. IsFiniteSet(0..m - 1) /\ Cardinality(0..m - 1) = m
    <2>1. 0 \in Int /\ m - 1 \in Int BY <1>1
    <2>2. /\ IsFiniteSet(0..m - 1)
          /\ Cardinality(0..m - 1) = IF 0 > m - 1 THEN 0 ELSE (m - 1) - 0 + 1
      BY <2>1, FS_Interval
    <2> QED BY <1>1, <2>2
  <1>8. Cardinality(at) = Cardinality(0..m - 1) BY <1>7 DEF m
  <1>9. rank \in Surjection(at, 0..m - 1) BY <1>6, <1>7, <1>8, FS_Injection
  <1>10. r \in 0..m - 1 BY <1>1 DEF m
  <1>11. PICK i \in at : rank[i] = r BY <1>9, <1>10 DEF Surjection
  <1> QED BY <1>11 DEF below

\* What filter() keeps, and that it repeats nothing.
LEMMA FilterProperties ==
  ASSUME NEW N, NEW q \in Seq(N), NEW S
  PROVE  /\ Filter(q, S) \in Seq(N)
         /\ ToSet(Filter(q, S)) \subseteq ToSet(q) \cap S
         /\ Distinct(q) => Distinct(Filter(q, S))
  <1> DEFINE at == {i \in DOMAIN q : q[i] \in S}
             m == Cardinality(at)
             next(k) == CHOOSE i \in at : Cardinality({j \in at : j < i}) = k - 1
             f == [k \in 1..m |-> q[next(k)]]
  <1>1. /\ Len(q) \in Nat /\ DOMAIN q = 1..Len(q) /\ \A i \in 1..Len(q) : q[i] \in N
    BY LenProperties, ElementOfSeq
  <1>2. at \in SUBSET Nat /\ at \subseteq 1..Len(q) BY <1>1
  <1>3. IsFiniteSet(at) /\ m \in Nat
    <2>1. IsFiniteSet(1..Len(q)) BY <1>1, FS_Interval
    <2> QED BY <1>2, <2>1, FS_Subset, FS_CardinalityType
  <1>4. Filter(q, S) = f BY DEF Filter
  <1>5. \A i \in at : q[i] \in S /\ q[i] \in N /\ i \in 1..Len(q) BY <1>1
  <1> HIDE DEF at
  <1>6. ASSUME NEW k \in 1..m
        PROVE  next(k) \in at /\ Cardinality({j \in at : j < next(k)}) = k - 1
    <2>1. k - 1 \in Nat /\ k - 1 < Cardinality(at) BY <1>3, <1>6
    <2>2. \E i \in at : Cardinality({j \in at : j < i}) = k - 1
      BY <1>2, <1>3, <2>1, RankExists
    <2> QED BY <2>2
  <1> HIDE DEF m, next
  <1>7. f \in [1..m -> N] BY <1>5, <1>6
  <1>8. f \in Seq(N) /\ Len(f) = m BY <1>3, <1>7, FunctionIsSeq
  <1>9. ASSUME NEW x \in ToSet(f) PROVE x \in ToSet(q) /\ x \in S
    <2>0. ToSet(f) = {f[k] : k \in 1..Len(f)} BY <1>8, ToSetProperties
    <2>1. PICK k \in 1..m : x = f[k] BY <1>8, <2>0
    <2>2. x = q[next(k)] /\ next(k) \in at BY <1>6, <2>1
    <2>3. ToSet(q) = {q[i] : i \in 1..Len(q)} BY ToSetProperties
    <2> QED BY <1>5, <2>2, <2>3
  <1>10. ASSUME Distinct(q), NEW i \in 1..m, NEW j \in 1..m, f[i] = f[j] PROVE i = j
    <2>1. /\ next(i) \in at /\ next(j) \in at /\ q[next(i)] = q[next(j)]
      BY <1>6, <1>10
    <2>2. next(i) = next(j) BY <1>5, <1>10, <2>1 DEF Distinct
    <2>3. i - 1 = j - 1 BY <1>6, <2>2
    <2> QED BY <1>3, <2>3
  <1>11. Distinct(q) => Distinct(f) BY <1>8, <1>10 DEF Distinct
  <1> HIDE DEF f
  <1> QED BY <1>4, <1>8, <1>9, <1>11

\* What splice() takes out of a sequence that repeats nothing is not in it
\* any more.
LEMMA WithoutProperties ==
  ASSUME NEW N, NEW q \in Seq(N), Distinct(q), NEW n
  PROVE  /\ Without(q, n) \in Seq(N)
         /\ ToSet(Without(q, n)) \subseteq ToSet(q) \ {n}
         /\ Distinct(Without(q, n))
  <1> DEFINE k == CHOOSE i \in DOMAIN q : q[i] = n /\ \A j \in 1..i - 1 : q[j] # n
  <1>1. ToSet(q) = {q[i] : i \in 1..Len(q)} /\ DOMAIN q = 1..Len(q) /\ Len(q) \in Nat
    BY ToSetProperties, LenProperties
  <1>2. CASE Contains(q, n)
    <2>1. PICK i \in 1..Len(q) : q[i] = n BY <1>2, <1>1 DEF Contains
    <2>2. \A j \in 1..i - 1 : q[j] # n BY <1>1, <2>1 DEF Distinct
    <2>3. k \in 1..Len(q) /\ q[k] = n BY <1>1, <2>1, <2>2
    <2>4. Without(q, n) = RemoveAt(q, k) BY <1>2 DEF Without
    <2> HIDE DEF k
    <2>5. \A i1, j1 \in 1..Len(q) : q[i1] = q[j1] => i1 = j1 BY DEF Distinct
    <2>6. /\ RemoveAt(q, k) \in Seq(N)
          /\ \A i1, j1 \in 1..Len(RemoveAt(q, k)) :
               RemoveAt(q, k)[i1] = RemoveAt(q, k)[j1] => i1 = j1
          /\ ToSet(RemoveAt(q, k)) = ToSet(q) \ {q[k]}
      <3>1. /\ ToSet(RemoveAt(q, k)) = ToSet(q) \ {q[k]}
            /\ \A i1, j1 \in 1..Len(q) - 1 :
                 RemoveAt(q, k)[i1] = RemoveAt(q, k)[j1] => i1 = j1
        BY <2>3, <2>5, RemoveAtDistinct
      <3>2. RemoveAt(q, k) \in Seq(N) /\ Len(RemoveAt(q, k)) = Len(q) - 1
        BY <2>3, RemoveAtProperties
      <3> QED BY <3>1, <3>2
    <2> QED BY <2>3, <2>4, <2>6 DEF Distinct
  <1>3. CASE ~Contains(q, n)
    <2>1. n \notin ToSet(q) BY <1>1, <1>3 DEF Contains
    <2> QED BY <1>3, <2>1 DEF Without
  <1> QED BY <1>2, <1>3

\* Two sequences that repeat nothing and share nothing, one after the other.
LEMMA ConcatDistinct ==
  ASSUME NEW N, NEW a \in Seq(N), NEW b \in Seq(N), Distinct(a), Distinct(b),
         ToSet(a) \cap ToSet(b) = {}
  PROVE  /\ a \o b \in Seq(N)
         /\ ToSet(a \o b) \subseteq ToSet(a) \cup ToSet(b)
         /\ Distinct(a \o b)
  <1> DEFINE c == a \o b
  <1>1. /\ c \in Seq(N) /\ Len(c) = Len(a) + Len(b) /\ Len(a) \in Nat /\ Len(b) \in Nat
        /\ \A i \in 1..Len(a) + Len(b) : c[i] = IF i <= Len(a) THEN a[i] ELSE b[i - Len(a)]
    BY ConcatProperties, LenProperties
  <1>2. /\ ToSet(c) = {c[i] : i \in 1..Len(c)}
        /\ ToSet(a) = {a[i] : i \in 1..Len(a)}
        /\ ToSet(b) = {b[i] : i \in 1..Len(b)}
    <2>1. c \in Seq(N) BY <1>1
    <2> HIDE DEF c
    <2> QED BY <2>1, ToSetProperties
  <1> HIDE DEF c
  <1>3. ASSUME NEW i \in 1..Len(c)
        PROVE  \/ i \in 1..Len(a) /\ c[i] = a[i] /\ c[i] \in ToSet(a)
               \/ i - Len(a) \in 1..Len(b) /\ c[i] = b[i - Len(a)] /\ c[i] \in ToSet(b)
    BY <1>1, <1>2
  <1>4. ToSet(c) \subseteq ToSet(a) \cup ToSet(b) BY <1>2, <1>3
  <1>5. ASSUME NEW i \in 1..Len(c), NEW j \in 1..Len(c), c[i] = c[j] PROVE i = j
    <2>1. CASE i \in 1..Len(a) /\ c[i] = a[i] /\ c[i] \in ToSet(a)
      <3>1. j \in 1..Len(a) /\ c[j] = a[j] BY <1>3, <1>5, <2>1
      <3> QED BY <1>5, <2>1, <3>1 DEF Distinct
    <2>2. CASE i - Len(a) \in 1..Len(b) /\ c[i] = b[i - Len(a)] /\ c[i] \in ToSet(b)
      <3>1. j - Len(a) \in 1..Len(b) /\ c[j] = b[j - Len(a)] BY <1>3, <1>5, <2>2
      <3>2. i - Len(a) = j - Len(a) BY <1>5, <2>2, <3>1 DEF Distinct
      <3> QED BY <1>1, <3>2
    <2> QED BY <1>3, <2>1, <2>2
  <1> QED BY <1>1, <1>4, <1>5 DEF Distinct, c

\* The first of a sequence that repeats nothing, and the rest.
LEMMA TailProperties ==
  ASSUME NEW N, NEW q \in Seq(N), q # <<>>, Distinct(q)
  PROVE  /\ Head(q) \in N /\ Tail(q) \in Seq(N)
         /\ ToSet(Tail(q)) \subseteq ToSet(q) /\ Head(q) \notin ToSet(Tail(q))
         /\ Distinct(Tail(q))
  <1>1. \A i, j \in 1..Len(q) : q[i] = q[j] => i = j BY DEF Distinct
  <1>2. /\ Head(q) \in N /\ Tail(q) \in Seq(N)
        /\ ToSet(q) = {Head(q)} \cup ToSet(Tail(q))
        /\ Head(q) \notin ToSet(Tail(q))
        /\ \A i, j \in 1..Len(Tail(q)) : Tail(q)[i] = Tail(q)[j] => i = j
    BY <1>1, HeadTailDistinct
  <1>3. Distinct(Tail(q)) BY <1>2 DEF Distinct
  <1> QED BY <1>2, <1>3

\* The sort of the queue keeps what is in it.
LEMMA SortedProperties ==
  ASSUME NEW t, NEW q \in Seq(Notifications), Distinct(q)
  PROVE  /\ Sorted(t, q) \in Seq(Notifications)
         /\ ToSet(Sorted(t, q)) \subseteq ToSet(q)
         /\ Distinct(Sorted(t, q))
  <1> DEFINE a == Filter(q, t.critical)
             b == Filter(q, Notifications \ t.critical)
  <1>1. a \in Seq(Notifications) /\ ToSet(a) \subseteq ToSet(q) \cap t.critical /\ Distinct(a)
    BY FilterProperties
  <1>2. /\ b \in Seq(Notifications) /\ Distinct(b)
        /\ ToSet(b) \subseteq ToSet(q) \cap (Notifications \ t.critical)
    BY FilterProperties
  <1>3. Sorted(t, q) = a \o b BY DEF Sorted
  <1>4. ToSet(a) \cap ToSet(b) = {} BY <1>1, <1>2
  <1> HIDE DEF a, b
  <1>5. /\ a \o b \in Seq(Notifications)
        /\ ToSet(a \o b) \subseteq ToSet(a) \cup ToSet(b)
        /\ Distinct(a \o b)
    BY <1>1, <1>2, <1>4, ConcatDistinct
  <1> HIDE DEF Distinct
  <1> QED BY <1>1, <1>2, <1>3, <1>5

\* What is critical comes first.
LEMMA SortedHead ==
  ASSUME NEW t, NEW q \in Seq(Notifications), NEW n \in ToSet(q), n \in t.critical
  PROVE  Sorted(t, q) # <<>> /\ Head(Sorted(t, q)) \in t.critical
  <1> DEFINE a == Filter(q, t.critical)
             b == Filter(q, Notifications \ t.critical)
  <1>1. a \in Seq(Notifications) /\ ToSet(a) \subseteq t.critical
    BY FilterProperties
  <1>2. b \in Seq(Notifications) BY FilterProperties
  <1>3. Len(a) > 0
    <2> DEFINE at == {i \in DOMAIN q : q[i] \in t.critical}
    <2>1. /\ ToSet(q) = {q[i] : i \in 1..Len(q)} /\ DOMAIN q = 1..Len(q) /\ Len(q) \in Nat
      BY ToSetProperties, LenProperties
    <2>2. PICK i \in at : q[i] = n BY <2>1
    <2>3. IsFiniteSet(at)
      <3>1. IsFiniteSet(1..Len(q)) /\ at \in SUBSET (1..Len(q)) BY <2>1, FS_Interval
      <3> QED BY <3>1, FS_Subset
    <2>4. Cardinality(at) \in Nat /\ Cardinality(at) # 0
      <3>1. at # {} BY <2>2
      <3> HIDE DEF at
      <3> QED BY <2>3, <3>1, FS_CardinalityType, FS_EmptySet
    <2>5. DOMAIN a = 1..Cardinality(at) BY DEF Filter
    <2>6. Len(a) \in Nat /\ DOMAIN a = 1..Len(a) BY <1>1, LenProperties
    <2> HIDE DEF a, at
    <2>7. 1 \in DOMAIN a BY <2>4, <2>5
    <2> QED BY <2>6, <2>7
  <1>4. Sorted(t, q) = a \o b BY DEF Sorted
  <1> HIDE DEF a, b
  <1>5. a[1] \in t.critical
    <2>1. ToSet(a) = {a[i] : i \in 1..Len(a)} /\ Len(a) \in Nat
      BY <1>1, ToSetProperties, LenProperties
    <2> QED BY <1>1, <1>3, <2>1
  <1>6. /\ a \o b \in Seq(Notifications) /\ Len(a \o b) = Len(a) + Len(b)
        /\ (a \o b)[1] = a[1] /\ Len(a) \in Nat /\ Len(b) \in Nat
    BY <1>1, <1>2, <1>3, ConcatProperties, LenProperties
  <1> QED BY <1>1, <1>2, <1>3, <1>4, <1>5, <1>6

\* The fields of the tray that its contract is about.
Fields ==
  {"queue", "shown", "nState", "life", "muted", "critical", "busy", "reNotify",
   "sState", "clicked", "bState", "bTween", "bItem", "bChild", "leaked", "stack",
   "trayState", "focus", "locked", "hover", "leftTimers", "leftWait",
   "due", "threw", "deep"}

\* What each of them is.
IsTray(t) ==
  /\ Fields \subseteq DOMAIN t
  /\ t.shown \in Notifications \cup {None}
  /\ t.reNotify \in Notifications \cup {None}
  /\ t.clicked \in Sources \cup {None}
  /\ t.bItem \in Sources \cup {None}
  /\ t.nState \in States /\ t.sState \in States
  /\ t.bState \in States /\ t.trayState \in States

\* Nothing is queued twice, and what is shown is not queued.
QueueIsSound(t) ==
  /\ t.queue \in Seq(Notifications)
  /\ Distinct(t.queue)
  /\ t.shown \notin ToSet(t.queue)

\* The box pointer: the lock is the one of a focus; what is in the stack is
\* of the item that is on screen, or of one that is still connected; and a
\* box pointer slides in over the summary.
BoxIsSound(t) ==
  /\ t.stack \subseteq Notifications
  /\ t.locked => t.focus # "none"
  /\ \A s \in Sources : t.bChild = <<s, 1>> => t.bItem = s \/ s \in t.leaked
  /\ \A n \in t.stack :
       \/ SourceOf[n] \in t.leaked
       \/ t.bState # "HIDDEN" /\ t.bItem = SourceOf[n] /\ t.bChild = <<SourceOf[n], 1>>
  /\ t.bTween = "show" => t.sState # "HIDDEN"

\* What holds of the tray in the middle of every handler.
Sound(t) == IsTray(t) /\ QueueIsSound(t) /\ BoxIsSound(t)

\* A handler that calls _updateState() does not take it deeper than the model
\* goes: whatever it finds, and, which is less, while no box pointer is SHOWN.
Callable(t) == Sound(t) /\ ~t.threw /\ ~t.due /\ ~t.deep
EverShallow == \A t : Callable(t) => ~Nested(t).deep
HiddenShallow == \A t : Callable(t) /\ t.bState # "SHOWN" => ~Nested(t).deep
Shallow(t) == EverShallow \/ (HiddenShallow /\ t.bState # "SHOWN")

\* What no handler does: only tweens that end make something SHOWN, or hide
\* the summary, and only a click chooses an item.
StatesKept(t, u) ==
  /\ u.nState = "SHOWN" => t.nState = "SHOWN"
  /\ u.sState = "SHOWN" => t.sState = "SHOWN"
  /\ u.sState = "HIDDEN" => t.sState = "HIDDEN"
  /\ u.bState = "SHOWN" => t.bState = "SHOWN"
  /\ u.clicked \in {t.clicked, None}

\* What a handler queues was queued, or put aside, before; it shows nothing
\* to a busy user but what is critical; and what is critical and new in the
\* queue sends the summary away.
QueueKept(t, u) ==
  /\ ToSet(u.queue) \subseteq ToSet(t.queue) \cup ({t.reNotify} \ {None})
  /\ u.reNotify \in {t.reNotify, None}
  /\ u.shown \in {t.shown, None} \/ ~t.busy \/ u.shown \in t.critical
  /\ u.deep \/ \A n \in ToSet(u.queue) :
                n \in ToSet(t.queue) \/ n \notin t.critical \/ u.sState # "SHOWN"

\* What a handler leaves alone.
RestKept(t, u) ==
  /\ u.life = t.life /\ u.muted = t.muted /\ u.critical = t.critical
  /\ u.busy = t.busy /\ u.hover = t.hover
  /\ u.leftTimers = t.leftTimers /\ u.leftWait = t.leftWait
  /\ t.deep => u.deep
  /\ Shallow(t) /\ u.deep => t.deep

\* The contract of every handler, and of _updateState().
Kept(t, u) == Sound(u) /\ StatesKept(t, u) /\ QueueKept(t, u) /\ RestKept(t, u)

\* What the handlers need of the _updateState() that they call: the
\* contract, and what is urgent at the head of the queue.
NestedKeeps ==
  \A t : Sound(t) /\ ~t.threw /\ ~t.due =>
           /\ Kept(t, Nested(t)) /\ ~Nested(t).due
           /\ Urgent(t) => Nested(t).deep \/ Nested(t).sState # "SHOWN"

\* Handlers that call one another.
LEMMA KeptTrans == ASSUME NEW t, NEW u, NEW v, Kept(t, u), Kept(u, v) PROVE Kept(t, v)
  <1>1. StatesKept(t, v) BY DEF Kept, StatesKept
  <1>2. QueueKept(t, v) BY DEF Kept, QueueKept, RestKept, StatesKept
  <1>3. RestKept(t, v) BY DEF Kept, RestKept, StatesKept, Shallow
  <1> QED BY <1>1, <1>2, <1>3 DEF Kept

\* A handler that returns early.
LEMMA KeptRefl == ASSUME NEW t, Sound(t) PROVE Kept(t, t)
  <1>1. StatesKept(t, t) BY DEF StatesKept
  <1>2. QueueKept(t, t) BY DEF QueueKept
  <1>3. RestKept(t, t) BY DEF RestKept
  <1> QED BY <1>1, <1>2, <1>3 DEF Kept

\* A handler that asks for _updateState().
LEMMA DueKept ==
  ASSUME NEW t, Sound(t)
  PROVE  Kept(t, Due(t)) /\ Due(t).due /\ (Due(t).threw <=> t.threw)
  <1>1. IsTray(Due(t)) BY DEF Sound, IsTray, Due, Fields
  <1>2. QueueIsSound(Due(t)) BY DEF Sound, QueueIsSound, Due, IsTray, Fields
  <1>3. BoxIsSound(Due(t)) BY DEF Sound, BoxIsSound, Due, IsTray, Fields
  <1>4. StatesKept(t, Due(t)) BY DEF StatesKept, Due, Sound, IsTray, Fields
  <1>5. QueueKept(t, Due(t)) BY DEF QueueKept, Due, Sound, IsTray, Fields
  <1>6. RestKept(t, Due(t)) BY DEF RestKept, Due, Sound, IsTray, Fields
  <1> QED BY <1>1, <1>2, <1>3, <1>4, <1>5, <1>6 DEF Kept, Sound, Due, IsTray, Fields

\* The call of _updateState().
LEMMA FinishKept ==
  ASSUME NestedKeeps, NEW t, Sound(t), t.due => ~t.threw
  PROVE  Kept(t, Finish(t)) /\ ~Finish(t).due /\ (~t.due => Finish(t) = t)
  <1> DEFINE a == [t EXCEPT !.due = FALSE]
  <1>1. CASE t.due
    <2>1. Kept(t, a) /\ ~a.due /\ (a.threw <=> t.threw)
      BY DEF Kept, Sound, IsTray, QueueIsSound, BoxIsSound, StatesKept, QueueKept, RestKept,
         Fields
    <2>2. Sound(a) BY <2>1 DEF Kept
    <2> HIDE DEF a
    <2>3. Kept(a, Nested(a)) /\ ~Nested(a).due BY <1>1, <2>1, <2>2 DEF NestedKeeps
    <2> QED BY <1>1, <2>1, <2>3, KeptTrans DEF Finish, a
  <1>2. CASE ~t.due BY <1>2, KeptRefl DEF Finish
  <1> QED BY <1>1, <1>2

\* The end of a signal handler.
LEMMA HandledKept ==
  ASSUME NestedKeeps, NEW t, Sound(t), t.due => ~t.threw
  PROVE  Kept(t, Handled(t)) /\ ~Handled(t).due /\ ~Handled(t).threw
  <1> DEFINE a == Finish(t)
  <1>1. Kept(t, a) /\ ~a.due BY FinishKept
  <1>2. Sound(a) BY <1>1 DEF Kept
  <1> HIDE DEF a
  <1>3. /\ Kept(a, [a EXCEPT !.threw = FALSE])
        /\ ~[a EXCEPT !.threw = FALSE].due /\ ~[a EXCEPT !.threw = FALSE].threw
    BY <1>1, <1>2 DEF Kept, Sound, IsTray, QueueIsSound, BoxIsSound, StatesKept, QueueKept,
       RestKept, Fields
  <1> QED BY <1>1, <1>3, KeptTrans DEF Handled, a

\* focus-ungrabbed.
LEMMA UnlockKept ==
  ASSUME NEW t, Sound(t)
  PROVE  Kept(t, Unlock(t)) /\ (Unlock(t).threw <=> t.threw) /\ ~Unlock(t).locked
      BY DEF Unlock, Due, Kept, Sound, IsTray, QueueIsSound, BoxIsSound, StatesKept,
         QueueKept, RestKept, Fields

\* ungrabFocus().
LEMMA UngrabKept ==
  ASSUME NestedKeeps, NEW t, Sound(t), ~t.threw
  PROVE  Kept(t, Ungrab(t)) /\ ~Ungrab(t).threw /\ (~t.due => ~Ungrab(t).due)
  <1> DEFINE v == Unlock([t EXCEPT !.focus = "none"])
  <1>1. Kept(t, v) /\ (v.threw <=> t.threw)
      BY DEF Unlock, Due, Kept, Sound, IsTray, QueueIsSound, BoxIsSound, StatesKept,
         QueueKept, RestKept, Fields
  <1>2. Sound(v) BY <1>1 DEF Kept
  <1> HIDE DEF v
  <1>3. Kept(v, Handled(v)) /\ ~Handled(v).threw /\ ~Handled(v).due
    BY <1>1, <1>2, HandledKept
  <1>4. Kept(t, Handled(v)) BY <1>1, <1>3, KeptTrans
  <1> QED BY <1>3, <1>4, KeptRefl DEF Ungrab, v

\* grabFocus(): it throws only when it is given nothing.
LEMMA GrabKept ==
  ASSUME NEW t, Sound(t), NEW what, what # "none"
  PROVE  Kept(t, Grab(t, what)) /\ (Grab(t, what).threw => t.threw \/ what = "nothing")
      /\ (Grab(t, what).due <=> t.due)
      BY ZenonT(60) DEF Grab, Kept, Sound, IsTray, QueueIsSound, BoxIsSound, StatesKept, QueueKept,
         RestKept, Fields

\* _unsetClickedSummaryItem().
LEMMA UnsetClickedKept ==
  ASSUME NEW t, Sound(t)
  PROVE  /\ Kept(t, UnsetClicked(t))
         /\ (UnsetClicked(t).threw <=> t.threw)
         /\ (UnsetClicked(t).due <=> t.due)
      BY DEF UnsetClicked, Kept, Sound, IsTray, QueueIsSound, BoxIsSound, StatesKept,
         QueueKept, RestKept, Fields

\* _escapeTray().
LEMMA EscapeTrayKept ==
  ASSUME NestedKeeps, NEW t, Sound(t), ~t.threw
  PROVE  Kept(t, EscapeTray(t)) /\ (EscapeTray(t).due => ~EscapeTray(t).threw)
  <1> DEFINE x == Finish(Unlock(t))
  <1> DEFINE y == Due(UnsetSummaryTimeout(
                   [x EXCEPT !.inTray = FALSE, !.inSummary = FALSE, !.nTimer = FALSE]))
  <1>1. Kept(t, x) /\ ~x.due
    <2>1. Sound(Unlock(t)) BY UnlockKept DEF Kept
    <2> QED BY <2>1, UnlockKept, FinishKept, KeptTrans
  <1>2. Sound(x) BY <1>1 DEF Kept
  <1>3. EscapeTray(t) = IF x.threw THEN x ELSE y BY DEF EscapeTray
  <1> HIDE DEF x
  <1>4. Kept(x, y) /\ (y.threw <=> x.threw)
    BY <1>2 DEF Due, UnsetSummaryTimeout, Kept, Sound, IsTray, QueueIsSound, BoxIsSound,
       StatesKept, QueueKept, RestKept, Fields
  <1> HIDE DEF y
  <1>5. Kept(t, y) BY <1>1, <1>4, KeptTrans
  <1> QED BY <1>1, <1>3, <1>4, <1>5

\* An actor that is hidden may have had the focus.
LEMMA HideKept ==
  ASSUME NestedKeeps, NEW t, Sound(t), ~t.threw, NEW what
  PROVE  Kept(t, Hide(t, what)) /\ ~Hide(t, what).threw /\ (~t.due => ~Hide(t, what).due)
  BY UngrabKept, KeptRefl DEF Hide

\* What only moves or restarts the tween of the notification.
LEMMA OnExpandedKept ==
  ASSUME NEW t, Sound(t)
  PROVE  /\ Kept(t, OnExpanded(t))
         /\ (OnExpanded(t).threw <=> t.threw)
         /\ (OnExpanded(t).due <=> t.due)
      BY DEF OnExpanded, States, Kept, Sound, IsTray, QueueIsSound, BoxIsSound, StatesKept,
         QueueKept, RestKept, Fields

\* _expandNotification().
LEMMA ExpandKept ==
  ASSUME NEW t, Sound(t), ~t.threw, NEW auto \in BOOLEAN
  PROVE  /\ Kept(t, Expand(t, auto))
         /\ ~Expand(t, auto).threw
         /\ (Expand(t, auto).due <=> t.due)
  <1> DEFINE u == IF auto THEN t ELSE Grab(t, "notice")
             v == [u EXCEPT !.exConn = TRUE, !.expanded = @ \cup {t.shown}]
  <1>1. Kept(t, u) /\ ~u.threw /\ (u.due <=> t.due) BY GrabKept, KeptRefl
  <1>2. Sound(u) BY <1>1 DEF Kept
  <1> HIDE DEF u
  <1>3. Kept(u, v) /\ ~v.threw /\ (v.due <=> u.due)
    BY <1>1, <1>2 DEF Kept, Sound, IsTray, QueueIsSound, BoxIsSound, StatesKept, QueueKept,
       RestKept, Fields
  <1>4. Sound(v) BY <1>3 DEF Kept
  <1> HIDE DEF v
  <1>5. Kept(t, v) BY <1>1, <1>3, KeptTrans
  <1>6. Kept(t, OnExpanded(v)) BY <1>4, <1>5, OnExpandedKept, KeptTrans
  <1> QED BY <1>1, <1>3, <1>4, <1>6, OnExpandedKept DEF Expand, u, v

\* _updateShowingNotification().
LEMMA UpdateShowingKept ==
  ASSUME NEW t, Sound(t), ~t.threw
  PROVE  /\ Kept(t, UpdateShowing(t))
         /\ ~UpdateShowing(t).threw
         /\ (UpdateShowing(t).due <=> t.due)
  <1> DEFINE u == [t EXCEPT !.nTweens = {}]
             v == IF t.shown \in t.critical \cup t.expanded THEN Expand(u, TRUE) ELSE u
             w == [v EXCEPT !.nTweens = @ \cup {"show"}, !.nState = "SHOWING"]
  <1>1. Kept(t, u) /\ ~u.threw /\ (u.due <=> t.due)
    BY DEF Kept, Sound, IsTray, QueueIsSound, BoxIsSound, StatesKept, QueueKept, RestKept,
       Fields
  <1>2. Sound(u) BY <1>1 DEF Kept
  <1> HIDE DEF u
  <1>3. Kept(u, v) /\ ~v.threw /\ (v.due <=> t.due) BY <1>1, <1>2, ExpandKept, KeptRefl
  <1>4. Sound(v) BY <1>3 DEF Kept
  <1> HIDE DEF v
  <1>5. Kept(v, w) /\ ~w.threw /\ (w.due <=> v.due)
    BY <1>3, <1>4 DEF States, Kept, Sound, IsTray, QueueIsSound, BoxIsSound, StatesKept,
       QueueKept, RestKept, Fields
  <1>6. UpdateShowing(t) = w BY DEF UpdateShowing, u, v
  <1> HIDE DEF w
  <1> QED BY <1>1, <1>3, <1>5, <1>6, KeptTrans

\* It does not look at the queue.
LEMMA UpdateShowingQueue ==
  ASSUME NEW t, Sound(t)
  PROVE  UpdateShowing(t).queue = t.queue
  BY DEF UpdateShowing, Expand, OnExpanded, Sound, IsTray, Fields

\* _showNotification(), of what is pending.
LEMMA ShowNotificationKept ==
  ASSUME TrayConstants, NEW t, Sound(t), ~t.threw, NotificationsPending(t)
  PROVE  /\ Kept(t, ShowNotification(t))
         /\ ~ShowNotification(t).threw
         /\ (ShowNotification(t).due <=> t.due)
  <1> DEFINE n == Head(t.queue)
             u == [t EXCEPT !.queue = Tail(@), !.shown = n, !.raised = FALSE,
                          !.unseen = Append(@, n), !.watch = TRUE,
                          !.showMouse = TRUE,
                          !.missed = IF t.userIdle THEN @ \cup {n} ELSE @ \ {n}]
  <1>1. t.queue \in Seq(Notifications) /\ t.queue # <<>> /\ Distinct(t.queue)
    BY DEF Sound, QueueIsSound, NotificationsPending, Urgent
  <1>2. /\ n \in Notifications /\ Tail(t.queue) \in Seq(Notifications)
        /\ ToSet(Tail(t.queue)) \subseteq ToSet(t.queue) /\ n \notin ToSet(Tail(t.queue))
        /\ Distinct(Tail(t.queue))
    BY <1>1, TailProperties
  <1>4. ~t.busy \/ n \in t.critical
    BY DEF NotificationsPending, Urgent
  <1> HIDE DEF n
  <1>5. /\ u.queue = Tail(t.queue) /\ u.shown = n
    BY DEF Sound, IsTray, Fields
  <1>6. /\ IsTray(u) /\ BoxIsSound(u) /\ StatesKept(t, u) /\ RestKept(t, u)
        /\ ~u.threw /\ (u.due <=> t.due) /\ u.reNotify = t.reNotify
    BY <1>2 DEF Sound, IsTray, BoxIsSound, StatesKept, RestKept, Fields
  <1> HIDE DEF u
  <1>7. QueueIsSound(u) BY <1>2, <1>5 DEF QueueIsSound
  <1>8. QueueKept(t, u) BY <1>2, <1>4, <1>5, <1>6 DEF QueueKept
  <1>9. Kept(t, u) /\ Sound(u) BY <1>6, <1>7, <1>8 DEF Kept, Sound
  <1>10. Kept(t, UpdateShowing(u)) BY <1>6, <1>9, UpdateShowingKept, KeptTrans
  <1> QED BY <1>6, <1>9, <1>10, UpdateShowingKept DEF ShowNotification, u, n

\* _hideNotification().
LEMMA HideNotificationKept ==
  ASSUME NestedKeeps, NEW t, Sound(t), ~t.threw
  PROVE  /\ Kept(t, HideNotification(t))
         /\ ~HideNotification(t).threw
         /\ (~t.due => ~HideNotification(t).due)
  <1> DEFINE u == Ungrab(t)
             v == [u EXCEPT !.exConn = FALSE, !.raised = FALSE,
                            !.nTweens = {"hide"}, !.nState = "HIDING"]
  <1>1. Kept(t, u) /\ ~u.threw /\ (~t.due => ~u.due) BY UngrabKept
  <1>2. Sound(u) BY <1>1 DEF Kept
  <1> HIDE DEF u
  <1>3. Kept(u, v) /\ ~v.threw /\ (v.due <=> u.due)
    BY <1>1, <1>2 DEF States, Kept, Sound, IsTray, QueueIsSound, BoxIsSound, StatesKept,
       QueueKept, RestKept, Fields
  <1> HIDE DEF v
  <1> QED BY <1>1, <1>3, KeptTrans DEF HideNotification, u, v

\* Sources come and go.
LEMMA OnSourceDestroyKept ==
  ASSUME NEW t, Sound(t), NEW s
  PROVE  Kept(t, OnSourceDestroy(t, s)) /\ (OnSourceDestroy(t, s).threw <=> t.threw)
  BY DEF OnSourceDestroy, UnsetClicked, Kept, Sound, IsTray, QueueIsSound, BoxIsSound,
     StatesKept,
      QueueKept, RestKept, Fields

\* Source.destroy(), before the tray has updated.
LEMMA SourceDestroyedKept ==
  ASSUME NEW t, Sound(t), NEW s
  PROVE  Kept(t, SourceDestroyed(t, s)) /\ (SourceDestroyed(t, s).threw <=> t.threw)
  <1> DEFINE u == [t EXCEPT !.gone = @ \cup {s}]
  <1>1. Kept(t, u) /\ (u.threw <=> t.threw)
    BY DEF Kept, Sound, IsTray, QueueIsSound, BoxIsSound, StatesKept,
      QueueKept, RestKept, Fields
  <1>2. Sound(u) BY <1>1 DEF Kept
  <1>3. SourceDestroyed(t, s) = OnSourceDestroy(u, s) BY DEF SourceDestroyed
  <1> HIDE DEF u
  <1> QED BY <1>1, <1>2, <1>3, OnSourceDestroyKept, KeptTrans

\* Source.destroy(), with the handlers of its signal.
LEMMA DestroySourceKept ==
  ASSUME NestedKeeps, NEW t, Sound(t), ~t.threw, NEW s
  PROVE  /\ Kept(t, DestroySource(t, s))
         /\ ~DestroySource(t, s).threw /\ ~DestroySource(t, s).due
  <1> DEFINE u == SourceDestroyed(t, s)
  <1>1. Kept(t, u) /\ ~u.threw BY SourceDestroyedKept
  <1>2. Sound(u) BY <1>1 DEF Kept
  <1> HIDE DEF u
  <1>3. Kept(u, Handled(u)) /\ ~Handled(u).threw /\ ~Handled(u).due
    BY <1>1, <1>2, HandledKept
  <1> QED BY <1>1, <1>3, KeptTrans DEF DestroySource, u

\* What is critical comes to the head of the queue.
Presses(t, u) ==
  \/ \A m \in ToSet(u.queue) : m \in ToSet(t.queue) \/ m \notin u.critical
  \/ u.due /\ Urgent(u)

\* A notification that is told, but for one that is put aside.
LEMMA OnNotifyKept ==
  ASSUME TrayConstants, NEW t, Sound(t), ~t.threw, NEW n \in Notifications
  PROVE  LET u == OnNotify(t, n) IN
         /\ Sound(u) /\ StatesKept(t, u) /\ RestKept(t, u) /\ ~u.threw
         /\ ToSet(u.queue) \subseteq ToSet(t.queue) \cup {n} \cup ({t.reNotify} \ {None})
         /\ u.reNotify \in {t.reNotify, None, n}
         /\ u.reNotify \in {t.reNotify, None} \/ t.bItem = SourceOf[n]
         /\ u.shown \in {t.shown, None} \/ ~t.busy \/ u.shown \in t.critical
         /\ Presses(t, u)
  <1> DEFINE u == OnNotify(t, n)
  <1>1. CASE t.bItem = SourceOf[n]
    <2> DEFINE v == [t EXCEPT !.reNotify = n]
    <2>1. /\ Sound(v) /\ StatesKept(t, v) /\ RestKept(t, v) /\ ~v.threw
          /\ v.queue = t.queue /\ v.reNotify = n /\ v.shown = t.shown
      BY DEF Kept, Sound, IsTray, QueueIsSound, BoxIsSound, StatesKept,
      QueueKept, RestKept, Fields
    <2>2. u \in {v, t} BY <1>1 DEF OnNotify
    <2>3. StatesKept(t, t) /\ RestKept(t, t) BY DEF StatesKept, RestKept
    <2> HIDE DEF u, v
    <2> QED BY <1>1, <2>1, <2>2, <2>3 DEF Presses, u
  <1>2. CASE t.bItem # SourceOf[n] /\ t.shown = n
    <2> DEFINE v == UpdateShowing(t)
    <2>1. Kept(t, v) /\ ~v.threw BY UpdateShowingKept
    <2>2. Sound(v) BY <2>1 DEF Kept
    <2>3. u = Due(v) BY <1>2 DEF OnNotify
    <2> HIDE DEF u, v
    <2>4. Kept(t, u) /\ ~u.threw BY <2>1, <2>2, <2>3, DueKept, KeptTrans
    <2>5. u.queue = t.queue
      BY <2>2, <2>3, UpdateShowingQueue DEF Due, Sound, IsTray, Fields, v
    <2> QED BY <2>4, <2>5 DEF Kept, QueueKept, Presses, u
  <1>3. CASE t.bItem # SourceOf[n] /\ t.shown # n /\ Contains(t.queue, n)
    <2>1. u = Due(t) BY <1>3 DEF OnNotify
    <2>2. Kept(t, u) /\ ~u.threw BY <2>1, DueKept
    <2>3. u.queue = t.queue BY <2>1 DEF Due, Sound, IsTray, Fields
    <2> HIDE DEF u
    <2> QED BY <2>2, <2>3 DEF Kept, QueueKept, Presses, u
  <1>4. CASE t.bItem # SourceOf[n] /\ t.shown # n /\ ~Contains(t.queue, n)
    <2> DEFINE q == t.queue
               v == [t EXCEPT !.queue = Sorted(t, Append(q, n))]
    <2>1. q \in Seq(Notifications) /\ Distinct(q) /\ t.shown \notin ToSet(q)
      BY DEF Sound, QueueIsSound
    <2>2. u = Due(v) BY <1>4 DEF OnNotify
    <2>3. v.queue = Sorted(t, Append(q, n)) /\ v.shown = t.shown /\ v.reNotify = t.reNotify
      BY DEF Sound, IsTray, Fields
    <2>4. IsTray(v) /\ BoxIsSound(v) /\ StatesKept(t, v) /\ RestKept(t, v) /\ ~v.threw
      BY DEF Kept, Sound, IsTray, QueueIsSound, BoxIsSound, StatesKept,
      QueueKept, RestKept, Fields
    <2> HIDE DEF q, v, u
    <2>5. ~Contains(q, n) BY <1>4 DEF q
    <2>6. /\ Append(q, n) \in Seq(Notifications) /\ Distinct(Append(q, n))
          /\ ToSet(Append(q, n)) = ToSet(q) \cup {n}
      <3>1. ToSet(q) = {q[i] : i \in 1..Len(q)} BY <2>1, ToSetProperties
      <3>2. n \notin ToSet(q) BY <2>5, <3>1 DEF Contains
      <3>3. \A i, j \in 1..Len(q) : q[i] = q[j] => i = j BY <2>1 DEF Distinct
      <3>4. \A i, j \in 1..Len(Append(q, n)) : Append(q, n)[i] = Append(q, n)[j] => i = j
        BY <2>1, <3>2, <3>3, AppendDistinct
      <3> QED BY <2>1, <3>4, AppendProperties, ToSetAppend DEF Distinct
    <2>7. /\ v.queue \in Seq(Notifications) /\ Distinct(v.queue)
          /\ ToSet(v.queue) \subseteq ToSet(q) \cup {n}
      BY <2>3, <2>6, SortedProperties
    <2>8. Sound(v) BY <1>4, <2>1, <2>3, <2>4, <2>7 DEF Sound, QueueIsSound
    <2>9. Kept(v, u) /\ ~u.threw BY <2>2, <2>4, <2>8, DueKept
    <2>10. Sound(u) /\ StatesKept(t, u) /\ RestKept(t, u)
      BY <2>4, <2>9 DEF Kept, StatesKept, RestKept, Shallow
    <2>11. u.queue = v.queue /\ u.shown = v.shown /\ u.reNotify = v.reNotify /\ u.due
      BY <2>2, <2>4 DEF Due, IsTray, Fields
    <2>12. Presses(t, u)
      <3>1. u.critical = t.critical BY <2>10 DEF RestKept
      <3>2. CASE n \in t.critical
        <4>1. v.queue # <<>> /\ Head(v.queue) \in t.critical BY <2>3, <2>6, <3>2, SortedHead
        <4> QED BY <2>11, <3>1, <4>1 DEF Presses, Urgent
      <3>3. CASE n \notin t.critical BY <2>7, <2>11, <3>1, <3>3 DEF Presses, q
      <3> QED BY <3>2, <3>3
    <2> QED BY <1>4, <2>3, <2>7, <2>9, <2>10, <2>11, <2>12 DEF u, q
  <1> QED BY <1>1, <1>2, <1>3, <1>4

\* _onNotificationDestroy(): what is destroyed is not queued any more.
LEMMA OnNotificationDestroyKept ==
  ASSUME NEW t, Sound(t), ~t.threw, NEW n
  PROVE  /\ Kept(t, OnNotificationDestroy(t, n)) /\ ~OnNotificationDestroy(t, n).threw
         /\ n \notin ToSet(OnNotificationDestroy(t, n).queue)
  <1> DEFINE q == t.queue
             u == [t EXCEPT !.unseen = Without(@, n)]
             r == OnNotificationDestroy(t, n)
  <1>1. q \in Seq(Notifications) /\ Distinct(q) /\ t.shown \notin ToSet(q)
    BY DEF Sound, QueueIsSound
  <1>2. /\ Without(q, n) \in Seq(Notifications) /\ Distinct(Without(q, n))
        /\ ToSet(Without(q, n)) \subseteq ToSet(q) \ {n}
    BY <1>1, WithoutProperties
  <1>3. CASE n = t.shown /\ Visible(t.nState)
    <2>1. r = Due([u EXCEPT !.nTimer = FALSE, !.removed = TRUE])
      BY <1>3 DEF OnNotificationDestroy
    <2>2. Kept(t, r) /\ ~r.threw /\ r.queue = t.queue
      BY <2>1 DEF Due, Kept, Sound, IsTray, QueueIsSound, BoxIsSound, StatesKept,
      QueueKept, RestKept, Fields
    <2> QED BY <1>1, <1>3, <2>2
  <1>4. CASE ~(n = t.shown /\ Visible(t.nState))
    <2>1. r = [u EXCEPT !.queue = Without(q, n)]
      BY <1>4 DEF OnNotificationDestroy, Sound, IsTray, Fields
    <2>2. r.queue = Without(q, n) /\ r.shown = t.shown /\ r.reNotify = t.reNotify
      BY <2>1 DEF Sound, IsTray, Fields
    <2>3. IsTray(r) /\ BoxIsSound(r) /\ StatesKept(t, r) /\ RestKept(t, r) /\ ~r.threw
      BY <2>1 DEF Kept, Sound, IsTray, QueueIsSound, BoxIsSound, StatesKept,
      QueueKept, RestKept, Fields
    <2> HIDE DEF r, q
    <2>4. QueueIsSound(r) /\ QueueKept(t, r)
      BY <1>1, <1>2, <2>2 DEF QueueIsSound, QueueKept, q
    <2> QED BY <1>2, <2>2, <2>3, <2>4 DEF Kept, Sound, r
  <1> QED BY <1>3, <1>4

\* A notification that was put aside is told, and _updateState() called.
LEMMA ToldKept ==
  ASSUME NestedKeeps, NEW b, NEW c, Sound(c), StatesKept(b, c), RestKept(b, c), ~c.threw,
         ToSet(c.queue) \subseteq ToSet(b.queue) \cup {b.reNotify} \cup ({b.reNotify} \ {None}),
         b.reNotify # None, c.reNotify \in {b.reNotify, None},
         c.shown \in {b.shown, None} \/ ~b.busy \/ c.shown \in b.critical,
         Presses(b, c)
  PROVE  Kept(b, Finish(c))
  <1> DEFINE d == Finish(c)
             a == [c EXCEPT !.due = FALSE]
  <1>1. Kept(c, d) BY FinishKept
  <1>2. d.deep \/ d.sState # "SHOWN"
          \/ \A m \in ToSet(c.queue) : m \in ToSet(b.queue) \/ m \notin c.critical
    <2>1. CASE c.due /\ Urgent(c)
      <3>1. d = Nested(a) BY <2>1 DEF Finish
      <3>2. Sound(a) /\ ~a.threw /\ ~a.due /\ Urgent(a)
        BY <2>1 DEF Urgent, Sound, IsTray, QueueIsSound, BoxIsSound, Fields
      <3> HIDE DEF a, d
      <3> QED BY <3>1, <3>2 DEF NestedKeeps
    <2> QED BY <2>1 DEF Presses
  <1> HIDE DEF d
  <1>3. StatesKept(b, d) BY <1>1 DEF Kept, StatesKept
  <1>4. RestKept(b, d) BY <1>1 DEF Kept, RestKept, StatesKept, Shallow
  <1>5. QueueKept(b, d) BY <1>1, <1>2 DEF Kept, QueueKept, RestKept, StatesKept
  <1> QED BY <1>1, <1>3, <1>4, <1>5 DEF Kept, d

\* The box pointer.
LEMMA HideBoxCompletedKept ==
  ASSUME TrayConstants, NestedKeeps, NEW t, Sound(t), ~t.threw
  PROVE  /\ Kept(t, HideBoxCompleted(t))
         /\ HideBoxCompleted(t).due => ~HideBoxCompleted(t).threw \/ t.due
  <1> DEFINE s == t.bItem
             a == [t EXCEPT !.bState = "HIDDEN", !.bChild = None, !.bItem = None]
             updated(u) == [u EXCEPT !.due = ~u.threw /\ u.clicked # None]
  <1>1. CASE s = None
    <2>1. HideBoxCompleted(t) = [t EXCEPT !.threw = TRUE] BY <1>1 DEF HideBoxCompleted
    <2> QED BY <2>1 DEF Kept, Sound, IsTray, QueueIsSound, BoxIsSound, StatesKept,
      QueueKept, RestKept, Fields
  <1>2. ASSUME NEW u, Sound(u) PROVE Kept(u, updated(u)) /\ (updated(u).due => ~updated(u).threw)
    BY <1>2, ZenonT(60) DEF Kept, Sound, IsTray, QueueIsSound, BoxIsSound, StatesKept,
      QueueKept, RestKept, Fields
  <1>3. CASE s # None /\ t.bChild # <<s, 1>>
    <2>1. Kept(t, a) /\ Sound(a)
      BY <1>3 DEF States, TrayConstants, Kept, Sound, IsTray, QueueIsSound, BoxIsSound,
         StatesKept,
      QueueKept, RestKept, Fields
    <2>2. HideBoxCompleted(t) = updated(a) BY <1>3 DEF HideBoxCompleted
    <2> HIDE DEF a, updated
    <2> QED BY <1>2, <2>1, <2>2, KeptTrans
  <1>4. CASE s # None /\ t.bChild = <<s, 1>>
    <2> DEFINE b == DoneShowingStack(a, s)
               c == CASE b.reNotify # None -> OnNotify(b, b.reNotify)
                      [] b.reNotify = None /\ s \in TransientSources -> SourceDestroyed(b, s)
                      [] OTHER -> b
               d == Finish(c)
               e == IF d.threw /\ d.reNotify # None THEN d
                    ELSE [d EXCEPT !.reNotify = None, !.threw = FALSE]
    <2>1. Kept(t, b) /\ Sound(b) /\ ~b.threw /\ b.bItem = None
      BY <1>4 DEF DoneShowingStack, StackOf, States, TrayConstants, Kept, Sound, IsTray,
         QueueIsSound, BoxIsSound, StatesKept,
      QueueKept, RestKept, Fields
    <2>2. HideBoxCompleted(t) = updated(e) BY <1>4 DEF HideBoxCompleted
    <2> HIDE DEF a, b, updated
    <2>3. Kept(b, d)
      <3>1. CASE b.reNotify # None
        <4>1. b.reNotify \in Notifications BY <2>1, <3>1 DEF Sound, IsTray
        <4>2. SourceOf[b.reNotify] # None BY <4>1 DEF TrayConstants
        <4>3. c = OnNotify(b, b.reNotify) BY <3>1
        <4> HIDE DEF c
        <4>4. /\ Sound(c) /\ StatesKept(b, c) /\ RestKept(b, c) /\ ~c.threw
              /\ ToSet(c.queue) \subseteq ToSet(b.queue) \cup {b.reNotify} \cup ({b.reNotify} \ {None})
              /\ c.reNotify \in {b.reNotify, None}
              /\ c.shown \in {b.shown, None} \/ ~b.busy \/ c.shown \in b.critical
              /\ Presses(b, c)
          BY <2>1, <4>1, <4>2, <4>3, OnNotifyKept, SMTT(30)
        <4> QED BY <3>1, <4>4, ToldKept
      <3>2. CASE b.reNotify = None
        <4>1. Kept(b, c) /\ ~c.threw BY <2>1, <3>2, SourceDestroyedKept, KeptRefl
        <4> HIDE DEF c
        <4> QED BY <4>1, FinishKept, KeptTrans DEF Kept
      <3> QED BY <3>1, <3>2
    <2> HIDE DEF c
    <2>4. Kept(b, d) BY <2>3
    <2> HIDE DEF d
    <2>5. Sound(d) BY <2>4 DEF Kept
    <2>6. Kept(d, e) /\ Sound(e)
      BY <2>5 DEF Kept, Sound, IsTray, QueueIsSound, BoxIsSound, StatesKept,
      QueueKept, RestKept, Fields
    <2> HIDE DEF e
    <2> QED BY <1>2, <2>1, <2>2, <2>4, <2>6, KeptTrans
  <1> QED BY <1>1, <1>3, <1>4

\* _hideSummaryBoxPointer(): it is not SHOWN then, and an item that has no
\* summary over it is unset.
LEMMA HideBoxKept ==
  ASSUME TrayConstants, NestedKeeps, NEW t, Sound(t), ~t.threw, ~t.due
  PROVE  LET u == HideBox(t) IN
         /\ Kept(t, u) /\ ~u.due /\ u.bState # "SHOWN"
         /\ t.bState # "HIDING" /\ t.sState # "SHOWN" => u.clicked = None
  <1> DEFINE r == HideBox(t)
             u == [t EXCEPT !.bState = "HIDING"]
             w == IF t.sState # "SHOWN" THEN UnsetClicked(u) ELSE u
             x == Ungrab(w)
             y == HideBoxCompleted(x)
  <1>1. CASE t.bState = "HIDING" /\ t.bItem = None
    <2>1. r = [t EXCEPT !.threw = TRUE] BY <1>1 DEF HideBox
    <2> HIDE DEF r
    <2>2. Kept(t, r) /\ ~r.due /\ r.bState = "HIDING"
      BY <1>1, <2>1 DEF Kept, Sound, IsTray, QueueIsSound, BoxIsSound, StatesKept,
      QueueKept, RestKept, Fields
    <2> QED BY <1>1, <2>2 DEF r
  <1>2. CASE t.bState = "HIDING" /\ t.bItem # None /\ StackOf(t, t.bItem) = {}
    BY <1>2, KeptRefl DEF HideBox
  <1>3. CASE ~(t.bState = "HIDING" /\ (t.bItem = None \/ StackOf(t, t.bItem) = {}))
    <2>1. /\ Kept(t, w) /\ Sound(w) /\ ~w.threw /\ ~w.due /\ w.bState = "HIDING"
          /\ t.sState # "SHOWN" => w.clicked = None
      BY DEF UnsetClicked, States, TrayConstants, Kept, Sound, IsTray, QueueIsSound,
         BoxIsSound, StatesKept,
      QueueKept, RestKept, Fields
    <2>2. \/ r = [x EXCEPT !.threw = TRUE]
          \/ r = Finish(y)
          \/ r = [x EXCEPT !.bTween = "hide"]
      BY <1>3 DEF HideBox, UnsetClicked
    <2> HIDE DEF r, w
    <2>3. Kept(w, x) /\ Sound(x) /\ ~x.threw /\ ~x.due BY <2>1, UngrabKept DEF Kept
    <2> HIDE DEF x
    <2>4. Kept(x, r) /\ ~r.due
      <3>1. CASE r = [x EXCEPT !.threw = TRUE]
        BY <2>3, <3>1 DEF Kept, Sound, IsTray, QueueIsSound, BoxIsSound, StatesKept,
      QueueKept, RestKept, Fields
      <3>2. CASE r = [x EXCEPT !.bTween = "hide"]
        BY <2>3, <3>2 DEF Kept, Sound, IsTray, QueueIsSound, BoxIsSound, StatesKept,
      QueueKept, RestKept, Fields
      <3>3. CASE r = Finish(y)
        <4>1. Kept(x, y) /\ (y.due => ~y.threw) BY <2>3, HideBoxCompletedKept
        <4>2. Sound(y) BY <4>1 DEF Kept
        <4> QED BY <3>3, <4>1, <4>2, FinishKept, KeptTrans
      <3> QED BY <2>2, <3>1, <3>2, <3>3
    <2>5. Kept(w, r) BY <2>3, <2>4, KeptTrans
    <2>6. Kept(t, r) BY <2>1, <2>5, KeptTrans
    <2>7. r.bState # "SHOWN" /\ (t.sState # "SHOWN" => r.clicked = None)
      BY <2>1, <2>5 DEF Kept, StatesKept
    <2> QED BY <2>4, <2>6, <2>7 DEF r
  <1> QED BY <1>1, <1>2, <1>3

\* While the box pointer is filled: what is in the stack is of its item, or of
\* one that is still connected.
Filled(t, s, u) ==
  /\ IsTray(u) /\ QueueIsSound(u) /\ StatesKept(t, u) /\ QueueKept(t, u) /\ RestKept(t, u)
  /\ ~u.threw /\ (u.due <=> t.due) /\ u.bItem = s /\ u.sState # "HIDDEN"
  /\ (u.locked => u.focus # "none") /\ u.stack \subseteq Notifications
  /\ \A n \in u.stack : SourceOf[n] \in u.leaked \/ SourceOf[n] = s

\* The notification in the bin may be expanded with those in the stack.
LEMMA FilledOnExpanded ==
  ASSUME NEW t, NEW s, NEW u, Filled(t, s, u)
  PROVE  Filled(t, s, OnExpanded(u))
  BY DEF Filled, OnExpanded, States, IsTray, QueueIsSound, StatesKept, QueueKept,
     RestKept, Fields

\* The content is set.
LEMMA FilledChild ==
  ASSUME NEW t, NEW s, NEW u, Filled(t, s, u), NEW c
  PROVE  Filled(t, s, [u EXCEPT !.bChild = c])
  BY DEF Filled, IsTray, QueueIsSound, StatesKept, QueueKept, RestKept, Fields

\* The content has the focus.
LEMMA FilledFocus ==
  ASSUME NEW t, NEW s, NEW u, Filled(t, s, u)
  PROVE  LET v == [u EXCEPT !.focus = "box", !.locked = TRUE, !.threw = FALSE] IN
         Filled(t, s, v) /\ v.bChild = u.bChild
  BY DEF Filled, IsTray, QueueIsSound, StatesKept, QueueKept, RestKept, Fields

\* _showSummaryBoxPointer().
LEMMA ShowBoxKept ==
  ASSUME TrayConstants, NEW t, Sound(t), ~t.threw,
         t.clicked # None => t.sState # "HIDDEN"
  PROVE  Kept(t, ShowBox(t)) /\ (ShowBox(t).due <=> t.due)
  <1> DEFINE r == ShowBox(t)
             s == t.clicked
             u == [t EXCEPT !.bItem = s,
                     !.leaked = IF t.bItem = None THEN @ ELSE @ \cup {t.bItem}]
             v == CASE t.button = 1 -> [PrepareStack([u EXCEPT !.queue = NotOf(@, s)], s)
                                          EXCEPT !.bChild = <<s, 1>>]
                    [] t.button = 3 -> [u EXCEPT !.bChild = <<s, 3>>]
                    [] OTHER        -> u
             w == Grab(v, IF v.bChild # None THEN "box" ELSE "nothing")
             x == [w EXCEPT !.bState = "SHOWING", !.bTween = "show"]
  <1>1. Sound(u) /\ Kept(t, u) /\ ~u.threw /\ u.bItem = s
        /\ (u.due <=> t.due) /\ u.sState = t.sState
        /\ \A n \in u.stack : SourceOf[n] \in u.leaked
    BY DEF TrayConstants, Kept, Sound, IsTray, QueueIsSound, BoxIsSound, StatesKept,
      QueueKept, RestKept, Fields
  <1>2. CASE s = None
    <2>1. r = [u EXCEPT !.threw = TRUE] BY <1>2 DEF ShowBox
    <2> HIDE DEF u, r
    <2>2. Kept(u, r) /\ (r.due <=> u.due)
      BY <1>1, <2>1 DEF Kept, Sound, IsTray, QueueIsSound, BoxIsSound, StatesKept,
      QueueKept, RestKept, Fields
    <2> QED BY <1>1, <2>2, KeptTrans DEF r
  <1>3. CASE s # None
    <2>1. r = IF w.threw THEN w ELSE x BY <1>3 DEF ShowBox
    <2>2. s \in Sources /\ u.sState # "HIDDEN" BY <1>1, <1>3 DEF Sound, IsTray
    <2> HIDE DEF u, r
    <2>3. CASE t.button = 1
      <3> DEFINE a == [u EXCEPT !.queue = NotOf(@, s)]
                 p == PrepareStack(a, s)
      <3>1. a.queue = NotOf(u.queue, s) /\ a.shown = u.shown /\ a.reNotify = u.reNotify
        BY <1>1 DEF Sound, IsTray, Fields
      <3>2. IsTray(a) /\ BoxIsSound(a) /\ StatesKept(u, a) /\ RestKept(u, a)
            /\ ~a.threw /\ (a.due <=> u.due) /\ a.sState # "HIDDEN"
            /\ a.bItem = s /\ \A n \in a.stack : SourceOf[n] \in a.leaked
        BY <1>1, <2>2 DEF Kept, Sound, IsTray, QueueIsSound, BoxIsSound, StatesKept,
      QueueKept, RestKept, Fields
      <3>3. QueueIsSound(u) BY <1>1 DEF Sound
      <3> HIDE DEF a
      <3>4. QueueIsSound(a) /\ QueueKept(u, a)
        <4>1. /\ NotOf(u.queue, s) \in Seq(Notifications) /\ Distinct(NotOf(u.queue, s))
              /\ ToSet(NotOf(u.queue, s)) \subseteq ToSet(u.queue)
          BY <3>3, FilterProperties DEF QueueIsSound, NotOf
        <4> QED BY <3>1, <3>3, <4>1 DEF QueueIsSound, QueueKept
      <3>5. Sound(a) /\ Kept(u, a) BY <3>2, <3>4 DEF Sound, Kept
      <3>6. Filled(a, s, p)
        <4> DEFINE added == IF StackOf(a, s) = {} THEN NotificationsOf(a, s) ELSE {}
                   b == [a EXCEPT !.stack = @ \cup added, !.expanded = @ \cup added]
        <4>1. p = OnExpanded(b) \/ p = b BY DEF PrepareStack
        <4>2. added \subseteq Notifications /\ \A n \in added : SourceOf[n] = s
          BY DEF NotificationsOf
        <4> HIDE DEF added, p
        <4>3. Filled(a, s, b)
          BY <3>2, <3>5, <4>2 DEF Filled, Kept, Sound, IsTray, QueueIsSound, BoxIsSound,
             StatesKept, QueueKept, RestKept, Fields
        <4> HIDE DEF b
        <4> QED BY <4>1, <4>3, FilledOnExpanded
      <3> HIDE DEF p
      <3>7. v = [p EXCEPT !.bChild = <<s, 1>>] BY <2>3 DEF p, a, u
      <3>8. <<s, 1>> # None BY <2>2 DEF TrayConstants
      <3>9. v.bChild = <<s, 1>> /\ w = Grab(v, "box")
        BY <3>6, <3>7, <3>8 DEF Filled, IsTray, Fields
      <3>10. Filled(a, s, v)
        BY <3>6, <3>7, FilledChild
      <3> HIDE DEF v
      <3>11. Filled(a, s, w) /\ w.bChild = <<s, 1>>
        <4>1. w = v \/ w = [v EXCEPT !.focus = "box", !.locked = TRUE, !.threw = FALSE]
          BY <3>8, <3>9 DEF Grab
        <4> HIDE DEF w
        <4>2. CASE w = v BY <3>9, <3>10, <4>2
        <4>3. CASE w = [v EXCEPT !.focus = "box", !.locked = TRUE, !.threw = FALSE]
          <5> DEFINE g == [v EXCEPT !.focus = "box", !.locked = TRUE, !.threw = FALSE]
          <5>1. Filled(a, s, g) /\ g.bChild = v.bChild BY <3>10, FilledFocus
          <5>2. w = g BY <4>3
          <5> HIDE DEF g
          <5> QED BY <3>9, <5>1, <5>2
        <4> QED BY <4>1, <4>2, <4>3
      <3> HIDE DEF w
      <3>12. r = x BY <2>1, <3>11 DEF Filled
      <3>13. Sound(x) /\ Kept(a, x) /\ (x.due <=> a.due)
        <4>1. \A s1 \in Sources : <<s1, 1>> = <<s, 1>> => s1 = s BY <2>2
        <4> QED BY <3>11, <4>1 DEF Filled, States, Kept, Sound, IsTray, QueueIsSound,
              BoxIsSound, StatesKept, QueueKept, RestKept, Fields
      <3> HIDE DEF x
      <3>14. Kept(u, x) BY <3>5, <3>13, KeptTrans
      <3> QED BY <1>1, <3>2, <3>12, <3>13, <3>14, KeptTrans DEF r
    <2>4. CASE t.button # 1
      <3>1. v = u \/ v = [u EXCEPT !.bChild = <<s, 3>>] BY <2>4 DEF u
      <3>2. \A s1 \in Sources : <<s1, 1>> # <<s, 3>> OBVIOUS
      <3> HIDE DEF v
      <3>3. Kept(u, v) /\ Sound(v) /\ ~v.threw /\ (v.due <=> u.due) /\ v.sState # "HIDDEN"
            /\ \A n \in v.stack : SourceOf[n] \in v.leaked
        <4>1. CASE v = u BY <1>1, <2>2, <4>1, KeptRefl
        <4>2. CASE v = [u EXCEPT !.bChild = <<s, 3>>]
          BY <1>1, <2>2, <3>2, <4>2 DEF Kept, Sound, IsTray, QueueIsSound, BoxIsSound,
             StatesKept, QueueKept, RestKept, Fields
        <4> QED BY <3>1, <4>1, <4>2
      <3>4. /\ Kept(v, w) /\ Sound(w) /\ (w.due <=> v.due) /\ w.sState # "HIDDEN"
            /\ \A n \in w.stack : SourceOf[n] \in w.leaked
        BY <3>3 DEF Grab, Kept, Sound, IsTray, QueueIsSound, BoxIsSound, StatesKept,
      QueueKept, RestKept, Fields
      <3> HIDE DEF w
      <3>5. Kept(w, r) /\ (r.due <=> w.due)
        BY <2>1, <3>4 DEF States, Kept, Sound, IsTray, QueueIsSound, BoxIsSound, StatesKept,
      QueueKept, RestKept, Fields
      <3> HIDE DEF r
      <3>6. Kept(v, r) BY <3>4, <3>5, KeptTrans
      <3>7. Kept(u, r) BY <3>3, <3>6, KeptTrans
      <3> QED BY <1>1, <3>3, <3>4, <3>5, <3>7, KeptTrans DEF r
    <2> QED BY <2>3, <2>4
  <1> QED BY <1>2, <1>3

\* _onSummaryBoxPointerContentUpdated().
LEMMA OnContentUpdatedKept ==
  ASSUME TrayConstants, NestedKeeps, NEW t, Sound(t), ~t.threw, ~t.due, NEW s
  PROVE  /\ Kept(t, OnContentUpdated(t, s))
         /\ ~OnContentUpdated(t, s).threw /\ ~OnContentUpdated(t, s).due
  <1>1. Kept(t, HideBox(t)) /\ ~HideBox(t).due BY HideBoxKept
  <1>2. Sound(HideBox(t)) BY <1>1 DEF Kept
  <1> DEFINE r == Handled(HideBox(t))
  <1>3. Kept(HideBox(t), r) /\ ~r.due /\ ~r.threw BY <1>1, <1>2, HandledKept
  <1>4. Kept(t, r) BY <1>1, <1>3, KeptTrans
  <1> QED BY <1>3, <1>4, KeptRefl DEF OnContentUpdated

\* _updateState(), one part after the other.
LEMMA UpdateNotificationKept ==
  ASSUME TrayConstants, NestedKeeps, NEW t, Sound(t), ~t.threw, ~t.due
  PROVE  /\ Kept(t, UpdateNotification(t))
         /\ ~UpdateNotification(t).threw /\ ~UpdateNotification(t).due
  <1> DEFINE u == UpdateNotification(t)
  <1>1. \/ u = ShowNotification(t) /\ NotificationsPending(t)
        \/ u = HideNotification(t)
        \/ u = Grab(t, "notice")
        \/ u = Expand(t, FALSE)
        \/ u = t
    BY DEF UpdateNotification
  <1> HIDE DEF u
  <1>2. CASE u = ShowNotification(t) /\ NotificationsPending(t)
    BY <1>2, ShowNotificationKept DEF u
  <1>3. CASE u = HideNotification(t) BY <1>3, HideNotificationKept DEF u
  <1>4. CASE u = Grab(t, "notice") BY <1>4, GrabKept DEF u
  <1>5. CASE u = Expand(t, FALSE) BY <1>5, ExpandKept DEF u
  <1>6. CASE u = t BY <1>6, KeptRefl DEF u
  <1> QED BY <1>1, <1>2, <1>3, <1>4, <1>5, <1>6

\* The summary that must hide is not SHOWN.
LEMMA UpdateSummaryKept ==
  ASSUME NEW t, Sound(t), ~t.threw, ~t.due, NEW pending, NEW mustHide
  PROVE  LET u == UpdateSummary(t, pending, mustHide) IN
         /\ Kept(t, u) /\ ~u.threw /\ ~u.due
         /\ u.nState = t.nState
         /\ mustHide => u.sState # "SHOWN"
  BY DEF UpdateSummary, ShowSummary, HideSummary, SeenSummary, States, Kept, Sound, IsTray,
     QueueIsSound, BoxIsSound, StatesKept,
      QueueKept, RestKept, Fields

\* The box pointer stays SHOWN only with the summary.
LEMMA UpdateBoxKept ==
  ASSUME TrayConstants, NestedKeeps, NEW t, Sound(t), ~t.threw, ~t.due, NEW mustHide
  PROVE  LET u == UpdateBox(t, mustHide) IN
         /\ Kept(t, u) /\ ~u.due
         /\ u.bState = "SHOWN" => u.sState = "SHOWN"
  <1> DEFINE r == UpdateBox(t, mustHide)
             h == HideBox(t)
  <1>1. \/ r = t /\ (t.bState = "SHOWN" => t.sState = "SHOWN")
        \/ r = ShowBox(t) /\ t.bState = "HIDDEN" /\ t.sState = "SHOWN"
        \/ r = h /\ t.bState = "SHOWN"
        \/ r = ShowBox(h) /\ t.bState = "SHOWN" /\ ~h.threw
    BY DEF UpdateBox
  <1> HIDE DEF r, h
  <1>2. CASE r = t /\ (t.bState = "SHOWN" => t.sState = "SHOWN") BY <1>2, KeptRefl DEF r
  <1>3. CASE r = ShowBox(t) /\ t.bState = "HIDDEN" /\ t.sState = "SHOWN"
    <2>1. Kept(t, r) /\ ~r.due BY <1>3, ShowBoxKept
    <2>2. r.bState # "SHOWN" BY <1>3, <2>1 DEF Kept, StatesKept
    <2> QED BY <2>1, <2>2 DEF r
  <1>4. /\ Kept(t, h) /\ Sound(h) /\ ~h.due /\ h.bState # "SHOWN"
        /\ t.bState = "SHOWN" /\ t.sState # "SHOWN" => h.clicked = None
    BY HideBoxKept DEF Kept, h
  <1>5. CASE r = h /\ t.bState = "SHOWN" BY <1>4, <1>5 DEF r
  <1>6. CASE r = ShowBox(h) /\ t.bState = "SHOWN" /\ ~h.threw
    <2>1. h.clicked # None => h.sState # "HIDDEN" BY <1>4, <1>6 DEF Kept, StatesKept
    <2>2. Kept(h, r) /\ ~r.due BY <1>4, <1>6, <2>1, ShowBoxKept
    <2>3. r.bState # "SHOWN" BY <1>4, <2>2 DEF Kept, StatesKept
    <2> QED BY <1>4, <2>2, <2>3, KeptTrans DEF r
  <1> QED BY <1>1, <1>2, <1>3, <1>5, <1>6

\* The tray slides, and nothing else.
LEMMA UpdateTrayKept ==
  ASSUME NEW t, Sound(t), NEW done
  PROVE  LET u == UpdateTray(t, done) IN
         /\ Kept(t, u) /\ (u.due <=> t.due)
         /\ u.nState = t.nState /\ u.sState = t.sState /\ u.bState = t.bState
  BY DEF UpdateTray, States, Kept, Sound, IsTray, QueueIsSound, BoxIsSound, StatesKept,
      QueueKept, RestKept, Fields

\* What _updateState() sees to, whatever it finds.
Rested(t) ==
  /\ ~(t.nState = "SHOWN" /\ t.sState = "SHOWN")
  /\ t.bState = "SHOWN" => t.sState # "HIDDEN"

\* _updateState() keeps the contract if the calls of it that it leads to
\* keep it.
LEMMA UpdateStateKept ==
  ASSUME TrayConstants, NestedKeeps, NEW t, Sound(t), ~t.threw, ~t.due
  PROVE  /\ Kept(t, UpdateState(t)) /\ ~UpdateState(t).due /\ Rested(UpdateState(t))
         /\ Urgent(t) => UpdateState(t).sState # "SHOWN"
  <1> DEFINE pending == NotificationsPending(t)
             n == UpdateNotification(t)
             must == MustHideSummary(n, pending, Urgent(t))
             m == UpdateSummary(n, pending, must)
             b == UpdateBox(m, must)
             done == ~Visible(n.nState) /\ ~pending
             r == UpdateState(t)
  <1>1. r = IF b.threw THEN b ELSE UpdateTray(b, done) BY DEF UpdateState
  <1>2. Kept(t, n) /\ Sound(n) /\ ~n.threw /\ ~n.due BY UpdateNotificationKept DEF Kept
  <1> HIDE DEF n
  <1>3. (Visible(n.nState) => must) /\ (Urgent(t) => must)
    BY DEF MustHideSummary, NotificationsPending, Urgent
  <1> HIDE DEF pending
  <1> HIDE DEF r, must, done
  <1>4. /\ Kept(n, m) /\ ~m.threw /\ ~m.due
        /\ m.nState = n.nState /\ (must => m.sState # "SHOWN")
    BY <1>2, UpdateSummaryKept
  <1>5. Sound(m) BY <1>4 DEF Kept
  <1> HIDE DEF m
  <1>6. Kept(m, b) /\ ~b.due /\ (b.bState = "SHOWN" => b.sState = "SHOWN")
    BY <1>4, <1>5, UpdateBoxKept
  <1>7. Sound(b) BY <1>6 DEF Kept
  <1> HIDE DEF b
  <1>8. Kept(b, r) /\ ~r.due /\ r.nState = b.nState /\ r.sState = b.sState /\ r.bState = b.bState
    BY <1>1, <1>6, <1>7, UpdateTrayKept, KeptRefl
  <1>9. Kept(t, m) BY <1>2, <1>4, KeptTrans
  <1>10. Kept(t, b) BY <1>6, <1>9, KeptTrans
  <1>11. Kept(t, r) BY <1>8, <1>10, KeptTrans
  <1>12. Rested(r)
    <2>1. ASSUME r.nState = "SHOWN", r.sState = "SHOWN" PROVE FALSE
      <3>1. m.nState = "SHOWN" /\ m.sState = "SHOWN"
        BY <1>6, <1>8, <2>1 DEF Kept, StatesKept
      <3> QED BY <1>3, <1>4, <3>1 DEF Visible
    <2> QED BY <1>6, <1>8, <2>1 DEF Rested
  <1>13. Urgent(t) => r.sState # "SHOWN"
    BY <1>3, <1>4, <1>6, <1>8 DEF Kept, StatesKept
  <1> QED BY <1>8, <1>11, <1>12, <1>13 DEF r

\* The calls of MessageTray.
LEMMA DestroyNotificationKept ==
  ASSUME TrayConstants, NestedKeeps, NEW t, Sound(t), ~t.threw, ~t.due, NEW n \in Notifications
  PROVE  LET u == DestroyNotification(t, n) IN
         /\ Sound(u) /\ StatesKept(t, u) /\ QueueKept(t, u)
         /\ ~u.threw /\ ~u.due
         /\ \/ t.life[n] # "live" /\ RestKept(t, u)
            \/ t.life[n] = "live" /\ RestKept([t EXCEPT !.life[n] = "dead"], u)
         /\ t.life[n] = "live" =>
              ToSet(u.queue) \subseteq (ToSet(t.queue) \ {n}) \cup ({t.reNotify} \ {None})
  <1> DEFINE r == DestroyNotification(t, n)
             s == SourceOf[n]
             a == [t EXCEPT !.life[n] = "dead"]
             b == IF NotificationsOf(a, s) = {} THEN DestroySource(a, s) ELSE a
             c == OnNotificationDestroy(b, n)
             d == Handled(c)
             e == IF n \in t.stack THEN OnContentUpdated(d, s) ELSE d
  <1>1. CASE t.life[n] # "live"
    <2>1. r = t BY <1>1 DEF DestroyNotification
    <2>2. Kept(t, t) BY KeptRefl
    <2> HIDE DEF r
    <2> QED BY <1>1, <2>1, <2>2 DEF Kept, r
  <1>2. CASE t.life[n] = "live"
    <2>1. r = [e EXCEPT !.stack = @ \ {n}]
      BY <1>2 DEF DestroyNotification
    <2>2. Sound(a) /\ StatesKept(t, a) /\ QueueKept(t, a) /\ ~a.threw /\ ~a.due
          /\ a.queue = t.queue /\ a.reNotify = t.reNotify /\ a.shown = t.shown
          /\ a.busy = t.busy /\ a.critical = t.critical
      BY DEF Kept, Sound, IsTray, QueueIsSound, BoxIsSound, StatesKept,
      QueueKept, RestKept, Fields
    <2> HIDE DEF a, r
    <2>3. Kept(a, b) /\ Sound(b) /\ ~b.threw /\ ~b.due
      BY <2>2, DestroySourceKept, KeptRefl DEF Kept
    <2> HIDE DEF b
    <2>4. Kept(b, c) /\ Sound(c) /\ ~c.threw /\ n \notin ToSet(c.queue)
      BY <2>3, OnNotificationDestroyKept DEF Kept
    <2> HIDE DEF c
    <2>5. Kept(c, d) /\ Sound(d) /\ ~d.threw /\ ~d.due BY <2>4, HandledKept DEF Kept
    <2> HIDE DEF d
    <2>6. Kept(d, e) /\ Sound(e) /\ ~e.threw /\ ~e.due
      BY <2>5, OnContentUpdatedKept, KeptRefl DEF Kept
    <2> HIDE DEF e
    <2>7. Kept(e, r) /\ ~r.threw /\ ~r.due
      BY <2>1, <2>6 DEF Kept, Sound, IsTray, QueueIsSound, BoxIsSound, StatesKept,
      QueueKept, RestKept, Fields
    <2>8. Kept(a, c) BY <2>3, <2>4, KeptTrans
    <2>9. Kept(c, r) BY <2>5, <2>6, <2>7, KeptTrans
    <2>10. Kept(a, r) BY <2>8, <2>9, KeptTrans
    <2>11. ToSet(r.queue) \subseteq (ToSet(t.queue) \ {n}) \cup ({t.reNotify} \ {None})
      <3>1. /\ ToSet(c.queue) \subseteq ToSet(t.queue) \cup ({t.reNotify} \ {None})
            /\ c.reNotify \in {t.reNotify, None}
        BY <2>2, <2>8 DEF Kept, QueueKept
      <3>2. ToSet(r.queue) \subseteq ToSet(c.queue) \cup ({c.reNotify} \ {None})
        BY <2>9 DEF Kept, QueueKept
      <3> QED BY <2>4, <3>1, <3>2
    <2>12. StatesKept(t, r) /\ QueueKept(t, r)
      BY <2>2, <2>10 DEF Kept, StatesKept, QueueKept
    <2> QED BY <1>2, <2>7, <2>10, <2>11, <2>12 DEF Kept, a, r
  <1> QED BY <1>1, <1>2

-----------------------------------------------------------------------------
(* How deep _updateState() calls itself.                                   *)

\* Less than HiddenShallow: as long as the tray is not locked either.
BareShallow ==
  \A t : Callable(t) /\ t.bState # "SHOWN" /\ ~t.locked => ~Nested(t).deep

\* More than HiddenShallow: or as long as the tray is not locked.
NearShallow ==
  \A t : Callable(t) /\ (t.bState # "SHOWN" \/ ~t.locked) => ~Nested(t).deep

\* Ungrabbing calls it when the tray was locked, and it is not any more.
LEMMA UngrabShallow ==
  ASSUME NEW t, Callable(t)
  PROVE  \/ ~Ungrab(t).deep
         \/ /\ t.locked
            /\ \E a : /\ Callable(a) /\ a.bState = t.bState /\ ~a.locked
                      /\ Nested(a).deep
  <1> DEFINE v == [t EXCEPT !.focus = "none"]
             a == [v EXCEPT !.locked = FALSE, !.inTray = v.hover, !.due = FALSE]
  <1>1. CASE t.focus = "none" BY <1>1 DEF Ungrab, Callable
  <1>2. CASE t.focus # "none" /\ ~t.locked
    <2>1. Ungrab(t) = [v EXCEPT !.threw = FALSE]
      BY <1>2 DEF Ungrab, Unlock, Handled, Finish, Callable, Sound, IsTray, Fields
    <2> QED BY <2>1 DEF Callable, Sound, IsTray, Fields
  <1>3. CASE t.focus # "none" /\ t.locked
    <2> DEFINE w == [v EXCEPT !.locked = FALSE, !.inTray = v.hover]
    <2>1. v.locked BY <1>3 DEF Callable, Sound, IsTray, Fields
    <2>2. Unlock(v) = Due(w) BY <2>1 DEF Unlock
    <2>3. Due(w).due /\ [Due(w) EXCEPT !.due = FALSE] = a
      BY DEF Due, Callable, Sound, IsTray, Fields
    <2>4. Finish(Due(w)) = Nested(a) BY <2>3 DEF Finish
    <2>5. Ungrab(t) = [Nested(a) EXCEPT !.threw = FALSE]
      BY <1>3, <2>2, <2>4 DEF Ungrab, Handled
    <2>6. Callable(a) /\ a.bState = t.bState /\ ~a.locked
      BY DEF Callable, Sound, IsTray, QueueIsSound, BoxIsSound, Fields
    <2>7. Ungrab(t).deep => Nested(a).deep BY <2>5
    <2> QED BY <1>3, <2>6, <2>7
  <1> QED BY <1>1, <1>2, <1>3

\* Hiding the box pointer calls it when the box pointer is not SHOWN any more.
LEMMA HideBoxShallow ==
  ASSUME TrayConstants, NestedKeeps, HiddenShallow, NEW t, Callable(t)
  PROVE  ~HideBox(t).deep
  <1> DEFINE r == HideBox(t)
             u == [t EXCEPT !.bState = "HIDING"]
             w == IF t.sState # "SHOWN" THEN UnsetClicked(u) ELSE u
             x == Ungrab(w)
             y == HideBoxCompleted(x)
  <1>1. \/ r = [t EXCEPT !.threw = TRUE]
        \/ r = t
        \/ r = [x EXCEPT !.threw = TRUE]
        \/ r = Finish(y)
        \/ r = [x EXCEPT !.bTween = "hide"]
    BY DEF HideBox, UnsetClicked
  <1>2. Sound(w) /\ ~w.threw /\ ~w.due /\ ~w.deep /\ w.bState = "HIDING"
    BY DEF UnsetClicked, States, Callable, Sound, IsTray, QueueIsSound, BoxIsSound, Fields
  <1> HIDE DEF r, w
  <1>3. Kept(w, x) /\ Sound(x) /\ ~x.threw /\ ~x.due BY <1>2, UngrabKept DEF Kept
  <1> HIDE DEF x
  <1>4. Kept(x, y) /\ Sound(y) /\ (y.due => ~y.threw) BY <1>3, HideBoxCompletedKept DEF Kept
  <1> HIDE DEF y
  <1>5. Kept(y, Finish(y)) BY <1>4, FinishKept
  <1>6. Kept(w, y) BY <1>3, <1>4, KeptTrans
  <1>7. Kept(w, Finish(y)) BY <1>5, <1>6, KeptTrans
  <1>8. ~x.deep /\ ~Finish(y).deep BY <1>2, <1>3, <1>7 DEF Kept, RestKept, Shallow
  <1>9. ~[x EXCEPT !.threw = TRUE].deep /\ ~[x EXCEPT !.bTween = "hide"].deep
    BY <1>3, <1>8 DEF Sound, IsTray, Fields
  <1>10. ~t.deep /\ ~[t EXCEPT !.threw = TRUE].deep BY DEF Callable, Sound, IsTray, Fields
  <1> QED BY <1>1, <1>8, <1>9, <1>10 DEF r

\* What calls nothing.
LEMMA ShowBoxDeep ==
  ASSUME NEW t, Sound(t)
  PROVE  ShowBox(t).deep = t.deep
  <1> DEFINE s == t.clicked
             u == [t EXCEPT !.bItem = s,
                     !.leaked = IF t.bItem = None THEN @ ELSE @ \cup {t.bItem}]
             p == PrepareStack([u EXCEPT !.queue = NotOf(@, s)], s)
             v == CASE t.button = 1 -> [p EXCEPT !.bChild = <<s, 1>>]
                    [] t.button = 3 -> [u EXCEPT !.bChild = <<s, 3>>]
                    [] OTHER        -> u
             w == Grab(v, IF v.bChild # None THEN "box" ELSE "nothing")
  <1>1. \/ ShowBox(t) = [u EXCEPT !.threw = TRUE]
        \/ ShowBox(t) = w
        \/ ShowBox(t) = [w EXCEPT !.bState = "SHOWING", !.bTween = "show"]
    BY DEF ShowBox
  <1>2. Fields \subseteq DOMAIN u /\ u.deep = t.deep BY DEF Sound, IsTray, Fields
  <1> HIDE DEF u, s
  <1>3. Fields \subseteq DOMAIN p /\ p.deep = u.deep
    BY <1>2 DEF PrepareStack, OnExpanded, Fields
  <1> HIDE DEF p
  <1>4. Fields \subseteq DOMAIN v /\ v.deep = u.deep
    BY <1>2, <1>3 DEF Fields
  <1> HIDE DEF v
  <1>5. Fields \subseteq DOMAIN w /\ w.deep = v.deep BY <1>4 DEF Grab, Fields
  <1> HIDE DEF w
  <1> QED BY <1>1, <1>2, <1>4, <1>5 DEF Fields

\* _showNotification() calls nothing either.
LEMMA ShowNotificationDeep ==
  ASSUME NEW t, Sound(t)
  PROVE  ShowNotification(t).deep = t.deep
  <1>1. ASSUME NEW u, Fields \subseteq DOMAIN u PROVE UpdateShowing(u).deep = u.deep
    BY <1>1 DEF UpdateShowing, Expand, OnExpanded, Fields
  <1> DEFINE u == [t EXCEPT !.queue = Tail(@), !.shown = Head(t.queue), !.raised = FALSE,
                          !.unseen = Append(@, Head(t.queue)), !.watch = TRUE,
                          !.showMouse = TRUE,
                          !.missed = IF t.userIdle THEN @ \cup {Head(t.queue)}
                                     ELSE @ \ {Head(t.queue)}]
  <1>2. Fields \subseteq DOMAIN u /\ u.deep = t.deep BY DEF Sound, IsTray, Fields
  <1>3. ShowNotification(t) = UpdateShowing(u) BY DEF ShowNotification
  <1> HIDE DEF u
  <1> QED BY <1>1, <1>2, <1>3

\* The part for the notification calls _updateState() when it unlocks the
\* tray.
LEMMA UpdateNotificationShallow ==
  ASSUME NEW t, Callable(t), ~t.locked \/ NearShallow \/ (BareShallow /\ t.bState # "SHOWN")
  PROVE  ~UpdateNotification(t).deep
  <1> DEFINE u == UpdateNotification(t)
  <1>1. \/ u = ShowNotification(t)
        \/ u = HideNotification(t)
        \/ u = Grab(t, "notice")
        \/ u = Expand(t, FALSE)
        \/ u = t
    BY DEF UpdateNotification
  <1> HIDE DEF u
  <1>2. Sound(t) /\ ~t.deep BY DEF Callable
  <1>3. CASE u = ShowNotification(t) BY <1>2, <1>3, ShowNotificationDeep DEF u
  <1>4. CASE u = HideNotification(t)
    <2>1. ~Ungrab(t).deep BY UngrabShallow DEF NearShallow, BareShallow
    <2>2. u.deep => Ungrab(t).deep BY <1>4 DEF HideNotification
    <2> QED BY <2>1, <2>2 DEF u
  <1>5. CASE u = Grab(t, "notice") BY <1>2, <1>5 DEF Grab, Sound, IsTray, Fields, u
  <1>6. CASE u = Expand(t, FALSE)
    <2>1. u.deep = t.deep BY <1>2, <1>6 DEF Expand, OnExpanded, Grab, Sound, IsTray, Fields
    <2> QED BY <1>2, <2>1 DEF u
  <1>7. CASE u = t BY <1>2, <1>7 DEF u
  <1> QED BY <1>1, <1>3, <1>4, <1>5, <1>6, <1>7

\* One call of _updateState() is no deeper than those it makes, and it makes
\* them with less to do: first it unlocks the tray or hides the box pointer.
LEMMA UpdateStateShallow ==
  ASSUME TrayConstants, NestedKeeps, NEW t, Callable(t),
         \/ t.bState # "SHOWN" /\ ~t.locked
         \/ t.bState # "SHOWN" /\ BareShallow
         \/ ~t.locked /\ HiddenShallow
         \/ NearShallow
  PROVE  ~UpdateState(t).deep
  <1> DEFINE pending == NotificationsPending(t)
             n == UpdateNotification(t)
             must == MustHideSummary(n, pending, Urgent(t))
             m == UpdateSummary(n, pending, must)
             b == UpdateBox(m, must)
             done == ~Visible(n.nState) /\ ~pending
             r == UpdateState(t)
  <1>1. r = IF b.threw THEN b ELSE UpdateTray(b, done) BY DEF UpdateState
  <1>2. Sound(t) /\ ~t.threw /\ ~t.due /\ ~t.deep BY DEF Callable
  <1>3. Kept(t, n) /\ Sound(n) /\ ~n.threw /\ ~n.due
    BY <1>2, UpdateNotificationKept DEF Kept
  <1>4. ~n.deep
    <2>1. BareShallow \/ ~HiddenShallow BY DEF BareShallow, HiddenShallow
    <2> QED BY <2>1, UpdateNotificationShallow
  <1> HIDE DEF n, pending, must, done, r
  <1>5. Kept(n, m) /\ Sound(m) /\ ~m.threw /\ ~m.due BY <1>3, UpdateSummaryKept DEF Kept
  <1>6. ~m.deep
    BY <1>3, <1>4 DEF UpdateSummary, ShowSummary, HideSummary, SeenSummary, Sound, IsTray,
       Fields
  <1>7. m.bState = "SHOWN" => t.bState = "SHOWN" BY <1>3, <1>5 DEF Kept, StatesKept
  <1> HIDE DEF m
  <1>8. ~b.deep
    <2>1. \/ b = m
          \/ b = ShowBox(m)
          \/ b = HideBox(m) /\ m.bState = "SHOWN"
          \/ b = ShowBox(HideBox(m)) /\ m.bState = "SHOWN"
      BY DEF UpdateBox
    <2> HIDE DEF b
    <2>2. Callable(m) BY <1>5, <1>6 DEF Callable
    <2>3. CASE m.bState = "SHOWN"
      <3>1. HiddenShallow BY <1>7, <2>3 DEF NearShallow, HiddenShallow
      <3>2. ~HideBox(m).deep BY <2>2, <3>1, HideBoxShallow
      <3>3. Sound(HideBox(m)) BY <1>5, HideBoxKept DEF Kept
      <3> QED BY <1>5, <1>6, <2>1, <3>2, <3>3, ShowBoxDeep
    <2>4. CASE m.bState # "SHOWN" BY <1>5, <1>6, <2>1, <2>4, ShowBoxDeep
    <2> QED BY <2>3, <2>4
  <1>9. Sound(b) BY <1>5, UpdateBoxKept DEF Kept
  <1> HIDE DEF b
  <1>10. ~UpdateTray(b, done).deep BY <1>8, <1>9 DEF UpdateTray, Sound, IsTray, Fields
  <1> QED BY <1>1, <1>8, <1>10 DEF r

-----------------------------------------------------------------------------
(* The events.                                                             *)

\* Each notification is new, exists, or was destroyed.
LifeOK(t) == t.life \in [Notifications -> {"new", "live", "dead"}]

\* _trayLeftTimeoutId is that of a timer that runs.
TimersOK(t) == t.leftTimers \in 0..MaxLeft /\ (t.leftWait # "none" => t.leftTimers > 0)

\* What an event that found the tray in state t may have made of it.
Leads(t, u) ==
  /\ \A m \in ToSet(u.queue) \cup ({u.reNotify} \ {None}) :
       \/ m = t.reNotify
       \/ /\ u.life[m] = "dead" => m \in ToSet(t.queue) /\ t.life[m] = "dead"
          /\ SourceOf[m] \in u.muted => m \in ToSet(t.queue) /\ SourceOf[m] \in t.muted
  /\ u.shown \in {t.shown, None} \/ ~u.busy \/ u.shown \in u.critical

\* Nothing critical comes into the queue while the summary stays.
Hides(t, u) ==
  \/ \A m \in ToSet(u.queue) : m \in ToSet(t.queue) \/ m \notin u.critical
  \/ u.sState # "SHOWN"

\* Both, as they hold once the event was handled.
Reacts(t, u) == Leads(t, u) /\ Hides(t, u)

\* As far as an event has come, before _updateState() has seen to the
\* summary, and after.
Found(t, u) == Sound(u) /\ LifeOK(u) /\ TimersOK(u) /\ Leads(t, u) /\ ~u.deep
Reached(t, u) == Found(t, u) /\ Hides(t, u)

\* Every handler keeps what its event has led to.
LEMMA FoundKept ==
  ASSUME EverShallow, NEW t, NEW u, NEW v, Found(t, u), Kept(u, v)
  PROVE  /\ Found(t, v) /\ v.hover = u.hover
         /\ Rested(u) => Rested(v)
         /\ u.reNotify \in {t.reNotify, None} => v.reNotify \in {t.reNotify, None}
  <1>1. Sound(v) /\ LifeOK(v) /\ TimersOK(v) /\ v.hover = u.hover /\ ~v.deep
    BY DEF Found, Kept, RestKept, Shallow, LifeOK, TimersOK
  <1>2. Rested(u) => Rested(v) BY <1>1 DEF Rested, Kept, StatesKept, Found, Sound, IsTray,
     States
  <1>3. v.reNotify \in {u.reNotify, None} BY DEF Kept, QueueKept
  <1>4. ToSet(v.queue) \cup ({v.reNotify} \ {None})
          \subseteq ToSet(u.queue) \cup ({u.reNotify} \ {None})
    BY DEF Kept, QueueKept
  <1>5. Leads(t, v) BY <1>4 DEF Leads, Found, Kept, QueueKept, RestKept
  <1> QED BY <1>1, <1>2, <1>3, <1>5 DEF Found

\* Every handler keeps what its event has led to.
LEMMA ReachedKept ==
  ASSUME EverShallow, NEW t, NEW u, NEW v, Reached(t, u), Kept(u, v)
  PROVE  /\ Reached(t, v) /\ Sound(v) /\ v.hover = u.hover
         /\ Rested(u) => Rested(v)
         /\ u.reNotify \in {t.reNotify, None} => v.reNotify \in {t.reNotify, None}
  <1>1. /\ Found(t, v) /\ v.hover = u.hover
        /\ Rested(u) => Rested(v)
        /\ u.reNotify \in {t.reNotify, None} => v.reNotify \in {t.reNotify, None}
    BY FoundKept DEF Reached
  <1>2. Hides(t, v) BY <1>1 DEF Found, Hides, Reached, Kept, QueueKept, RestKept, StatesKept
  <1> QED BY <1>1, <1>2 DEF Reached, Found

\* A notification that is destroyed leaves the queue.
LEMMA DestroyNotificationReached ==
  ASSUME TrayConstants, NestedKeeps, EverShallow, NEW t, NEW u, Reached(t, u), ~u.threw, ~u.due,
         u.reNotify \in {t.reNotify, None}, NEW n \in Notifications
  PROVE  LET v == DestroyNotification(u, n) IN
         /\ Reached(t, v) /\ ~v.threw /\ ~v.due /\ v.hover = u.hover
         /\ Rested(u) => Rested(v)
         /\ v.reNotify \in {t.reNotify, None}
  <1> DEFINE v == DestroyNotification(u, n)
             a == [u EXCEPT !.life[n] = "dead"]
  <1>1. Sound(u) /\ ~u.deep /\ Leads(t, u) /\ Hides(t, u) BY DEF Reached, Found
  <1>2. /\ Sound(v) /\ StatesKept(u, v) /\ QueueKept(u, v) /\ ~v.threw /\ ~v.due
        /\ \/ u.life[n] # "live" /\ RestKept(u, v)
           \/ u.life[n] = "live" /\ RestKept(a, v)
        /\ u.life[n] = "live" =>
             ToSet(v.queue) \subseteq (ToSet(u.queue) \ {n}) \cup ({u.reNotify} \ {None})
    BY <1>1, DestroyNotificationKept
  <1> HIDE DEF v
  <1>3. CASE u.life[n] # "live" /\ RestKept(u, v)
    <2>1. Kept(u, v) BY <1>2, <1>3 DEF Kept
    <2> QED BY <1>2, <2>1, ReachedKept DEF v
  <1>4. CASE u.life[n] = "live" /\ RestKept(a, v)
    <2>1. /\ a.life = [u.life EXCEPT ![n] = "dead"] /\ a.muted = u.muted
          /\ a.critical = u.critical /\ a.busy = u.busy /\ a.hover = u.hover
          /\ a.leftTimers = u.leftTimers /\ a.leftWait = u.leftWait /\ a.deep = u.deep
      BY <1>1 DEF Sound, IsTray, Fields
    <2> HIDE DEF a
    <2>2. /\ v.life = [u.life EXCEPT ![n] = "dead"] /\ v.muted = u.muted
          /\ v.critical = u.critical /\ v.busy = u.busy /\ v.hover = u.hover
          /\ v.leftTimers = u.leftTimers /\ v.leftWait = u.leftWait /\ ~v.deep
      BY <1>1, <1>4, <2>1 DEF RestKept, Shallow
    <2>3. LifeOK(v) /\ TimersOK(v) BY <2>2 DEF Reached, Found, LifeOK, TimersOK
    <2>4. Rested(u) => Rested(v) BY <1>1, <1>2 DEF Rested, StatesKept
    <2>5. v.reNotify \in {t.reNotify, None} /\ v.reNotify \in {u.reNotify, None}
      BY <1>2 DEF QueueKept
    <2>6. ASSUME NEW m \in ToSet(v.queue) \cup ({v.reNotify} \ {None}), m # t.reNotify
          PROVE  m \in ToSet(u.queue) /\ m # n
      BY <1>2, <1>4, <2>5, <2>6
    <2>7. \A m \in ToSet(u.queue) : m # n => v.life[m] = u.life[m]
      BY <2>2 DEF Reached, Found, LifeOK
    <2>8. v.shown \in {t.shown, None} \/ ~v.busy \/ v.shown \in v.critical
      BY <1>1, <1>2, <2>2 DEF QueueKept, Leads
    <2>9. Leads(t, v) BY <1>1, <2>2, <2>6, <2>7, <2>8 DEF Leads
    <2>10. Hides(t, v) BY <1>1, <1>2, <2>2 DEF Hides, QueueKept, StatesKept
    <2> QED BY <1>2, <2>2, <2>3, <2>4, <2>5, <2>9, <2>10 DEF Reached, Found, v
  <1> QED BY <1>2, <1>3, <1>4

\* _hideNotificationCompleted(): what is transient is destroyed.
LEMMA HideNotificationCompletedReached ==
  ASSUME TrayConstants, NestedKeeps, EverShallow, NEW t, NEW u, Reached(t, u), ~u.threw, ~u.due,
         u.reNotify \in {t.reNotify, None}
  PROVE  LET v == HideNotificationCompleted(u) IN
         Reached(t, v) /\ ~v.threw /\ v.hover = u.hover
  <1> DEFINE n == u.shown
             a == [u EXCEPT !.removed = FALSE]
             b == Hide(a, "notice")
             c == [b EXCEPT !.shown = None,
                                !.expanded = IF u.life[n] = "live" THEN @ \ {n} ELSE @]
  <1>1. Sound(u) BY DEF Reached, Found
  <1>2. Kept(u, a) /\ Sound(a) /\ ~a.threw /\ ~a.due
    BY <1>1 DEF Kept, Sound, IsTray, QueueIsSound, BoxIsSound, StatesKept, QueueKept,
       RestKept, Fields
  <1> HIDE DEF a
  <1>3. Kept(a, b) /\ Sound(b) /\ ~b.threw /\ ~b.due BY <1>2, HideKept DEF Kept
  <1> HIDE DEF b
  <1>4. Kept(b, c) /\ ~c.threw /\ ~c.due
    <2>1. None \notin ToSet(b.queue)
      <3>1. b.queue \in Seq(Notifications) BY <1>3 DEF Sound, QueueIsSound
      <3>2. ToSet(b.queue) \subseteq Notifications BY <3>1, ToSetProperties, ElementOfSeq
      <3> QED BY <3>2 DEF TrayConstants
    <2> QED BY <1>3, <2>1 DEF Kept, Sound, IsTray, QueueIsSound, BoxIsSound, StatesKept,
       QueueKept, RestKept, Fields
  <1> HIDE DEF c
  <1>5. Kept(u, c)
    <2>1. Kept(u, b) BY <1>2, <1>3, KeptTrans
    <2> QED BY <1>4, <2>1, KeptTrans
  <1>6. Reached(t, c) /\ c.hover = u.hover /\ c.reNotify \in {t.reNotify, None}
    BY <1>5, ReachedKept
  <1>7. HideNotificationCompleted(u) =
          IF n \in TransientNotes THEN DestroyNotification(c, n) ELSE c
    BY DEF HideNotificationCompleted, a, b, c
  <1> HIDE DEF n
  <1>8. n \in TransientNotes => n \in Notifications BY DEF TrayConstants
  <1> QED BY <1>4, <1>6, <1>7, <1>8, DestroyNotificationReached

\* What _updateState() leaves behind when a handler calls it, whatever it finds.
NestedSettles ==
  /\ NestedKeeps /\ EverShallow
  /\ \A t : Sound(t) /\ ~t.threw /\ ~t.due => Rested(Nested(t))

\* Nothing else was put aside.
Aside(t, u) == u.reNotify \in {t.reNotify, None}

\* Between two handlers of an event, and at the end of one.
Between(t, u) == Reached(t, u) /\ ~u.threw /\ ~u.due /\ Rested(u)

\* Where a handler ends, and _updateState() is called if it is due.
Ends(t, u) ==
  /\ Found(t, u) /\ (u.due => ~u.threw) /\ (u.due \/ Rested(u))
  /\ Hides(t, u) \/ (u.due /\ Urgent(u))

\* The inductive invariant. tray.hover is where the pointer is.
TrayInv ==
  /\ Sound(tray) /\ LifeOK(tray) /\ TimersOK(tray) /\ Rested(tray)
  /\ ~tray.threw /\ ~tray.due /\ ~tray.deep
  /\ tray.hover = InTray(pointer)
  /\ pressed \in Sources \cup {None}

\* Every event starts there.
LEMMA InvBetween ==
  ASSUME TrayInv
  PROVE  Between(tray, tray) /\ Aside(tray, tray)
  BY DEF TrayInv, Between, Reached, Found, Leads, Hides, Aside

\* A handler that ends leaves the tray between two handlers.
LEMMA HandledBetween ==
  ASSUME NestedSettles, NEW t, NEW u, Ends(t, u)
  PROVE  /\ Between(t, Handled(u)) /\ Handled(u).hover = u.hover
         /\ Aside(t, u) => Aside(t, Handled(u))
  <1> DEFINE v == Handled(u)
             a == [u EXCEPT !.due = FALSE]
  <1>1. NestedKeeps /\ EverShallow /\ Sound(u) /\ Found(t, u)
    BY DEF NestedSettles, Ends, Found
  <1>2. Kept(u, v) /\ ~v.due /\ ~v.threw BY <1>1, HandledKept DEF Ends
  <1>3. /\ Found(t, v) /\ v.hover = u.hover /\ (Rested(u) => Rested(v))
        /\ Aside(t, u) => Aside(t, v)
    BY <1>1, <1>2, FoundKept DEF Aside
  <1>4. Hides(t, u) => Hides(t, v)
    BY <1>1, <1>2, ReachedKept DEF Reached
  <1>5. CASE ~u.due
    <2> HIDE DEF v
    <2> QED BY <1>2, <1>3, <1>4, <1>5 DEF Ends, Between, Reached, v
  <1>6. CASE u.due
    <2>1. Sound(a) /\ ~a.threw /\ ~a.due /\ (Urgent(u) => Urgent(a))
      BY <1>1, <1>6 DEF Ends, Urgent, Sound, IsTray, QueueIsSound, BoxIsSound, Fields
    <2>2. v = [Nested(a) EXCEPT !.threw = FALSE] BY <1>6 DEF Handled, Finish
    <2> HIDE DEF a
    <2>3. /\ Rested(Nested(a)) /\ Sound(Nested(a))
          /\ Urgent(u) => Nested(a).deep \/ Nested(a).sState # "SHOWN"
      BY <2>1 DEF NestedSettles, NestedKeeps, Kept
    <2>4. Rested(v) /\ v.sState = Nested(a).sState /\ v.deep = Nested(a).deep
      BY <2>2, <2>3 DEF Rested, Sound, IsTray, Fields
    <2> HIDE DEF v
    <2>5. Hides(t, v) BY <1>3, <1>4, <2>3, <2>4 DEF Hides, Ends, Found
    <2> QED BY <1>2, <1>3, <2>4, <2>5 DEF Between, Reached, v
  <1> QED BY <1>5, <1>6

\* A handler that keeps the contract.
LEMMA KeptEnds ==
  ASSUME NestedSettles, NEW t, NEW u, NEW v, Between(t, u), Kept(u, v), v.due => ~v.threw
  PROVE  Ends(t, v) /\ v.hover = u.hover /\ (Aside(t, u) => Aside(t, v))
  BY ReachedKept DEF Between, Ends, Reached, Aside, Reached, Found, NestedSettles

\* A handler that sets something, and asks for _updateState().
LEMMA DueEnds ==
  ASSUME NestedSettles, NEW t, NEW u, Reached(t, u), ~u.threw
  PROVE  Ends(t, Due(u)) /\ Due(u).hover = u.hover /\ (Aside(t, u) => Aside(t, Due(u)))
  <1>1. Sound(u) BY DEF Reached, Found
  <1>2. Kept(u, Due(u)) /\ Due(u).due /\ ~Due(u).threw BY <1>1, DueKept
  <1> QED BY <1>2, ReachedKept DEF Ends, Aside, Reached, Found, NestedSettles

\* One event, and what it leads to.
LEMMA EventEnds ==
  ASSUME NestedSettles, NEW y, Ends(tray, y), Handle(y),
         y.hover = InTray(pointer'), pressed' \in Sources \cup {None}
  PROVE  TrayInv' /\ Reacts(tray, tray')
  <1> DEFINE u == Handled(y)
             v == [u EXCEPT !.shrunk = FALSE]
  <1>1. tray' = v BY DEF Handle
  <1>2. Between(tray, u) /\ u.hover = y.hover BY HandledBetween
  <1> HIDE DEF u
  <1>3. Sound(u) BY <1>2 DEF Between, Reached, Found
  <1>4. Kept(u, v) /\ ~v.due /\ ~v.threw
    BY <1>2, <1>3 DEF Between, Kept, Sound, IsTray, QueueIsSound, BoxIsSound, StatesKept,
       QueueKept, RestKept, Fields
  <1> HIDE DEF v
  <1>5. Ends(tray, v) /\ v.hover = u.hover BY <1>2, <1>4, KeptEnds
  <1>6. /\ Sound(tray') /\ LifeOK(tray') /\ TimersOK(tray') /\ Rested(tray')
        /\ ~tray'.threw /\ ~tray'.due /\ ~tray'.deep /\ tray'.hover = InTray(pointer')
        /\ Reacts(tray, tray')
    BY <1>1, <1>2, <1>4, <1>5 DEF Ends, Reached, Found, Reacts
  <1> QED BY <1>6 DEF TrayInv, Sound, LifeOK, TimersOK, Rested, InTray,
        IsTray, QueueIsSound, BoxIsSound

\* What does not touch the queue, what is shown or what is alive.
LEMMA SameReached ==
  ASSUME TrayInv, NEW y, Sound(y), TimersOK(y),
         y.queue = tray.queue, y.reNotify = tray.reNotify, y.life = tray.life,
         y.muted = tray.muted, y.shown = tray.shown, y.deep = tray.deep
  PROVE  Reached(tray, y) /\ Aside(tray, y)
  BY DEF TrayInv, Reached, Found, Leads, Hides, LifeOK, Aside

\* The events that leave the pointer and the buttons alone.
LEMMA QuietEnds ==
  ASSUME NestedSettles, TrayInv, NEW y, Ends(tray, y), y.hover = tray.hover, Handle(y),
         pointer' = pointer, pressed' = pressed
  PROVE  TrayInv' /\ Reacts(tray, tray')
  <1>1. y.hover = InTray(pointer') /\ pressed' \in Sources \cup {None}
    BY DEF TrayInv, InTray
  <1> QED BY <1>1, EventEnds

\* Applications.
LEMMA AddSourceStep ==
  ASSUME NestedSettles, TrayInv, NEW s \in Sources, AddSource(s)
  PROVE  TrayInv' /\ Reacts(tray, tray')
  <1> DEFINE y == [tray EXCEPT !.items = @ \cup {s}, !.later = TRUE,
               !.newItems = IF s \in TransientSources \cup ChatSources
                            THEN @ ELSE @ \cup {s}]
  <1>1. Kept(tray, y) /\ ~y.due
    BY DEF TrayInv, Kept, Sound, IsTray, QueueIsSound, BoxIsSound, StatesKept, QueueKept,
       RestKept, Fields
  <1>2. Handle(y) /\ pointer' = pointer /\ pressed' = pressed BY DEF AddSource
  <1> HIDE DEF y
  <1>3. Ends(tray, y) /\ y.hover = tray.hover BY <1>1, InvBetween, KeptEnds
  <1> QED BY <1>2, <1>3, QuietEnds

\* What Source.notify() does before the tray is told.
LEMMA PushedReached ==
  ASSUME TrayInv, NEW n \in Notifications, SourceOf[n] \in Sources,
         NEW critical \in BOOLEAN, NEW t, t = Pushed(tray, n, critical)
  PROVE  /\ Reached(tray, t) /\ Aside(tray, t) /\ Rested(t)
         /\ ~t.threw /\ ~t.due /\ t.hover = tray.hover
         /\ t.life[n] = "live" /\ t.muted = tray.muted
  <1>1. /\ t.queue = tray.queue /\ t.reNotify = tray.reNotify /\ t.shown = tray.shown
        /\ t.life = [tray.life EXCEPT ![n] = "live"] /\ t.muted = tray.muted
        /\ t.hover = tray.hover /\ ~t.threw /\ ~t.due
        /\ t.leftTimers = tray.leftTimers /\ t.leftWait = tray.leftWait /\ ~t.deep
    BY DEF Pushed, TrayInv, Sound, IsTray, Fields
  <1>2. Sound(t) /\ Rested(t)
    BY DEF Pushed, TrayInv, Rested, Sound, IsTray, QueueIsSound, BoxIsSound, Fields
  <1>3. LifeOK(t) /\ t.life[n] = "live" BY <1>1 DEF TrayInv, LifeOK
  <1>4. \A m : m # n => t.life[m] = tray.life[m] BY <1>1 DEF TrayInv, LifeOK
  <1>5. Leads(tray, t) /\ Hides(tray, t) BY <1>1, <1>3, <1>4 DEF Leads, Hides
  <1> QED BY <1>1, <1>2, <1>3, <1>5 DEF Reached, Found, TimersOK, TrayInv, Aside

\* Source.notify().
LEMMA NotifyStep ==
  ASSUME TrayConstants, NestedSettles, TrayInv, NEW n \in Notifications,
         NEW critical \in BOOLEAN, NotifyWith(n, critical)
  PROVE  TrayInv' /\ Reacts(tray, tray')
  <1> DEFINE s == SourceOf[n]
             t == Pushed(tray, n, critical)
             y == IF s \in tray.muted THEN t ELSE OnNotify(t, n)
  <1>1. /\ tray.life[n] # "dead" /\ Handle(y)
        /\ pointer' = pointer /\ pressed' = pressed
    BY DEF NotifyWith
  <1>2. s \in Sources BY DEF TrayConstants
  <1>3. /\ Reached(tray, t) /\ Aside(tray, t) /\ Rested(t)
        /\ ~t.threw /\ ~t.due /\ t.hover = tray.hover
        /\ t.life[n] = "live" /\ t.muted = tray.muted
    BY <1>2, PushedReached
  <1> HIDE DEF t
  <1>4. CASE s \in tray.muted
    <2>1. y = t BY <1>4
    <2> HIDE DEF y
    <2>2. Ends(tray, y) /\ y.hover = tray.hover BY <1>3, <2>1 DEF Ends, Reached
    <2> QED BY <1>1, <2>2, QuietEnds
  <1>5. CASE s \notin tray.muted
    <2>1. y = OnNotify(t, n) BY <1>5
    <2> HIDE DEF y
    <2>2. /\ Sound(y) /\ StatesKept(t, y) /\ RestKept(t, y) /\ ~y.threw
          /\ ToSet(y.queue) \subseteq ToSet(t.queue) \cup {n} \cup ({t.reNotify} \ {None})
          /\ y.reNotify \in {t.reNotify, None, n}
          /\ y.shown \in {t.shown, None} \/ ~t.busy \/ y.shown \in t.critical
          /\ Presses(t, y)
      BY <1>3, <2>1, OnNotifyKept DEF Reached, Found
    <2>3. LifeOK(y) /\ TimersOK(y) /\ y.hover = tray.hover /\ ~y.deep
      BY <1>3, <2>2 DEF Reached, Found, RestKept, Shallow, NestedSettles, LifeOK, TimersOK
    <2>4. Rested(y) BY <1>3, <2>2 DEF Rested, StatesKept
    <2>5. ASSUME NEW m \in ToSet(y.queue) \cup ({y.reNotify} \ {None})
          PROVE  m = n \/ m \in ToSet(t.queue) \cup ({t.reNotify} \ {None})
      BY <2>2, <2>5
    <2>6. y.life[n] = "live" /\ y.muted = tray.muted /\ y.life = t.life /\ y.muted = t.muted
      BY <1>3, <2>2 DEF RestKept
    <2>7. y.shown \in {tray.shown, None} \/ ~y.busy \/ y.shown \in y.critical
      BY <1>3, <2>2 DEF RestKept, Reached, Found, Leads
    <2>8. Leads(tray, y)
      <3>1. ASSUME NEW m \in ToSet(y.queue) \cup ({y.reNotify} \ {None}), m # tray.reNotify
            PROVE  /\ y.life[m] = "dead" => m \in ToSet(tray.queue) /\ tray.life[m] = "dead"
                   /\ SourceOf[m] \in y.muted => m \in ToSet(tray.queue) /\ SourceOf[m] \in tray.muted
        <4>1. CASE m = n BY <1>5, <2>6, <4>1
        <4>2. CASE m \in ToSet(t.queue) \cup ({t.reNotify} \ {None})
          BY <1>3, <2>6, <3>1, <4>2 DEF Reached, Found, Leads
        <4> QED BY <2>5, <3>1, <4>1, <4>2
      <3> QED BY <2>7, <3>1 DEF Leads
    <2>9. Hides(tray, y) \/ (y.due /\ Urgent(y))
      BY <1>3, <2>2 DEF Presses, Hides, Reached, StatesKept, RestKept
    <2>10. Ends(tray, y) BY <2>2, <2>3, <2>4, <2>8, <2>9 DEF Ends, Found
    <2> QED BY <1>1, <2>3, <2>10, QuietEnds
  <1> QED BY <1>4, <1>5

\* Notification.update().
LEMMA ContentUpdatedStep ==
  ASSUME TrayConstants, NestedSettles, TrayInv, NEW n \in Notifications, NEW shrunk \in BOOLEAN,
         ContentUpdated(n, shrunk)
  PROVE  TrayInv' /\ Reacts(tray, tray')
  <1> DEFINE t == [tray EXCEPT !.shrunk = shrunk]
             u == IF tray.exConn /\ tray.shown = n THEN OnExpanded(t) ELSE t
             v == IF n \in tray.stack THEN OnContentUpdated(u, SourceOf[n]) ELSE u
  <1>1. Kept(tray, t) /\ Sound(t) /\ ~t.threw /\ ~t.due
    BY DEF TrayInv, Kept, Sound, IsTray, QueueIsSound, BoxIsSound, StatesKept, QueueKept,
       RestKept, Fields
  <1>2. Handle(v) /\ pointer' = pointer /\ pressed' = pressed BY DEF ContentUpdated
  <1> HIDE DEF t
  <1>3. Kept(t, u) /\ Sound(u) /\ ~u.threw /\ ~u.due
    BY <1>1, OnExpandedKept, KeptRefl DEF Kept
  <1> HIDE DEF u
  <1>4. Kept(u, v) /\ ~v.due BY <1>3, OnContentUpdatedKept, KeptRefl DEF NestedSettles
  <1> HIDE DEF v
  <1>5. Kept(tray, u) BY <1>1, <1>3, KeptTrans
  <1>6. Kept(tray, v) BY <1>4, <1>5, KeptTrans
  <1>7. Ends(tray, v) /\ v.hover = tray.hover BY <1>4, <1>6, InvBetween, KeptEnds
  <1> QED BY <1>2, <1>7, QuietEnds

\* Notification.destroy() and Source.destroy().
LEMMA CloseStep ==
  ASSUME TrayConstants, NestedSettles, TrayInv,
         \/ \E n \in Notifications : CloseNotification(n)
         \/ \E s \in Sources : CloseSource(s)
  PROVE  TrayInv' /\ Reacts(tray, tray')
  <1>1. Between(tray, tray) /\ Aside(tray, tray) /\ NestedKeeps /\ EverShallow
    BY InvBetween DEF NestedSettles
  <1>2. ASSUME NEW n \in Notifications, CloseNotification(n) PROVE TrayInv' /\ Reacts(tray, tray')
    <2> DEFINE y == DestroyNotification(tray, n)
    <2>1. Handle(y) /\ pointer' = pointer /\ pressed' = pressed
      BY <1>2 DEF CloseNotification
    <2>2. Reached(tray, y) /\ ~y.threw /\ ~y.due /\ y.hover = tray.hover /\ Rested(y)
      BY <1>1, DestroyNotificationReached DEF Between, Aside
    <2> HIDE DEF y
    <2> QED BY <2>1, <2>2, QuietEnds DEF Ends, Reached
  <1>3. ASSUME NEW s \in Sources, CloseSource(s) PROVE TrayInv' /\ Reacts(tray, tray')
    <2> DEFINE y == DestroySource(tray, s)
    <2>1. Handle(y) /\ pointer' = pointer /\ pressed' = pressed BY <1>3 DEF CloseSource
    <2>2. Kept(tray, y) /\ ~y.due BY <1>1, DestroySourceKept DEF TrayInv
    <2> HIDE DEF y
    <2>3. Ends(tray, y) /\ y.hover = tray.hover BY <1>1, <2>2, KeptEnds
    <2> QED BY <2>1, <2>3, QuietEnds
  <1> QED BY <1>2, <1>3

\* Tweens and timers.
LEMMA DueStep ==
  ASSUME NestedSettles, TrayInv, NEW u, Reached(tray, u), ~u.threw, u.hover = tray.hover,
         Handle(Due(u)), pointer' = pointer, pressed' = pressed
  PROVE  TrayInv' /\ Reacts(tray, tray')
  <1>1. Ends(tray, Due(u)) /\ Due(u).hover = tray.hover BY DueEnds
  <1> QED BY <1>1, QuietEnds

\* A tween of the notification ends.
LEMMA NotificationTweenStep ==
  ASSUME TrayConstants, NestedSettles, TrayInv, NEW w \in {"show", "y", "hide"},
         NotificationTweenDone(w)
  PROVE  TrayInv' /\ Reacts(tray, tray')
  <1> DEFINE t == [tray EXCEPT !.nTweens = @ \ {w},
                               !.nState = IF w = "hide" THEN "HIDDEN" ELSE "SHOWN"]
             z == CASE w = "show" -> [t EXCEPT !.nTimer = @ \/ t.shown \notin t.critical]
                    [] w = "hide" -> HideNotificationCompleted(t)
                    [] OTHER      -> t
  <1>1. Handle(Due(z)) /\ pointer' = pointer /\ pressed' = pressed
    BY DEF NotificationTweenDone
  <1>2. /\ Sound(t) /\ TimersOK(t) /\ ~t.threw /\ ~t.due /\ t.hover = tray.hover
        /\ t.queue = tray.queue /\ t.reNotify = tray.reNotify /\ t.life = tray.life
        /\ t.muted = tray.muted /\ t.shown = tray.shown /\ t.deep = tray.deep
    BY DEF TrayInv, TimersOK, Sound, IsTray, QueueIsSound, BoxIsSound, States, Fields
  <1> HIDE DEF t
  <1>3. Reached(tray, t) /\ Aside(tray, t) BY <1>2, SameReached
  <1>4. Reached(tray, z) /\ ~z.threw /\ z.hover = tray.hover
    <2>1. CASE w = "show"
      <3> DEFINE a == [t EXCEPT !.nTimer = @ \/ t.shown \notin t.critical]
      <3>1. Kept(t, a) /\ ~a.threw
        BY <1>2 DEF Kept, Sound, IsTray, QueueIsSound, BoxIsSound, StatesKept, QueueKept,
           RestKept, Fields
      <3>2. z = a BY <2>1
      <3> HIDE DEF a, z
      <3> QED BY <1>2, <1>3, <3>1, <3>2, ReachedKept DEF NestedSettles
    <2>2. CASE w = "hide"
      BY <1>2, <1>3, <2>2, HideNotificationCompletedReached DEF Aside, NestedSettles
    <2>3. CASE w = "y" BY <1>2, <1>3, <2>3
    <2> QED BY <2>1, <2>2, <2>3
  <1> HIDE DEF z
  <1> QED BY <1>1, <1>4, DueStep

\* The timers, and the tweens of the summary and of the tray.
LEMMA TimerStep ==
  ASSUME NestedSettles, TrayInv,
         UpdateLater \/ NotificationTimeout \/ SummaryTweenDone \/ SummaryTimeout \/ TrayTweenDone
  PROVE  TrayInv' /\ Reacts(tray, tray')
  <1>1. ASSUME NEW u, Sound(u), ~u.threw, u.hover = tray.hover, TimersOK(u),
               u.queue = tray.queue, u.reNotify = tray.reNotify, u.life = tray.life,
               u.muted = tray.muted, u.shown = tray.shown, u.deep = tray.deep,
               Handle(Due(u)), pointer' = pointer, pressed' = pressed
        PROVE  TrayInv' /\ Reacts(tray, tray')
    <2>1. Reached(tray, u) BY <1>1, SameReached
    <2> QED BY <1>1, <2>1, DueStep
  <1>2. CASE UpdateLater
    <2> DEFINE u == [tray EXCEPT !.later = FALSE]
    <2>1. /\ Sound(u) /\ ~u.threw /\ u.hover = tray.hover /\ TimersOK(u)
          /\ u.queue = tray.queue /\ u.reNotify = tray.reNotify /\ u.life = tray.life
          /\ u.muted = tray.muted /\ u.shown = tray.shown /\ u.deep = tray.deep
      BY DEF TrayInv, TimersOK, Sound, IsTray, QueueIsSound, BoxIsSound, Fields
    <2>2. Handle(Due(u)) /\ pointer' = pointer /\ pressed' = pressed BY <1>2 DEF UpdateLater
    <2> HIDE DEF u
    <2> QED BY <1>1, <2>1, <2>2
  <1>3. CASE NotificationTimeout
    <2> DEFINE u == [tray EXCEPT !.nTimer = FALSE]
    <2>1. /\ Sound(u) /\ ~u.threw /\ u.hover = tray.hover /\ TimersOK(u)
          /\ u.queue = tray.queue /\ u.reNotify = tray.reNotify /\ u.life = tray.life
          /\ u.muted = tray.muted /\ u.shown = tray.shown /\ u.deep = tray.deep
      BY DEF TrayInv, TimersOK, Sound, IsTray, QueueIsSound, BoxIsSound, Fields
    <2>2. Handle(Due(u)) /\ pointer' = pointer /\ pressed' = pressed
      BY <1>3 DEF NotificationTimeout
    <2> HIDE DEF u
    <2> QED BY <1>1, <2>1, <2>2
  <1>4. CASE SummaryTimeout
    <2> DEFINE u == [tray EXCEPT !.sTimers = @ - 1, !.sTimerId = FALSE]
    <2>1. /\ Sound(u) /\ ~u.threw /\ u.hover = tray.hover /\ TimersOK(u)
          /\ u.queue = tray.queue /\ u.reNotify = tray.reNotify /\ u.life = tray.life
          /\ u.muted = tray.muted /\ u.shown = tray.shown /\ u.deep = tray.deep
      BY DEF TrayInv, TimersOK, Sound, IsTray, QueueIsSound, BoxIsSound, Fields
    <2>2. Handle(Due(u)) /\ pointer' = pointer /\ pressed' = pressed
      BY <1>4 DEF SummaryTimeout
    <2> HIDE DEF u
    <2> QED BY <1>1, <2>1, <2>2
  <1>5. CASE TrayTweenDone
    <2> DEFINE u == [tray EXCEPT !.trayState =
                       IF tray.trayState = "SHOWING" THEN "SHOWN" ELSE "HIDDEN"]
    <2>1. /\ Sound(u) /\ ~u.threw /\ u.hover = tray.hover /\ TimersOK(u)
          /\ u.queue = tray.queue /\ u.reNotify = tray.reNotify /\ u.life = tray.life
          /\ u.muted = tray.muted /\ u.shown = tray.shown /\ u.deep = tray.deep
      BY DEF TrayInv, TimersOK, Sound, IsTray, QueueIsSound, BoxIsSound, States, Fields
    <2>2. Handle(Due(u)) /\ pointer' = pointer /\ pressed' = pressed
      BY <1>5 DEF TrayTweenDone
    <2> HIDE DEF u
    <2> QED BY <1>1, <2>1, <2>2
  <1>6. CASE SummaryTweenDone
    <2> DEFINE a == [tray EXCEPT !.sState = "SHOWN", !.sTimerId = @ \/ tray.sTimeout,
                          !.sTimers = IF tray.sTimeout THEN @ + 1 ELSE @]
               b == [tray EXCEPT !.sState = "HIDDEN"]
    <2>1. /\ \/ Handle(Due(a))
             \/ tray.bTween # "show" /\ Handle(Due(b))
          /\ pointer' = pointer /\ pressed' = pressed
      BY <1>6 DEF SummaryTweenDone
    <2>2. /\ Sound(a) /\ ~a.threw /\ a.hover = tray.hover /\ TimersOK(a)
          /\ a.queue = tray.queue /\ a.reNotify = tray.reNotify /\ a.life = tray.life
          /\ a.muted = tray.muted /\ a.shown = tray.shown /\ a.deep = tray.deep
      BY DEF TrayInv, TimersOK, Sound, IsTray, QueueIsSound, BoxIsSound, States, Fields
    <2>3. tray.bTween # "show" =>
          /\ Sound(b) /\ ~b.threw /\ b.hover = tray.hover /\ TimersOK(b)
          /\ b.queue = tray.queue /\ b.reNotify = tray.reNotify /\ b.life = tray.life
          /\ b.muted = tray.muted /\ b.shown = tray.shown /\ b.deep = tray.deep
      BY DEF TrayInv, TimersOK, Sound, IsTray, QueueIsSound, BoxIsSound, States, Fields
    <2> HIDE DEF a, b
    <2> QED BY <1>1, <2>1, <2>2, <2>3
  <1> QED BY <1>2, <1>3, <1>4, <1>5, <1>6

\* The tween of the box pointer ends.
LEMMA BoxTweenStep ==
  ASSUME TrayConstants, NestedSettles, TrayInv, BoxTweenDone
  PROVE  TrayInv' /\ Reacts(tray, tray')
  <1> DEFINE t == [tray EXCEPT !.bTween = "none"]
             y == IF tray.bTween = "show" THEN [t EXCEPT !.bState = "SHOWN"]
                  ELSE HideBoxCompleted(Hide(t, "box"))
  <1>1. Handle(y) /\ pointer' = pointer /\ pressed' = pressed BY DEF BoxTweenDone
  <1>2. CASE tray.bTween = "show"
    <2> DEFINE a == [t EXCEPT !.bState = "SHOWN"]
    <2>1. /\ Sound(a) /\ ~a.threw /\ ~a.due /\ a.hover = tray.hover /\ TimersOK(a) /\ Rested(a)
          /\ a.queue = tray.queue /\ a.reNotify = tray.reNotify /\ a.life = tray.life
          /\ a.muted = tray.muted /\ a.shown = tray.shown /\ a.deep = tray.deep
      BY <1>2 DEF TrayInv, TimersOK, Rested, Sound, IsTray, QueueIsSound, BoxIsSound,
         States, Fields
    <2>2. y = a BY <1>2
    <2> HIDE DEF a, y
    <2>3. Reached(tray, a) BY <2>1, SameReached
    <2> QED BY <1>1, <2>1, <2>2, <2>3, QuietEnds DEF Ends, Reached
  <1>3. CASE tray.bTween # "show"
    <2> DEFINE b == Hide(t, "box")
               c == HideBoxCompleted(b)
    <2>1. Kept(tray, t) /\ Sound(t) /\ ~t.threw /\ ~t.due
      BY DEF TrayInv, Kept, Sound, IsTray, QueueIsSound, BoxIsSound, StatesKept, QueueKept,
         RestKept, Fields
    <2>2. y = c BY <1>3
    <2> HIDE DEF y, t
    <2>3. Kept(t, b) /\ Sound(b) /\ ~b.threw /\ ~b.due
      BY <2>1, HideKept DEF Kept, NestedSettles
    <2> HIDE DEF b
    <2>4. Kept(b, c) /\ (c.due => ~c.threw) BY <2>3, HideBoxCompletedKept DEF NestedSettles
    <2> HIDE DEF c
    <2>5. Kept(tray, b) BY <2>1, <2>3, KeptTrans
    <2>6. Kept(tray, c) BY <2>4, <2>5, KeptTrans
    <2>7. Ends(tray, c) /\ c.hover = tray.hover BY <2>4, <2>6, InvBetween, KeptEnds
    <2> QED BY <1>1, <2>2, <2>7, QuietEnds
  <1> QED BY <1>2, <1>3

\* _onTrayLeftTimeout().
LEMMA TrayLeftStep ==
  ASSUME NestedSettles, TrayInv, NEW close \in BOOLEAN, TrayLeftTimeout(close)
  PROVE  TrayInv' /\ Reacts(tray, tray')
  <1> DEFINE a == [tray EXCEPT !.leftX = FALSE, !.leftWait = "longer"]
             b == UnsetSummaryTimeout(
                    [tray EXCEPT !.leftTimers = @ - 1, !.leftWait = "none", !.longer = FALSE,
                              !.inTray = FALSE, !.inSummary = FALSE, !.nTimer = FALSE])
  <1>1. /\ tray.leftTimers > 0 /\ (Handle(a) \/ Handle(Due(b)))
        /\ pointer' = pointer /\ pressed' = pressed
    BY DEF TrayLeftTimeout, TrayLeft
  <1>2. MaxLeft \in Nat BY TrayInputAssumption
  <1>3. /\ Sound(a) /\ ~a.threw /\ ~a.due /\ a.hover = tray.hover /\ TimersOK(a) /\ Rested(a)
        /\ a.queue = tray.queue /\ a.reNotify = tray.reNotify /\ a.life = tray.life
        /\ a.muted = tray.muted /\ a.shown = tray.shown /\ a.deep = tray.deep
    BY <1>1 DEF TrayInv, TimersOK, Rested, Sound, IsTray, QueueIsSound, BoxIsSound, Fields
  <1>4. /\ Sound(b) /\ ~b.threw /\ b.hover = tray.hover /\ TimersOK(b)
        /\ b.queue = tray.queue /\ b.reNotify = tray.reNotify /\ b.life = tray.life
        /\ b.muted = tray.muted /\ b.shown = tray.shown /\ b.deep = tray.deep
    BY <1>1, <1>2 DEF UnsetSummaryTimeout, TrayInv, TimersOK, Sound, IsTray, QueueIsSound,
       BoxIsSound, Fields
  <1> HIDE DEF a, b
  <1>5. Reached(tray, a) /\ Reached(tray, b) BY <1>3, <1>4, SameReached
  <1>6. CASE Handle(a) BY <1>1, <1>3, <1>5, <1>6, QuietEnds DEF Ends, Reached
  <1>7. CASE Handle(Due(b)) BY <1>1, <1>4, <1>5, <1>7, DueStep
  <1> QED BY <1>1, <1>6, <1>7

\* The pointer.
LEMMA SummaryHovered ==
  ASSUME NestedSettles, NEW t, NEW u, Between(t, u), Aside(t, u), NEW hover
  PROVE  LET v == Handled(HoverSummary(u, hover)) IN
         Between(t, v) /\ Aside(t, v) /\ v.hover = u.hover
  <1> DEFINE a == [u EXCEPT !.inSummary = hover]
  <1>1. Sound(u) /\ ~u.threw /\ ~u.due BY DEF Between, Reached, Found
  <1>2. Kept(u, a) /\ Sound(a) /\ ~a.threw
    BY <1>1 DEF Kept, Sound, IsTray, QueueIsSound, BoxIsSound, StatesKept, QueueKept,
       RestKept, Fields
  <1>3. HoverSummary(u, hover) = Due(a) BY DEF HoverSummary
  <1> HIDE DEF a
  <1>4. Reached(t, a) /\ a.hover = u.hover /\ Aside(t, a)
    BY <1>2, ReachedKept DEF Between, Aside, NestedSettles
  <1>5. Ends(t, Due(a)) /\ Due(a).hover = u.hover /\ Aside(t, Due(a)) BY <1>2, <1>4, DueEnds
  <1> QED BY <1>3, <1>5, HandledBetween

\* the keyboard,
LEMMA KeyboardLeft ==
  ASSUME NestedSettles, NEW t, NEW u, Between(t, u), Aside(t, u), NEW into \in BOOLEAN
  PROVE  LET v == Handled(LeaveKeyboard(u, into)) IN
         Between(t, v) /\ Aside(t, v) /\ v.hover = u.hover
  <1> DEFINE a == [u EXCEPT !.inKeyboard = FALSE]
  <1>1. Sound(u) /\ ~u.threw /\ ~u.due BY DEF Between, Reached, Found
  <1>2. Kept(u, a) /\ Sound(a) /\ ~a.threw /\ ~a.due
    BY <1>1 DEF Kept, Sound, IsTray, QueueIsSound, BoxIsSound, StatesKept, QueueKept,
       RestKept, Fields
  <1>3. LeaveKeyboard(u, into) = IF into THEN a ELSE Due(a) BY DEF LeaveKeyboard
  <1> HIDE DEF a
  <1>4. Reached(t, a) /\ a.hover = u.hover /\ Aside(t, a)
    BY <1>2, ReachedKept DEF Between, Aside, NestedSettles
  <1>5. Ends(t, Due(a)) /\ Due(a).hover = u.hover /\ Aside(t, Due(a)) BY <1>2, <1>4, DueEnds
  <1>6. Ends(t, a) BY <1>2, KeptEnds
  <1> QED BY <1>3, <1>4, <1>5, <1>6, HandledBetween

\* and the tray.
LEMMA TrayIsLeft ==
  ASSUME NEW t, NEW u, Between(t, u), Aside(t, u), u.leftTimers < MaxLeft
  PROVE  LET v == LeaveTray(u) IN
         Between(t, v) /\ Aside(t, v) /\ v.hover = FALSE
  <1> DEFINE v == LeaveTray(u)
  <1>1. MaxLeft \in Nat BY TrayInputAssumption
  <1>2. Sound(u) /\ TimersOK(u) /\ Rested(u) /\ ~u.threw /\ ~u.due
    BY DEF Between, Reached, Found
  <1>3. /\ Sound(v) /\ TimersOK(v) /\ Rested(v) /\ ~v.threw /\ ~v.due /\ v.hover = FALSE
        /\ v.queue = u.queue /\ v.reNotify = u.reNotify /\ v.life = u.life /\ v.muted = u.muted
        /\ v.shown = u.shown /\ v.busy = u.busy /\ v.critical = u.critical
        /\ v.sState = u.sState /\ v.deep = u.deep
    BY <1>1, <1>2 DEF LeaveTray, TimersOK, Rested, Sound, IsTray, QueueIsSound, BoxIsSound,
       Fields
  <1> HIDE DEF v
  <1>4. LifeOK(v) /\ Leads(t, v) /\ Hides(t, v) /\ ~v.deep
    BY <1>3 DEF Between, Reached, Found, LifeOK, Leads, Hides
  <1> QED BY <1>3, <1>4 DEF Between, Reached, Found, Aside, v

\* It enters the tray.
LEMMA TrayEntered ==
  ASSUME NestedSettles, NEW t, NEW u, Between(t, u), Aside(t, u), NEW under \in BOOLEAN
  PROVE  LET v == Handled(EnterTray(u, under)) IN
         Between(t, v) /\ Aside(t, v) /\ v.hover = TRUE
  <1> DEFINE e == EnterTray(u, under)
             a == [u EXCEPT !.hover = TRUE]
             b == [a EXCEPT !.longer = FALSE]
             c == [b EXCEPT !.leftWait = "none", !.leftTimers = @ - 1, !.leftX = FALSE]
             d == [b EXCEPT !.showMouse = FALSE, !.longer = TRUE]
             f == [b EXCEPT !.showMouse = FALSE, !.inTray = TRUE]
  <1>1. \/ e = a \/ e = d \/ e = Due(f)
        \/ u.leftWait # "none" /\ e = c
    BY DEF EnterTray
  <1>2. Sound(u) /\ TimersOK(u) /\ Rested(u) /\ ~u.threw /\ ~u.due
    BY DEF Between, Reached, Found
  <1>3. MaxLeft \in Nat BY TrayInputAssumption
  <1>4. ASSUME NEW v, Sound(v), TimersOK(v), Rested(v), ~v.threw, ~v.due, v.hover = TRUE,
               v.queue = u.queue, v.reNotify = u.reNotify, v.life = u.life, v.muted = u.muted,
               v.shown = u.shown, v.busy = u.busy, v.critical = u.critical,
               v.sState = u.sState, v.deep = u.deep
        PROVE  Between(t, v) /\ Aside(t, v)
    <2>1. LifeOK(v) /\ Leads(t, v) /\ Hides(t, v) /\ ~v.deep
      BY <1>4 DEF Between, Reached, Found, LifeOK, Leads, Hides
    <2> QED BY <1>4, <2>1 DEF Between, Reached, Found, Aside
  <1>5. /\ Between(t, a) /\ Aside(t, a) /\ a.hover = TRUE
        /\ Between(t, d) /\ Aside(t, d) /\ d.hover = TRUE
        /\ Between(t, f) /\ Aside(t, f) /\ f.hover = TRUE
    <2>1. /\ Sound(a) /\ TimersOK(a) /\ Rested(a) /\ ~a.threw /\ ~a.due /\ a.hover = TRUE
          /\ a.queue = u.queue /\ a.reNotify = u.reNotify /\ a.life = u.life /\ a.muted = u.muted
          /\ a.shown = u.shown /\ a.busy = u.busy /\ a.critical = u.critical
        /\ a.sState = u.sState /\ a.deep = u.deep
      BY <1>2 DEF TimersOK, Rested, Sound, IsTray, QueueIsSound, BoxIsSound, Fields
    <2>2. /\ Sound(d) /\ TimersOK(d) /\ Rested(d) /\ ~d.threw /\ ~d.due /\ d.hover = TRUE
          /\ d.queue = u.queue /\ d.reNotify = u.reNotify /\ d.life = u.life /\ d.muted = u.muted
          /\ d.shown = u.shown /\ d.busy = u.busy /\ d.critical = u.critical
        /\ d.sState = u.sState /\ d.deep = u.deep
      BY <1>2 DEF TimersOK, Rested, Sound, IsTray, QueueIsSound, BoxIsSound, Fields
    <2>3. /\ Sound(f) /\ TimersOK(f) /\ Rested(f) /\ ~f.threw /\ ~f.due /\ f.hover = TRUE
          /\ f.queue = u.queue /\ f.reNotify = u.reNotify /\ f.life = u.life /\ f.muted = u.muted
          /\ f.shown = u.shown /\ f.busy = u.busy /\ f.critical = u.critical
        /\ f.sState = u.sState /\ f.deep = u.deep
      BY <1>2 DEF TimersOK, Rested, Sound, IsTray, QueueIsSound, BoxIsSound, Fields
    <2> HIDE DEF a, d, f
    <2> QED BY <1>4, <2>1, <2>2, <2>3
  <1>6. u.leftWait # "none" => Between(t, c) /\ Aside(t, c) /\ c.hover = TRUE
    <2>1. u.leftWait # "none" =>
          /\ Sound(c) /\ TimersOK(c) /\ Rested(c) /\ ~c.threw /\ ~c.due /\ c.hover = TRUE
          /\ c.queue = u.queue /\ c.reNotify = u.reNotify /\ c.life = u.life /\ c.muted = u.muted
          /\ c.shown = u.shown /\ c.busy = u.busy /\ c.critical = u.critical
        /\ c.sState = u.sState /\ c.deep = u.deep
      BY <1>2, <1>3 DEF TimersOK, Rested, Sound, IsTray, QueueIsSound, BoxIsSound, Fields
    <2> HIDE DEF c
    <2> QED BY <1>4, <2>1
  <1> HIDE DEF a, c, d, f, e
  <1>7. Ends(t, e) /\ Aside(t, e) /\ e.hover = TRUE
    <2>1. CASE e = a BY <1>5, <2>1 DEF Between, Ends, Reached
    <2>2. CASE e = d BY <1>5, <2>2 DEF Between, Ends, Reached
    <2>3. CASE e = Due(f) BY <1>5, <2>3, DueEnds DEF Between
    <2>4. CASE u.leftWait # "none" /\ e = c BY <1>6, <2>4 DEF Between, Ends, Reached
    <2> QED BY <1>1, <2>1, <2>2, <2>3, <2>4
  <1> QED BY <1>7, HandledBetween DEF e

\* What a motion leaves, one handler after the other.
LEMMA PointerLeavesBetween ==
  ASSUME NestedSettles, TrayInv, NEW zone,
         InTray(pointer) /\ ~InTray(zone) => tray.leftTimers < MaxLeft
  PROVE  LET u == PointerLeaves(tray, zone) IN
         /\ Between(tray, u) /\ Aside(tray, u)
         /\ u.hover = (InTray(pointer) /\ InTray(zone))
  <1> DEFINE a == IF pointer = "keyboard"
                    THEN Handled(LeaveKeyboard(tray, InTray(zone))) ELSE tray
             b == IF pointer = "summary" THEN Handled(HoverSummary(a, FALSE)) ELSE a
             c == IF InTray(pointer) /\ ~InTray(zone) THEN LeaveTray(b) ELSE b
  <1>1. PointerLeaves(tray, zone) = c BY DEF PointerLeaves
  <1>2. InTray(zone) \in BOOLEAN /\ InTray(pointer) \in BOOLEAN BY DEF InTray
  <1>3. Between(tray, a) /\ Aside(tray, a) /\ a.hover = tray.hover
    BY <1>2, InvBetween, KeyboardLeft
  <1> HIDE DEF a
  <1>4. Between(tray, b) /\ Aside(tray, b) /\ b.hover = tray.hover
    BY <1>3, SummaryHovered
  <1>5. InTray(pointer) /\ ~InTray(zone) => b.leftTimers < MaxLeft
    <2>1. CASE pointer = "summary"
      <3>1. a.leftTimers = tray.leftTimers
        <4>1. pointer # "keyboard" BY <2>1
        <4> QED BY <4>1 DEF a
      <3>2. Sound([a EXCEPT !.inSummary = FALSE, !.due = TRUE])
            /\ [a EXCEPT !.inSummary = FALSE, !.due = TRUE].leftTimers = a.leftTimers
            /\ ~[a EXCEPT !.inSummary = FALSE, !.due = TRUE].threw
        BY <1>3 DEF Between, Reached, Found, Sound, IsTray, QueueIsSound, BoxIsSound, Fields
      <3>3. HoverSummary(a, FALSE) = [a EXCEPT !.inSummary = FALSE, !.due = TRUE]
        BY DEF HoverSummary, Due
      <3>4. Sound(HoverSummary(a, FALSE)) /\ ~HoverSummary(a, FALSE).threw
            /\ HoverSummary(a, FALSE).leftTimers = a.leftTimers
        BY <3>2, <3>3
      <3>5. Handled(HoverSummary(a, FALSE)).leftTimers = a.leftTimers
        BY <3>4, HandledKept DEF NestedSettles, Kept, RestKept
      <3>6. b.leftTimers = tray.leftTimers BY <2>1, <3>1, <3>5
      <3> QED BY <3>6
    <2>2. CASE pointer = "tray"
      <3>1. b = a BY <2>2
      <3>2. a = tray BY <2>2 DEF a
      <3> QED BY <3>1, <3>2
    <2> QED BY <2>1, <2>2 DEF InTray
  <1> HIDE DEF b
  <1>6. tray.hover = InTray(pointer) BY DEF TrayInv
  <1>7. CASE InTray(pointer) /\ ~InTray(zone)
    <2>1. c = LeaveTray(b) BY <1>7
    <2>2. Between(tray, c) /\ Aside(tray, c) /\ c.hover = FALSE
      BY <1>4, <1>5, <1>7, <2>1, TrayIsLeft
    <2> HIDE DEF c
    <2> QED BY <1>1, <1>7, <2>2
  <1>8. CASE ~(InTray(pointer) /\ ~InTray(zone))
    <2>1. c = b BY <1>8
    <2> HIDE DEF c
    <2> QED BY <1>1, <1>2, <1>4, <1>6, <1>8, <2>1
  <1> QED BY <1>7, <1>8

\* The motions of the pointer.
LEMMA PointerStep ==
  ASSUME NestedSettles, TrayInv, NEW zone, NEW under \in BOOLEAN,
         PointerMoves(zone, under) \/ PointerMovesBeside(zone)
  PROVE  TrayInv' /\ Reacts(tray, tray')
  <1> DEFINE u == PointerLeaves(tray, zone)
  <1>1. /\ InTray(pointer) /\ ~InTray(zone) => tray.leftTimers < MaxLeft
        /\ pointer' = zone /\ pressed' \in {pressed, None}
    BY DEF PointerMoves, PointerMovesBeside
  <1>2. pressed' \in Sources \cup {None} BY <1>1 DEF TrayInv
  <1>3. InTray(zone) \in BOOLEAN /\ InTray(pointer) \in BOOLEAN BY DEF InTray
  <1>4. /\ Between(tray, u) /\ Aside(tray, u)
        /\ u.hover = (InTray(pointer) /\ InTray(zone))
    BY <1>1, PointerLeavesBetween
  <1>5. CASE PointerMoves(zone, under)
    <2> DEFINE v == IF zone = "summary" THEN Handled(HoverSummary(u, TRUE)) ELSE u
               w == IF ~InTray(pointer) /\ InTray(zone) THEN Handled(EnterTray(v, under)) ELSE v
    <2>1. Handle(w) BY <1>5 DEF PointerMoves
    <2> HIDE DEF u
    <2>2. Between(tray, v) /\ Aside(tray, v) /\ v.hover = u.hover BY <1>4, SummaryHovered
    <2> HIDE DEF v
    <2>3. CASE ~InTray(pointer) /\ InTray(zone)
      <3>1. w = Handled(EnterTray(v, under)) BY <2>3
      <3> HIDE DEF w
      <3>2. Between(tray, w) /\ w.hover = TRUE BY <2>2, <3>1, TrayEntered
      <3>3. w.hover = InTray(pointer') BY <1>1, <2>3, <3>2
      <3> QED BY <1>2, <2>1, <3>2, <3>3, EventEnds DEF Ends, Between, Reached
    <2>4. CASE ~(~InTray(pointer) /\ InTray(zone))
      <3>1. w = v BY <2>4
      <3> HIDE DEF w
      <3>2. w.hover = InTray(pointer') BY <1>1, <1>3, <1>4, <2>2, <2>4, <3>1
      <3> QED BY <1>2, <2>1, <2>2, <3>1, <3>2, EventEnds DEF Ends, Between, Reached
    <2> QED BY <2>3, <2>4
  <1>6. CASE PointerMovesBeside(zone)
    <2> DEFINE v == IF zone = "corner" THEN [u EXCEPT !.inSummary = TRUE]
                    ELSE [u EXCEPT !.inKeyboard = TRUE]
    <2>1. Handle(Due(v)) /\ ~InTray(zone) BY <1>6 DEF PointerMovesBeside, InTray
    <2> HIDE DEF u
    <2>2. Sound(u) /\ ~u.threw /\ u.hover = FALSE
      BY <1>3, <1>4, <2>1 DEF Between, Reached, Found
    <2>3. Kept(u, v) /\ ~v.threw
      <3>1. v = [u EXCEPT !.inSummary = TRUE] \/ v = [u EXCEPT !.inKeyboard = TRUE] OBVIOUS
      <3> HIDE DEF v
      <3>2. CASE v = [u EXCEPT !.inSummary = TRUE]
        BY <2>2, <3>2 DEF Kept, Sound, IsTray, QueueIsSound, BoxIsSound, StatesKept,
           QueueKept, RestKept, Fields
      <3>3. CASE v = [u EXCEPT !.inKeyboard = TRUE]
        BY <2>2, <3>3 DEF Kept, Sound, IsTray, QueueIsSound, BoxIsSound, StatesKept,
           QueueKept, RestKept, Fields
      <3> QED BY <3>1, <3>2, <3>3
    <2> HIDE DEF v
    <2>4. Reached(tray, v) /\ v.hover = FALSE
      BY <1>4, <2>2, <2>3, ReachedKept DEF Between, NestedSettles
    <2>5. Ends(tray, Due(v)) /\ Due(v).hover = FALSE BY <2>3, <2>4, DueEnds
    <2>6. Due(v).hover = InTray(pointer') BY <1>1, <1>3, <2>1, <2>5
    <2> QED BY <1>2, <2>1, <2>5, <2>6, EventEnds
  <1> QED BY <1>5, <1>6

\* hide().
LEMMA HideTrayStep ==
  ASSUME NestedSettles, TrayInv, HideTray
  PROVE  TrayInv' /\ Reacts(tray, tray')
  <1> DEFINE a == [tray EXCEPT !.summoned = FALSE]
             b == IF a.hover THEN LeaveTray(a) ELSE a
             c == IF pointer = "summary" THEN Handled(HoverSummary(b, FALSE)) ELSE b
  <1>1. /\ tray.hover => tray.leftTimers < MaxLeft
        /\ pointer' = IF InTray(pointer) THEN "out" ELSE pointer
        /\ Handle(Due(c)) /\ pressed' = None
    BY DEF HideTray
  <1>2. Kept(tray, a) /\ ~a.threw /\ ~a.due /\ a.leftTimers = tray.leftTimers
    BY DEF TrayInv, Kept, Sound, IsTray, QueueIsSound, BoxIsSound, StatesKept, QueueKept,
       RestKept, Fields
  <1> HIDE DEF a
  <1>3. Between(tray, a) /\ Aside(tray, a) /\ a.hover = tray.hover
    BY <1>2, InvBetween, ReachedKept DEF Between, Aside, NestedSettles
  <1>4. Between(tray, b) /\ Aside(tray, b) /\ b.hover = FALSE
    <2>1. tray.hover \in BOOLEAN BY DEF TrayInv, InTray
    <2>2. CASE a.hover BY <1>1, <1>2, <1>3, <2>2, TrayIsLeft
    <2>3. CASE ~a.hover BY <1>3, <2>1, <2>3
    <2> QED BY <2>2, <2>3
  <1> HIDE DEF b
  <1>5. Between(tray, c) /\ c.hover = FALSE BY <1>4, SummaryHovered
  <1> HIDE DEF c
  <1>6. Ends(tray, Due(c)) /\ Due(c).hover = FALSE BY <1>5, DueEnds DEF Between
  <1>7. InTray(pointer') = FALSE BY <1>1 DEF InTray
  <1> QED BY <1>1, <1>6, <1>7, EventEnds

\* Clicks and keys.
LEMMA PressStep ==
  ASSUME NestedSettles, TrayInv,
         PressOutside \/ (\E s \in Sources : PressItem(s)) \/ LoseFocus
  PROVE  TrayInv' /\ Reacts(tray, tray')
  <1>1. ASSUME NEW y, y = Ungrab(tray) \/ y = Ungrab(UnsetClicked(tray)) \/ y = tray
        PROVE  Ends(tray, y) /\ y.hover = tray.hover
    <2>1. Sound(tray) /\ ~tray.threw /\ ~tray.due /\ NestedKeeps
      BY DEF TrayInv, NestedSettles
    <2>2. /\ Kept(tray, UnsetClicked(tray)) /\ Sound(UnsetClicked(tray))
          /\ ~UnsetClicked(tray).threw /\ ~UnsetClicked(tray).due
      BY <2>1, UnsetClickedKept DEF Kept
    <2>3. CASE y = Ungrab(tray)
      <3>1. Kept(tray, y) /\ ~y.due BY <2>1, <2>3, UngrabKept
      <3> QED BY <3>1, InvBetween, KeptEnds
    <2>4. CASE y = Ungrab(UnsetClicked(tray))
      <3>1. Kept(UnsetClicked(tray), y) /\ ~y.due BY <2>1, <2>2, <2>4, UngrabKept
      <3>2. Kept(tray, y) BY <2>2, <3>1, KeptTrans
      <3> QED BY <3>1, <3>2, InvBetween, KeptEnds
    <2>5. CASE y = tray BY <2>5, InvBetween DEF Between, Ends, Reached
    <2> QED BY <1>1, <2>3, <2>4, <2>5
  <1>2. ASSUME NEW item
        PROVE  \/ ButtonPressed(tray, item) = Ungrab(tray)
               \/ ButtonPressed(tray, item) = Ungrab(UnsetClicked(tray))
               \/ ButtonPressed(tray, item) = tray
    BY DEF ButtonPressed
  <1>3. CASE PressOutside
    <2>1. Handle(ButtonPressed(tray, None)) /\ pointer' = pointer /\ pressed' = pressed
      BY <1>3 DEF PressOutside
    <2> QED BY <1>1, <1>2, <2>1, QuietEnds
  <1>4. CASE \E s \in Sources : PressItem(s)
    <2>1. PICK s \in Sources : PressItem(s) BY <1>4
    <2>2. Handle(ButtonPressed(tray, s)) /\ pointer' = pointer /\ pressed' = s
      BY <2>1 DEF PressItem
    <2>3. InTray(pointer') = tray.hover BY <2>2 DEF TrayInv, InTray
    <2>4. Ends(tray, ButtonPressed(tray, s)) /\ ButtonPressed(tray, s).hover = tray.hover
      BY <1>1, <1>2
    <2> QED BY <2>2, <2>3, <2>4, EventEnds
  <1>5. CASE LoseFocus
    <2>1. Handle(Ungrab(tray)) /\ pointer' = pointer /\ pressed' = pressed
      BY <1>5 DEF LoseFocus
    <2> QED BY <1>1, <2>1, QuietEnds
  <1> QED BY <1>3, <1>4, <1>5

\* _onSummaryItemClicked().
LEMMA ReleaseItemStep ==
  ASSUME TrayConstants, NestedSettles, TrayInv, NEW b \in {1, 2, 3}, NEW stolen \in BOOLEAN,
         ReleaseItem(b, stolen)
  PROVE  TrayInv' /\ Reacts(tray, tray')
  <1> DEFINE s == pressed
             t == CASE stolen -> UnsetClicked(tray)
                    [] ~stolen /\ (tray.clicked # s \/ tray.button # b) ->
                         [tray EXCEPT !.clicked = s, !.button = b]
                    [] OTHER -> UnsetClicked(tray)
  <1>1. /\ pressed # None /\ pressed' = None /\ pointer' = pointer
        /\ Handle(IF s \in tray.items THEN Due(t) ELSE tray)
    BY DEF ReleaseItem
  <1>2. InTray(pointer') = tray.hover BY <1>1 DEF TrayInv, InTray
  <1>3. Reached(tray, t) /\ ~t.threw /\ t.hover = tray.hover
    <2> DEFINE v == [tray EXCEPT !.clicked = s, !.button = b]
    <2>1. t = UnsetClicked(tray) \/ t = v OBVIOUS
    <2>2. s \in Sources BY <1>1 DEF TrayInv
    <2> HIDE DEF t
    <2>3. CASE t = UnsetClicked(tray)
      <3>1. Kept(tray, t) /\ ~t.threw BY <2>3, UnsetClickedKept DEF TrayInv
      <3> QED BY <3>1, InvBetween, ReachedKept DEF Between, NestedSettles
    <2>4. CASE t = v
      <3>1. /\ Sound(v) /\ TimersOK(v) /\ ~v.threw /\ v.hover = tray.hover
            /\ v.queue = tray.queue /\ v.reNotify = tray.reNotify /\ v.life = tray.life
            /\ v.muted = tray.muted /\ v.shown = tray.shown /\ v.deep = tray.deep
        BY <2>2 DEF TrayInv, TimersOK, Sound, IsTray, QueueIsSound, BoxIsSound, Fields
      <3> HIDE DEF v
      <3> QED BY <2>4, <3>1, SameReached
    <2> QED BY <2>1, <2>3, <2>4
  <1> HIDE DEF t
  <1>4. Ends(tray, Due(t)) /\ Due(t).hover = tray.hover BY <1>3, DueEnds
  <1>5. Ends(tray, tray) BY InvBetween DEF Between, Ends, Reached
  <1>6. None \in Sources \cup {None} OBVIOUS
  <1> QED BY <1>1, <1>2, <1>4, <1>5, <1>6, EventEnds

\* _escapeTray(), as the handler of a signal.
LEMMA EscapedBetween ==
  ASSUME NestedSettles, NEW t, NEW u, Between(t, u), Aside(t, u)
  PROVE  LET v == Handled(EscapeTray(u)) IN
         Between(t, v) /\ Aside(t, v) /\ v.hover = u.hover
  <1> DEFINE e == EscapeTray(u)
  <1>1. Kept(u, e) /\ (e.due => ~e.threw)
    BY EscapeTrayKept DEF NestedSettles, Between, Reached, Found
  <1> HIDE DEF e
  <1>2. Ends(t, e) /\ Aside(t, e) /\ e.hover = u.hover BY <1>1, KeptEnds
  <1> QED BY <1>2, HandledBetween DEF e

\* done-displaying-content.
LEMMA DoneDisplayingBetween ==
  ASSUME NestedSettles, NEW t, NEW u, Between(t, u), Aside(t, u), NEW s
  PROVE  LET v == DoneDisplaying(u, s) IN
         Between(t, v) /\ Aside(t, v) /\ v.hover = u.hover
  BY EscapedBetween DEF DoneDisplaying

\* The menu of an item: what is muted leaves the queue.
LEMMA ActivateMenuStep ==
  ASSUME TrayConstants, NestedSettles, TrayInv, NEW what \in {"open", "remove", "mute"},
         ActivateMenu(what)
  PROVE  TrayInv' /\ Reacts(tray, tray')
  <1> DEFINE s == tray.bItem
             a == [tray EXCEPT !.muted = @ \ {s}]
             b == [tray EXCEPT !.muted = @ \cup {s}, !.queue = NotOf(@, s)]
             z == CASE what = "remove" -> DestroySource(tray, s)
                    [] what = "mute" /\ s \in tray.muted -> a
                    [] what = "mute" /\ s \notin tray.muted -> b
                    [] OTHER -> tray
  <1>1. Handle(DoneDisplaying(z, s)) /\ pointer' = pointer /\ pressed' = pressed
    BY DEF ActivateMenu
  <1>2. \/ z = DestroySource(tray, s) \/ z = a \/ z = b \/ z = tray
    OBVIOUS
  <1>3. Between(tray, tray) /\ Aside(tray, tray) BY InvBetween
  <1>4. Sound(tray) /\ LifeOK(tray) /\ TimersOK(tray) /\ Rested(tray)
        /\ ~tray.threw /\ ~tray.due /\ ~tray.deep
    BY DEF TrayInv
  <1> HIDE DEF z
  <1>5. Between(tray, z) /\ Aside(tray, z) /\ z.hover = tray.hover
    <2>1. CASE z = DestroySource(tray, s)
      <3>1. Kept(tray, z) /\ ~z.threw /\ ~z.due
        BY <1>4, <2>1, DestroySourceKept DEF NestedSettles
      <3> QED BY <1>3, <3>1, ReachedKept DEF Between, Aside, NestedSettles
    <2>2. CASE z = a
      <3>1. /\ Sound(a) /\ TimersOK(a) /\ Rested(a) /\ ~a.threw /\ ~a.due /\ a.hover = tray.hover
            /\ a.queue = tray.queue /\ a.reNotify = tray.reNotify /\ a.life = tray.life
            /\ a.muted \subseteq tray.muted /\ a.shown = tray.shown /\ a.deep = tray.deep
        BY <1>4 DEF Rested, TimersOK, Sound, IsTray, QueueIsSound, BoxIsSound, Fields
      <3> HIDE DEF a
      <3>2. LifeOK(a) /\ Leads(tray, a) /\ Hides(tray, a) /\ ~a.deep
        BY <1>4, <3>1 DEF LifeOK, Leads, Hides
      <3> QED BY <2>2, <3>1, <3>2 DEF Between, Reached, Found, Aside
    <2>3. CASE z = b
      <3>1. /\ tray.queue \in Seq(Notifications) /\ Distinct(tray.queue)
            /\ tray.shown \notin ToSet(tray.queue)
        BY <1>4 DEF Sound, QueueIsSound
      <3>2. /\ NotOf(tray.queue, s) \in Seq(Notifications) /\ Distinct(NotOf(tray.queue, s))
            /\ ToSet(NotOf(tray.queue, s)) \subseteq ToSet(tray.queue)
            /\ \A m \in ToSet(NotOf(tray.queue, s)) : SourceOf[m] # s
        <4> DEFINE S == {n \in Notifications : SourceOf[n] # s}
        <4>1. /\ Filter(tray.queue, S) \in Seq(Notifications) /\ Distinct(Filter(tray.queue, S))
              /\ ToSet(Filter(tray.queue, S)) \subseteq ToSet(tray.queue) \cap S
          BY <3>1, FilterProperties
        <4>2. \A m \in S : SourceOf[m] # s OBVIOUS
        <4>3. NotOf(tray.queue, s) = Filter(tray.queue, S) BY DEF NotOf
        <4> HIDE DEF S, Filter
        <4> QED BY <4>1, <4>2, <4>3
      <3>3. /\ b.queue = NotOf(tray.queue, s) /\ b.shown = tray.shown
            /\ b.reNotify = tray.reNotify /\ b.life = tray.life /\ b.muted = tray.muted \cup {s}
            /\ ~b.threw /\ ~b.due /\ b.hover = tray.hover
            /\ b.leftTimers = tray.leftTimers /\ b.leftWait = tray.leftWait
            /\ b.nState = tray.nState /\ b.sState = tray.sState /\ b.bState = tray.bState
            /\ ~b.deep
        BY <1>4 DEF Sound, IsTray, Fields
      <3>4. IsTray(b) /\ BoxIsSound(b) BY <1>4 DEF Sound, IsTray, BoxIsSound, Fields
      <3> HIDE DEF b
      <3>5. Sound(b) BY <3>1, <3>2, <3>3, <3>4 DEF Sound, QueueIsSound
      <3>6. LifeOK(b) /\ TimersOK(b) /\ Rested(b) BY <1>4, <3>3 DEF LifeOK, TimersOK, Rested
      <3>7. Leads(tray, b) /\ Hides(tray, b) BY <3>2, <3>3, <3>6, <1>4 DEF Leads, Hides
      <3> QED BY <2>3, <3>3, <3>5, <3>6, <3>7 DEF Between, Reached, Found, Aside
    <2>4. CASE z = tray BY <1>3, <2>4
    <2> QED BY <1>2, <2>1, <2>2, <2>3, <2>4
  <1>6. LET v == DoneDisplaying(z, s) IN Between(tray, v) /\ v.hover = tray.hover
    BY <1>5, DoneDisplayingBetween
  <1> QED BY <1>1, <1>6, QuietEnds DEF Between, Ends, Reached

\* A click on a notification, which may destroy it.
LEMMA ClickNotificationStep ==
  ASSUME TrayConstants, NestedSettles, TrayInv, NEW n \in Notifications, ClickNotification(n)
  PROVE  TrayInv' /\ Reacts(tray, tray')
  <1> DEFINE inBin == tray.shown = n /\ tray.nState # "HIDDEN"
             a == IF inBin THEN Handled(EscapeTray(tray)) ELSE tray
             b == IF n \in a.stack THEN DoneDisplaying(a, SourceOf[n]) ELSE a
             c == IF n \in ResidentNotes THEN b ELSE DestroyNotification(b, n)
  <1>1. Handle(c) /\ pointer' = pointer /\ pressed' = pressed BY DEF ClickNotification
  <1>2. Between(tray, a) /\ Aside(tray, a) /\ a.hover = tray.hover
    BY InvBetween, EscapedBetween
  <1> HIDE DEF a
  <1>3. Between(tray, b) /\ Aside(tray, b) /\ b.hover = tray.hover
    BY <1>2, DoneDisplayingBetween
  <1> HIDE DEF b
  <1>4. Between(tray, c) /\ c.hover = tray.hover
    BY <1>3, DestroyNotificationReached DEF Between, Aside, NestedSettles
  <1> HIDE DEF c
  <1> QED BY <1>1, <1>4, QuietEnds DEF Between, Ends, Reached

\* Escape, and the key of the on-screen keyboard.
LEMMA KeyStep ==
  ASSUME NestedSettles, TrayInv, PressEscape \/ ToggleTray
  PROVE  TrayInv' /\ Reacts(tray, tray')
  <1>1. CASE PressEscape
    <2>1. Handle(EscapeTray(tray)) /\ pointer' = pointer /\ pressed' = pressed
      BY <1>1 DEF PressEscape
    <2>2. Kept(tray, EscapeTray(tray)) /\ (EscapeTray(tray).due => ~EscapeTray(tray).threw)
      BY EscapeTrayKept DEF NestedSettles, TrayInv
    <2>3. Ends(tray, EscapeTray(tray)) /\ EscapeTray(tray).hover = tray.hover
      BY <2>2, InvBetween, KeptEnds
    <2> QED BY <2>1, <2>3, QuietEnds
  <1>2. CASE ToggleTray
    <2> DEFINE u == [tray EXCEPT !.summoned = ~@]
    <2>1. Kept(tray, u) /\ ~u.threw
      BY DEF TrayInv, Kept, Sound, IsTray, QueueIsSound, BoxIsSound, StatesKept, QueueKept,
         RestKept, Fields
    <2>2. Handle(Due(u)) /\ pointer' = pointer /\ pressed' = pressed BY <1>2 DEF ToggleTray
    <2> HIDE DEF u
    <2>3. Reached(tray, u) /\ u.hover = tray.hover
      BY <2>1, InvBetween, ReachedKept DEF Between, NestedSettles
    <2> QED BY <2>1, <2>2, <2>3, DueStep
  <1> QED BY <1>1, <1>2

\* The overview, and the session.
LEMMA ToggleFocusBetween ==
  ASSUME NestedSettles, TrayInv
  PROVE  LET v == ToggleFocus(tray) IN Between(tray, v) /\ v.hover = tray.hover
  <1> DEFINE u == Ungrab(tray)
             g == Grab(u, tray.focus)
  <1>1. Between(tray, tray) /\ Sound(tray) /\ ~tray.threw /\ ~tray.due /\ NestedKeeps
    BY InvBetween DEF TrayInv, NestedSettles
  <1>2. CASE tray.focus = "none" BY <1>1, <1>2 DEF ToggleFocus
  <1>3. CASE tray.focus # "none"
    <2>1. ToggleFocus(tray) = Handled(g) BY <1>3 DEF ToggleFocus
    <2>2. Kept(tray, u) /\ Sound(u) /\ ~u.threw /\ ~u.due BY <1>1, UngrabKept DEF Kept
    <2> HIDE DEF u
    <2>3. Kept(u, g) /\ ~g.due BY <1>3, <2>2, GrabKept
    <2> HIDE DEF g
    <2>4. Kept(tray, g) BY <2>2, <2>3, KeptTrans
    <2>5. Ends(tray, g) /\ g.hover = tray.hover BY <1>1, <2>3, <2>4, KeptEnds
    <2>6. Between(tray, Handled(g)) /\ Handled(g).hover = g.hover BY <2>5, HandledBetween
    <2> QED BY <2>1, <2>5, <2>6
  <1> QED BY <1>2, <1>3

\* The overview is shown or hidden, for the tray.
LEMMA OverviewEnds ==
  ASSUME NestedSettles, NEW t, NEW u, Between(t, u), NEW visible
  PROVE  Ends(t, OverviewIs(u, visible)) /\ OverviewIs(u, visible).hover = u.hover
  <1> DEFINE a == [u EXCEPT !.overview = visible]
             b == UnsetClicked(a)
  <1>1. Sound(u) /\ ~u.threw /\ ~u.due BY DEF Between, Reached, Found
  <1>2. Kept(u, a) /\ Sound(a) /\ ~a.threw /\ ~a.due
    BY <1>1 DEF Kept, Sound, IsTray, QueueIsSound, BoxIsSound, StatesKept, QueueKept,
       RestKept, Fields
  <1>3. OverviewIs(u, visible) = IF a.locked THEN Unlock(b) ELSE Due(a) BY DEF OverviewIs
  <1> HIDE DEF a
  <1>4. Reached(t, a) /\ a.hover = u.hover BY <1>2, ReachedKept DEF Between, NestedSettles
  <1>5. Ends(t, Due(a)) /\ Due(a).hover = u.hover BY <1>2, <1>4, DueEnds
  <1>6. Kept(a, b) /\ Sound(b) /\ ~b.threw /\ ~b.due BY <1>2, UnsetClickedKept DEF Kept
  <1> HIDE DEF b
  <1>7. Kept(b, Unlock(b)) /\ ~Unlock(b).threw BY <1>6, UnlockKept
  <1>8. Kept(a, Unlock(b)) BY <1>6, <1>7, KeptTrans
  <1>9. Kept(u, Unlock(b)) BY <1>2, <1>8, KeptTrans
  <1>10. Ends(t, Unlock(b)) /\ Unlock(b).hover = u.hover BY <1>7, <1>9, KeptEnds
  <1> QED BY <1>3, <1>5, <1>10

\* The overview, with the focus that it takes and gives back.
LEMMA OverviewStep ==
  ASSUME NestedSettles, TrayInv, OverviewShowing \/ OverviewHiding \/ OverviewHidden
  PROVE  TrayInv' /\ Reacts(tray, tray')
  <1>1. Between(tray, tray) BY InvBetween
  <1>2. LET v == ToggleFocus(tray) IN Between(tray, v) /\ v.hover = tray.hover
    BY ToggleFocusBetween
  <1>3. CASE OverviewShowing
    <2>1. /\ Handle(OverviewIs(ToggleFocus(tray), TRUE))
          /\ pointer' = pointer /\ pressed' = pressed
      BY <1>3 DEF OverviewShowing
    <2> QED BY <1>2, <2>1, OverviewEnds, QuietEnds
  <1>4. CASE OverviewHiding
    <2>1. Handle(OverviewIs(tray, FALSE)) /\ pointer' = pointer /\ pressed' = pressed
      BY <1>4 DEF OverviewHiding
    <2> QED BY <1>1, <2>1, OverviewEnds, QuietEnds
  <1>5. CASE OverviewHidden
    <2>1. Handle(ToggleFocus(tray)) /\ pointer' = pointer /\ pressed' = pressed
      BY <1>5 DEF OverviewHidden
    <2> QED BY <1>2, <2>1, QuietEnds DEF Between, Ends, Reached
  <1> QED BY <1>3, <1>4, <1>5

\* The presence, and the idle monitor.
LEMMA SessionStep ==
  ASSUME NestedSettles, TrayInv,
         \/ \E status \in {"BUSY", "AVAILABLE", "IDLE"} : StatusChanged(status)
         \/ \E idle \in BOOLEAN : UserBecomes(idle)
  PROVE  TrayInv' /\ Reacts(tray, tray')
  <1>1. CASE \E status \in {"BUSY", "AVAILABLE", "IDLE"} : StatusChanged(status)
    <2> DEFINE a == UnsetSummaryTimeout([tray EXCEPT !.nTimer = FALSE, !.busy = TRUE])
               b == [tray EXCEPT !.busy = FALSE]
    <2>1. /\ Handle(Due(a)) \/ Handle(Due(b)) \/ Handle(Due(tray))
          /\ pointer' = pointer /\ pressed' = pressed
      BY <1>1 DEF StatusChanged
    <2>2. /\ Sound(a) /\ TimersOK(a) /\ ~a.threw /\ a.hover = tray.hover
          /\ a.queue = tray.queue /\ a.reNotify = tray.reNotify /\ a.life = tray.life
          /\ a.muted = tray.muted /\ a.shown = tray.shown /\ a.deep = tray.deep
      BY DEF UnsetSummaryTimeout, TrayInv, TimersOK, Sound, IsTray, QueueIsSound,
         BoxIsSound, Fields
    <2>3. /\ Sound(b) /\ TimersOK(b) /\ ~b.threw /\ b.hover = tray.hover
          /\ b.queue = tray.queue /\ b.reNotify = tray.reNotify /\ b.life = tray.life
          /\ b.muted = tray.muted /\ b.shown = tray.shown /\ b.deep = tray.deep
      BY DEF TrayInv, TimersOK, Sound, IsTray, QueueIsSound, BoxIsSound, Fields
    <2> HIDE DEF a, b
    <2>4. Reached(tray, a) /\ Reached(tray, b) BY <2>2, <2>3, SameReached
    <2>5. Reached(tray, tray) /\ ~tray.threw BY InvBetween DEF Between
    <2> QED BY <2>1, <2>2, <2>3, <2>4, <2>5, DueStep
  <1>2. CASE \E idle \in BOOLEAN : UserBecomes(idle)
    <2>1. PICK idle \in BOOLEAN : UserBecomes(idle) BY <1>2, SMTT(30)
    <2> DEFINE t == [tray EXCEPT !.userIdle = idle, !.watch = FALSE]
               a == [t EXCEPT !.unseen = <<>>]
               b == [t EXCEPT !.back = TRUE]
    <2>2. /\ Handle(t) \/ Handle(a) \/ Handle(Due(b))
          /\ pointer' = pointer /\ pressed' = pressed
      BY <2>1 DEF UserBecomes
    <2>3. Kept(tray, t) /\ ~t.threw /\ ~t.due
      BY DEF TrayInv, Kept, Sound, IsTray, QueueIsSound, BoxIsSound, StatesKept, QueueKept,
         RestKept, Fields
    <2>4. Kept(tray, a) /\ ~a.threw /\ ~a.due
      BY DEF TrayInv, Kept, Sound, IsTray, QueueIsSound, BoxIsSound, StatesKept, QueueKept,
         RestKept, Fields
    <2>5. Kept(tray, b) /\ ~b.threw /\ ~b.due
      BY DEF TrayInv, Kept, Sound, IsTray, QueueIsSound, BoxIsSound, StatesKept, QueueKept,
         RestKept, Fields
    <2> HIDE DEF t, a, b
    <2>6. Ends(tray, t) /\ t.hover = tray.hover BY <2>3, InvBetween, KeptEnds
    <2>7. Ends(tray, a) /\ a.hover = tray.hover BY <2>4, InvBetween, KeptEnds
    <2>8. Reached(tray, b) /\ b.hover = tray.hover
      BY <2>5, InvBetween, ReachedKept DEF Between, NestedSettles
    <2> QED BY <2>2, <2>5, <2>6, <2>7, <2>8, QuietEnds, DueStep
  <1> QED BY <1>1, <1>2

-----------------------------------------------------------------------------
(* The tray, from its start.                                               *)

\* The tray as it is built keeps the inductive invariant,
LEMMA InitInv ==
  ASSUME TrayInit
  PROVE  TrayInv
  <1>1. TrayConstants /\ MaxLeft \in Nat BY TrayAssumption, TrayInputAssumption
  <1>2. tray = NewTray /\ pointer = "out" /\ pressed = None BY DEF TrayInit
  <1>3. <<>> \in Seq(Notifications) /\ Distinct(<<>>) /\ ToSet(<<>>) = {}
    <2>1. Len(<<>>) = 0 /\ <<>> \in Seq(Notifications) OBVIOUS
    <2>2. ToSet(<<>>) = {<<>>[i] : i \in 1..Len(<<>>)} BY <2>1, ToSetProperties
    <2> QED BY <2>1, <2>2 DEF Distinct
  <1>4. IsTray(tray) BY <1>2 DEF NewTray, IsTray, States, Fields
  <1>5. tray.queue = <<>> /\ tray.shown = None BY <1>2 DEF NewTray
  <1>6. QueueIsSound(tray) BY <1>3, <1>5 DEF QueueIsSound
  <1>7. BoxIsSound(tray)
    <2>1. \A s \in Sources : None # <<s, 1>> BY <1>1 DEF TrayConstants
    <2>2. /\ tray.stack = {} /\ ~tray.locked /\ tray.bChild = None /\ tray.bTween = "none"
      BY <1>2 DEF NewTray
    <2> QED BY <2>1, <2>2 DEF BoxIsSound
  <1>8. LifeOK(tray)
    <2>1. tray.life = [n \in Notifications |-> "new"] BY <1>2 DEF NewTray
    <2> QED BY <2>1 DEF LifeOK
  <1>9. /\ TimersOK(tray) /\ Rested(tray) /\ ~tray.threw /\ ~tray.due /\ ~tray.deep
        /\ tray.hover = InTray(pointer)
    <2>1. /\ tray.leftTimers = 0 /\ tray.leftWait = "none" /\ tray.nState = "HIDDEN"
          /\ tray.bState = "HIDDEN" /\ tray.hover = FALSE
          /\ ~tray.threw /\ ~tray.due /\ ~tray.deep
      BY <1>2 DEF NewTray
    <2>2. InTray(pointer) = FALSE BY <1>2 DEF InTray
    <2>3. TimersOK(tray) /\ Rested(tray) BY <1>1, <2>1 DEF TimersOK, Rested
    <2>4. tray.hover = InTray(pointer) BY <2>1, <2>2
    <2> QED BY <2>1, <2>3, <2>4
  <1> QED BY <1>2, <1>4, <1>6, <1>7, <1>8, <1>9 DEF TrayInv, Sound

\* and so does every event, which reacts as it should.
LEMMA StepInv ==
  ASSUME NestedSettles, TrayInv, [Next]_vars
  PROVE  TrayInv' /\ (Reacts(tray, tray') \/ UNCHANGED vars)
  <1>1. TrayConstants BY TrayAssumption
  <1>2. CASE UNCHANGED vars
    BY <1>2 DEF vars, TrayInv, Sound, LifeOK, TimersOK, Rested, InTray,
       IsTray, QueueIsSound, BoxIsSound
  <1>3. CASE Applications
    <2>1. CASE \E s \in Sources : AddSource(s) BY <2>1, AddSourceStep
    <2>2. CASE \E n \in Notifications : Notify(n) \/ NotifyUrgency(n)
      <3>1. PICK n \in Notifications : Notify(n) \/ NotifyUrgency(n) BY <2>2
      <3>2. NotifyWith(n, n \in tray.critical) \/ NotifyWith(n, n \notin tray.critical)
        BY <3>1 DEF Notify, NotifyUrgency
      <3>3. (n \in tray.critical) \in BOOLEAN /\ (n \notin tray.critical) \in BOOLEAN OBVIOUS
      <3> QED BY <1>1, <3>2, <3>3, NotifyStep
    <2>3. CASE \E n \in Notifications, shrunk \in BOOLEAN : ContentUpdated(n, shrunk)
      BY <1>1, <2>3, ContentUpdatedStep
    <2>4. CASE \/ \E n \in Notifications : CloseNotification(n)
               \/ \E s \in Sources : CloseSource(s)
      BY <1>1, <2>4, CloseStep
    <2> QED BY <1>3, <2>1, <2>2, <2>3, <2>4 DEF Applications
  <1>4. CASE Timers
    <2>1. CASE \E w \in {"show", "y", "hide"} : NotificationTweenDone(w)
      BY <1>1, <2>1, NotificationTweenStep
    <2>2. CASE \E close \in BOOLEAN : TrayLeftTimeout(close) BY <2>2, TrayLeftStep
    <2>3. CASE BoxTweenDone BY <1>1, <2>3, BoxTweenStep
    <2> QED BY <1>4, <2>1, <2>2, <2>3, TimerStep DEF Timers
  <1>5. CASE User
    <2>1. CASE \/ \E zone \in {"out", "tray", "summary"}, under \in BOOLEAN :
                    PointerMoves(zone, under)
               \/ \E zone \in {"keyboard", "corner"} : PointerMovesBeside(zone)
      <3>1. ASSUME NEW zone, NEW under \in BOOLEAN,
                   PointerMoves(zone, under) \/ PointerMovesBeside(zone)
            PROVE  TrayInv' /\ Reacts(tray, tray')
        BY <3>1, PointerStep
      <3>2. ASSUME NEW zone, PointerMovesBeside(zone) PROVE TrayInv' /\ Reacts(tray, tray')
        BY <3>1, <3>2
      <3> QED BY <2>1, <3>1, <3>2
    <2>2. CASE PressOutside \/ (\E s \in Sources : PressItem(s)) \/ LoseFocus
      BY <2>2, PressStep
    <2>3. CASE \E b \in {1, 2, 3}, stolen \in BOOLEAN : ReleaseItem(b, stolen)
      BY <1>1, <2>3, ReleaseItemStep
    <2>4. CASE \E what \in {"open", "remove", "mute"} : ActivateMenu(what)
      BY <1>1, <2>4, ActivateMenuStep
    <2>5. CASE \E n \in Notifications : ClickNotification(n)
      BY <1>1, <2>5, ClickNotificationStep
    <2>6. CASE PressEscape \/ ToggleTray BY <2>6, KeyStep
    <2>7. CASE HideTray BY <2>7, HideTrayStep
    <2> QED BY <1>5, <2>1, <2>2, <2>3, <2>4, <2>5, <2>6, <2>7 DEF User
  <1>6. CASE Session BY <1>6, OverviewStep, SessionStep DEF Session
  <1> QED BY <1>2, <1>3, <1>4, <1>5, <1>6 DEF Next

\* What the inductive invariant says of the runs' invariants, and a step that
\* keeps it of their action properties.
LEMMA InvSays ==
  ASSUME TrayInv
  PROVE  NoticesTakeTurns /\ BoxHoldsTray /\ ~tray.deep
  <1>1. Sound(tray) /\ TimersOK(tray) /\ Rested(tray) BY DEF TrayInv
  <1>2. TrayTypeOK
    BY <1>1 DEF TrayTypeOK, TrayInv, Sound, IsTray, QueueIsSound, TimersOK
  <1>3. \A i, j \in DOMAIN tray.queue : tray.queue[i] = tray.queue[j] => i = j
    <2>1. tray.queue \in Seq(Notifications) /\ Distinct(tray.queue)
      BY <1>1 DEF Sound, QueueIsSound
    <2>2. DOMAIN tray.queue = 1..Len(tray.queue) BY <2>1, LenProperties
    <2> QED BY <2>1, <2>2 DEF Distinct
  <1>4. NoticesTakeTurns
    BY <1>1, <1>2, <1>3 DEF NoticesTakeTurns, Rested, Sound, QueueIsSound
  <1>5. BoxHoldsTray BY <1>1 DEF BoxHoldsTray, Rested, Sound, BoxIsSound
  <1> QED BY <1>4, <1>5 DEF TrayInv

\* And what such an event does to what was withdrawn, and to what is urgent.
LEMMA StepSays ==
  ASSUME TrayInv', Reacts(tray, tray')
  PROVE  /\ StaysOut(Closed) /\ StaysOut(Muted)
         /\ OnlyUrgentPopsUp /\ UrgentHidesSummary
  <1>1. tray'.queue \in Seq(Notifications) BY DEF TrayInv, Sound, QueueIsSound
  <1>2. ASSUME NEW n \in ToSet(tray'.queue), n # tray.reNotify
        PROVE  /\ tray'.life[n] = "dead" => n \in ToSet(tray.queue) /\ tray.life[n] = "dead"
               /\ SourceOf[n] \in tray'.muted => n \in ToSet(tray.queue) /\ SourceOf[n] \in tray.muted
    BY <1>2 DEF Reacts, Leads
  <1>3. StaysOut(Closed) BY <1>2 DEF StaysOut, Closed
  <1>4. StaysOut(Muted) BY <1>2 DEF StaysOut, Muted
  <1>5. OnlyUrgentPopsUp BY DEF Reacts, Leads, OnlyUrgentPopsUp
  <1>6. UrgentHidesSummary
    <2>1. ASSUME tray'.queue # <<>> PROVE Head(tray'.queue) \in ToSet(tray'.queue)
      <3>1. \A i, j \in 1..Len(tray'.queue) : tray'.queue[i] = tray'.queue[j] => i = j
        BY DEF TrayInv, Sound, QueueIsSound, Distinct
      <3> QED BY <1>1, <2>1, <3>1, HeadTailDistinct
    <2> QED BY <2>1 DEF UrgentHidesSummary, Urgent, Reacts, Hides
  <1> QED BY <1>3, <1>4, <1>5, <1>6
=============================================================================
