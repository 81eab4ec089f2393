------------------------------ MODULE SeqLemmas -------------------------------
(* Facts about the operators of SequencesExt that the models use.           *)
EXTENDS SequencesExt, SequenceTheorems, TLAPS

\* Removing the k-th element of a sequence.
LEMMA RemoveAtProperties ==
  ASSUME NEW S, NEW s \in Seq(S), NEW k \in 1..Len(s)
  PROVE  /\ RemoveAt(s, k) \in Seq(S)
         /\ Len(RemoveAt(s, k)) = Len(s) - 1
         /\ \A i \in 1..Len(s) - 1 :
              RemoveAt(s, k)[i] = IF i < k THEN s[i] ELSE s[i + 1]
  <1> DEFINE l == SubSeq(s, 1, k - 1)
             r == SubSeq(s, k + 1, Len(s))
  <1>1. Len(s) \in Nat /\ \A i \in 1..Len(s) : s[i] \in S
    BY LenProperties, ElementOfSeq
  <1>2. /\ l \in Seq(S)
        /\ Len(l) = k - 1
        /\ \A i \in 1..k - 1 : l[i] = s[i]
    <2>1. k - 1 \in Int /\ \A i \in 1..k - 1 : s[i] \in S
      BY <1>1
    <2>2. /\ l \in Seq(S)
          /\ Len(l) = IF 1 <= k - 1 THEN (k - 1) - 1 + 1 ELSE 0
          /\ \A i \in 1..(k - 1) - 1 + 1 : l[i] = s[1 + i - 1]
      BY <2>1, SubSeqProperties
    <2> QED BY <2>2, <1>1
  <1>3. /\ r \in Seq(S)
        /\ Len(r) = Len(s) - k
        /\ \A i \in 1..Len(s) - k : r[i] = s[k + i]
    <2>1. k + 1 \in Int /\ Len(s) \in Int /\ \A i \in k + 1..Len(s) : s[i] \in S
      BY <1>1
    <2>2. /\ r \in Seq(S)
          /\ Len(r) = IF k + 1 <= Len(s) THEN Len(s) - (k + 1) + 1 ELSE 0
          /\ \A i \in 1..Len(s) - (k + 1) + 1 : r[i] = s[(k + 1) + i - 1]
      BY <2>1, SubSeqProperties
    <2> QED BY <2>2, <1>1
  <1>4. /\ l \o r \in Seq(S)
        /\ Len(l \o r) = Len(l) + Len(r)
        /\ \A i \in 1..Len(l) + Len(r) :
             (l \o r)[i] = IF i <= Len(l) THEN l[i] ELSE r[i - Len(l)]
    BY <1>2, <1>3, ConcatProperties
  <1>5. RemoveAt(s, k) = l \o r
    BY DEF RemoveAt
  <1> HIDE DEF l, r
  <1>6. ASSUME NEW i \in 1..Len(s) - 1
        PROVE  RemoveAt(s, k)[i] = IF i < k THEN s[i] ELSE s[i + 1]
    <2>1. CASE i < k
      BY <2>1, <1>1, <1>2, <1>3, <1>4, <1>5
    <2>2. CASE ~(i < k)
      <3>1. i - (k - 1) \in 1..Len(s) - k /\ k + (i - (k - 1)) = i + 1
        BY <2>2, <1>1
      <3>2. (l \o r)[i] = r[i - (k - 1)]
        BY <2>2, <1>1, <1>2, <1>3, <1>4
      <3> QED BY <2>2, <3>1, <3>2, <1>3, <1>5
    <2> QED BY <2>1, <2>2
  <1>7. Len(RemoveAt(s, k)) = Len(s) - 1
    BY <1>1, <1>2, <1>3, <1>4, <1>5
  <1> QED BY <1>4, <1>5, <1>6, <1>7

\* The front of a sequence that is not empty.
LEMMA FrontProperties ==
  ASSUME NEW S, NEW s \in Seq(S), Len(s) > 0
  PROVE  /\ Front(s) \in Seq(S)
         /\ Len(Front(s)) = Len(s) - 1
         /\ \A i \in 1..Len(s) - 1 : Front(s)[i] = s[i]
  <1> DEFINE n == Len(s) - 1
             f == SubSeq(s, 1, n)
  <1>1. Len(s) \in Nat /\ \A i \in 1..Len(s) : s[i] \in S
    BY LenProperties, ElementOfSeq
  <1>2. n \in Nat /\ \A i \in 1..n : s[i] \in S
    BY <1>1
  <1>3. Front(s) = f
    BY DEF Front
  <1> HIDE DEF n
  <1>4. /\ f \in Seq(S)
        /\ Len(f) = IF 1 <= n THEN n - 1 + 1 ELSE 0
        /\ \A i \in 1..n - 1 + 1 : f[i] = s[1 + i - 1]
    BY <1>2, SubSeqProperties
  <1> HIDE DEF f
  <1>5. Len(f) = n
    BY <1>2, <1>4
  <1>6. ASSUME NEW i \in 1..n
        PROVE  f[i] = s[i]
    <2>1. i \in 1..n - 1 + 1 /\ 1 + i - 1 = i
      BY <1>2
    <2> QED BY <1>4, <2>1
  <1> QED BY <1>3, <1>4, <1>5, <1>6 DEF n

\* The set of the elements of a sequence.
LEMMA ToSetProperties ==
  ASSUME NEW S, NEW s \in Seq(S)
  PROVE  ToSet(s) = {s[i] : i \in 1..Len(s)}
  BY LenProperties DEF ToSet

\* A function over an initial interval is a sequence.
LEMMA FunctionIsSeq ==
  ASSUME NEW S, NEW n \in Nat, NEW f \in [1..n -> S]
  PROVE  f \in Seq(S) /\ Len(f) = n
  <1>1. f \in Seq(S)
    BY SeqDef
  <1>2. 1..Len(f) = 1..n /\ Len(f) \in Nat
    BY <1>1, LenProperties
  <1> QED BY <1>1, <1>2

\* What Append() adds to the elements.
LEMMA ToSetAppend ==
  ASSUME NEW S, NEW s \in Seq(S), NEW e \in S
  PROVE  ToSet(Append(s, e)) = ToSet(s) \cup {e}
  <1>1. /\ Append(s, e) \in Seq(S)
        /\ Len(Append(s, e)) = Len(s) + 1
        /\ \A i \in 1..Len(s) : Append(s, e)[i] = s[i]
        /\ Append(s, e)[Len(s) + 1] = e
        /\ Len(s) \in Nat
    BY AppendProperties, LenProperties
  <1>2. ToSet(Append(s, e)) = {Append(s, e)[i] : i \in 1..Len(s) + 1}
    BY <1>1, ToSetProperties
  <1>3. ToSet(s) = {s[i] : i \in 1..Len(s)}
    BY ToSetProperties
  <1> QED BY <1>1, <1>2, <1>3

\* Removing an element of a sequence without repetitions leaves one, with all
\* the other elements.
LEMMA RemoveAtDistinct ==
  ASSUME NEW S, NEW s \in Seq(S), NEW k \in 1..Len(s),
         \A i, j \in 1..Len(s) : s[i] = s[j] => i = j
  PROVE  /\ ToSet(RemoveAt(s, k)) = ToSet(s) \ {s[k]}
         /\ \A i, j \in 1..Len(s) - 1 :
              RemoveAt(s, k)[i] = RemoveAt(s, k)[j] => i = j
  <1> DEFINE t == RemoveAt(s, k)
  <1>1. /\ t \in Seq(S)
        /\ Len(t) = Len(s) - 1
        /\ \A i \in 1..Len(s) - 1 : t[i] = IF i < k THEN s[i] ELSE s[i + 1]
        /\ Len(s) \in Nat
    BY RemoveAtProperties, LenProperties
  <1>2. /\ ToSet(t) = {t[i] : i \in 1..Len(s) - 1}
        /\ ToSet(s) = {s[i] : i \in 1..Len(s)}
    BY <1>1, ToSetProperties
  <1> HIDE DEF t
  <1>3. ASSUME NEW x \in ToSet(t)
        PROVE  x \in ToSet(s) \ {s[k]}
    <2>1. PICK i \in 1..Len(s) - 1 : x = t[i]
      BY <1>2
    <2>2. CASE i < k
      BY <1>1, <1>2, <2>1, <2>2
    <2>3. CASE ~(i < k)
      <3>1. i + 1 \in 1..Len(s) /\ i + 1 # k /\ x = s[i + 1]
        BY <1>1, <2>1, <2>3
      <3> QED BY <1>2, <3>1
    <2> QED BY <2>2, <2>3
  <1>4. ASSUME NEW x \in ToSet(s) \ {s[k]}
        PROVE  x \in ToSet(t)
    <2>1. PICK i \in 1..Len(s) : x = s[i] /\ i # k
      BY <1>2
    <2>2. CASE i < k
      <3>1. i \in 1..Len(s) - 1 /\ t[i] = x
        BY <1>1, <2>1, <2>2
      <3> QED BY <1>2, <3>1
    <2>3. CASE ~(i < k)
      <3>1. i - 1 \in 1..Len(s) - 1 /\ ~(i - 1 < k) /\ (i - 1) + 1 = i
        BY <1>1, <2>1, <2>3
      <3>2. t[i - 1] = x
        BY <1>1, <2>1, <3>1
      <3> QED BY <1>2, <3>1, <3>2
    <2> QED BY <2>2, <2>3
  <1>5. ASSUME NEW i \in 1..Len(s) - 1, NEW j \in 1..Len(s) - 1, t[i] = t[j]
        PROVE  i = j
    <2> DEFINE at(n) == IF n < k THEN n ELSE n + 1
    <2>1. /\ at(i) \in 1..Len(s) /\ t[i] = s[at(i)]
          /\ at(j) \in 1..Len(s) /\ t[j] = s[at(j)]
      BY <1>1
    <2>2. at(i) = at(j)
      BY <1>5, <2>1
    <2> QED BY <2>2
  <1> QED BY <1>3, <1>4, <1>5 DEF t

\* The first element of a sequence without repetitions and the others.
LEMMA HeadTailDistinct ==
  ASSUME NEW S, NEW s \in Seq(S), s # <<>>,
         \A i, j \in 1..Len(s) : s[i] = s[j] => i = j
  PROVE  /\ Head(s) \in S /\ Tail(s) \in Seq(S)
         /\ ToSet(s) = {Head(s)} \cup ToSet(Tail(s))
         /\ Head(s) \notin ToSet(Tail(s))
         /\ \A i, j \in 1..Len(Tail(s)) : Tail(s)[i] = Tail(s)[j] => i = j
  <1> DEFINE t == Tail(s)
  <1>1. /\ Head(s) \in S /\ Head(s) = s[1]
        /\ t \in Seq(S) /\ Len(t) = Len(s) - 1
        /\ \A i \in 1..Len(t) : t[i] = s[i + 1]
        /\ Len(s) \in Nat /\ Len(s) # 0
    BY HeadTailProperties, LenProperties, EmptySeq
  <1> HIDE DEF t
  <1>2. /\ ToSet(t) = {t[i] : i \in 1..Len(t)}
        /\ ToSet(s) = {s[i] : i \in 1..Len(s)}
    <2>1. t \in Seq(S)
      BY <1>1
    <2>2. ToSet(t) = {t[i] : i \in 1..Len(t)}
      BY <2>1, ToSetProperties
    <2>3. ToSet(s) = {s[i] : i \in 1..Len(s)}
      BY ToSetProperties
    <2> QED BY <2>2, <2>3
  <1>3. ASSUME NEW x \in ToSet(s), x # Head(s) PROVE x \in ToSet(t)
    <2>1. PICK i \in 1..Len(s) : x = s[i]
      BY <1>2
    <2>2. i - 1 \in 1..Len(t) /\ (i - 1) + 1 = i
      BY <1>1, <1>3, <2>1
    <2>3. t[i - 1] = x
      BY <1>1, <2>1, <2>2
    <2> QED BY <1>2, <2>2, <2>3
  <1>4. ASSUME NEW x \in ToSet(t) PROVE x \in ToSet(s) /\ x # Head(s)
    <2>1. PICK i \in 1..Len(t) : x = t[i]
      BY <1>2
    <2>2. i + 1 \in 1..Len(s) /\ i + 1 # 1 /\ 1 \in 1..Len(s) /\ x = s[i + 1]
      BY <1>1, <2>1
    <2> QED BY <1>1, <1>2, <2>2
  <1>5. Head(s) \in ToSet(s)
    BY <1>1, <1>2
  <1>6. ASSUME NEW i \in 1..Len(t), NEW j \in 1..Len(t), t[i] = t[j] PROVE i = j
    <2>1. /\ i + 1 \in 1..Len(s) /\ t[i] = s[i + 1]
          /\ j + 1 \in 1..Len(s) /\ t[j] = s[j + 1]
      BY <1>1
    <2>2. i + 1 = j + 1
      BY <1>6, <2>1
    <2> QED BY <2>2
  <1> QED BY <1>1, <1>3, <1>4, <1>5, <1>6 DEF t

\* A new element at the end of a sequence without repetitions.
LEMMA AppendDistinct ==
  ASSUME NEW S, NEW s \in Seq(S), NEW e \in S, e \notin ToSet(s),
         \A i, j \in 1..Len(s) : s[i] = s[j] => i = j
  PROVE  \A i, j \in 1..Len(Append(s, e)) :
           Append(s, e)[i] = Append(s, e)[j] => i = j
  <1> DEFINE t == Append(s, e)
  <1>1. /\ Len(t) = Len(s) + 1 /\ Len(s) \in Nat
        /\ \A i \in 1..Len(s) : t[i] = s[i]
        /\ t[Len(s) + 1] = e
    BY AppendProperties, LenProperties
  <1>2. \A i \in 1..Len(s) : s[i] # e
    BY ToSetProperties
  <1> HIDE DEF t
  <1>3. ASSUME NEW i \in 1..Len(t), NEW j \in 1..Len(t), t[i] = t[j] PROVE i = j
    <2>1. (i \in 1..Len(s) \/ i = Len(s) + 1) /\ (j \in 1..Len(s) \/ j = Len(s) + 1)
      BY <1>1
    <2> QED BY <1>1, <1>2, <1>3, <2>1
  <1> QED BY <1>3 DEF t

\* A new element in front of a sequence.
LEMMA ConsProperties ==
  ASSUME NEW S, NEW e \in S, NEW s \in Seq(S)
  PROVE  /\ <<e>> \o s \in Seq(S)
         /\ Len(<<e>> \o s) = Len(s) + 1
         /\ (<<e>> \o s)[1] = e
         /\ \A i \in 1..Len(s) : (<<e>> \o s)[i + 1] = s[i]
  <1> DEFINE h == <<e>>
  <1>1. h \in Seq(S) /\ Len(h) = 1 /\ h[1] = e /\ Len(s) \in Nat
    BY LenProperties
  <1> HIDE DEF h
  <1>2. /\ h \o s \in Seq(S)
        /\ Len(h \o s) = Len(h) + Len(s)
        /\ \A i \in 1..Len(h) + Len(s) :
             (h \o s)[i] = IF i <= Len(h) THEN h[i] ELSE s[i - Len(h)]
    BY <1>1, ConcatProperties
  <1>3. (h \o s)[1] = e
    BY <1>1, <1>2
  <1>4. ASSUME NEW i \in 1..Len(s) PROVE (h \o s)[i + 1] = s[i]
    <2>1. i + 1 \in 1..Len(h) + Len(s) /\ ~(i + 1 <= Len(h)) /\ (i + 1) - Len(h) = i
      BY <1>1
    <2> QED BY <1>2, <2>1
  <1>5. Len(h \o s) = Len(s) + 1
    BY <1>1, <1>2
  <1> QED BY <1>2, <1>3, <1>4, <1>5 DEF h

LEMMA ConsHeadTail ==
  ASSUME NEW S, NEW e \in S, NEW s \in Seq(S)
  PROVE  /\ <<e>> \o s # <<>> /\ Head(<<e>> \o s) = e /\ Tail(<<e>> \o s) = s
         /\ ToSet(<<e>> \o s) = {e} \cup ToSet(s)
  <1> DEFINE c == <<e>> \o s
  <1>1. /\ c \in Seq(S) /\ Len(c) = Len(s) + 1 /\ c[1] = e
        /\ \A i \in 1..Len(s) : c[i + 1] = s[i]
        /\ Len(s) \in Nat
    BY ConsProperties, LenProperties
  <1> HIDE DEF c
  <1>2. c # <<>>
    BY <1>1, EmptySeq
  <1>3. /\ Head(c) = c[1] /\ Tail(c) \in Seq(S)
        /\ Len(Tail(c)) = Len(c) - 1
        /\ \A i \in 1..Len(Tail(c)) : Tail(c)[i] = c[i + 1]
    BY <1>1, <1>2, HeadTailProperties
  <1>4. Tail(c) = s
    BY <1>1, <1>3, SeqEqual
  <1>5. ToSet(c) = {c[i] : i \in 1..Len(c)} /\ ToSet(s) = {s[i] : i \in 1..Len(s)}
    <2>1. c \in Seq(S)
      BY <1>1
    <2>2. ToSet(c) = {c[i] : i \in 1..Len(c)}
      BY <2>1, ToSetProperties
    <2> QED BY <2>2, ToSetProperties
  <1>6. ASSUME NEW x \in ToSet(c) PROVE x = e \/ x \in ToSet(s)
    <2>1. PICK i \in 1..Len(c) : x = c[i]
      BY <1>5
    <2>2. CASE i = 1
      BY <1>1, <2>1, <2>2
    <2>3. CASE i # 1
      <3>1. i - 1 \in 1..Len(s) /\ (i - 1) + 1 = i
        BY <1>1, <2>1, <2>3
      <3>2. x = s[i - 1]
        BY <1>1, <2>1, <3>1
      <3> QED BY <1>5, <3>1, <3>2
    <2> QED BY <2>2, <2>3
  <1>7. ASSUME NEW x \in ToSet(s) PROVE x \in ToSet(c)
    <2>1. PICK i \in 1..Len(s) : x = s[i]
      BY <1>5
    <2>2. i + 1 \in 1..Len(c) /\ x = c[i + 1]
      BY <1>1, <2>1
    <2> QED BY <1>5, <2>2
  <1>8. e \in ToSet(c)
    <2>1. 1 \in 1..Len(c)
      BY <1>1
    <2> QED BY <1>1, <1>5, <2>1
  <1> QED BY <1>1, <1>2, <1>3, <1>4, <1>6, <1>7, <1>8 DEF c

\* A sequence is its head in front of its tail.
LEMMA HeadTailCons ==
  ASSUME NEW S, NEW s \in Seq(S), s # <<>>
  PROVE  <<Head(s)>> \o Tail(s) = s
  <1> DEFINE c == <<Head(s)>> \o Tail(s)
  <1>1. /\ Head(s) \in S /\ Head(s) = s[1] /\ Tail(s) \in Seq(S)
        /\ Len(Tail(s)) = Len(s) - 1 /\ Len(s) \in Nat /\ Len(s) # 0
        /\ \A i \in 1..Len(Tail(s)) : Tail(s)[i] = s[i + 1]
    BY HeadTailProperties, LenProperties, EmptySeq
  <1>2. /\ c \in Seq(S) /\ Len(c) = Len(Tail(s)) + 1 /\ c[1] = Head(s)
        /\ \A i \in 1..Len(Tail(s)) : c[i + 1] = Tail(s)[i]
    BY <1>1, ConsProperties
  <1> HIDE DEF c
  <1>3. ASSUME NEW i \in 1..Len(s) PROVE c[i] = s[i]
    <2>1. CASE i = 1
      BY <1>1, <1>2, <2>1
    <2>2. CASE i # 1
      <3>1. i - 1 \in 1..Len(Tail(s)) /\ (i - 1) + 1 = i
        BY <1>1, <2>2
      <3> QED BY <1>1, <1>2, <3>1
    <2> QED BY <2>1, <2>2
  <1>4. Len(c) = Len(s)
    BY <1>1, <1>2
  <1>5. c = s
    BY <1>2, <1>3, <1>4, SeqEqual
  <1> QED BY <1>5 DEF c

\* Removing an element after the first.
LEMMA ConsRemoveAt ==
  ASSUME NEW S, NEW e \in S, NEW s \in Seq(S), NEW k \in 1..Len(s)
  PROVE  RemoveAt(<<e>> \o s, k + 1) = <<e>> \o RemoveAt(s, k)
  <1> DEFINE c == <<e>> \o s
             t == RemoveAt(s, k)
             u == RemoveAt(c, k + 1)
             v == <<e>> \o t
  <1>1. /\ c \in Seq(S) /\ Len(c) = Len(s) + 1 /\ c[1] = e
        /\ \A i \in 1..Len(s) : c[i + 1] = s[i]
        /\ Len(s) \in Nat
    BY ConsProperties, LenProperties
  <1>2. /\ t \in Seq(S) /\ Len(t) = Len(s) - 1
        /\ \A i \in 1..Len(s) - 1 : t[i] = IF i < k THEN s[i] ELSE s[i + 1]
    BY RemoveAtProperties
  <1> HIDE DEF c, t
  <1>3. k + 1 \in 1..Len(c)
    BY <1>1
  <1>4. /\ u \in Seq(S) /\ Len(u) = Len(c) - 1
        /\ \A i \in 1..Len(c) - 1 : u[i] = IF i < k + 1 THEN c[i] ELSE c[i + 1]
    BY <1>1, <1>3, RemoveAtProperties
  <1>5. /\ v \in Seq(S) /\ Len(v) = Len(t) + 1 /\ v[1] = e
        /\ \A i \in 1..Len(t) : v[i + 1] = t[i]
    BY <1>2, ConsProperties
  <1> HIDE DEF u, v
  <1>6. ASSUME NEW i \in 1..Len(s) PROVE u[i] = v[i]
    <2>1. CASE i = 1
      BY <1>1, <1>4, <1>5, <2>1
    <2>2. CASE i # 1
      <3>1. i - 1 \in 1..Len(t) /\ (i - 1) + 1 = i /\ i \in 1..Len(s)
        BY <1>1, <1>2, <2>2
      <3>2. v[i] = t[i - 1]
        BY <1>5, <3>1
      <3>3. c[i] = s[i - 1] /\ c[i + 1] = s[i]
        <4>1. i - 1 \in 1..Len(s)
          BY <1>1, <1>2, <3>1
        <4>2. c[(i - 1) + 1] = s[i - 1] /\ c[i + 1] = s[i]
          BY <1>1, <4>1
        <4> QED BY <3>1, <4>2
      <3>4. t[i - 1] = IF i - 1 < k THEN s[i - 1] ELSE s[i]
        BY <1>2, <3>1
      <3>5. u[i] = IF i < k + 1 THEN c[i] ELSE c[i + 1]
        BY <1>1, <1>4
      <3> QED BY <3>1, <3>2, <3>3, <3>4, <3>5
    <2> QED BY <2>1, <2>2
  <1>7. Len(u) = Len(s) /\ Len(v) = Len(s)
    BY <1>1, <1>2, <1>4, <1>5
  <1>8. u = v
    BY <1>4, <1>5, <1>6, <1>7, SeqEqual
  <1> QED BY <1>8 DEF c, t, u, v

\* A new element at the end comes after the one in front.
LEMMA ConsAppend ==
  ASSUME NEW S, NEW e \in S, NEW x \in S, NEW s \in Seq(S)
  PROVE  Append(<<e>> \o s, x) = <<e>> \o Append(s, x)
  <1>1. <<e>> \in Seq(S) /\ <<x>> \in Seq(S) /\ <<e>> \o s \in Seq(S)
    BY ConsProperties
  <1>2. Append(<<e>> \o s, x) = (<<e>> \o s) \o <<x>> /\ Append(s, x) = s \o <<x>>
    BY <1>1, AppendIsConcat
  <1> QED BY <1>1, <1>2, ConcatAssociative
=============================================================================
