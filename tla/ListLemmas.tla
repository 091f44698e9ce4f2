----------------------------- MODULE ListLemmas -----------------------------
(***************************************************************************)
(* What the operations on lists do to their elements and to these being    *)
(* different.                                                              *)
(***************************************************************************)
EXTENDS Integers, SequencesExt, SequenceTheorems, WellFoundedInduction, TLAPS

LEMMA PrependList ==
  ASSUME NEW S, NEW s \in Seq(S), NEW e \in S, IsInjective(s), e \notin ToSet(s)
  PROVE  /\ <<e>> \o s \in Seq(S)
         /\ ToSet(<<e>> \o s) = ToSet(s) \cup {e}
         /\ IsInjective(<<e>> \o s)
<1> DEFINE r == <<e>> \o s
<1>1. /\ Len(s) \in Nat /\ DOMAIN s = 1 .. Len(s)
      /\ <<e>> \in Seq(S) /\ Len(<<e>>) = 1 /\ <<e>>[1] = e
  BY LenProperties
<1>2. r \in Seq(S) /\ Len(r) = Len(s) + 1
  BY <1>1, ConcatProperties
<1>3. \A k \in 1 .. Len(<<e>>) + Len(s) :
        r[k] = IF k <= Len(<<e>>) THEN <<e>>[k] ELSE s[k - Len(<<e>>)]
  BY <1>1, ConcatProperties
<1> HIDE DEF r
<1>4. DOMAIN r = 1 .. Len(s) + 1 /\ r[1] = e
  BY <1>1, <1>2, <1>3, LenProperties
<1>5. \A k \in 1 .. Len(s) : r[k + 1] = s[k]
  BY <1>1, <1>3
<1>6. ToSet(r) = ToSet(s) \cup {e}
  <2>1. ASSUME NEW k \in DOMAIN r PROVE r[k] \in ToSet(s) \cup {e}
    <3>1. CASE k = 1
      BY <3>1, <1>4
    <3>2. CASE k # 1
      <4>1. k - 1 \in 1 .. Len(s) /\ (k - 1) + 1 = k
        BY <3>2, <1>1, <1>4
      <4> QED BY <4>1, <1>1, <1>5 DEF ToSet
    <3> QED BY <3>1, <3>2
  <2>2. \A k \in DOMAIN s : s[k] \in ToSet(r)
    <3> SUFFICES ASSUME NEW k \in DOMAIN s PROVE s[k] \in ToSet(r)
      OBVIOUS
    <3>1. k + 1 \in DOMAIN r /\ r[k + 1] = s[k]
      BY <1>1, <1>4, <1>5
    <3> QED BY <3>1 DEF ToSet
  <2>3. 1 \in DOMAIN r
    BY <1>1, <1>4
  <2>4. e \in ToSet(r)
    BY <1>4, <2>3 DEF ToSet
  <2> QED BY <2>1, <2>2, <2>4 DEF ToSet
<1>7. IsInjective(r)
  <2> SUFFICES ASSUME NEW k \in DOMAIN r, NEW l \in DOMAIN r, r[k] = r[l] PROVE k = l
    BY DEF IsInjective
  <2>1. ASSUME NEW m \in DOMAIN r, m # 1
        PROVE  m - 1 \in DOMAIN s /\ r[m] = s[m - 1] /\ r[m] # e
    <3>1. m - 1 \in 1 .. Len(s) /\ (m - 1) + 1 = m
      BY <2>1, <1>1, <1>4
    <3>2. r[m] = s[m - 1]
      BY <3>1, <1>5
    <3> QED BY <3>1, <3>2, <1>1 DEF ToSet
  <2>2. CASE k = 1 \/ l = 1
    BY <2>1, <2>2, <1>4
  <2>3. CASE k # 1 /\ l # 1
    <3>1. k - 1 = l - 1
      BY <2>1, <2>3 DEF IsInjective
    <3> QED BY <3>1, <1>1, <1>4
  <2> QED BY <2>2, <2>3
<1> QED BY <1>2, <1>6, <1>7 DEF r

LEMMA ReplaceInList ==
  ASSUME NEW S, NEW s \in Seq(S), NEW n \in DOMAIN s, NEW e \in S,
         IsInjective(s), e \notin ToSet(s)
  PROVE  /\ [s EXCEPT ![n] = e] \in Seq(S)
         /\ ToSet([s EXCEPT ![n] = e]) = (ToSet(s) \ {s[n]}) \cup {e}
         /\ IsInjective([s EXCEPT ![n] = e])
<1> DEFINE r == [s EXCEPT ![n] = e]
<1>1. Len(s) \in Nat /\ DOMAIN s = 1 .. Len(s) /\ \A k \in 1 .. Len(s) : s[k] \in S
  BY LenProperties
<1>2. r \in Seq(S) /\ DOMAIN r = DOMAIN s /\ r[n] = e
      /\ \A k \in DOMAIN s \ {n} : r[k] = s[k]
  BY <1>1
<1> HIDE DEF r
<1>3. ToSet(r) = (ToSet(s) \ {s[n]}) \cup {e}
  BY <1>1, <1>2 DEF ToSet, IsInjective
<1>4. IsInjective(r)
  BY <1>1, <1>2 DEF ToSet, IsInjective
<1> QED BY <1>2, <1>3, <1>4 DEF r

LEMMA AppendSet ==
  ASSUME NEW S, NEW s \in Seq(S), NEW e \in S
  PROVE  Append(s, e) \in Seq(S) /\ ToSet(Append(s, e)) = ToSet(s) \cup {e}
<1>. DEFINE r == Append(s, e)
<1>1. /\ r \in Seq(S) /\ Len(r) = Len(s) + 1 /\ Len(s) \in Nat
      /\ DOMAIN r = 1 .. Len(s) + 1 /\ DOMAIN s = 1 .. Len(s)
      /\ \A k \in 1 .. Len(s) : r[k] = s[k]
      /\ r[Len(s) + 1] = e
  BY AppendProperties, LenProperties
<1>. HIDE DEF r
<1>2. ToSet(r) \subseteq ToSet(s) \cup {e}
  BY <1>1 DEF ToSet
<1>3. ToSet(s) \subseteq ToSet(r) /\ e \in ToSet(r)
  BY <1>1 DEF ToSet
<1>. QED  BY <1>1, <1>2, <1>3 DEF r

LEMMA AppendList ==
  ASSUME NEW S, NEW s \in Seq(S), NEW e \in S, IsInjective(s), e \notin ToSet(s)
  PROVE  /\ Append(s, e) \in Seq(S)
         /\ ToSet(Append(s, e)) = ToSet(s) \cup {e}
         /\ IsInjective(Append(s, e))
<1> DEFINE r == Append(s, e)
<1>1. /\ r \in Seq(S) /\ Len(r) = Len(s) + 1 /\ Len(s) \in Nat
      /\ DOMAIN r = 1 .. Len(s) + 1 /\ DOMAIN s = 1 .. Len(s)
      /\ \A k \in 1 .. Len(s) : r[k] = s[k]
      /\ r[Len(s) + 1] = e
  BY AppendProperties, LenProperties
<1> HIDE DEF r
<1>2. ToSet(r) = ToSet(s) \cup {e}
  BY AppendSet DEF r
<1>3. IsInjective(r)
  BY <1>1 DEF IsInjective, ToSet
<1> QED BY <1>1, <1>2, <1>3 DEF r

(* A list without repetitions has none before its last element. *)
LEMMA AppendInjects ==
  ASSUME NEW S, NEW s \in Seq(S), NEW e \in S, IsInjective(Append(s, e))
  PROVE  IsInjective(s) /\ e \notin ToSet(s)
<1>. DEFINE r == Append(s, e)
<1>1. /\ Len(s) \in Nat /\ DOMAIN r = 1 .. Len(s) + 1 /\ DOMAIN s = 1 .. Len(s)
      /\ \A k \in 1 .. Len(s) : r[k] = s[k]
      /\ r[Len(s) + 1] = e /\ IsInjective(r)
  BY AppendProperties, LenProperties
<1>. HIDE DEF r
<1>2. IsInjective(s)
  BY <1>1 DEF IsInjective
<1>3. e \notin ToSet(s)
  BY <1>1 DEF IsInjective, ToSet
<1>. QED  BY <1>2, <1>3

LEMMA ConcatAppend ==
  ASSUME NEW S, NEW s \in Seq(S), NEW t \in Seq(S), NEW e \in S
  PROVE  s \o Append(t, e) = Append(s \o t, e)
<1>1. Append(t, e) = t \o <<e>> /\ <<e>> \in Seq(S) /\ s \o t \in Seq(S)
  BY AppendIsConcat, ConcatProperties
<1>2. Append(s \o t, e) = (s \o t) \o <<e>>
  BY <1>1, AppendIsConcat
<1>. QED  BY <1>1, <1>2, ConcatAssociative

LEMMA ConcatInjects ==
  ASSUME NEW S, NEW s \in Seq(S), NEW t \in Seq(S), IsInjective(s), IsInjective(t),
         ToSet(s) \cap ToSet(t) = {}
  PROVE  IsInjective(s \o t)
<1>. DEFINE r == s \o t
<1>1. /\ Len(s) \in Nat /\ Len(t) \in Nat /\ DOMAIN s = 1 .. Len(s) /\ DOMAIN t = 1 .. Len(t)
      /\ DOMAIN r = 1 .. Len(s) + Len(t)
      /\ \A k \in 1 .. Len(s) + Len(t) : r[k] = IF k <= Len(s) THEN s[k] ELSE t[k - Len(s)]
  BY ConcatProperties, LenProperties
<1>. HIDE DEF r
<1>2. ASSUME NEW k \in DOMAIN r
      PROVE  \/ k \in DOMAIN s /\ r[k] = s[k] /\ r[k] \in ToSet(s)
             \/ k - Len(s) \in DOMAIN t /\ r[k] = t[k - Len(s)] /\ r[k] \in ToSet(t)
  <2>1. CASE k <= Len(s)
    <3>1. k \in DOMAIN s
      BY <1>1, <2>1
    <3>. QED  BY <1>1, <2>1, <3>1 DEF ToSet
  <2>2. CASE ~(k <= Len(s))
    <3>1. k - Len(s) \in DOMAIN t
      BY <1>1, <2>2
    <3>. QED  BY <1>1, <2>2, <3>1 DEF ToSet
  <2>. QED  BY <2>1, <2>2
<1>3. ASSUME NEW k \in DOMAIN r, NEW l \in DOMAIN r, r[k] = r[l]
      PROVE  k = l
  <2>1. CASE r[k] \in ToSet(s)
    <3>1. k \in DOMAIN s /\ l \in DOMAIN s /\ s[k] = s[l]
      BY <1>2, <1>3, <2>1
    <3>. QED  BY <3>1 DEF IsInjective
  <2>2. CASE r[k] \notin ToSet(s)
    <3>1. k - Len(s) \in DOMAIN t /\ l - Len(s) \in DOMAIN t /\ t[k - Len(s)] = t[l - Len(s)]
      BY <1>2, <1>3, <2>2
    <3>2. k - Len(s) = l - Len(s)
      BY <3>1 DEF IsInjective
    <3>. QED  BY <1>1, <3>2
  <2>. QED  BY <2>1, <2>2
<1>. QED  BY <1>3 DEF IsInjective, r

LEMMA RemoveAtIs ==
  ASSUME NEW S, NEW s \in Seq(S), NEW n \in DOMAIN s
  PROVE  /\ RemoveAt(s, n) \in Seq(S) /\ Len(RemoveAt(s, n)) = Len(s) - 1
         /\ DOMAIN RemoveAt(s, n) = 1 .. Len(s) - 1
         /\ \A k \in 1 .. Len(s) - 1 :
              RemoveAt(s, n)[k] = IF k <= n - 1 THEN s[k] ELSE s[k + 1]
<1> DEFINE r == RemoveAt(s, n)
           a == SubSeq(s, 1, n - 1)
           b == SubSeq(s, n + 1, Len(s))
<1>1. Len(s) \in Nat /\ DOMAIN s = 1 .. Len(s) /\ n \in 1 .. Len(s)
      /\ \A k \in 1 .. Len(s) : s[k] \in S
  BY LenProperties
<1>2. a \in Seq(S) /\ Len(a) = n - 1 /\ \A k \in 1 .. n - 1 : a[k] = s[k]
  BY <1>1, SubSeqProperties
<1>3. b \in Seq(S) /\ Len(b) = Len(s) - n /\ \A k \in 1 .. Len(s) - n : b[k] = s[n + k]
  <2>1. \A k \in n + 1 .. Len(s) : s[k] \in S
    BY <1>1
  <2>2. b \in Seq(S) /\ Len(b) = IF n + 1 <= Len(s) THEN Len(s) - (n + 1) + 1 ELSE 0
    BY <1>1, <2>1, SubSeqProperties
  <2>3. \A k \in 1 .. Len(s) - (n + 1) + 1 : b[k] = s[n + 1 + k - 1]
    BY <1>1, <2>1, SubSeqProperties
  <2> HIDE DEF b
  <2>4. Len(b) = Len(s) - n
    BY <1>1, <2>2
  <2>5. ASSUME NEW k \in 1 .. Len(s) - n PROVE b[k] = s[n + k]
    <3>1. k \in 1 .. Len(s) - (n + 1) + 1 /\ n + 1 + k - 1 = n + k
      BY <1>1
    <3>2. b[k] = s[n + 1 + k - 1]
      BY <3>1, <2>3
    <3> QED BY <3>1, <3>2
  <2> QED BY <2>2, <2>4, <2>5
<1>4. /\ r \in Seq(S) /\ Len(r) = Len(s) - 1 /\ DOMAIN r = 1 .. Len(s) - 1
      /\ \A k \in 1 .. Len(s) - 1 : r[k] = IF k <= n - 1 THEN s[k] ELSE s[k + 1]
  <2>1. r = a \o b
    BY DEF RemoveAt
  <2> HIDE DEF r, a, b
  <2>2. r \in Seq(S) /\ Len(r) = Len(s) - 1
    <3>1. r \in Seq(S) /\ Len(r) = Len(a) + Len(b)
      BY <2>1, <1>2, <1>3, ConcatProperties
    <3>2. Len(a) + Len(b) = Len(s) - 1
      BY <1>1, <1>2, <1>3
    <3> QED BY <3>1, <3>2
  <2>3. DOMAIN r = 1 .. Len(s) - 1
    BY <2>2, LenProperties
  <2>4. \A k \in 1 .. Len(a) + Len(b) :
          r[k] = IF k <= Len(a) THEN a[k] ELSE b[k - Len(a)]
    BY <2>1, <1>2, <1>3, ConcatProperties
  <2>5. ASSUME NEW k \in 1 .. Len(s) - 1
        PROVE  r[k] = IF k <= n - 1 THEN s[k] ELSE s[k + 1]
    <3>1. r[k] = IF k <= n - 1 THEN a[k] ELSE b[k - (n - 1)]
      BY <2>4, <1>1, <1>2, <1>3
    <3>2. CASE k <= n - 1
      BY <3>1, <3>2, <1>1, <1>2
    <3>3. CASE k > n - 1
      <4>1. k - (n - 1) \in 1 .. Len(s) - n /\ n + (k - (n - 1)) = k + 1
        BY <3>3, <1>1
      <4>2. b[k - (n - 1)] = s[k + 1]
        BY <4>1, <1>3
      <4> QED BY <3>1, <3>3, <4>2, <1>1
    <3> QED BY <3>2, <3>3, <1>1
  <2> QED BY <2>2, <2>3, <2>5
<1> QED BY <1>4

LEMMA RemoveList ==
  ASSUME NEW S, NEW s \in Seq(S), NEW n \in DOMAIN s, IsInjective(s)
  PROVE  /\ RemoveAt(s, n) \in Seq(S)
         /\ ToSet(RemoveAt(s, n)) = ToSet(s) \ {s[n]}
         /\ IsInjective(RemoveAt(s, n))
<1> DEFINE r == RemoveAt(s, n)
<1>1. Len(s) \in Nat /\ DOMAIN s = 1 .. Len(s) /\ n \in 1 .. Len(s)
  BY LenProperties
<1>2. /\ r \in Seq(S) /\ Len(r) = Len(s) - 1 /\ DOMAIN r = 1 .. Len(s) - 1
      /\ \A k \in 1 .. Len(s) - 1 : r[k] = IF k <= n - 1 THEN s[k] ELSE s[k + 1]
  BY RemoveAtIs
<1> HIDE DEF r
<1>3. ToSet(r) = ToSet(s) \ {s[n]}
  <2>1. ASSUME NEW k \in DOMAIN r PROVE r[k] \in ToSet(s) \ {s[n]}
    BY <1>1, <1>2 DEF ToSet, IsInjective
  <2>2. ASSUME NEW k \in DOMAIN s, s[k] # s[n] PROVE s[k] \in ToSet(r)
    <3>1. CASE k < n
      BY <3>1, <1>1, <1>2 DEF ToSet
    <3>2. CASE k > n
      <4>1. k - 1 \in DOMAIN r /\ r[k - 1] = s[k]
        BY <3>2, <1>1, <1>2
      <4> QED BY <4>1 DEF ToSet
    <3> QED BY <3>1, <3>2, <2>2, <1>1
  <2> QED BY <2>1, <2>2 DEF ToSet
<1>4. IsInjective(r)
  <2> DEFINE at(k) == IF k <= n - 1 THEN k ELSE k + 1
  <2>1. \A k \in DOMAIN r : at(k) \in DOMAIN s /\ r[k] = s[at(k)]
    BY <1>1, <1>2
  <2>2. \A k, l \in DOMAIN r : at(k) = at(l) => k = l
    BY <1>1, <1>2
  <2> HIDE DEF at
  <2> QED BY <2>1, <2>2 DEF IsInjective
<1> QED BY <1>2, <1>3, <1>4 DEF r

(* Where an element that occurs once is removed. *)
LEMMA RemoveFirstIs ==
  ASSUME NEW S, NEW s \in Seq(S), NEW n \in DOMAIN s, IsInjective(s)
  PROVE  RemoveFirst(s, s[n]) = RemoveAt(s, n)
<1>. DEFINE I == {i \in 1 .. Len(s) : s[i] = s[n]}
<1>1. DOMAIN s = 1 .. Len(s) /\ n \in 1 .. Len(s) /\ Len(s) \in Nat
  BY LenProperties
<1>2. I = {n}
  BY <1>1 DEF IsInjective
<1>3. Min({n}) = n
  BY <1>1 DEF Min
<1>4. SelectInSeq(s, LAMBDA v : v = s[n]) = n
  BY <1>2, <1>3 DEF SelectInSeq
<1>. QED  BY <1>1, <1>4 DEF RemoveFirst

(* A list is what it was when the element just appended is removed. *)
LEMMA RemoveAppended ==
  ASSUME NEW S, NEW s \in Seq(S), NEW e \in S, IsInjective(s), e \notin ToSet(s)
  PROVE  RemoveFirst(Append(s, e), e) = s
<1>. DEFINE r == Append(s, e)
            n == Len(s) + 1
<1>1. /\ Len(s) \in Nat /\ DOMAIN s = 1 .. Len(s) /\ r \in Seq(S) /\ Len(r) = n
      /\ r[n] = e /\ \A k \in 1 .. Len(s) : r[k] = s[k]
  BY AppendProperties, LenProperties
<1>2. IsInjective(r)
  BY AppendList
<1>. HIDE DEF r
<1>3. n \in DOMAIN r
  BY <1>1, LenProperties
<1>4. RemoveFirst(r, e) = RemoveAt(r, n)
  <2>1. RemoveFirst(r, r[n]) = RemoveAt(r, n)
    BY <1>1, <1>2, <1>3, RemoveFirstIs
  <2>. QED  BY <1>1, <2>1
<1>5. /\ RemoveAt(r, n) \in Seq(S) /\ Len(RemoveAt(r, n)) = Len(s)
      /\ \A k \in 1 .. Len(s) : RemoveAt(r, n)[k] = s[k]
  <2>1. /\ RemoveAt(r, n) \in Seq(S) /\ Len(RemoveAt(r, n)) = Len(r) - 1
        /\ \A k \in 1 .. Len(r) - 1 :
             RemoveAt(r, n)[k] = IF k <= n - 1 THEN r[k] ELSE r[k + 1]
    BY <1>1, <1>3, RemoveAtIs
  <2>. QED  BY <1>1, <2>1
<1>6. RemoveAt(r, n) = s
  BY <1>1, <1>5, SeqEqual
<1>. QED  BY <1>4, <1>6 DEF r

(* The list with x for e. *)
Exchange(s, e, x) == [j \in DOMAIN s |-> IF s[j] = e THEN x ELSE s[j]]

(* A list with element e in its middle, e removed and e exchanged. *)
Middle(s, a, b, e, x) ==
  RemoveFirst(s, e) = a \o b /\ Exchange(s, e, x) = (a \o <<x>>) \o b

LEMMA MiddleIs ==
  ASSUME NEW S, NEW a \in Seq(S), NEW b \in Seq(S), NEW e \in S, NEW x \in S,
         NEW s, s = (a \o <<e>>) \o b, IsInjective(s)
  PROVE  Middle(s, a, b, e, x)
<1>. DEFINE n == Len(a) + 1
            m == Len(b)
<1>1. n - 1 \in Nat /\ m \in Nat /\ Len(a) = n - 1 /\ n \in Nat /\ Len(b) = m
  BY LenProperties
<1>. HIDE DEF n, m
<1>2. ASSUME NEW y \in S
      PROVE  /\ (a \o <<y>>) \o b \in Seq(S) /\ Len((a \o <<y>>) \o b) = n + m
             /\ \A k \in 1 .. n + m : ((a \o <<y>>) \o b)[k] =
                  IF k < n THEN a[k] ELSE IF k = n THEN y ELSE b[k - n]
  <2>. DEFINE c == a \o <<y>>
              d == c \o b
  <2>1. <<y>> \in Seq(S) /\ Len(<<y>>) = 1 /\ <<y>>[1] = y
    OBVIOUS
  <2>2. /\ c \in Seq(S) /\ Len(c) = Len(a) + Len(<<y>>)
        /\ \A k \in 1 .. Len(a) + Len(<<y>>) :
             c[k] = IF k <= Len(a) THEN a[k] ELSE <<y>>[k - Len(a)]
    BY <2>1, ConcatProperties
  <2>. HIDE DEF c
  <2>3. c \in Seq(S) /\ Len(c) = n /\ \A k \in 1 .. n : c[k] = IF k < n THEN a[k] ELSE y
    <3>1. Len(c) = n
      BY <1>1, <2>1, <2>2
    <3>2. ASSUME NEW k \in 1 .. n, k < n PROVE c[k] = a[k]
      <4>1. k \in 1 .. Len(a) + Len(<<y>>) /\ k <= Len(a)
        BY <1>1, <2>1, <3>2
      <4>. QED  BY <2>2, <4>1
    <3>3. c[n] = <<y>>[n - (n - 1)]
      <4>1. n \in 1 .. Len(a) + Len(<<y>>) /\ ~(n <= Len(a))
        BY <1>1, <2>1
      <4>. QED  BY <1>1, <2>2, <4>1
    <3>4. n - (n - 1) = 1
      BY <1>1
    <3>5. ASSUME NEW k \in 1 .. n, ~(k < n) PROVE k = n
      BY <1>1, <3>5
    <3>. QED  BY <2>1, <2>2, <3>1, <3>2, <3>3, <3>4, <3>5
  <2>4. /\ d \in Seq(S) /\ Len(d) = Len(c) + Len(b)
        /\ \A k \in 1 .. Len(c) + Len(b) :
             d[k] = IF k <= Len(c) THEN c[k] ELSE b[k - Len(c)]
    BY <2>3, ConcatProperties
  <2>. HIDE DEF d
  <2>5. ASSUME NEW k \in 1 .. n + m
        PROVE  d[k] = IF k < n THEN a[k] ELSE IF k = n THEN y ELSE b[k - n]
    <3>1. d[k] = IF k <= n THEN c[k] ELSE b[k - n]
      BY <1>1, <2>3, <2>4
    <3>2. k <= n => k \in 1 .. n
      BY <1>1
    <3>3. (k < n => k <= n) /\ (k = n => k <= n) /\ (k <= n => k < n \/ k = n)
          /\ (k < n => k # n)
      BY <1>1
    <3>. QED  BY <2>3, <3>1, <3>2, <3>3
  <2>. QED  BY <1>1, <2>3, <2>4, <2>5 DEF c, d
<1>3. /\ s \in Seq(S) /\ Len(s) = n + m /\ DOMAIN s = 1 .. n + m
      /\ \A k \in 1 .. n + m : s[k] = IF k < n THEN a[k] ELSE IF k = n THEN e ELSE b[k - n]
  BY <1>2, LenProperties
<1>4. n \in DOMAIN s /\ s[n] = e
  <2>1. n \in 1 .. n + m /\ ~(n < n)
    BY <1>1
  <2>. QED  BY <1>3, <2>1
<1>5. RemoveFirst(s, e) = a \o b
  <2>. DEFINE r == RemoveAt(s, n)
              t == a \o b
  <2>1. RemoveFirst(s, e) = r
    <3>1. RemoveFirst(s, s[n]) = RemoveAt(s, n)
      BY <1>3, <1>4, RemoveFirstIs
    <3>. QED  BY <1>4, <3>1
  <2>2. /\ r \in Seq(S) /\ Len(r) = Len(s) - 1
        /\ \A k \in 1 .. Len(s) - 1 : r[k] = IF k <= n - 1 THEN s[k] ELSE s[k + 1]
    BY <1>3, <1>4, RemoveAtIs
  <2>3. /\ t \in Seq(S) /\ Len(t) = Len(a) + Len(b)
        /\ \A k \in 1 .. Len(a) + Len(b) : t[k] = IF k <= Len(a) THEN a[k] ELSE b[k - Len(a)]
    BY ConcatProperties
  <2>. HIDE DEF r, t
  <2>4. Len(r) = Len(t) /\ Len(t) = n - 1 + m
    BY <1>1, <1>3, <2>2, <2>3
  <2>5. ASSUME NEW k \in 1 .. n - 1 + m PROVE r[k] = t[k]
    <3>1. CASE k <= n - 1
      <4>1. k \in 1 .. n + m /\ k < n /\ k \in 1 .. Len(s) - 1
        BY <1>1, <1>3, <3>1
      <4>2. s[k] = a[k] /\ r[k] = s[k]
        BY <1>3, <2>2, <3>1, <4>1
      <4>3. t[k] = a[k]
        BY <1>1, <2>3, <3>1
      <4>. QED  BY <4>2, <4>3
    <3>2. CASE ~(k <= n - 1)
      <4>1. /\ k + 1 \in 1 .. n + m /\ ~(k + 1 < n) /\ k + 1 # n /\ k \in 1 .. Len(s) - 1
            /\ (k + 1) - n = k - (n - 1)
        BY <1>1, <1>3, <3>2
      <4>2. s[k + 1] = b[k - (n - 1)] /\ r[k] = s[k + 1]
        BY <1>3, <2>2, <3>2, <4>1
      <4>3. t[k] = b[k - (n - 1)]
        BY <1>1, <2>3, <3>2
      <4>. QED  BY <4>2, <4>3
    <3>. QED  BY <3>1, <3>2
  <2>6. r = t
    BY <2>2, <2>3, <2>4, <2>5, SeqEqual
  <2>. QED  BY <2>1, <2>6 DEF t
<1>6. Exchange(s, e, x) = (a \o <<x>>) \o b
  <2>. DEFINE r == [j \in DOMAIN s |-> IF s[j] = e THEN x ELSE s[j]]
              t == (a \o <<x>>) \o b
  <2>1. /\ t \in Seq(S) /\ Len(t) = n + m /\ DOMAIN t = 1 .. n + m
        /\ \A k \in 1 .. n + m : t[k] = IF k < n THEN a[k] ELSE IF k = n THEN x ELSE b[k - n]
    BY <1>2, LenProperties
  <2>2. t = [k \in 1 .. n + m |-> t[k]]
    <3>1. t \in [1 .. n + m -> S]
      BY <2>1, LenProperties, ElementOfSeq
    <3>. HIDE DEF t
    <3>. QED  BY <3>1
  <2>. HIDE DEF t
  <2>3. ASSUME NEW k \in 1 .. n + m
        PROVE  (IF s[k] = e THEN x ELSE s[k]) = t[k]
    <3>1. s[k] = e => k = n
      BY <1>3, <1>4 DEF IsInjective
    <3>2. s[k] = IF k < n THEN a[k] ELSE IF k = n THEN e ELSE b[k - n]
      BY <1>3
    <3>3. t[k] = IF k < n THEN a[k] ELSE IF k = n THEN x ELSE b[k - n]
      BY <2>1
    <3>4. k = n => ~(k < n)
      BY <1>1
    <3>. QED  BY <3>1, <3>2, <3>3, <3>4
  <2>4. r = t
    BY <1>3, <2>2, <2>3
  <2>. QED  BY <2>4 DEF Exchange, t
<1>. QED  BY <1>5, <1>6 DEF Middle

(* Neither does anything if e is not there. *)
LEMMA AbsentIs ==
  ASSUME NEW S, NEW s \in Seq(S), NEW e, NEW x, e \notin ToSet(s)
  PROVE  /\ RemoveFirst(s, e) = s
         /\ Exchange(s, e, x) = s
<1>1. DOMAIN s = 1 .. Len(s) /\ s \in [1 .. Len(s) -> S]
  BY LenProperties
<1>2. \A j \in 1 .. Len(s) : s[j] # e
  BY <1>1 DEF ToSet
<1>3. RemoveFirst(s, e) = s
  BY <1>2 DEF RemoveFirst
<1>4. s = [j \in 1 .. Len(s) |-> s[j]]
  BY <1>1
<1>. QED  BY <1>1, <1>2, <1>3, <1>4 DEF Exchange

LEMMA EmptyIfNone ==
  ASSUME NEW S, NEW s \in Seq(S)
  PROVE  ToSet(s) = {} <=> s = <<>>
<1>1. DOMAIN s = 1 .. Len(s) /\ Len(s) \in Nat
  BY LenProperties
<1>2. ASSUME s # <<>> PROVE ToSet(s) # {}
  <2>1. Len(s) # 0
    BY <1>2, EmptySeq
  <2>2. 1 \in DOMAIN s
    BY <1>1, <2>1
  <2>. QED  BY <2>2 DEF ToSet
<1>3. ToSet(<<>>) = {}
  BY EmptySeq DEF ToSet
<1>. QED  BY <1>2, <1>3

LEMMA TailList ==
  ASSUME NEW S, NEW s \in Seq(S), s # <<>>, IsInjective(s)
  PROVE  /\ Head(s) \in ToSet(s)
         /\ Tail(s) \in Seq(S)
         /\ ToSet(Tail(s)) = ToSet(s) \ {Head(s)}
         /\ IsInjective(Tail(s))
<1> DEFINE r == Tail(s)
<1>1. /\ Len(s) \in Nat \ {0} /\ DOMAIN s = 1 .. Len(s) /\ Head(s) = s[1]
      /\ r \in Seq(S) /\ Len(r) = Len(s) - 1 /\ DOMAIN r = 1 .. Len(s) - 1
      /\ \A k \in 1 .. Len(s) - 1 : r[k] = s[k + 1]
  BY HeadTailProperties, EmptySeq, LenProperties
<1> HIDE DEF r
<1>2. ToSet(r) = ToSet(s) \ {s[1]}
  <2>1. ASSUME NEW k \in DOMAIN r PROVE r[k] \in ToSet(s) \ {s[1]}
    BY <1>1 DEF ToSet, IsInjective
  <2>2. ASSUME NEW k \in DOMAIN s, s[k] # s[1] PROVE s[k] \in ToSet(r)
    <3>1. k - 1 \in DOMAIN r /\ r[k - 1] = s[k]
      BY <2>2, <1>1
    <3> QED BY <3>1 DEF ToSet
  <2> QED BY <2>1, <2>2 DEF ToSet
<1>3. IsInjective(r)
  <2> SUFFICES ASSUME NEW k \in DOMAIN r, NEW l \in DOMAIN r, r[k] = r[l] PROVE k = l
    BY DEF IsInjective
  <2>1. /\ k + 1 \in DOMAIN s /\ l + 1 \in DOMAIN s
        /\ s[k + 1] = s[l + 1] /\ k \in Int /\ l \in Int
    BY <1>1
  <2>2. k + 1 = l + 1
    BY <2>1 DEF IsInjective
  <2> QED BY <2>1, <2>2
<1>4. Head(s) \in ToSet(s)
  BY <1>1 DEF ToSet
<1> QED BY <1>1, <1>2, <1>3, <1>4 DEF r

LEMMA ReversePrefix ==
  ASSUME NEW S, NEW s \in Seq(S), NEW n \in 0 .. Len(s), IsInjective(s)
  PROVE  /\ Reverse(SubSeq(s, 1, n)) \in Seq(S)
         /\ ToSet(Reverse(SubSeq(s, 1, n))) = {s[k] : k \in 1 .. n}
         /\ IsInjective(Reverse(SubSeq(s, 1, n)))
<1> DEFINE a == SubSeq(s, 1, n)
           r == Reverse(a)
<1>1. Len(s) \in Nat /\ DOMAIN s = 1 .. Len(s) /\ \A k \in 1 .. Len(s) : s[k] \in S
  BY LenProperties
<1>2. Len(a) = n /\ \A k \in 1 .. n : a[k] = s[k]
  BY <1>1, SubSeqProperties
<1>3. r = [k \in 1 .. Len(a) |-> a[(Len(a) - k) + 1]]
  BY DEF Reverse
<1> HIDE DEF a, r
<1>4. DOMAIN r = 1 .. n /\ \A k \in 1 .. n : r[k] = s[n - k + 1]
  BY <1>1, <1>2, <1>3
<1>5. r \in Seq(S)
  BY <1>1, <1>2, <1>3, <1>4
<1>6. ToSet(r) = {s[k] : k \in 1 .. n}
  <2>1. ASSUME NEW k \in 1 .. n PROVE s[k] \in ToSet(r)
    <3>1. n - k + 1 \in DOMAIN r /\ r[n - k + 1] = s[k]
      BY <1>4
    <3> QED BY <3>1 DEF ToSet
  <2> QED BY <2>1, <1>4 DEF ToSet
<1>7. IsInjective(r)
  BY <1>1, <1>4 DEF IsInjective
<1> QED BY <1>5, <1>6, <1>7 DEF r, a

(* The whole list. *)
LEMMA ReverseList ==
  ASSUME NEW S, NEW s \in Seq(S)
  PROVE  /\ Reverse(s) \in Seq(S) /\ ToSet(Reverse(s)) = ToSet(s)
         /\ IsInjective(s) => IsInjective(Reverse(s))
<1>. DEFINE r == Reverse(s)
<1>1. Len(s) \in Nat /\ DOMAIN s = 1 .. Len(s) /\ \A k \in 1 .. Len(s) : s[k] \in S
  BY LenProperties
<1>2. r = [k \in 1 .. Len(s) |-> s[(Len(s) - k) + 1]]
  BY DEF Reverse
<1>. HIDE DEF r
<1>3. r \in Seq(S) /\ DOMAIN r = 1 .. Len(s) /\ \A k \in 1 .. Len(s) : r[k] = s[Len(s) - k + 1]
  BY <1>1, <1>2
<1>4. ToSet(r) = ToSet(s)
  <2>1. ASSUME NEW k \in 1 .. Len(s) PROVE s[k] \in ToSet(r)
    <3>1. Len(s) - k + 1 \in DOMAIN r /\ r[Len(s) - k + 1] = s[k]
      BY <1>1, <1>3
    <3>. QED  BY <3>1 DEF ToSet
  <2>2. ASSUME NEW k \in DOMAIN r PROVE r[k] \in ToSet(s)
    <3>1. Len(s) - k + 1 \in DOMAIN s /\ r[k] = s[Len(s) - k + 1]
      BY <1>1, <1>3
    <3>. QED  BY <3>1 DEF ToSet
  <2>. QED  BY <1>1, <2>1, <2>2 DEF ToSet
<1>5. IsInjective(s) => IsInjective(r)
  BY <1>1, <1>3 DEF IsInjective
<1>. QED  BY <1>3, <1>4, <1>5 DEF r
-----------------------------------------------------------------------------
(* Induction, with the set of the values for which something holds. *)

LEMMA LeastNumber ==
  ASSUME NEW S, S \subseteq Nat, S # {}
  PROVE  \E n \in S : \A m \in S : ~(m < n)
<1>. DEFINE R == OpToRel(<, Nat)
<1>1. IsWellFoundedOn(R, Nat)
  BY NatLessThanWellFounded
<1>2. ASSUME NEW m \in Nat, NEW n \in Nat, m < n
      PROVE  <<m, n>> \in R
  BY <1>2 DEF OpToRel
<1>. HIDE DEF R
<1>3. PICK n \in S : \A m \in S : ~(<<m, n>> \in R)
  BY <1>1, WFMin
<1>4. \A m \in S : ~(m < n)
  BY <1>2, <1>3
<1>. QED  BY <1>4

LEMMA NumbersByInduction ==
  ASSUME NEW S, 0 \in S, \A n \in Nat : n \in S => n + 1 \in S
  PROVE  Nat \subseteq S
<1>. DEFINE T == Nat \ S
<1>1. SUFFICES ASSUME T # {} PROVE FALSE
  OBVIOUS
<1>2. PICK n \in T : \A m \in T : ~(m < n)
  BY <1>1, LeastNumber
<1>3. n \in Nat /\ n # 0
  OBVIOUS
<1>4. n - 1 \in Nat /\ n - 1 < n /\ (n - 1) + 1 = n
  BY <1>3
<1>5. n - 1 \in S
  BY <1>2, <1>4
<1>. QED  BY <1>4, <1>5

(* The maximum of a set of numbers with a bound. *)
LEMMA MaxIs ==
  ASSUME NEW b \in Nat, NEW S \in SUBSET (0 .. b), S # {}
  PROVE  Max(S) \in S /\ \A x \in S : x <= Max(S)
<1>. DEFINE T == {b - x : x \in S}
<1>1. T \subseteq Nat /\ T # {}
  <2>1. \A x \in S : b - x \in Nat
    OBVIOUS
  <2>. QED  BY <2>1
<1>2. PICK t \in T : \A u \in T : ~(u < t)
  BY <1>1, LeastNumber
<1>3. PICK m \in S : t = b - m
  OBVIOUS
<1>4. ASSUME NEW x \in S PROVE m >= x
  <2>1. b - x \in T
    OBVIOUS
  <2>. QED  BY <1>2, <1>3, <2>1
<1>5. Max(S) \in S /\ \A x \in S : Max(S) >= x
  BY <1>4 DEF Max
<1>. QED  BY <1>5

LEMMA ListsByInduction ==
  ASSUME NEW S, NEW T, <<>> \in T,
         \A s \in Seq(S) : \A e \in S : s \in T => Append(s, e) \in T
  PROVE  Seq(S) \subseteq T
<1>. DEFINE N == {n \in Nat : \A s \in Seq(S) : Len(s) = n => s \in T}
<1>1. 0 \in N
  <2>1. \A s \in Seq(S) : Len(s) = 0 => s = <<>>
    BY EmptySeq
  <2>. QED  BY <2>1
<1>2. ASSUME NEW n \in Nat, n \in N PROVE n + 1 \in N
  <2>1. ASSUME NEW s \in Seq(S), Len(s) = n + 1 PROVE s \in T
    <3>. DEFINE f == SubSeq(s, 1, n)
    <3>1. /\ f \in Seq(S) /\ Len(f) = n
          /\ \A k \in 1 .. n : f[k] = s[k]
          /\ s[n + 1] \in S
      <4>1. \A k \in 1 .. n : s[k] \in S
        BY <2>1, ElementOfSeq
      <4>2. n + 1 \in 1 .. Len(s)
        BY <2>1
      <4>. QED  BY <2>1, <4>1, <4>2, SubSeqProperties, ElementOfSeq
    <3>. HIDE DEF f
    <3>2. /\ Append(f, s[n + 1]) \in Seq(S) /\ Len(Append(f, s[n + 1])) = n + 1
          /\ \A k \in 1 .. n : Append(f, s[n + 1])[k] = f[k]
          /\ Append(f, s[n + 1])[n + 1] = s[n + 1]
      BY <3>1, AppendProperties
    <3>3. \A k \in 1 .. Len(s) : Append(f, s[n + 1])[k] = s[k]
      BY <2>1, <3>1, <3>2
    <3>4. s = Append(f, s[n + 1])
      BY <2>1, <3>2, <3>3, SeqEqual
    <3>5. f \in T
      BY <1>2, <3>1
    <3>. QED  BY <3>1, <3>4, <3>5
  <2>. QED  BY <2>1
<1>. HIDE DEF N
<1>3. Nat \subseteq N
  BY <1>1, <1>2, NumbersByInduction
<1>4. ASSUME NEW s \in Seq(S) PROVE s \in T
  <2>1. Len(s) \in N
    BY <1>3, LenProperties
  <2>. QED  BY <2>1 DEF N
<1>. QED  BY <1>4
-----------------------------------------------------------------------------
(* The lists of a list, one after the other. *)

Joins(ss, g, n) ==
  g = [i \in 1 .. n |-> IF i = 1 THEN ss[i] ELSE g[i - 1] \o ss[i]]

LEMMA JoinsExists ==
  ASSUME NEW ss, NEW n \in Nat
  PROVE  \E g : Joins(ss, g, n)
<1>. DEFINE N == {k \in Nat : \E g : Joins(ss, g, k)}
<1>1. 0 \in N
  <2>. DEFINE g == [i \in 1 .. 0 |-> <<>>]
  <2>1. Joins(ss, g, 0)
    BY DEF Joins
  <2>. QED  BY <2>1
<1>2. ASSUME NEW k \in Nat, k \in N PROVE k + 1 \in N
  <2>1. PICK g : Joins(ss, g, k)
    BY <1>2
  <2>. DEFINE v == IF k + 1 = 1 THEN ss[k + 1] ELSE g[k] \o ss[k + 1]
              h == [i \in 1 .. k + 1 |-> IF i = k + 1 THEN v ELSE g[i]]
  <2>2. ASSUME NEW i \in 1 .. k + 1
        PROVE  h[i] = IF i = 1 THEN ss[i] ELSE h[i - 1] \o ss[i]
    <3>1. CASE i = k + 1
      <4>1. i # 1 => i - 1 \in 1 .. k + 1 /\ i - 1 # k + 1 /\ i - 1 = k
        BY <3>1
      <4>2. i # 1 => h[i - 1] = g[k]
        BY <4>1
      <4>3. h[i] = v
        BY <3>1
      <4>. HIDE DEF h
      <4>. QED  BY <3>1, <4>2, <4>3
    <3>2. CASE i # k + 1
      <4>1. i \in 1 .. k /\ (i # 1 => i - 1 \in 1 .. k /\ i - 1 # k + 1)
        BY <3>2
      <4>2. g[i] = IF i = 1 THEN ss[i] ELSE g[i - 1] \o ss[i]
        BY <2>1, <4>1 DEF Joins
      <4>3. h[i] = g[i] /\ (i # 1 => h[i - 1] = g[i - 1])
        BY <3>2, <4>1
      <4>. HIDE DEF h
      <4>. QED  BY <4>2, <4>3
    <3>. QED  BY <3>1, <3>2
  <2>3. h = [i \in 1 .. k + 1 |-> h[i]]
    OBVIOUS
  <2>. HIDE DEF h
  <2>4. Joins(ss, h, k + 1)
    BY <2>2, <2>3 DEF Joins
  <2>. QED  BY <2>4
<1>. HIDE DEF N
<1>3. n \in N
  BY <1>1, <1>2, NumbersByInduction
<1>. QED  BY <1>3 DEF N

AgreeTo(n, f, g) == \A i \in 1 .. n : f[i] = g[i]

(* Only the lists up to i matter for what is joined of them. *)
LEMMA JoinsAgree ==
  ASSUME NEW ss, NEW tt, NEW n \in Nat, NEW m \in Nat, n <= m, NEW g, NEW h,
         Joins(ss, g, n), Joins(tt, h, m), AgreeTo(n, ss, tt)
  PROVE  AgreeTo(n, g, h)
<1>. DEFINE N == {k \in Nat : k \in 1 .. n => g[k] = h[k]}
<1>1. 0 \in N
  OBVIOUS
<1>2. ASSUME NEW k \in Nat, k \in N PROVE k + 1 \in N
  <2>1. ASSUME k + 1 \in 1 .. n PROVE g[k + 1] = h[k + 1]
    <3>1. k + 1 \in 1 .. m /\ (k + 1 # 1 => k \in 1 .. n) /\ (k + 1) - 1 = k
      BY <2>1
    <3>2. /\ g[k + 1] = IF k + 1 = 1 THEN ss[k + 1] ELSE g[(k + 1) - 1] \o ss[k + 1]
          /\ h[k + 1] = IF k + 1 = 1 THEN tt[k + 1] ELSE h[(k + 1) - 1] \o tt[k + 1]
      BY <2>1, <3>1 DEF Joins
    <3>3. k + 1 # 1 => g[k] = h[k]
      BY <1>2, <3>1
    <3>4. ss[k + 1] = tt[k + 1]
      BY <2>1 DEF AgreeTo
    <3>. QED  BY <2>1, <3>1, <3>2, <3>3, <3>4
  <2>. QED  BY <2>1
<1>. HIDE DEF N
<1>3. Nat \subseteq N
  BY <1>1, <1>2, NumbersByInduction
<1>. QED  BY <1>3 DEF N, AgreeTo

LEMMA FlattenEmpty == FlattenSeq(<<>>) = <<>>
BY DEF FlattenSeq

LEMMA FlattenIs ==
  ASSUME NEW S, NEW ss \in Seq(S), ss # <<>>
  PROVE  \E g : Joins(ss, g, Len(ss)) /\ FlattenSeq(ss) = g[Len(ss)]
<1>1. Len(ss) \in Nat /\ Len(ss) # 0
  BY EmptySeq, LenProperties
<1>. DEFINE f == CHOOSE g : g = [i \in 1 .. Len(ss) |->
                                   IF i = 1 THEN ss[i] ELSE g[i - 1] \o ss[i]]
<1>2. FlattenSeq(ss) = f[Len(ss)]
  BY <1>1 DEF FlattenSeq
<1>3. \E g : Joins(ss, g, Len(ss))
  BY <1>1, JoinsExists
<1>4. Joins(ss, f, Len(ss))
  BY <1>3 DEF Joins
<1>. HIDE DEF f
<1>. QED  BY <1>2, <1>4

LEMMA FlattenAppend ==
  ASSUME NEW S, NEW ss \in Seq(Seq(S)), NEW t \in Seq(S), FlattenSeq(ss) \in Seq(S)
  PROVE  FlattenSeq(Append(ss, t)) = FlattenSeq(ss) \o t
<1>. DEFINE tt == Append(ss, t)
            n  == Len(ss)
<1>1. /\ n \in Nat /\ tt \in Seq(Seq(S)) /\ Len(tt) = n + 1
      /\ \A i \in 1 .. n : tt[i] = ss[i]
      /\ tt[n + 1] = t
  BY LenProperties, AppendProperties
<1>2. tt # <<>> /\ n + 1 \in Nat /\ n <= n + 1 /\ n + 1 \in 1 .. n + 1
  BY <1>1, EmptySeq
<1>. HIDE DEF tt
<1>3. PICK h : Joins(tt, h, n + 1) /\ FlattenSeq(tt) = h[n + 1]
  BY <1>1, <1>2, FlattenIs
<1>. HIDE DEF n
<1>4. h[n + 1] = IF n + 1 = 1 THEN tt[n + 1] ELSE h[(n + 1) - 1] \o tt[n + 1]
  BY <1>2, <1>3 DEF Joins
<1>5. CASE n = 0
  <2>1. FlattenSeq(ss) \o t = t
    BY <1>5, EmptySeq, FlattenEmpty, ConcatEmptySeq DEF n
  <2>. QED  BY <1>1, <1>3, <1>4, <1>5, <2>1 DEF tt
<1>6. CASE n # 0
  <2>1. ss # <<>>
    BY <1>6 DEF n
  <2>2. PICK g : Joins(ss, g, n) /\ FlattenSeq(ss) = g[n]
    BY <2>1, FlattenIs DEF n
  <2>3. \A i \in 1 .. n : g[i] = h[i]
    <3>1. n \in Nat /\ n + 1 \in Nat /\ n <= n + 1
      BY <1>1
    <3>2. Joins(ss, g, n) /\ Joins(tt, h, n + 1)
      BY <1>3, <2>2
    <3>3. AgreeTo(n, ss, tt)
      BY <1>1 DEF AgreeTo
    <3>4. AgreeTo(n, g, h)
      BY <3>1, <3>2, <3>3, JoinsAgree
    <3>. QED  BY <3>4 DEF AgreeTo
  <2>4. g[n] = h[n] /\ (n + 1) - 1 = n /\ n + 1 # 1
    BY <1>1, <1>6, <2>3
  <2>. QED  BY <1>1, <1>3, <1>4, <2>2, <2>4 DEF tt
<1>. QED  BY <1>5, <1>6

(* The elements of all lists, and no others. *)
LEMMA FlattenList ==
  ASSUME NEW S, NEW ss \in Seq(Seq(S))
  PROVE  /\ FlattenSeq(ss) \in Seq(S)
         /\ ToSet(FlattenSeq(ss)) = UNION {ToSet(ss[k]) : k \in DOMAIN ss}
<1>. DEFINE Elements(u) == UNION {ToSet(u[k]) : k \in DOMAIN u}
            T == {u \in Seq(Seq(S)) : /\ FlattenSeq(u) \in Seq(S)
                                      /\ ToSet(FlattenSeq(u)) = Elements(u)}
<1>1. <<>> \in T
  <2>1. <<>> \in Seq(S) /\ <<>> \in Seq(Seq(S)) /\ DOMAIN <<>> = {}
    BY EmptySeq
  <2>2. ToSet(<<>>) = {} /\ Elements(<<>>) = {}
    BY <2>1 DEF ToSet
  <2>. QED  BY <2>1, <2>2, FlattenEmpty
<1>2. ASSUME NEW u \in Seq(Seq(S)), NEW t \in Seq(S), u \in T
      PROVE  Append(u, t) \in T
  <2>1. /\ FlattenSeq(u) \in Seq(S) /\ ToSet(FlattenSeq(u)) = Elements(u)
        /\ FlattenSeq(Append(u, t)) = FlattenSeq(u) \o t
    BY <1>2, FlattenAppend
  <2>. DEFINE f == FlattenSeq(u)
  <2>2. /\ f \o t \in Seq(S) /\ Len(f \o t) = Len(f) + Len(t)
        /\ \A k \in 1 .. Len(f) + Len(t) :
             (f \o t)[k] = IF k <= Len(f) THEN f[k] ELSE t[k - Len(f)]
        /\ Len(f) \in Nat /\ Len(t) \in Nat /\ DOMAIN f = 1 .. Len(f)
        /\ DOMAIN t = 1 .. Len(t) /\ DOMAIN (f \o t) = 1 .. Len(f) + Len(t)
    BY <2>1, ConcatProperties, LenProperties
  <2>. HIDE DEF f
  <2>3. ToSet(f \o t) = ToSet(f) \cup ToSet(t)
    <3>1. ToSet(f \o t) \subseteq ToSet(f) \cup ToSet(t)
      <4>1. ASSUME NEW k \in 1 .. Len(f) + Len(t)
            PROVE  (f \o t)[k] \in ToSet(f) \cup ToSet(t)
        <5>1. k <= Len(f) => k \in DOMAIN f
          BY <2>2
        <5>2. ~(k <= Len(f)) => k - Len(f) \in DOMAIN t
          BY <2>2
        <5>. QED  BY <2>2, <5>1, <5>2 DEF ToSet
      <4>. QED  BY <2>2, <4>1 DEF ToSet
    <3>2. ASSUME NEW k \in DOMAIN f PROVE f[k] \in ToSet(f \o t)
      <4>1. k \in 1 .. Len(f) + Len(t) /\ k <= Len(f)
        BY <2>2
      <4>. QED  BY <2>2, <4>1 DEF ToSet
    <3>3. ASSUME NEW k \in DOMAIN t PROVE t[k] \in ToSet(f \o t)
      <4>1. /\ k + Len(f) \in 1 .. Len(f) + Len(t) /\ ~(k + Len(f) <= Len(f))
            /\ (k + Len(f)) - Len(f) = k
        BY <2>2
      <4>. QED  BY <2>2, <4>1 DEF ToSet
    <3>. QED  BY <3>1, <3>2, <3>3 DEF ToSet
  <2>4. Elements(Append(u, t)) = Elements(u) \cup ToSet(t)
    <3>1. /\ Len(u) \in Nat /\ DOMAIN u = 1 .. Len(u)
          /\ DOMAIN Append(u, t) = 1 .. Len(u) + 1
          /\ \A k \in 1 .. Len(u) : Append(u, t)[k] = u[k]
          /\ Append(u, t)[Len(u) + 1] = t
      BY AppendProperties, LenProperties
    <3>2. 1 .. Len(u) + 1 = 1 .. Len(u) \cup {Len(u) + 1}
      BY <3>1
    <3>. DEFINE a == Append(u, t)
    <3>3. \A x : x \in Elements(a) <=> \E k \in 1 .. Len(u) + 1 : x \in ToSet(a[k])
      BY <3>1
    <3>4. \A x : x \in Elements(u) <=> \E k \in 1 .. Len(u) : x \in ToSet(u[k])
      BY <3>1
    <3>. HIDE DEF a
    <3>5. \A x : x \in Elements(a) <=> x \in Elements(u) \/ x \in ToSet(t)
      BY <3>1, <3>2, <3>3, <3>4 DEF a
    <3>. HIDE DEF Elements
    <3>. QED  BY <3>5 DEF a
  <2>5. Append(u, t) \in Seq(Seq(S))
    BY AppendProperties
  <2>. QED  BY <2>1, <2>2, <2>3, <2>4, <2>5 DEF f
<1>3. ss \in T
  <2>. HIDE DEF T
  <2>. QED  BY <1>1, <1>2, ListsByInduction
<1>. QED  BY <1>3

(* Lists of different elements, none in two of them, one after the other. *)
LEMMA FlattenInjects ==
  ASSUME NEW S, NEW ss \in Seq(Seq(S)), \A k \in DOMAIN ss : IsInjective(ss[k]),
         \A k, l \in DOMAIN ss : k # l => ToSet(ss[k]) \cap ToSet(ss[l]) = {}
  PROVE  IsInjective(FlattenSeq(ss))
<1>. DEFINE Apart(u) == /\ \A k \in DOMAIN u : IsInjective(u[k])
                        /\ \A k, l \in DOMAIN u : k # l => ToSet(u[k]) \cap ToSet(u[l]) = {}
            T == {u \in Seq(Seq(S)) : Apart(u) => IsInjective(FlattenSeq(u))}
<1>1. <<>> \in T
  <2>1. <<>> \in Seq(Seq(S)) /\ IsInjective(<<>>)
    BY EmptySeq DEF IsInjective
  <2>. QED  BY <2>1, FlattenEmpty
<1>2. ASSUME NEW u \in Seq(Seq(S)), NEW t \in Seq(S), u \in T
      PROVE  Append(u, t) \in T
  <2>. DEFINE a == Append(u, t)
              n == Len(u)
  <2>1. /\ n \in Nat /\ DOMAIN u = 1 .. n /\ DOMAIN a = 1 .. n + 1 /\ a \in Seq(Seq(S))
        /\ \A k \in 1 .. n : a[k] = u[k]
        /\ a[n + 1] = t
    BY AppendProperties, LenProperties
  <2>2. /\ FlattenSeq(u) \in Seq(S)
        /\ ToSet(FlattenSeq(u)) = UNION {ToSet(u[k]) : k \in DOMAIN u}
    BY FlattenList
  <2>3. FlattenSeq(a) = FlattenSeq(u) \o t
    BY <2>2, FlattenAppend
  <2>. HIDE DEF a, n
  <2>4. ASSUME Apart(a) PROVE IsInjective(FlattenSeq(a))
    <3>1. /\ \A k \in 1 .. n : k \in DOMAIN a /\ k # n + 1
          /\ n + 1 \in DOMAIN a
      BY <2>1
    <3>2. Apart(u)
      <4>1. \A k \in DOMAIN u : k \in DOMAIN a /\ a[k] = u[k]
        BY <2>1, <3>1
      <4>2. ASSUME NEW k \in DOMAIN u PROVE IsInjective(u[k])
        BY <2>4, <4>1
      <4>3. ASSUME NEW k \in DOMAIN u, NEW l \in DOMAIN u, k # l
            PROVE  ToSet(u[k]) \cap ToSet(u[l]) = {}
        BY <2>4, <4>1, <4>3
      <4>. QED  BY <4>2, <4>3
    <3>3. IsInjective(FlattenSeq(u))
      BY <1>2, <3>2
    <3>4. IsInjective(t)
      BY <2>1, <2>4, <3>1
    <3>5. ASSUME NEW k \in DOMAIN u PROVE ToSet(u[k]) \cap ToSet(t) = {}
      <4>1. k \in DOMAIN a /\ k # n + 1 /\ a[k] = u[k]
        BY <2>1, <3>1
      <4>2. ToSet(a[k]) \cap ToSet(a[n + 1]) = {}
        BY <2>4, <3>1, <4>1
      <4>. QED  BY <2>1, <4>1, <4>2
    <3>6. ToSet(FlattenSeq(u)) \cap ToSet(t) = {}
      BY <2>2, <3>5
    <3>. QED  BY <2>2, <2>3, <3>3, <3>4, <3>6, ConcatInjects
  <2>. QED  BY <2>1, <2>4 DEF a
<1>3. ss \in T
  <2>. HIDE DEF T
  <2>. QED  BY <1>1, <1>2, ListsByInduction
<1>. QED  BY <1>3
=============================================================================
