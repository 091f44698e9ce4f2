-------------------------- MODULE HashTable_proofs --------------------------
(***************************************************************************)
(* For any keys, elements and hash: searches in the hash table are right,  *)
(* resizing keeps its elements, and it is the lookup table which the       *)
(* instrumentors are modelled with.                                        *)
(***************************************************************************)
EXTENDS HashTable, ListLemmas, FiniteSetTheorems

-----------------------------------------------------------------------------
(* The walk along a list: walk[n] is what the first n elements give. *)

Kept(P, s, e) == IF e \in P THEN Append(s, e) ELSE s

Walks(s, P, g, n) ==
  g = [k \in 0 .. n |-> IF k = 0 THEN <<>>
                        ELSE IF s[k] \in P THEN Append(g[k - 1], s[k]) ELSE g[k - 1]]

(* The recursion has a value for every length, *)
LEMMA WalksExists ==
  ASSUME NEW s, NEW P, NEW n \in Nat
  PROVE  \E g : Walks(s, P, g, n)
<1>. DEFINE N == {m \in Nat : \E g : Walks(s, P, g, m)}
<1>1. 0 \in N
  <2>. DEFINE g == [k \in 0 .. 0 |-> <<>>]
  <2>1. ASSUME NEW k \in 0 .. 0
        PROVE  g[k] = IF k = 0 THEN <<>> ELSE Kept(P, g[k - 1], s[k])
    BY k = 0
  <2>2. g = [k \in 0 .. 0 |-> g[k]]
    OBVIOUS
  <2>. HIDE DEF g
  <2>3. Walks(s, P, g, 0)
    BY <2>1, <2>2 DEF Walks, Kept
  <2>. QED  BY <2>3
<1>2. ASSUME NEW m \in Nat, m \in N PROVE m + 1 \in N
  <2>1. PICK g : Walks(s, P, g, m)
    BY <1>2
  <2>. DEFINE v == Kept(P, g[m], s[m + 1])
              h == [k \in 0 .. m + 1 |-> IF k = m + 1 THEN v ELSE g[k]]
  <2>2. ASSUME NEW k \in 0 .. m + 1
        PROVE  h[k] = IF k = 0 THEN <<>> ELSE Kept(P, h[k - 1], s[k])
    <3>1. CASE k = m + 1
      <4>1. k # 0 /\ k - 1 \in 0 .. m + 1 /\ k - 1 # m + 1 /\ k - 1 = m
        BY <3>1
      <4>2. h[k - 1] = g[m] /\ h[k] = v
        BY <3>1, <4>1
      <4>. HIDE DEF h
      <4>. QED  BY <3>1, <4>1, <4>2
    <3>2. CASE k # m + 1
      <4>1. k \in 0 .. m /\ (k # 0 => k - 1 \in 0 .. m + 1 /\ k - 1 # m + 1)
        BY <3>2
      <4>2. g[k] = IF k = 0 THEN <<>> ELSE Kept(P, g[k - 1], s[k])
        BY <2>1, <4>1 DEF Walks, Kept
      <4>3. h[k] = g[k] /\ (k # 0 => h[k - 1] = g[k - 1])
        BY <3>2, <4>1
      <4>. HIDE DEF h
      <4>. QED  BY <4>2, <4>3
    <3>. QED  BY <3>1, <3>2
  <2>3. h = [k \in 0 .. m + 1 |-> h[k]]
    OBVIOUS
  <2>. HIDE DEF h
  <2>4. Walks(s, P, h, m + 1)
    BY <2>2, <2>3 DEF Walks, Kept
  <2>. QED  BY <2>4
<1>. HIDE DEF N
<1>3. n \in N
  BY <1>1, <1>2, NumbersByInduction
<1>. QED  BY <1>3 DEF N

(* and elements that come later, or that are in both sets or in none, do not
   change it. *)
LEMMA WalksAgree ==
  ASSUME NEW s, NEW t, NEW P, NEW Q, NEW n \in Nat, NEW m \in Nat, n <= m, NEW g, NEW h,
         Walks(s, P, g, n), Walks(t, Q, h, m), AgreeTo(n, s, t),
         \A k \in 1 .. n : s[k] \in P <=> s[k] \in Q
  PROVE  g[n] = h[n]
<1>. DEFINE N == {k \in Nat : k \in 0 .. n => g[k] = h[k]}
<1>1. 0 \in N
  <2>1. 0 \in 0 .. n /\ 0 \in 0 .. m
    OBVIOUS
  <2>2. g[0] = <<>> /\ h[0] = <<>>
    BY <2>1 DEF Walks
  <2>. QED  BY <2>2
<1>2. ASSUME NEW k \in Nat, k \in N PROVE k + 1 \in N
  <2>1. ASSUME k + 1 \in 0 .. n PROVE g[k + 1] = h[k + 1]
    <3>1. /\ k + 1 \in 0 .. m /\ k + 1 \in 1 .. n /\ k \in 0 .. n
          /\ (k + 1) - 1 = k /\ k + 1 # 0
      BY <2>1
    <3>2. /\ g[k + 1] = IF k + 1 = 0 THEN <<>> ELSE Kept(P, g[(k + 1) - 1], s[k + 1])
          /\ h[k + 1] = IF k + 1 = 0 THEN <<>> ELSE Kept(Q, h[(k + 1) - 1], t[k + 1])
      BY <2>1, <3>1 DEF Walks, Kept
    <3>3. g[k] = h[k] /\ s[k + 1] = t[k + 1] /\ (s[k + 1] \in P <=> s[k + 1] \in Q)
      BY <1>2, <3>1 DEF AgreeTo
    <3>. QED  BY <3>1, <3>2, <3>3 DEF Kept
  <2>. QED  BY <2>1
<1>. HIDE DEF N
<1>3. n \in N
  BY <1>1, <1>2, NumbersByInduction
<1>. QED  BY <1>3 DEF N

LEMMA OnlyIs ==
  ASSUME NEW S, NEW s \in Seq(S), NEW P
  PROVE  \E g : Walks(s, P, g, Len(s)) /\ Only(s, P) = g[Len(s)]
<1>1. Len(s) \in Nat
  BY LenProperties
<1>. DEFINE f == CHOOSE g : g = [n \in 0 .. Len(s) |->
                     IF n = 0 THEN <<>>
                     ELSE IF s[n] \in P THEN Append(g[n - 1], s[n]) ELSE g[n - 1]]
<1>2. Only(s, P) = f[Len(s)]
  BY DEF Only
<1>3. \E g : Walks(s, P, g, Len(s))
  BY <1>1, WalksExists
<1>4. Walks(s, P, f, Len(s))
  BY <1>3 DEF Walks
<1>. HIDE DEF f
<1>. QED  BY <1>2, <1>4

LEMMA OnlyNone ==
  ASSUME NEW P
  PROVE  Only(<<>>, P) = <<>>
<1>1. <<>> \in Seq({}) /\ Len(<<>>) = 0 /\ 0 \in 0 .. 0
  BY EmptySeq
<1>2. PICK g : Walks(<<>>, P, g, Len(<<>>)) /\ Only(<<>>, P) = g[Len(<<>>)]
  BY <1>1, OnlyIs
<1>3. g[0] = <<>>
  BY <1>1, <1>2 DEF Walks
<1>. QED  BY <1>1, <1>2, <1>3

LEMMA OnlyOneMore ==
  ASSUME NEW S, NEW s \in Seq(S), NEW e \in S, NEW P
  PROVE  Only(Append(s, e), P) = Kept(P, Only(s, P), e)
<1>. DEFINE t == Append(s, e)
            n == Len(s)
<1>1. /\ n \in Nat /\ t \in Seq(S) /\ Len(t) = n + 1 /\ n + 1 \in Nat /\ n <= n + 1
      /\ \A k \in 1 .. n : t[k] = s[k]
      /\ t[n + 1] = e
  BY LenProperties, AppendProperties
<1>. HIDE DEF t
<1>2. PICK g : Walks(s, P, g, n) /\ Only(s, P) = g[n]
  BY OnlyIs
<1>3. PICK h : Walks(t, P, h, n + 1) /\ Only(t, P) = h[n + 1]
  BY <1>1, OnlyIs
<1>. HIDE DEF n
<1>4. g[n] = h[n]
  <2>1. AgreeTo(n, s, t)
    BY <1>1 DEF AgreeTo
  <2>. QED  BY <1>1, <1>2, <1>3, <2>1, WalksAgree
<1>5. h[n + 1] = Kept(P, h[n], e)
  <2>1. n + 1 \in 0 .. n + 1 /\ n + 1 # 0 /\ (n + 1) - 1 = n
    BY <1>1
  <2>2. h[n + 1] = IF n + 1 = 0 THEN <<>> ELSE Kept(P, h[(n + 1) - 1], t[n + 1])
    BY <1>3, <2>1 DEF Walks, Kept
  <2>. QED  BY <1>1, <2>1, <2>2
<1>. QED  BY <1>2, <1>3, <1>4, <1>5 DEF t, n

(* It does not matter what else is in the set. *)
LEMMA OnlySame ==
  ASSUME NEW S, NEW s \in Seq(S), NEW P, NEW Q,
         \A e \in ToSet(s) : e \in P <=> e \in Q
  PROVE  Only(s, P) = Only(s, Q)
<1>. DEFINE n == Len(s)
<1>1. n \in Nat /\ n <= n /\ \A k \in 1 .. n : s[k] \in P <=> s[k] \in Q
  BY LenProperties DEF ToSet
<1>2. PICK g : Walks(s, P, g, n) /\ Only(s, P) = g[n]
  BY OnlyIs
<1>3. PICK h : Walks(s, Q, h, n) /\ Only(s, Q) = h[n]
  BY OnlyIs
<1>. HIDE DEF n
<1>4. AgreeTo(n, s, s)
  BY DEF AgreeTo
<1>5. g[n] = h[n]
  BY <1>1, <1>2, <1>3, <1>4, WalksAgree
<1>. QED  BY <1>2, <1>3, <1>5

(* Those elements of the list that are in the set, each as often. *)
LEMMA OnlyList ==
  ASSUME NEW S, NEW s \in Seq(S), NEW P
  PROVE  /\ Only(s, P) \in Seq(S)
         /\ ToSet(Only(s, P)) = ToSet(s) \cap P
         /\ IsInjective(s) => IsInjective(Only(s, P))
<1>. DEFINE T == {t \in Seq(S) : /\ Only(t, P) \in Seq(S)
                                 /\ ToSet(Only(t, P)) = ToSet(t) \cap P
                                 /\ IsInjective(t) => IsInjective(Only(t, P))}
<1>1. <<>> \in T
  <2>1. <<>> \in Seq(S) /\ ToSet(<<>>) = {}
    BY EmptySeq DEF ToSet
  <2>. QED  BY <2>1, OnlyNone
<1>2. ASSUME NEW t \in Seq(S), NEW e \in S, t \in T
      PROVE  Append(t, e) \in T
  <2>. DEFINE o == Only(t, P)
              u == Append(t, e)
  <2>1. o \in Seq(S) /\ ToSet(o) = ToSet(t) \cap P /\ (IsInjective(t) => IsInjective(o))
    BY <1>2
  <2>2. Only(u, P) = Kept(P, o, e)
    BY OnlyOneMore
  <2>3. u \in Seq(S) /\ ToSet(u) = ToSet(t) \cup {e}
    BY AppendSet
  <2>4. IsInjective(u) => IsInjective(t) /\ e \notin ToSet(t)
    BY AppendInjects
  <2>. HIDE DEF o, u
  <2>5. CASE e \in P
    <3>1. Append(o, e) \in Seq(S) /\ ToSet(Append(o, e)) = ToSet(o) \cup {e}
      BY <2>1, AppendSet
    <3>2. ASSUME IsInjective(u) PROVE IsInjective(Append(o, e))
      <4>1. IsInjective(o) /\ e \notin ToSet(o)
        BY <2>1, <2>4, <3>2
      <4>. QED  BY <2>1, <4>1, AppendList
    <3>. QED  BY <2>1, <2>2, <2>3, <2>5, <3>1, <3>2 DEF Kept, u
  <2>6. CASE e \notin P
    <3>1. Only(u, P) = o
      BY <2>2, <2>6 DEF Kept
    <3>. QED  BY <2>1, <2>3, <2>4, <2>6, <3>1 DEF u
  <2>. QED  BY <2>5, <2>6
<1>. HIDE DEF T
<1>3. s \in T
  BY <1>1, <1>2, ListsByInduction
<1>. QED  BY <1>3 DEF T

LEMMA OnlyConcat ==
  ASSUME NEW S, NEW s \in Seq(S), NEW t \in Seq(S), NEW P
  PROVE  Only(s \o t, P) = Only(s, P) \o Only(t, P)
<1>. DEFINE T == {u \in Seq(S) : Only(s \o u, P) = Only(s, P) \o Only(u, P)}
<1>1. <<>> \in T
  <2>1. <<>> \in Seq(S) /\ s \o <<>> = s
    BY EmptySeq, ConcatEmptySeq
  <2>2. Only(s, P) \o <<>> = Only(s, P)
    BY OnlyList, ConcatEmptySeq
  <2>. QED  BY <2>1, <2>2, OnlyNone
<1>2. ASSUME NEW u \in Seq(S), NEW e \in S, u \in T
      PROVE  Append(u, e) \in T
  <2>. DEFINE o == Only(s, P)
              p == Only(u, P)
  <2>1. o \in Seq(S) /\ p \in Seq(S) /\ Only(s \o u, P) = o \o p
    BY <1>2, OnlyList
  <2>2. s \o u \in Seq(S) /\ Append(u, e) \in Seq(S)
    BY ConcatProperties, AppendProperties
  <2>3. s \o Append(u, e) = Append(s \o u, e)
    BY ConcatAppend
  <2>4. Only(Append(u, e), P) = Kept(P, p, e)
    BY OnlyOneMore
  <2>5. Only(Append(s \o u, e), P) = Kept(P, o \o p, e)
    <3>. DEFINE v == s \o u
    <3>. HIDE DEF v
    <3>1. v \in Seq(S)
      BY <2>2 DEF v
    <3>2. Only(Append(v, e), P) = Kept(P, Only(v, P), e)
      BY <3>1, OnlyOneMore
    <3>. QED  BY <2>1, <3>2 DEF v
  <2>. HIDE DEF o, p
  <2>6. o \o Append(p, e) = Append(o \o p, e)
    BY <2>1, ConcatAppend
  <2>7. o \o Kept(P, p, e) = Kept(P, o \o p, e)
    BY <2>6 DEF Kept
  <2>8. Only(s \o Append(u, e), P) = o \o Only(Append(u, e), P)
    BY <2>3, <2>4, <2>5, <2>7
  <2>. QED  BY <2>2, <2>8 DEF o
<1>. HIDE DEF T
<1>3. t \in T
  BY <1>1, <1>2, ListsByInduction
<1>. QED  BY <1>3 DEF T

LEMMA OnlyOne ==
  ASSUME NEW e, NEW P
  PROVE  Only(<<e>>, P) = IF e \in P THEN <<e>> ELSE <<>>
<1>1. /\ <<>> \in Seq({e}) /\ e \in {e} /\ Append(<<>>, e) = <<e>>
  BY EmptySeq
<1>2. Only(Append(<<>>, e), P) = Kept(P, Only(<<>>, P), e)
  BY <1>1, OnlyOneMore
<1>. QED  BY <1>1, <1>2, OnlyNone DEF Kept

(* What is kept of a list, with e in its middle and without. *)
OnlyParts(S, a, b, e, P) ==
  /\ Only(a, P) \in Seq(S) /\ Only(b, P) \in Seq(S)
  /\ Only(a \o b, P) = Only(a, P) \o Only(b, P)
  /\ e \in P => Only((a \o <<e>>) \o b, P) = (Only(a, P) \o <<e>>) \o Only(b, P)
  /\ e \notin P => Only((a \o <<e>>) \o b, P) = Only(a, P) \o Only(b, P)

LEMMA OnlyMiddle ==
  ASSUME NEW S, NEW a \in Seq(S), NEW b \in Seq(S), NEW e \in S, NEW P
  PROVE  OnlyParts(S, a, b, e, P)
<1>1. Only(a, P) \in Seq(S) /\ Only(b, P) \in Seq(S)
  BY OnlyList
<1>2. <<e>> \in Seq(S) /\ a \o <<e>> \in Seq(S)
  BY ConcatProperties
<1>3. /\ Only(a \o b, P) = Only(a, P) \o Only(b, P)
      /\ Only(a \o <<e>>, P) = Only(a, P) \o Only(<<e>>, P)
      /\ Only((a \o <<e>>) \o b, P) = Only(a \o <<e>>, P) \o Only(b, P)
  <2>1. \A x, y \in Seq(S) : Only(x \o y, P) = Only(x, P) \o Only(y, P)
    BY OnlyConcat
  <2>. QED  BY <1>2, <2>1
<1>4. Only(<<e>>, P) = IF e \in P THEN <<e>> ELSE <<>>
  BY OnlyOne
<1>5. Only(a, P) \o <<>> = Only(a, P)
  BY <1>1, ConcatEmptySeq
<1>. QED  BY <1>1, <1>3, <1>4, <1>5 DEF OnlyParts

(* A list apart at position n: what is there is removed, or exchanged for e. *)
Apart(S, s, n, e, a, b) ==
  /\ a \in Seq(S) /\ b \in Seq(S)
  /\ s = (a \o <<s[n]>>) \o b /\ RemoveAt(s, n) = a \o b
  /\ [s EXCEPT ![n] = e] = (a \o <<e>>) \o b
  /\ ToSet(a) = {s[m] : m \in 1 .. n - 1}
  /\ ToSet(b) = {s[m] : m \in n + 1 .. Len(s)}

LEMMA ApartIs ==
  ASSUME NEW S, NEW s \in Seq(S), NEW n \in DOMAIN s, NEW e \in S
  PROVE  \E a, b : Apart(S, s, n, e, a, b)
<1>. DEFINE a == SubSeq(s, 1, n - 1)
            b == SubSeq(s, n + 1, Len(s))
<1>1. /\ Len(s) \in Nat /\ DOMAIN s = 1 .. Len(s) /\ n \in 1 .. Len(s)
      /\ \A k \in 1 .. Len(s) : s[k] \in S
  BY LenProperties
<1>2. /\ a \in Seq(S) /\ Len(a) = n - 1 /\ \A k \in 1 .. n - 1 : a[k] = s[k]
  BY <1>1, SubSeqProperties
<1>3. /\ b \in Seq(S) /\ Len(b) = Len(s) - n
      /\ \A k \in 1 .. Len(s) - n : b[k] = s[n + k]
  BY <1>1, SubSeqProperties
<1>4. RemoveAt(s, n) = a \o b
  BY DEF RemoveAt
<1>. HIDE DEF a, b
<1>5. ASSUME NEW x \in S
      PROVE  /\ (a \o <<x>>) \o b \in Seq(S)
             /\ Len((a \o <<x>>) \o b) = Len(s)
             /\ ((a \o <<x>>) \o b)[n] = x
             /\ \A k \in 1 .. Len(s) : k # n => ((a \o <<x>>) \o b)[k] = s[k]
  <2>. DEFINE c == a \o <<x>>
              d == c \o b
  <2>1. <<x>> \in Seq(S) /\ Len(<<x>>) = 1 /\ <<x>>[1] = x
    OBVIOUS
  <2>2. /\ c \in Seq(S) /\ Len(c) = n
        /\ \A k \in 1 .. n - 1 : c[k] = s[k]
        /\ c[n] = x
    <3>1. /\ c \in Seq(S) /\ Len(c) = Len(a) + Len(<<x>>)
          /\ \A k \in 1 .. Len(a) + Len(<<x>>) :
               c[k] = IF k <= Len(a) THEN a[k] ELSE <<x>>[k - Len(a)]
      BY <1>2, <2>1, ConcatProperties
    <3>. HIDE DEF c
    <3>2. Len(c) = n /\ n \in 1 .. n /\ ~(n <= n - 1) /\ n - (n - 1) = 1
      <4>1. n \in Nat /\ n \in 1 .. n /\ ~(n <= n - 1) /\ n - (n - 1) = 1
        BY <1>1
      <4>2. Len(c) = (n - 1) + 1
        BY <1>2, <2>1, <3>1
      <4>. QED  BY <4>1, <4>2
    <3>3. ASSUME NEW k \in 1 .. n - 1 PROVE c[k] = s[k]
      <4>1. k \in 1 .. Len(a) + Len(<<x>>) /\ k <= Len(a)
        BY <1>1, <1>2, <2>1
      <4>. QED  BY <1>2, <3>1, <4>1
    <3>4. c[n] = <<x>>[n - (n - 1)]
      BY <1>1, <1>2, <2>1, <3>1, <3>2
    <3>. QED  BY <2>1, <3>1, <3>2, <3>3, <3>4
  <2>. HIDE DEF c
  <2>3. /\ d \in Seq(S) /\ Len(d) = Len(c) + Len(b)
        /\ \A k \in 1 .. Len(c) + Len(b) :
             d[k] = IF k <= Len(c) THEN c[k] ELSE b[k - Len(c)]
    BY <1>3, <2>2, ConcatProperties
  <2>. HIDE DEF d
  <2>4. d \in Seq(S) /\ Len(d) = Len(s) /\ d[n] = x
    BY <1>1, <1>3, <2>2, <2>3
  <2>5. ASSUME NEW k \in 1 .. Len(s), k # n PROVE d[k] = s[k]
    <3>1. CASE k < n
      <4>1. k \in 1 .. n - 1 /\ k <= n /\ k \in 1 .. Len(c) + Len(b)
        BY <1>1, <1>3, <2>2, <3>1
      <4>. QED  BY <2>2, <2>3, <4>1
    <3>2. CASE k > n
      <4>1. k - n \in 1 .. Len(s) - n /\ n + (k - n) = k /\ ~(k <= n)
        BY <1>1, <3>2
      <4>2. b[k - n] = s[k]
        BY <1>3, <4>1
      <4>3. k \in 1 .. Len(c) + Len(b)
        BY <1>1, <1>3, <2>2, <3>2
      <4>. QED  BY <2>2, <2>3, <4>1, <4>2, <4>3
    <3>. QED  BY <1>1, <2>5, <3>1, <3>2
  <2>. QED  BY <2>4, <2>5 DEF c, d
<1>6. s = (a \o <<s[n]>>) \o b
  <2>1. s[n] \in S
    BY <1>1
  <2>. DEFINE d == (a \o <<s[n]>>) \o b
  <2>2. d \in Seq(S) /\ Len(d) = Len(s) /\ \A k \in 1 .. Len(s) : d[k] = s[k]
    BY <1>5, <2>1
  <2>. HIDE DEF d
  <2>3. d = s
    BY <2>2, SeqEqual
  <2>. QED  BY <2>3 DEF d
<1>7. [s EXCEPT ![n] = e] = (a \o <<e>>) \o b
  <2>. DEFINE d == (a \o <<e>>) \o b
              r == [s EXCEPT ![n] = e]
  <2>1. d \in Seq(S) /\ Len(d) = Len(s) /\ d[n] = e /\ \A k \in 1 .. Len(s) : k # n => d[k] = s[k]
    BY <1>5
  <2>2. r \in Seq(S) /\ Len(r) = Len(s) /\ r[n] = e
        /\ \A k \in 1 .. Len(s) : k # n => r[k] = s[k]
    BY <1>1, ExceptSeq
  <2>. HIDE DEF d, r
  <2>3. \A k \in 1 .. Len(s) : r[k] = d[k]
    BY <2>1, <2>2
  <2>4. r = d
    BY <2>1, <2>2, <2>3, SeqEqual
  <2>. QED  BY <2>4 DEF d, r
<1>8. ToSet(a) = {s[m] : m \in 1 .. n - 1}
  BY <1>1, <1>2, LenProperties DEF ToSet
<1>9. ToSet(b) = {s[m] : m \in n + 1 .. Len(s)}
  <2>1. DOMAIN b = 1 .. Len(s) - n
    BY <1>3, LenProperties
  <2>2. ASSUME NEW m \in n + 1 .. Len(s) PROVE s[m] \in ToSet(b)
    <3>1. m - n \in DOMAIN b /\ n + (m - n) = m
      BY <1>1, <2>1
    <3>. QED  BY <1>3, <2>1, <3>1 DEF ToSet
  <2>3. ASSUME NEW k \in DOMAIN b PROVE b[k] \in {s[m] : m \in n + 1 .. Len(s)}
    <3>1. n + k \in n + 1 .. Len(s) /\ b[k] = s[n + k]
      BY <1>1, <1>3, <2>1
    <3>. QED  BY <3>1
  <2>. QED  BY <2>2, <2>3 DEF ToSet
<1>10. Apart(S, s, n, e, a, b)
  BY <1>2, <1>3, <1>4, <1>6, <1>7, <1>8, <1>9 DEF Apart
<1>. QED  BY <1>10
-----------------------------------------------------------------------------
(* The table is of the default size and every element in its list. *)
Shaped ==
  /\ key \in [Elem -> Key]
  /\ table # None => table \in Table /\ Placed(table)

(* The elements of the table are counted. *)
Counted == table # None => table.n_elems = Cardinality(Content)

IInv == Shaped /\ Counted

LEMMA Parts ==
  ASSUME Shaped, table # None
  PROVE  /\ table = [heads |-> table.heads, bits |-> BITS_DEFAULT, n_elems |-> table.n_elems]
         /\ table.n_elems \in Int
         /\ table.heads \in [Heads(BITS_DEFAULT) -> Seq(Elem)] /\ table.bits = BITS_DEFAULT
         /\ key \in [Elem -> Key]
         /\ \A g \in Heads(BITS_DEFAULT) : IsInjective(table.heads[g])
         /\ \A g \in Heads(BITS_DEFAULT) : \A m \in DOMAIN table.heads[g] :
              hash_function(key[table.heads[g][m]], BITS_DEFAULT) = g
BY DEF Shaped, Placed, Bucket, Table

(* An element is in one list, that of its key. *)
LEMMA InList ==
  ASSUME Shaped, table # None, NEW h \in Heads(BITS_DEFAULT), NEW e \in ToSet(table.heads[h])
  PROVE  e \in Elem /\ e \in Content /\ Bucket(table, key[e]) = h
<1>1. PICK n \in DOMAIN table.heads[h] : table.heads[h][n] = e
  BY DEF ToSet
<1>2. e \in Elem /\ Bucket(table, key[e]) = h
  BY <1>1, Parts, LenProperties DEF Bucket
<1>. QED  BY <1>2, Parts DEF Content, Elements

LEMMA InItsList ==
  ASSUME Shaped, table # None, NEW e
  PROVE  e \in Content <=> /\ e \in Elem /\ Bucket(table, key[e]) \in Heads(BITS_DEFAULT)
                           /\ e \in ToSet(table.heads[Bucket(table, key[e])])
<1>1. DOMAIN table.heads = Heads(BITS_DEFAULT)
  BY Parts
<1>2. ASSUME NEW h \in Heads(BITS_DEFAULT), e \in ToSet(table.heads[h])
      PROVE  e \in Elem /\ Bucket(table, key[e]) = h
  BY <1>2, InList
<1>. QED  BY <1>1, <1>2 DEF Content, Elements

LEMMA HashInHeads ==
  ASSUME Shaped, table # None, NEW k \in Key
  PROVE  Bucket(table, k) \in Heads(BITS_DEFAULT)
BY Parts, HashAssumption, BitsAssumption DEF Bucket, hash_function, BITS_DEFAULT, BITS_MIN

(* A list has finitely many elements, and so has the table. *)
LEMMA ListFinite ==
  ASSUME NEW S, NEW s \in Seq(S)
  PROVE  IsFiniteSet(ToSet(s))
<1>. DEFINE T == {t \in Seq(S) : IsFiniteSet(ToSet(t))}
<1>1. <<>> \in T
  <2>1. <<>> \in Seq(S) /\ ToSet(<<>>) = {}
    BY EmptySeq DEF ToSet
  <2>. QED  BY <2>1, FS_EmptySet
<1>2. ASSUME NEW t \in Seq(S), NEW e \in S, t \in T
      PROVE  Append(t, e) \in T
  <2>1. Append(t, e) \in Seq(S) /\ ToSet(Append(t, e)) = ToSet(t) \cup {e}
    BY AppendSet
  <2>2. IsFiniteSet(ToSet(t) \cup {e})
    BY <1>2, FS_AddElement
  <2>. QED  BY <2>1, <2>2
<1>. HIDE DEF T
<1>3. s \in T
  BY <1>1, <1>2, ListsByInduction
<1>. QED  BY <1>3 DEF T

(* The lists of the table one after the other. *)
LEMMA InOrderIs ==
  ASSUME NEW t, NEW b \in Nat, b = t.bits, t.heads \in [Heads(b) -> Seq(Elem)]
  PROVE  /\ InOrder(t) \in Seq(Elem) /\ ToSet(InOrder(t)) = Elements(t)
         /\ Placed(t) => IsInjective(InOrder(t))
<1>. DEFINE m  == 2^b
            ss == [n \in 1 .. m |-> t.heads[n - 1]]
<1>1. m \in Int
  OBVIOUS
<1>2. Heads(b) = 0 .. m - 1 /\ InOrder(t) = FlattenSeq(ss)
  BY DEF Heads, InOrder
<1>. HIDE DEF m
<1>3. \A n \in 1 .. m : n - 1 \in Heads(b)
  BY <1>1, <1>2
<1>4. \A h \in Heads(b) : h + 1 \in 1 .. m /\ (h + 1) - 1 = h
  BY <1>1, <1>2
<1>5. /\ DOMAIN ss = 1 .. m /\ ss \in [1 .. m -> Seq(Elem)]
      /\ \A n \in 1 .. m : ss[n] = t.heads[n - 1] /\ ss[n] \in Seq(Elem)
  BY <1>3
<1>6. ss \in Seq(Seq(Elem))
  <2>. DEFINE Q == Seq(Elem)
  <2>1. \E n \in Nat : 1 .. m = 1 .. n
    BY <1>1, m < 0 => 1 .. m = 1 .. 0
  <2>2. ss \in [1 .. m -> Q]
    BY <1>5
  <2>. HIDE DEF Q, ss
  <2>3. PICK n \in Nat : ss \in [1 .. n -> Q]
    BY <2>1, <2>2
  <2>4. Seq(Q) = UNION {[1 .. k -> Q] : k \in Nat}
    BY SeqDef
  <2>5. ss \in Seq(Q)
    BY <2>3, <2>4, Zenon
  <2>. QED  BY <2>5 DEF Q
<1>. HIDE DEF ss
<1>7. ToSet(InOrder(t)) = UNION {ToSet(ss[n]) : n \in DOMAIN ss} /\ InOrder(t) \in Seq(Elem)
  BY <1>2, <1>6, FlattenList
<1>8. ASSUME NEW x PROVE x \in ToSet(InOrder(t)) <=> x \in Elements(t)
  <2>1. x \in ToSet(InOrder(t)) <=> \E n \in 1 .. m : x \in ToSet(t.heads[n - 1])
    BY <1>5, <1>7
  <2>2. x \in Elements(t) <=> \E h \in Heads(b) : x \in ToSet(t.heads[h])
    BY DEF Elements
  <2>3. ASSUME NEW h \in Heads(b), x \in ToSet(t.heads[h])
        PROVE  \E n \in 1 .. m : x \in ToSet(t.heads[n - 1])
    BY <1>4, <2>3
  <2>. QED  BY <1>3, <2>1, <2>2, <2>3
<1>9. ASSUME Placed(t) PROVE IsInjective(InOrder(t))
  <2>1. \A n \in DOMAIN ss : IsInjective(ss[n])
    BY <1>3, <1>5, <1>9 DEF Placed
  <2>2. ASSUME NEW k \in DOMAIN ss, NEW l \in DOMAIN ss, k # l
        PROVE  ToSet(ss[k]) \cap ToSet(ss[l]) = {}
    <3>1. k - 1 \in Heads(b) /\ l - 1 \in Heads(b) /\ k - 1 # l - 1
      BY <1>1, <1>3, <1>5, <2>2
    <3>2. \A x \in ToSet(ss[k]) : Bucket(t, key[x]) = k - 1
      BY <1>5, <1>9, <3>1 DEF Placed, ToSet
    <3>3. \A x \in ToSet(ss[l]) : Bucket(t, key[x]) = l - 1
      BY <1>5, <1>9, <3>1 DEF Placed, ToSet
    <3>. QED  BY <3>1, <3>2, <3>3
  <2>3. IsInjective(FlattenSeq(ss))
    BY <1>6, <2>1, <2>2, FlattenInjects
  <2>. QED  BY <1>2, <2>3
<1>. QED  BY <1>7, <1>8, <1>9

LEMMA ElementsFinite ==
  ASSUME NEW t, NEW b \in Nat, b = t.bits, t.heads \in [Heads(b) -> Seq(Elem)]
  PROVE  IsFiniteSet(Elements(t))
<1>1. InOrder(t) \in Seq(Elem) /\ ToSet(InOrder(t)) = Elements(t)
  BY InOrderIs
<1>. QED  BY <1>1, ListFinite

LEMMA ContentFinite ==
  ASSUME Shaped, table # None
  PROVE  IsFiniteSet(Content) /\ Cardinality(Content) \in Nat
<1>1. table.heads \in [Heads(table.bits) -> Seq(Elem)] /\ table.bits = BITS_DEFAULT
      /\ BITS_DEFAULT \in Nat
  BY Parts DEF BITS_DEFAULT
<1>2. IsFiniteSet(Elements(table))
  BY <1>1, ElementsFinite
<1>. QED  BY <1>2, FS_CardinalityType DEF Content

LEMMA InitHolds == Init => IInv
BY DEF Init, IInv, Shaped, Counted

LEMMA CreateKeeps ==
  ASSUME Shaped, Create
  PROVE  IInv'
<1>1. table' = [heads |-> [h \in Heads(BITS_DEFAULT) |-> <<>>], bits |-> BITS_DEFAULT, n_elems |-> 0]
      /\ key' = key
  BY DEF Create, Empty
<1>2. table'.heads = [h \in Heads(BITS_DEFAULT) |-> <<>>] /\ table'.bits = BITS_DEFAULT
      /\ table'.n_elems = 0
  BY <1>1
<1>3. \A h \in Heads(BITS_DEFAULT) : table'.heads[h] = <<>> /\ DOMAIN table'.heads[h] = {}
                                    /\ <<>> \in Seq(Elem)
  BY <1>2
<1>4. Placed(table)'
  BY <1>2, <1>3 DEF Placed, IsInjective
<1>5. Content' = {}
  BY <1>2, <1>3 DEF Content, Elements, ToSet
<1>6. Counted'
  BY <1>2, <1>5, FS_EmptySet DEF Counted
<1>7. table' \in Table
  BY <1>1, <1>3 DEF Table
<1>. QED  BY <1>1, <1>4, <1>6, <1>7 DEF IInv, Shaped

(* List h of the table becomes s, and the number of elements n. *)
Changed(h, s, n) ==
  table' = [heads |-> [table.heads EXCEPT ![h] = s], bits |-> BITS_DEFAULT, n_elems |-> n]

(* Then it is enough to look at that list and at the keys of the elements in
   the others. *)
LEMMA OneList ==
  ASSUME Shaped, table # None, key' \in [Elem -> Key],
         NEW h \in Heads(BITS_DEFAULT), NEW s \in Seq(Elem), NEW n \in Int, Changed(h, s, n),
         IsInjective(s),
         \A e \in ToSet(s) : hash_function(key'[e], BITS_DEFAULT) = h,
         \A e \in Content : key'[e] = key[e]
  PROVE  /\ Shaped' /\ table' # None /\ table'.n_elems = n
         /\ Content' = (Content \ ToSet(table.heads[h])) \cup ToSet(s)
<1>1. /\ table.heads \in [Heads(BITS_DEFAULT) -> Seq(Elem)] /\ table.bits = BITS_DEFAULT
      /\ \A g \in Heads(BITS_DEFAULT) : IsInjective(table.heads[g])
      /\ \A g \in Heads(BITS_DEFAULT) : \A m \in DOMAIN table.heads[g] :
           hash_function(key[table.heads[g][m]], BITS_DEFAULT) = g
  BY Parts
<1>2. /\ table' = [heads |-> table'.heads, bits |-> BITS_DEFAULT, n_elems |-> table'.n_elems]
      /\ table'.heads = [table.heads EXCEPT ![h] = s]
      /\ table'.bits = BITS_DEFAULT /\ table'.n_elems = n
  BY DEF Changed
<1>3. table'.heads \in [Heads(BITS_DEFAULT) -> Seq(Elem)]
  BY <1>1, <1>2
<1>4. ASSUME NEW g \in Heads(BITS_DEFAULT)
      PROVE  /\ IsInjective(table'.heads[g])
             /\ \A m \in DOMAIN table'.heads[g] :
                  hash_function(key'[table'.heads[g][m]], BITS_DEFAULT) = g
  <2>1. CASE g = h
    BY <2>1, <1>1, <1>2 DEF ToSet
  <2>2. CASE g # h
    <3>1. table'.heads[g] = table.heads[g]
      BY <2>2, <1>1, <1>2
    <3>2. \A m \in DOMAIN table.heads[g] : table.heads[g][m] \in Content
      BY <1>1 DEF Content, Elements, ToSet
    <3>3. ASSUME NEW m \in DOMAIN table.heads[g]
          PROVE  hash_function(key'[table.heads[g][m]], BITS_DEFAULT) = g
      <4>1. key'[table.heads[g][m]] = key[table.heads[g][m]]
        BY <3>2
      <4> QED BY <4>1, <1>1
    <3> QED BY <3>1, <3>3, <1>1
  <2> QED BY <2>1, <2>2
<1>5. Placed(table)'
  BY <1>2, <1>3, <1>4 DEF Placed, Bucket
<1>6. table' \in Table
  BY <1>2, <1>3 DEF Table
<1>7. Shaped' /\ table' # None
  BY <1>5, <1>6, NoneAssumption DEF Shaped
<1>8. ASSUME NEW x
      PROVE  x \in Content' <=> x \in (Content \ ToSet(table.heads[h])) \cup ToSet(s)
  <2>1. x \in Content' <=> \E g \in Heads(BITS_DEFAULT) : x \in ToSet(table'.heads[g])
    BY <1>3, <1>7 DEF Content, Elements
  <2>2. x \in Content <=> \E g \in Heads(BITS_DEFAULT) : x \in ToSet(table.heads[g])
    BY <1>1 DEF Content, Elements
  <2>3. /\ table'.heads[h] = s
        /\ \A g \in Heads(BITS_DEFAULT) : g # h => table'.heads[g] = table.heads[g]
    BY <1>1, <1>2
  <2>4. \A g \in Heads(BITS_DEFAULT) :
          x \in ToSet(table.heads[g]) /\ x \in ToSet(table.heads[h]) => g = h
    BY InList
  <2>. QED  BY <2>1, <2>2, <2>3, <2>4
<1>. QED  BY <1>2, <1>7, <1>8

LEMMA AddIs ==
  ASSUME Shaped, NEW e \in Elem, NEW k \in Key, AddElem(e, k)
  PROVE  /\ table # None /\ e \notin Content /\ Bucket(table, k) \in Heads(BITS_DEFAULT)
         /\ key' \in [Elem -> Key] /\ key'[e] = k /\ \A x \in Elem \ {e} : key'[x] = key[x]
         /\ Changed(Bucket(table, k), <<e>> \o table.heads[Bucket(table, k)], table.n_elems + 1)
         /\ found' = found
<1>. DEFINE h == Bucket(table, k)
<1>1. /\ table # None /\ e \notin Content /\ key' = [key EXCEPT ![e] = k] /\ found' = found
      /\ table' = [table EXCEPT !.heads[h] = <<e>> \o @, !.n_elems = @ + 1]
  BY DEF AddElem, IsNeedExpand
<1>2. h \in Heads(BITS_DEFAULT)
  BY <1>1, HashInHeads
<1>. HIDE DEF h
<1>3. Changed(h, <<e>> \o table.heads[h], table.n_elems + 1)
  BY <1>1, Parts DEF Changed
<1>. QED  BY <1>1, <1>2, <1>3, Parts DEF h

LEMMA AddKeeps ==
  ASSUME IInv, NEW e \in Elem, NEW k \in Key, AddElem(e, k)
  PROVE  IInv'
<1>. DEFINE h == Bucket(table, k)
            s == <<e>> \o table.heads[h]
            n == table.n_elems + 1
<1>1. /\ table # None /\ e \notin Content /\ h \in Heads(BITS_DEFAULT)
      /\ key' \in [Elem -> Key] /\ key'[e] = k /\ \A x \in Elem \ {e} : key'[x] = key[x]
      /\ Changed(h, s, n)
  BY AddIs DEF IInv
<1>2. Shaped /\ table.heads[h] \in Seq(Elem) /\ IsInjective(table.heads[h]) /\ n \in Int
      /\ h = hash_function(k, BITS_DEFAULT)
  BY <1>1, Parts DEF IInv, Bucket
<1>. HIDE DEF h, n
<1>3. e \notin ToSet(table.heads[h]) /\ \A x \in ToSet(table.heads[h]) :
         x \in Elem /\ x \in Content /\ hash_function(key[x], BITS_DEFAULT) = h
  BY <1>1, <1>2, InList, Parts DEF Bucket
<1>4. s \in Seq(Elem) /\ ToSet(s) = ToSet(table.heads[h]) \cup {e} /\ IsInjective(s)
  BY <1>2, <1>3, PrependList
<1>. HIDE DEF s
<1>5. ASSUME NEW x \in Content PROVE key'[x] = key[x]
  BY <1>1, <1>2, InItsList
<1>6. ASSUME NEW x \in ToSet(s) PROVE hash_function(key'[x], BITS_DEFAULT) = h
  BY <1>1, <1>2, <1>3, <1>4, <1>5
<1>7. /\ Shaped' /\ table' # None /\ table'.n_elems = n
      /\ Content' = (Content \ ToSet(table.heads[h])) \cup ToSet(s)
  BY <1>1, <1>2, <1>4, <1>5, <1>6, OneList
<1>8. Content' = Content \cup {e}
  BY <1>3, <1>4, <1>7
<1>9. IsFiniteSet(Content) /\ Cardinality(Content) \in Nat /\ table.n_elems = Cardinality(Content)
  BY <1>1, <1>2, ContentFinite DEF IInv, Counted
<1>10. Cardinality(Content') = n
  BY <1>1, <1>8, <1>9, FS_AddElement DEF n
<1>. QED  BY <1>7, <1>10 DEF IInv, Counted

LEMMA RemoveIs ==
  ASSUME Shaped, NEW e \in Content, RemoveElem(e)
  PROVE  /\ table # None /\ key' = key /\ found' = found
         /\ \E h \in Heads(BITS_DEFAULT) : \E n \in DOMAIN table.heads[h] :
              /\ table.heads[h][n] = e
              /\ Changed(h, RemoveAt(table.heads[h], n), table.n_elems - 1)
<1>1. table # None /\ key' = key /\ found' = found
  BY DEF Content, RemoveElem
<1>2. PICK h \in Heads(BITS_DEFAULT) : \E n \in DOMAIN table.heads[h] :
        /\ table.heads[h][n] = e
        /\ table' = [table EXCEPT !.heads[h] = RemoveAt(@, n), !.n_elems = @ - 1]
  BY <1>1, Parts DEF RemoveElem, IsNeedNarrow
<1>3. PICK n \in DOMAIN table.heads[h] :
        /\ table.heads[h][n] = e
        /\ table' = [table EXCEPT !.heads[h] = RemoveAt(@, n), !.n_elems = @ - 1]
  BY <1>2
<1>4. Changed(h, RemoveAt(table.heads[h], n), table.n_elems - 1)
  BY <1>1, <1>3, Parts DEF Changed
<1>. QED  BY <1>1, <1>3, <1>4

LEMMA RemoveKeeps ==
  ASSUME IInv, NEW e \in Content, RemoveElem(e)
  PROVE  IInv'
<1>1. table # None /\ key' = key /\ Shaped
  BY RemoveIs DEF IInv
<1>2. PICK h \in Heads(BITS_DEFAULT) : \E n \in DOMAIN table.heads[h] :
        table.heads[h][n] = e /\ Changed(h, RemoveAt(table.heads[h], n), table.n_elems - 1)
  BY <1>1, RemoveIs
<1>3. PICK n \in DOMAIN table.heads[h] :
        table.heads[h][n] = e /\ Changed(h, RemoveAt(table.heads[h], n), table.n_elems - 1)
  BY <1>2
<1>. DEFINE s == RemoveAt(table.heads[h], n)
            c == table.n_elems - 1
<1>4. table.heads[h] \in Seq(Elem) /\ IsInjective(table.heads[h]) /\ c \in Int
      /\ key' \in [Elem -> Key]
  BY <1>1, Parts
<1>5. s \in Seq(Elem) /\ ToSet(s) = ToSet(table.heads[h]) \ {e} /\ IsInjective(s)
  BY <1>3, <1>4, RemoveList
<1>6. Changed(h, s, c)
  BY <1>3
<1>. HIDE DEF s, c
<1>7. \A x \in ToSet(table.heads[h]) : x \in Content /\ hash_function(key[x], BITS_DEFAULT) = h
  BY <1>1, InList, Parts DEF Bucket
<1>8. \A x \in ToSet(s) : hash_function(key'[x], BITS_DEFAULT) = h
  BY <1>1, <1>5, <1>7
<1>9. /\ Shaped' /\ table' # None /\ table'.n_elems = c
      /\ Content' = (Content \ ToSet(table.heads[h])) \cup ToSet(s)
  BY <1>1, <1>4, <1>5, <1>6, <1>8, OneList
<1>10. Content' = Content \ {e}
  <2>1. e \in ToSet(table.heads[h])
    BY <1>3 DEF ToSet
  <2>. QED  BY <1>5, <1>7, <1>9, <2>1
<1>11. IsFiniteSet(Content) /\ Cardinality(Content) \in Nat /\ table.n_elems = Cardinality(Content)
  BY <1>1, ContentFinite DEF IInv, Counted
<1>12. Cardinality(Content') = c
  BY <1>10, <1>11, FS_RemoveElement DEF c
<1>. QED  BY <1>9, <1>12 DEF IInv, Counted

LEMMA TransmitIs ==
  ASSUME Shaped, NEW e \in Content, NEW new \in Elem, TransmitElem(e, new)
  PROVE  /\ table # None /\ e \in Elem /\ new \notin Content /\ found' = found
         /\ key' \in [Elem -> Key] /\ key'[new] = key[e]
         /\ \A x \in Elem \ {new} : key'[x] = key[x]
         /\ \E h \in Heads(BITS_DEFAULT) : \E n \in DOMAIN table.heads[h] :
              /\ table.heads[h][n] = e
              /\ Changed(h, [table.heads[h] EXCEPT ![n] = new], table.n_elems)
<1>1. /\ table # None /\ new \notin Content /\ key' = [key EXCEPT ![new] = key[e]]
      /\ found' = found
  BY DEF Content, TransmitElem
<1>2. PICK h \in Heads(BITS_DEFAULT) : \E n \in DOMAIN table.heads[h] :
        /\ table.heads[h][n] = e
        /\ table' = [table EXCEPT !.heads[h] = [@ EXCEPT ![n] = new]]
  BY <1>1, Parts DEF TransmitElem
<1>3. PICK n \in DOMAIN table.heads[h] :
        /\ table.heads[h][n] = e
        /\ table' = [table EXCEPT !.heads[h] = [@ EXCEPT ![n] = new]]
  BY <1>2
<1>4. Changed(h, [table.heads[h] EXCEPT ![n] = new], table.n_elems)
  BY <1>1, <1>3, Parts DEF Changed
<1>5. e \in Elem
  BY <1>1, InItsList
<1>. QED  BY <1>1, <1>3, <1>4, <1>5, Parts

LEMMA TransmitKeeps ==
  ASSUME IInv, NEW e \in Content, NEW new \in Elem, TransmitElem(e, new)
  PROVE  IInv'
<1>1. /\ table # None /\ e \in Elem /\ new \notin Content
      /\ key' \in [Elem -> Key] /\ key'[new] = key[e]
      /\ \A x \in Elem \ {new} : key'[x] = key[x]
      /\ Shaped
  BY TransmitIs DEF IInv
<1>2. PICK h \in Heads(BITS_DEFAULT) : \E n \in DOMAIN table.heads[h] :
        /\ table.heads[h][n] = e
        /\ Changed(h, [table.heads[h] EXCEPT ![n] = new], table.n_elems)
  BY <1>1, TransmitIs
<1>3. PICK n \in DOMAIN table.heads[h] :
        /\ table.heads[h][n] = e
        /\ Changed(h, [table.heads[h] EXCEPT ![n] = new], table.n_elems)
  BY <1>2
<1>. DEFINE s == [table.heads[h] EXCEPT ![n] = new]
<1>4. table.heads[h] \in Seq(Elem) /\ IsInjective(table.heads[h]) /\ table.n_elems \in Int
  BY <1>1, Parts
<1>5. \A x \in ToSet(table.heads[h]) : x \in Content /\ hash_function(key[x], BITS_DEFAULT) = h
  BY <1>1, InList, Parts DEF Bucket
<1>6. s \in Seq(Elem) /\ ToSet(s) = (ToSet(table.heads[h]) \ {e}) \cup {new} /\ IsInjective(s)
  BY <1>1, <1>3, <1>4, <1>5, ReplaceInList
<1>7. Changed(h, s, table.n_elems) /\ e \in ToSet(table.heads[h])
  BY <1>3 DEF ToSet
<1>. HIDE DEF s
<1>8. ASSUME NEW x \in Content PROVE key'[x] = key[x]
  BY <1>1, InItsList
<1>9. \A x \in ToSet(s) : hash_function(key'[x], BITS_DEFAULT) = h
  BY <1>1, <1>5, <1>6, <1>7, <1>8
<1>10. /\ Shaped' /\ table' # None /\ table'.n_elems = table.n_elems
       /\ Content' = (Content \ ToSet(table.heads[h])) \cup ToSet(s)
  BY <1>1, <1>4, <1>6, <1>7, <1>8, <1>9, OneList
<1>11. Content' = (Content \ {e}) \cup {new}
  BY <1>5, <1>6, <1>7, <1>10
<1>12. IsFiniteSet(Content) /\ Cardinality(Content) \in Nat /\ table.n_elems = Cardinality(Content)
  BY <1>1, ContentFinite DEF IInv, Counted
<1>13. Cardinality(Content') = table.n_elems
  <2>1. IsFiniteSet(Content \ {e}) /\ Cardinality(Content \ {e}) = Cardinality(Content) - 1
    BY <1>12, FS_RemoveElement
  <2>2. new \notin Content \ {e}
    BY <1>1
  <2>3. Cardinality((Content \ {e}) \cup {new}) = Cardinality(Content \ {e}) + 1
    BY <2>1, <2>2, FS_AddElement
  <2>. QED  BY <1>11, <1>12, <2>1, <2>3
<1>. QED  BY <1>10, <1>13 DEF IInv, Counted

LEMMA NextKeeps == IInv /\ [Next]_vars => IInv'
<1> SUFFICES ASSUME IInv, [Next]_vars PROVE IInv'
  OBVIOUS
<1>1. CASE Create
  BY <1>1, CreateKeeps DEF IInv
<1>2. CASE Destroy
  BY <1>2 DEF IInv, Shaped, Counted, Destroy
<1>3. ASSUME NEW k \in Key, NEW e \in Elem, AddElem(e, k) PROVE IInv'
  BY <1>3, AddKeeps
<1>4. ASSUME NEW e \in Content, RemoveElem(e) PROVE IInv'
  BY <1>4, RemoveKeeps
<1>5. ASSUME NEW e \in Content, NEW new \in Elem, TransmitElem(e, new) PROVE IInv'
  BY <1>5, TransmitKeeps
<1>6. CASE (\E k \in Key : FindElem(k)) \/ UNCHANGED vars
  <2>1. table' = table /\ key' = key
    BY <1>6 DEF FindElem, vars
  <2>. QED  BY <2>1 DEF IInv, Shaped, Counted, Content, Placed, Bucket
<1> QED BY <1>1, <1>2, <1>3, <1>4, <1>5, <1>6 DEF Next

(* Every element of the table is in the list in which a search for its key
   looks, once, and n_elems is their number: Placed at all times. *)
THEOREM AlwaysPlaced == Spec => []IInv
BY InitHolds, NextKeeps, PTL DEF Spec

(* A search finds an element with the key exactly if there is one, whatever
   keys collide: FindsIt for all values of the constants. *)
THEOREM SearchRight == Spec => FindsIt
<1>1. ASSUME IInv, NEW k \in Key, FindElem(k)
      PROVE  IF \E e \in Content : key[e] = k
             THEN found' \in Content /\ key[found'] = k
             ELSE found' = None
  <2> DEFINE s == table.heads[Bucket(table, k)]
  <2>1. table # None /\ Bucket(table, k) \in Heads(BITS_DEFAULT) /\ Shaped
    BY <1>1, HashInHeads DEF FindElem, IInv
  <2>2. ToSet(s) \subseteq Content
    BY <2>1, InList
  <2>3. \A e \in Content : key[e] = k => e \in ToSet(s)
    BY <2>1, InItsList
  <2>4. CASE \E n \in DOMAIN s : key[s[n]] = k /\ found' = s[n]
    BY <2>2, <2>4 DEF ToSet
  <2>5. CASE (\A n \in DOMAIN s : key[s[n]] # k) /\ found' = None
    BY <2>3, <2>5 DEF ToSet
  <2> QED BY <1>1, <2>4, <2>5 DEF FindElem
<1>2. IInv => [\A k \in Key : FindElem(k) =>
                 IF \E e \in Content : key[e] = k
                 THEN found' \in Content /\ key[found'] = k
                 ELSE found' = None]_vars
  BY <1>1
<1> QED BY <1>2, AlwaysPlaced, PTL DEF FindsIt
-----------------------------------------------------------------------------
(* Elements that are put into new lists. *)

(* A table of any size with its elements in place and counted. *)
Sound(t) ==
  /\ t = [heads |-> t.heads, bits |-> t.bits, n_elems |-> t.n_elems]
  /\ t.bits \in BITS_MIN .. BitsMax
  /\ Placed(t) /\ t.n_elems = Cardinality(Elements(t))

LEMMA FillKeeps ==
  ASSUME key \in [Elem -> Key], NEW t, Sound(t), NEW bits \in BITS_MIN .. BitsMax
  PROVE  Sound(FillFrom(bits, t)) /\ Elements(FillFrom(bits, t)) = Elements(t)
<1>. DEFINE s      == InOrder(t)
            P(h)   == {e \in Elem : hash_function(key[e], bits) = h}
            hs     == [h \in Heads(bits) |-> Reverse(Only(s, P(h)))]
            u      == FillFrom(bits, t)
<1>1. u = [heads |-> hs, bits |-> bits, n_elems |-> t.n_elems]
  <2>1. t = [heads |-> t.heads, bits |-> t.bits, n_elems |-> t.n_elems]
    BY DEF Sound
  <2>2. u = [t EXCEPT !.bits = bits, !.heads = hs]
    BY DEF FillFrom
  <2>. HIDE DEF u, hs
  <2>. QED  BY <2>1, <2>2
<1>2. u.heads = hs /\ u.bits = bits /\ u.n_elems = t.n_elems
  BY <1>1
<1>3. s \in Seq(Elem) /\ ToSet(s) = Elements(t) /\ IsInjective(s)
  <2>1. t.bits \in Nat /\ t.heads \in [Heads(t.bits) -> Seq(Elem)] /\ Placed(t)
    BY BitsAssumption DEF Sound, Placed, BITS_MIN
  <2>. QED  BY <2>1, InOrderIs
<1>. HIDE DEF s, u
<1>4. ASSUME NEW h \in Heads(bits)
      PROVE  /\ hs[h] \in Seq(Elem) /\ IsInjective(hs[h])
             /\ ToSet(hs[h]) = Elements(t) \cap P(h)
  <2>1. /\ Only(s, P(h)) \in Seq(Elem) /\ IsInjective(Only(s, P(h)))
        /\ ToSet(Only(s, P(h))) = Elements(t) \cap P(h)
    BY <1>3, OnlyList
  <2>2. hs[h] = Reverse(Only(s, P(h)))
    OBVIOUS
  <2>. QED  BY <2>1, <2>2, ReverseList
<1>5. DOMAIN hs = Heads(bits) /\ hs \in [Heads(bits) -> Seq(Elem)]
  BY <1>4
<1>. HIDE DEF hs
<1>6. ASSUME NEW h \in Heads(bits), NEW n \in DOMAIN hs[h]
      PROVE  Bucket(u, key[hs[h][n]]) = h
  <2>1. hs[h][n] \in ToSet(hs[h])
    BY DEF ToSet
  <2>. QED  BY <1>2, <1>4, <2>1 DEF Bucket
<1>7. Placed(u)
  BY <1>2, <1>4, <1>5, <1>6 DEF Placed
<1>8. ASSUME NEW x PROVE x \in Elements(u) <=> x \in Elements(t)
  <2>1. x \in Elements(u) <=> \E h \in Heads(bits) : x \in Elements(t) \cap P(h)
    BY <1>2, <1>4, <1>5 DEF Elements
  <2>2. ASSUME x \in Elements(t)
        PROVE  hash_function(key[x], bits) \in Heads(bits) /\ x \in Elem
    <3>1. x \in Elem
      BY <1>3, <2>2, LenProperties DEF ToSet
    <3>. QED  BY <3>1, HashAssumption DEF hash_function
  <2>. QED  BY <2>1, <2>2
<1>9. Elements(u) = Elements(t)
  BY <1>8
<1>10. u = [heads |-> u.heads, bits |-> u.bits, n_elems |-> u.n_elems]
  BY <1>1, <1>2
<1>. QED  BY <1>2, <1>7, <1>9, <1>10 DEF Sound, u

LEMMA ReallocSound ==
  ASSUME key \in [Elem -> Key], NEW t, Sound(t), NEW bits \in BITS_MIN .. BitsMax,
         NEW ok \in Allocations
  PROVE  Sound(Realloc(t, bits, ok)) /\ Elements(Realloc(t, bits, ok)) = Elements(t)
<1>1. BITS_MIN \in BITS_MIN .. BitsMax
  BY BitsAssumption DEF BITS_MIN, BITS_DEFAULT
<1>2. Sound(FillFrom(bits, t)) /\ Elements(FillFrom(bits, t)) = Elements(t)
  BY FillKeeps
<1>. DEFINE f == FillFrom(BITS_MIN, t)
<1>3. Sound(f) /\ Elements(f) = Elements(t)
  BY <1>1, FillKeeps
<1>. HIDE DEF f
<1>4. Sound(FillFrom(bits, f)) /\ Elements(FillFrom(bits, f)) = Elements(t)
  BY <1>3, FillKeeps
<1>5. Sound(Slowpath(t, bits, ok)) /\ Elements(Slowpath(t, bits, ok)) = Elements(t)
  BY <1>3, <1>4 DEF Slowpath, f
<1>. QED  BY <1>2, <1>5 DEF Realloc

(* Whatever new size is asked for, and whichever allocations succeed, a
   table of any elements keeps them all, each once, each in the list of its
   key in the new size, and counted: kedr_coi_hash_table.c:230. *)
THEOREM ReallocIsSafe == Spec => []ReallocKeeps
<1>1. IInv => ReallocKeeps
  <2>. SUFFICES ASSUME IInv, table # None, NEW bits \in BITS_MIN .. BitsMax,
                       NEW ok \in Allocations
                PROVE  LET t == Realloc(table, bits, ok)
                       IN  /\ Placed(t) /\ t.n_elems = Cardinality(Elements(t))
                           /\ Elements(t) = Content
    BY DEF ReallocKeeps
  <2>1. key \in [Elem -> Key] /\ Elements(table) = Content
    BY DEF IInv, Shaped, Content
  <2>2. Sound(table)
    <3>1. /\ table = [heads |-> table.heads, bits |-> BITS_DEFAULT, n_elems |-> table.n_elems]
          /\ table.bits = BITS_DEFAULT
      BY Parts DEF IInv
    <3>2. BITS_DEFAULT \in BITS_MIN .. BitsMax
      BY BitsAssumption DEF BITS_DEFAULT, BITS_MIN
    <3>. QED  BY <2>1, <3>1, <3>2 DEF Sound, IInv, Shaped, Counted
  <2>. DEFINE t == Realloc(table, bits, ok)
  <2>3. Sound(t) /\ Elements(t) = Elements(table)
    BY <2>1, <2>2, ReallocSound
  <2>. HIDE DEF t
  <2>4. Placed(t) /\ t.n_elems = Cardinality(Elements(t)) /\ Elements(t) = Content
    BY <2>1, <2>3 DEF Sound
  <2>. QED  BY <2>4 DEF t
<1>. QED  BY <1>1, AlwaysPlaced, PTL
-----------------------------------------------------------------------------
(* The table is the lookup table: Listed is what that one has under each
   key. *)

Keyed(k) == {e \in Elem : key[e] = k}

LEMMA ListedIs ==
  ASSUME Shaped, NEW k \in Key
  PROVE  /\ Listed[k] \in Seq(Elem) /\ IsInjective(Listed[k])
         /\ ToSet(Listed[k]) = {e \in Content : key[e] = k}
<1>1. CASE table = None
  <2>1. Listed[k] = <<>> /\ Content = {}
    BY <1>1 DEF Listed, Content
  <2>2. <<>> \in Seq(Elem) /\ ToSet(<<>>) = {} /\ IsInjective(<<>>)
    BY EmptySeq DEF ToSet, IsInjective
  <2>. QED  BY <2>1, <2>2
<1>2. CASE table # None
  <2>. DEFINE s == table.heads[Bucket(table, k)]
  <2>1. Bucket(table, k) \in Heads(BITS_DEFAULT)
    BY <1>2, HashInHeads
  <2>2. s \in Seq(Elem) /\ IsInjective(s) /\ Listed[k] = Only(s, Keyed(k))
    BY <1>2, <2>1, Parts DEF Listed, Keyed
  <2>3. \A e : e \in ToSet(s) => e \in Elem /\ e \in Content
    BY <1>2, <2>1, InList
  <2>4. \A e : e \in Content /\ key[e] = k => e \in ToSet(s) /\ e \in Elem
    BY <1>2, InItsList
  <2>. HIDE DEF s
  <2>5. /\ Listed[k] \in Seq(Elem) /\ IsInjective(Listed[k])
        /\ ToSet(Listed[k]) = ToSet(s) \cap Keyed(k)
    BY <2>2, OnlyList
  <2>. QED  BY <2>3, <2>4, <2>5 DEF Keyed
<1>. QED  BY <1>1, <1>2

(* What the promise is stated with. *)
LEMMA SameHelpers ==
  /\ \A s : Promise!ToSet(s) = ToSet(s)
  /\ \A s, e : Promise!RemoveFirst(s, e) = RemoveFirst(s, e)
BY DEF Promise!ToSet, ToSet, Promise!RemoveFirst, RemoveFirst, Promise!RemoveAt, RemoveAt,
       Promise!SelectInSeq, SelectInSeq, Promise!Min, Min

LEMMA ContentIs ==
  ASSUME Shaped
  PROVE  Promise!Content = Content
<1>1. ASSUME NEW e
      PROVE  e \in Promise!Content <=> \E k \in Key : e \in Content /\ key[e] = k
  <2>1. e \in Promise!Content <=> \E k \in Key : e \in ToSet(Listed[k])
    BY SameHelpers DEF Promise!Content
  <2>. QED  BY <2>1, ListedIs
<1>2. ASSUME NEW e \in Content PROVE key[e] \in Key
  <2>1. table # None
    BY DEF Content
  <2>. QED  BY <2>1, InItsList, Parts
<1>. QED  BY <1>1, <1>2

(* When list h becomes s, what is under the keys with other hashes stays. *)
LEMMA ListedThen ==
  ASSUME Shaped, table # None, key' \in [Elem -> Key],
         NEW h \in Heads(BITS_DEFAULT), NEW s \in Seq(Elem), NEW n \in Int, Changed(h, s, n),
         \A e \in Content : key'[e] = key[e], NEW k \in Key
  PROVE  /\ Bucket(table, k) = h => Listed'[k] = Only(s, Keyed(k)')
         /\ Bucket(table, k) # h => Listed'[k] = Listed[k]
<1>. DEFINE g == Bucket(table, k)
<1>1. /\ table'.heads = [table.heads EXCEPT ![h] = s] /\ table'.bits = BITS_DEFAULT
      /\ table.bits = BITS_DEFAULT /\ DOMAIN table.heads = Heads(BITS_DEFAULT)
      /\ table.heads \in [Heads(BITS_DEFAULT) -> Seq(Elem)]
  BY Parts DEF Changed
<1>2. /\ g \in Heads(BITS_DEFAULT) /\ Bucket(table', k) = g
      /\ table' # None
  <2>1. table' \in Table
    BY <1>1 DEF Changed, Table
  <2>. QED  BY <1>1, <2>1, HashInHeads, NoneAssumption DEF Bucket
<1>. HIDE DEF g
<1>3. Listed'[k] = Only(table'.heads[g], Keyed(k)') /\ Listed[k] = Only(table.heads[g], Keyed(k))
  BY <1>2 DEF Listed, Keyed, g
<1>4. CASE g = h
  BY <1>1, <1>3, <1>4 DEF g
<1>5. CASE g # h
  <2>1. table'.heads[g] = table.heads[g] /\ table.heads[g] \in Seq(Elem)
    BY <1>1, <1>2, <1>5
  <2>2. \A e \in ToSet(table.heads[g]) : e \in Keyed(k)' <=> e \in Keyed(k)
    BY <1>2, InList DEF Keyed
  <2>3. Only(table.heads[g], Keyed(k)') = Only(table.heads[g], Keyed(k))
    BY <2>1, <2>2, OnlySame
  <2>. QED  BY <1>3, <1>5, <2>1, <2>3 DEF g
<1>. QED  BY <1>4, <1>5

LEMMA AddRefines ==
  ASSUME IInv, NEW e \in Elem, NEW k \in Key, AddElem(e, k)
  PROVE  Promise!Add(e, k)
<1>. DEFINE h == Bucket(table, k)
            s == table.heads[h]
<1>1. /\ table # None /\ e \notin Content /\ h \in Heads(BITS_DEFAULT)
      /\ key' \in [Elem -> Key] /\ key'[e] = k /\ \A x \in Elem \ {e} : key'[x] = key[x]
      /\ Changed(h, <<e>> \o s, table.n_elems + 1) /\ found' = found /\ Shaped
  BY AddIs DEF IInv
<1>2. /\ s \in Seq(Elem) /\ <<e>> \in Seq(Elem) /\ <<e>> \o s \in Seq(Elem)
      /\ table.n_elems + 1 \in Int
  BY <1>1, Parts, ConcatProperties
<1>. HIDE DEF h, s
<1>3. \A x \in Content : key'[x] = key[x]
  BY <1>1, InItsList
<1>4. ASSUME NEW j \in Key
      PROVE  Listed'[j] = IF j = k THEN <<e>> \o Listed[j] ELSE Listed[j]
  <2>1. Listed[j] \in Seq(Elem)
    BY <1>1, ListedIs
  <2>2. CASE Bucket(table, j) # h
    BY <1>1, <1>2, <1>3, <2>2, ListedThen DEF h
  <2>3. CASE Bucket(table, j) = h
    <3>1. Listed'[j] = Only(<<e>> \o s, Keyed(j)')
      BY <1>1, <1>2, <1>3, <2>3, ListedThen
    <3>2. Only(<<e>> \o s, Keyed(j)') = Only(<<e>>, Keyed(j)') \o Only(s, Keyed(j)')
      <4>. DEFINE P == Keyed(j)'
      <4>. HIDE DEF P
      <4>1. \A a, b \in Seq(Elem) : Only(a \o b, P) = Only(a, P) \o Only(b, P)
        BY OnlyConcat
      <4>2. Only(<<e>> \o s, P) = Only(<<e>>, P) \o Only(s, P)
        BY <1>2, <4>1
      <4>. QED  BY <4>2 DEF P
    <3>3. Only(<<e>>, Keyed(j)') = IF j = k THEN <<e>> ELSE <<>>
      <4>1. e \in Keyed(j)' <=> j = k
        BY <1>1 DEF Keyed
      <4>. QED  BY <4>1, OnlyOne
    <3>4. Only(s, Keyed(j)') = Listed[j]
      <4>1. Listed[j] = Only(s, Keyed(j))
        BY <1>1, <2>3 DEF Listed, Keyed, s
      <4>2. \A x \in ToSet(s) : x \in Keyed(j)' <=> x \in Keyed(j)
        BY <1>1, <1>3, InList DEF Keyed, s
      <4>. QED  BY <1>2, <4>1, <4>2, OnlySame
    <3>5. <<>> \o Listed[j] = Listed[j]
      BY <2>1, ConcatEmptySeq
    <3>. QED  BY <3>1, <3>2, <3>3, <3>4, <3>5
  <2>. QED  BY <2>2, <2>3
<1>5. Listed' = [Listed EXCEPT ![k] = <<e>> \o @]
  <2>1. Listed = [j \in Key |-> Listed[j]] /\ Listed' = [j \in Key |-> Listed'[j]]
    BY DEF Listed
  <2>. QED  BY <1>4, <2>1
<1>6. e \notin Promise!Content
  BY <1>1, ContentIs
<1>. QED  BY <1>1, <1>5, <1>6 DEF Promise!Add

LEMMA RemoveRefines ==
  ASSUME IInv, NEW e \in Content, RemoveElem(e)
  PROVE  e \in Elem /\ Promise!Delete(e)
<1>1. table # None /\ key' = key /\ found' = found /\ Shaped
  BY RemoveIs DEF IInv
<1>2. PICK h \in Heads(BITS_DEFAULT) : \E n \in DOMAIN table.heads[h] :
        table.heads[h][n] = e /\ Changed(h, RemoveAt(table.heads[h], n), table.n_elems - 1)
  BY <1>1, RemoveIs
<1>3. PICK n \in DOMAIN table.heads[h] :
        table.heads[h][n] = e /\ Changed(h, RemoveAt(table.heads[h], n), table.n_elems - 1)
  BY <1>2
<1>. DEFINE s == table.heads[h]
<1>4. /\ s \in Seq(Elem) /\ key' \in [Elem -> Key] /\ table.n_elems - 1 \in Int
      /\ e \in ToSet(s)
  BY <1>1, <1>3, Parts DEF ToSet
<1>5. e \in Elem /\ Bucket(table, key[e]) = h
  BY <1>1, <1>4, InList
<1>. HIDE DEF s
<1>6. PICK a, b : Apart(Elem, s, n, e, a, b)
  <2>1. n \in DOMAIN s
    BY DEF s
  <2>. QED  BY <1>4, <1>5, <2>1, ApartIs
<1>7. /\ a \in Seq(Elem) /\ b \in Seq(Elem)
      /\ s = (a \o <<e>>) \o b /\ RemoveAt(s, n) = a \o b
  BY <1>3, <1>6 DEF Apart, s
<1>8. a \o b \in Seq(Elem) /\ Changed(h, a \o b, table.n_elems - 1)
  BY <1>3, <1>7, ConcatProperties DEF s
<1>9. ASSUME NEW j \in Key PROVE Listed'[j] = RemoveFirst(Listed[j], e)
  <2>. DEFINE P == Keyed(j)
              A == Only(a, P)
              B == Only(b, P)
  <2>1. /\ Listed[j] \in Seq(Elem) /\ IsInjective(Listed[j])
        /\ e \in ToSet(Listed[j]) <=> e \in P
    BY <1>1, <1>5, ListedIs DEF Keyed
  <2>2. /\ A \in Seq(Elem) /\ B \in Seq(Elem) /\ Only(a \o b, P) = A \o B
        /\ e \in P => Only((a \o <<e>>) \o b, P) = (A \o <<e>>) \o B
        /\ e \notin P => Only((a \o <<e>>) \o b, P) = A \o B
    <3>1. OnlyParts(Elem, a, b, e, P)
      BY <1>5, <1>7, OnlyMiddle
    <3>. QED  BY <3>1 DEF OnlyParts
  <2>3. Keyed(j)' = P
    BY <1>1 DEF Keyed
  <2>. HIDE DEF A, B
  <2>4. CASE Bucket(table, j) # h
    <3>1. Listed'[j] = Listed[j]
      BY <1>1, <1>4, <1>8, <2>4, ListedThen
    <3>2. e \notin P
      BY <1>5, <2>4 DEF Keyed
    <3>. QED  BY <2>1, <3>1, <3>2, AbsentIs
  <2>5. CASE Bucket(table, j) = h
    <3>1. Listed'[j] = Only(a \o b, Keyed(j)')
      BY <1>1, <1>4, <1>8, <2>5, ListedThen
    <3>2. Listed'[j] = A \o B
      BY <2>2, <2>3, <3>1
    <3>3. Listed[j] = Only((a \o <<e>>) \o b, P)
      BY <1>1, <1>7, <2>5 DEF Listed, Keyed, s
    <3>. HIDE DEF P
    <3>4. CASE e \in P
      <4>1. Listed[j] = (A \o <<e>>) \o B
        BY <2>2, <3>3, <3>4
      <4>2. Middle(Listed[j], A, B, e, e)
        BY <1>5, <2>1, <2>2, <4>1, MiddleIs
      <4>. QED  BY <3>2, <4>2 DEF Middle
    <3>5. CASE e \notin P
      BY <2>1, <2>2, <3>2, <3>3, <3>5, AbsentIs
    <3>. QED  BY <3>4, <3>5
  <2>. QED  BY <2>4, <2>5
<1>10. Listed' = [j \in Key |-> Promise!RemoveFirst(Listed[j], e)]
  <2>1. Listed' = [j \in Key |-> Listed'[j]]
    BY DEF Listed
  <2>. QED  BY <1>9, <2>1, SameHelpers
<1>11. e \in Promise!Content
  BY <1>1, ContentIs
<1>. QED  BY <1>1, <1>5, <1>10, <1>11 DEF Promise!Delete

LEMMA TransmitRefines ==
  ASSUME IInv, NEW e \in Content, NEW new \in Elem, TransmitElem(e, new)
  PROVE  e \in Elem /\ Promise!Transmit(e, new)
<1>1. /\ table # None /\ e \in Elem /\ new \notin Content /\ found' = found
      /\ key' \in [Elem -> Key] /\ key'[new] = key[e]
      /\ \A x \in Elem \ {new} : key'[x] = key[x]
      /\ Shaped
  BY TransmitIs DEF IInv
<1>2. PICK h \in Heads(BITS_DEFAULT) : \E n \in DOMAIN table.heads[h] :
        /\ table.heads[h][n] = e
        /\ Changed(h, [table.heads[h] EXCEPT ![n] = new], table.n_elems)
  BY <1>1, TransmitIs
<1>3. PICK n \in DOMAIN table.heads[h] :
        /\ table.heads[h][n] = e
        /\ Changed(h, [table.heads[h] EXCEPT ![n] = new], table.n_elems)
  BY <1>2
<1>. DEFINE s == table.heads[h]
<1>4. /\ s \in Seq(Elem) /\ table.n_elems \in Int /\ e \in ToSet(s)
      /\ \A x \in Content : key'[x] = key[x]
  BY <1>1, <1>3, Parts, InItsList DEF ToSet
<1>5. Bucket(table, key[e]) = h
  BY <1>1, <1>4, InList
<1>. HIDE DEF s
<1>6. PICK a, b : Apart(Elem, s, n, new, a, b)
  <2>1. n \in DOMAIN s
    BY DEF s
  <2>. QED  BY <1>4, <2>1, ApartIs
<1>7. /\ a \in Seq(Elem) /\ b \in Seq(Elem)
      /\ s = (a \o <<e>>) \o b /\ [s EXCEPT ![n] = new] = (a \o <<new>>) \o b
  BY <1>3, <1>6 DEF Apart, s
<1>8. /\ (a \o <<new>>) \o b \in Seq(Elem)
      /\ Changed(h, (a \o <<new>>) \o b, table.n_elems)
  <2>1. <<new>> \in Seq(Elem) /\ a \o <<new>> \in Seq(Elem)
    BY <1>7, ConcatProperties
  <2>2. (a \o <<new>>) \o b \in Seq(Elem)
    BY <1>7, <2>1, ConcatProperties
  <2>. QED  BY <1>3, <1>7, <2>2 DEF s
<1>9. ASSUME NEW x, x \in ToSet(a) \/ x \in ToSet(b)
      PROVE  x \in Content
  <2>1. DOMAIN s = 1 .. Len(s) /\ Len(s) \in Nat /\ n \in 1 .. Len(s)
    BY <1>4, LenProperties DEF s
  <2>2. ToSet(a) = {s[m] : m \in 1 .. n - 1} /\ ToSet(b) = {s[m] : m \in n + 1 .. Len(s)}
    BY <1>6 DEF Apart
  <2>3. (1 .. n - 1) \subseteq DOMAIN s /\ (n + 1 .. Len(s)) \subseteq DOMAIN s
    BY <2>1
  <2>4. x \in ToSet(s)
    BY <1>9, <2>2, <2>3 DEF ToSet
  <2>. QED  BY <1>1, <2>4, InList DEF s
<1>10. ASSUME NEW j \in Key
      PROVE  Listed'[j] = Exchange(Listed[j], e, new)
  <2>. DEFINE P == Keyed(j)
              Q == Keyed(j)'
              A == Only(a, P)
              B == Only(b, P)
              r == Exchange(Listed[j], e, new)
  <2>1. /\ Listed[j] \in Seq(Elem) /\ IsInjective(Listed[j])
        /\ e \in ToSet(Listed[j]) <=> e \in P
    BY <1>1, ListedIs DEF Keyed
  <2>2. /\ A \in Seq(Elem) /\ B \in Seq(Elem) /\ Only(a \o b, P) = A \o B
        /\ e \in P => Only((a \o <<e>>) \o b, P) = (A \o <<e>>) \o B
        /\ e \notin P => Only((a \o <<e>>) \o b, P) = A \o B
    <3>1. OnlyParts(Elem, a, b, e, P)
      BY <1>1, <1>7, OnlyMiddle
    <3>. QED  BY <3>1 DEF OnlyParts
  <2>3. /\ new \in Q <=> e \in P
        /\ \A x \in Content : x \in Q <=> x \in P
    BY <1>1, <1>4 DEF Keyed
  <2>4. Only(a, Q) = A /\ Only(b, Q) = B
    <3>. HIDE DEF P, Q
    <3>1. a \in Seq(Elem) /\ b \in Seq(Elem)
      BY <1>7
    <3>2. (\A x \in ToSet(a) : x \in Q <=> x \in P) /\ \A x \in ToSet(b) : x \in Q <=> x \in P
      BY <1>9, <2>3
    <3>. QED  BY <3>1, <3>2, OnlySame
  <2>5. CASE Bucket(table, j) # h
    <3>1. Listed'[j] = Listed[j]
      BY <1>1, <1>4, <1>8, <2>5, ListedThen
    <3>2. e \notin P
      BY <1>5, <2>5 DEF Keyed
    <3>. QED  BY <2>1, <3>1, <3>2, AbsentIs
  <2>6. CASE Bucket(table, j) = h
    <3>1. Listed'[j] = Only((a \o <<new>>) \o b, Q)
      BY <1>1, <1>4, <1>8, <2>6, ListedThen
    <3>2. Listed[j] = Only((a \o <<e>>) \o b, P)
      BY <1>1, <1>7, <2>6 DEF Listed, Keyed, s
    <3>. HIDE DEF P, Q
    <3>3. /\ new \in Q => Only((a \o <<new>>) \o b, Q) = (Only(a, Q) \o <<new>>) \o Only(b, Q)
          /\ new \notin Q => Only((a \o <<new>>) \o b, Q) = Only(a, Q) \o Only(b, Q)
      <4>1. OnlyParts(Elem, a, b, new, Q)
        BY <1>7, OnlyMiddle
      <4>. QED  BY <4>1 DEF OnlyParts
    <3>. HIDE DEF A, B
    <3>4. CASE e \in P
      <4>1. Listed[j] = (A \o <<e>>) \o B /\ Listed'[j] = (A \o <<new>>) \o B
        BY <2>2, <2>3, <2>4, <3>1, <3>2, <3>3, <3>4
      <4>2. r = (A \o <<new>>) \o B
        <5>1. Middle(Listed[j], A, B, e, new)
          BY <1>1, <2>1, <2>2, <4>1, MiddleIs
        <5>. QED  BY <5>1 DEF Middle
      <4>. QED  BY <4>1, <4>2
    <3>5. CASE e \notin P
      <4>1. Listed[j] = A \o B /\ Listed'[j] = A \o B
        BY <2>2, <2>3, <2>4, <3>1, <3>2, <3>3, <3>5
      <4>2. r = Listed[j]
        BY <2>1, <3>5, AbsentIs
      <4>. QED  BY <4>1, <4>2
    <3>. QED  BY <3>4, <3>5
  <2>. QED  BY <2>5, <2>6
<1>11. Listed' = [j \in Key |-> [k \in DOMAIN Listed[j] |->
                                   IF Listed[j][k] = e THEN new ELSE Listed[j][k]]]
  <2>1. Listed' = [j \in Key |-> Listed'[j]]
    BY DEF Listed
  <2>. QED  BY <1>10, <2>1 DEF Exchange
<1>12. e \in Promise!Content /\ new \notin Promise!Content
  BY <1>1, ContentIs
<1>. QED  BY <1>1, <1>11, <1>12 DEF Promise!Transmit

LEMMA FindRefines ==
  ASSUME IInv, NEW k \in Key, FindElem(k)
  PROVE  Promise!Find(k)
<1>. DEFINE s == table.heads[Bucket(table, k)]
            P == Keyed(k)
<1>1. table # None /\ Bucket(table, k) \in Heads(BITS_DEFAULT) /\ Shaped /\ Listed' = Listed
  BY HashInHeads DEF FindElem, IInv, Listed, Bucket
<1>2. s \in Seq(Elem) /\ Listed[k] = Only(s, P)
  BY <1>1, Parts DEF Listed, Keyed
<1>3. \/ \E n \in DOMAIN s : /\ key[s[n]] = k /\ found' = s[n]
                             /\ \A m \in 1 .. n - 1 : key[s[m]] # k
      \/ (\A n \in DOMAIN s : key[s[n]] # k) /\ found' = None
  BY DEF FindElem
<1>. HIDE DEF s
<1>4. DOMAIN s = 1 .. Len(s) /\ Len(s) \in Nat /\ \A n \in 1 .. Len(s) : s[n] \in Elem
  BY <1>2, LenProperties
<1>5. ASSUME NEW n \in DOMAIN s, key[s[n]] = k, found' = s[n],
             \A m \in 1 .. n - 1 : key[s[m]] # k
      PROVE  Listed[k] # <<>> /\ found' = Head(Listed[k])
  <2>1. s[n] \in Elem /\ s[n] \in P
    BY <1>4, <1>5 DEF Keyed
  <2>2. PICK a, b : Apart(Elem, s, n, s[n], a, b)
    BY <1>2, <2>1, ApartIs
  <2>3. /\ a \in Seq(Elem) /\ b \in Seq(Elem) /\ s = (a \o <<s[n]>>) \o b
        /\ ToSet(a) = {s[m] : m \in 1 .. n - 1}
    BY <2>2 DEF Apart
  <2>4. OnlyParts(Elem, a, b, s[n], P)
    BY <2>1, <2>3, OnlyMiddle
  <2>5. /\ Only(b, P) \in Seq(Elem)
        /\ Listed[k] = (Only(a, P) \o <<s[n]>>) \o Only(b, P)
    BY <1>2, <2>1, <2>3, <2>4 DEF OnlyParts
  <2>6. Only(a, P) = <<>>
    <3>1. Only(a, P) \in Seq(Elem) /\ ToSet(Only(a, P)) = ToSet(a) \cap P
      BY <2>3, OnlyList
    <3>2. ToSet(a) \cap P = {}
      BY <1>5, <2>3 DEF Keyed
    <3>. QED  BY <3>1, <3>2, EmptyIfNone
  <2>7. <<>> \o <<s[n]>> = <<s[n]>>
    BY <2>1, ConcatEmptySeq
  <2>8. Listed[k] = <<s[n]>> \o Only(b, P)
    BY <2>5, <2>6, <2>7
  <2>9. Listed[k] # <<>> /\ Head(Listed[k]) = s[n]
    <3>. DEFINE r == <<s[n]>> \o Only(b, P)
    <3>1. <<s[n]>> \in Seq(Elem) /\ Len(<<s[n]>>) = 1 /\ <<s[n]>>[1] = s[n]
      BY <2>1
    <3>2. /\ r \in Seq(Elem) /\ Len(r) = Len(<<s[n]>>) + Len(Only(b, P))
          /\ \A j \in 1 .. Len(<<s[n]>>) + Len(Only(b, P)) :
               r[j] = IF j <= Len(<<s[n]>>) THEN <<s[n]>>[j] ELSE Only(b, P)[j - Len(<<s[n]>>)]
          /\ Len(Only(b, P)) \in Nat
      BY <2>5, <3>1, ConcatProperties, LenProperties
    <3>. HIDE DEF r
    <3>3. r[1] = s[n] /\ Len(r) # 0
      BY <3>1, <3>2
    <3>4. r # <<>> /\ Head(r) = r[1]
      BY <3>2, <3>3, EmptySeq, HeadTailProperties
    <3>. QED  BY <2>8, <3>3, <3>4 DEF r
  <2>. QED  BY <1>5, <2>9
<1>6. ASSUME \A n \in DOMAIN s : key[s[n]] # k
      PROVE  Listed[k] = <<>>
  <2>1. Only(s, P) \in Seq(Elem) /\ ToSet(Only(s, P)) = ToSet(s) \cap P
    BY <1>2, OnlyList
  <2>2. ToSet(s) \cap P = {}
    BY <1>6 DEF Keyed, ToSet
  <2>. QED  BY <1>2, <2>1, <2>2, EmptyIfNone
<1>7. found' = IF Listed[k] = <<>> THEN None ELSE Head(Listed[k])
  BY <1>3, <1>5, <1>6
<1>. QED  BY <1>1, <1>7 DEF Promise!Find

(* A new table and one that is gone both have nothing under any key. *)
LEMMA ClearRefines ==
  ASSUME Create \/ Destroy
  PROVE  Promise!Clear
<1>1. CASE Create
  <2>1. ASSUME NEW k \in Key PROVE Listed'[k] = <<>>
    <3>1. /\ table'.bits = BITS_DEFAULT
          /\ table'.heads = [h \in Heads(BITS_DEFAULT) |-> <<>>]
      BY <1>1 DEF Create, Empty
    <3>2. Bucket(table', k) \in Heads(BITS_DEFAULT)
      BY <3>1, HashAssumption, BitsAssumption DEF Bucket, hash_function, BITS_DEFAULT, BITS_MIN
    <3>3. Only(<<>>, Keyed(k)') = <<>> /\ table'.heads[Bucket(table', k)] = <<>>
      BY <3>1, <3>2, OnlyNone
    <3>. QED  BY <3>3 DEF Listed, Keyed
  <2>2. Listed' = [k \in Key |-> Listed'[k]] /\ found' = found
    BY <1>1 DEF Listed, Create
  <2>. QED  BY <2>1, <2>2 DEF Promise!Clear
<1>2. CASE Destroy
  <2>1. Listed' = [k \in Key |-> <<>>] /\ found' = found
    BY <1>2 DEF Destroy, Listed
  <2>. QED  BY <2>1 DEF Promise!Clear
<1>. QED  BY <1>1, <1>2

LEMMA StepRefines == IInv /\ [Next]_vars => [Promise!Next]_Promise!vars
<1>. SUFFICES ASSUME IInv, [Next]_vars
              PROVE  Promise!Next \/ UNCHANGED Promise!vars
  OBVIOUS
<1>1. CASE Create \/ Destroy
  BY <1>1, ClearRefines DEF Promise!Next
<1>2. ASSUME NEW k \in Key, FindElem(k) PROVE Promise!Next
  BY <1>2, FindRefines DEF Promise!Next
<1>3. ASSUME NEW k \in Key, NEW e \in Elem, AddElem(e, k) PROVE Promise!Next
  BY <1>3, AddRefines DEF Promise!Next
<1>4. ASSUME NEW e \in Content, RemoveElem(e) PROVE Promise!Next
  BY <1>4, RemoveRefines DEF Promise!Next
<1>5. ASSUME NEW e \in Content, NEW new \in Elem, TransmitElem(e, new) PROVE Promise!Next
  BY <1>5, TransmitRefines DEF Promise!Next
<1>6. CASE UNCHANGED vars
  BY <1>6 DEF vars, Promise!vars, Listed, Bucket
<1>. QED  BY <1>1, <1>2, <1>3, <1>4, <1>5, <1>6 DEF Next

(* For any keys, elements and hash, collisions included, the table of lists
   is the lookup table which the instrumentors are modelled with: a search
   gives the element that was added last with the key, and an element is
   removed or transmitted in its place, kedr_coi_hash_table.c:91-135. *)
THEOREM Refinement == Spec => Implements
<1>1. Init => Promise!Init
  BY DEF Init, Promise!Init, Listed
<1>. QED  BY <1>1, StepRefines, AlwaysPlaced, PTL DEF Spec, Implements, Promise!Spec
=============================================================================
