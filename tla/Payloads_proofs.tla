-------------------------- MODULE Payloads_proofs --------------------------
(***************************************************************************)
(* What is proved about the payloads of an interceptor, for any payloads,  *)
(* modules, operations and arrays of handlers.                             *)
(*                                                                         *)
(* The handlers are added one by one, by recursion over their list.  What  *)
(* comes of it is stated without recursion (Gathered) and proved by        *)
(* induction over the list; the invariant says that the payloads are as    *)
(* they were created, or hold what was gathered from those that were fixed.*)
(***************************************************************************)
EXTENDS Payloads, ListLemmas, FiniteSetTheorems, TLAPS

(* Elements of a list that are kept. *)

Kept(s, T) == [n \in DOMAIN s |-> IF s[n] \in T THEN <<s[n]>> ELSE <<>>]

LEMMA KeptList ==
  ASSUME NEW S, NEW s \in Seq(S), NEW T
  PROVE  Kept(s, T) \in Seq(Seq(S)) /\ Keep(s, T) = FlattenSeq(Kept(s, T))
<1>1. Len(s) \in Nat /\ DOMAIN s = 1 .. Len(s) /\ \A n \in 1 .. Len(s) : s[n] \in S
  BY LenProperties, ElementOfSeq
<1>2. ASSUME NEW n \in 1 .. Len(s)
      PROVE  (IF s[n] \in T THEN <<s[n]>> ELSE <<>>) \in Seq(S)
  BY <1>1, EmptySeq
<1>. QED  BY <1>1, <1>2 DEF Kept, Keep

(* Of a list the elements in the set are kept, and no others. *)
LEMMA KeepElements ==
  ASSUME NEW S, NEW s \in Seq(S), NEW T
  PROVE  Keep(s, T) \in Seq(S) /\ ToSet(Keep(s, T)) = ToSet(s) \cap T
<1>. DEFINE k == Kept(s, T)
<1>1. k \in Seq(Seq(S)) /\ Keep(s, T) = FlattenSeq(k)
  BY KeptList
<1>2. DOMAIN k = DOMAIN s
  BY DEF Kept
<1>3. ASSUME NEW n \in DOMAIN s PROVE ToSet(k[n]) = {s[n]} \cap T
  <2>1. CASE s[n] \in T
    <3>1. k[n] = <<s[n]>>
      BY <2>1 DEF Kept
    <3>2. ToSet(<<s[n]>>) = {s[n]}
      BY DEF ToSet
    <3>. QED  BY <2>1, <3>1, <3>2
  <2>2. CASE s[n] \notin T
    <3>1. k[n] = <<>>
      BY <2>2 DEF Kept
    <3>2. ToSet(<<>>) = {}
      BY DEF ToSet
    <3>. QED  BY <2>2, <3>1, <3>2
  <2>. QED  BY <2>1, <2>2
<1>. HIDE DEF k
<1>4. FlattenSeq(k) \in Seq(S) /\ ToSet(FlattenSeq(k)) = UNION {ToSet(k[n]) : n \in DOMAIN k}
  BY <1>1, FlattenList
<1>5. UNION {ToSet(k[n]) : n \in DOMAIN k} = UNION {{s[n]} \cap T : n \in DOMAIN s}
  BY <1>2, <1>3
<1>6. UNION {{s[n]} \cap T : n \in DOMAIN s} = ToSet(s) \cap T
  BY DEF ToSet
<1>. QED  BY <1>1, <1>4, <1>5, <1>6

(* An element at the end of the list is the last one kept, or not kept. *)
LEMMA KeepAppend ==
  ASSUME NEW S, NEW s \in Seq(S), NEW e \in S, NEW T
  PROVE  Keep(Append(s, e), T) =
           IF e \in T THEN Append(Keep(s, T), e) ELSE Keep(s, T)
<1>. DEFINE u == Append(s, e)
            v == IF e \in T THEN <<e>> ELSE <<>>
            w == Append(Kept(s, T), v)
<1>1. /\ u \in Seq(S) /\ Len(u) = Len(s) + 1 /\ Len(s) \in Nat
      /\ DOMAIN u = 1 .. Len(s) + 1 /\ DOMAIN s = 1 .. Len(s)
      /\ \A n \in 1 .. Len(s) : u[n] = s[n]
      /\ u[Len(s) + 1] = e
  BY AppendProperties, LenProperties
<1>2. v \in Seq(S) /\ Kept(s, T) \in Seq(Seq(S)) /\ Kept(u, T) \in Seq(Seq(S))
      /\ Keep(s, T) = FlattenSeq(Kept(s, T)) /\ Keep(u, T) = FlattenSeq(Kept(u, T))
  <2>1. v \in Seq(S)
    BY EmptySeq
  <2>. HIDE DEF u, v
  <2>2. u \in Seq(S)
    BY <1>1
  <2>. QED  BY <2>1, <2>2, KeptList
<1>. HIDE DEF u, v
<1>3. Kept(u, T) = w
  <2>1. DOMAIN Kept(s, T) = DOMAIN s /\ Len(Kept(s, T)) = Len(s)
    <3>1. DOMAIN Kept(s, T) = DOMAIN s
      BY DEF Kept
    <3>. QED  BY <1>1, <1>2, <3>1, LenProperties
  <2>2. /\ w \in Seq(Seq(S)) /\ Len(w) = Len(s) + 1
        /\ \A n \in 1 .. Len(s) : w[n] = Kept(s, T)[n]
        /\ w[Len(s) + 1] = v
    BY <1>2, <2>1, AppendProperties
  <2>. HIDE DEF w
  <2>3. Len(Kept(u, T)) = Len(s) + 1
    <3>1. DOMAIN Kept(u, T) = DOMAIN u
      BY DEF Kept
    <3>. QED  BY <1>1, <1>2, <3>1, LenProperties
  <2>4. ASSUME NEW n \in 1 .. Len(s) + 1 PROVE Kept(u, T)[n] = w[n]
    <3>1. Kept(u, T)[n] = IF u[n] \in T THEN <<u[n]>> ELSE <<>>
      BY <1>1 DEF Kept
    <3>2. CASE n = Len(s) + 1
      BY <1>1, <2>2, <3>1, <3>2 DEF v
    <3>3. CASE n # Len(s) + 1
      <4>1. n \in 1 .. Len(s)
        BY <1>1, <3>3
      <4>2. Kept(s, T)[n] = IF s[n] \in T THEN <<s[n]>> ELSE <<>>
        BY <1>1, <4>1 DEF Kept
      <4>. QED  BY <1>1, <2>2, <3>1, <4>1, <4>2
    <3>. QED  BY <3>2, <3>3
  <2>. QED  BY <1>2, <2>2, <2>3, <2>4, SeqEqual
<1>4. FlattenSeq(Kept(s, T)) \in Seq(S)
  BY <1>2, KeepElements
<1>5. FlattenSeq(w) = FlattenSeq(Kept(s, T)) \o v
  BY <1>2, <1>4, FlattenAppend
<1>6. Keep(u, T) = Keep(s, T) \o v /\ Keep(s, T) \in Seq(S)
  BY <1>2, <1>3, <1>4, <1>5
<1>7. CASE e \in T
  <2>1. Keep(s, T) \o <<e>> = Append(Keep(s, T), e)
    BY <1>6
  <2>. QED  BY <1>6, <1>7, <2>1 DEF u, v
<1>8. CASE e \notin T
  <2>1. Keep(s, T) \o <<>> = Keep(s, T)
    BY <1>6, ConcatEmptySeq
  <2>. QED  BY <1>6, <1>8, <2>1 DEF u, v
<1>. QED  BY <1>7, <1>8

(* What is kept depends only on which elements of the list are in the set. *)
LEMMA KeepSame ==
  ASSUME NEW S, NEW s \in Seq(S), NEW T, NEW U, ToSet(s) \cap T = ToSet(s) \cap U
  PROVE  Keep(s, T) = Keep(s, U)
<1>1. \A n \in DOMAIN s : s[n] \in T <=> s[n] \in U
  BY DEF ToSet
<1>2. Kept(s, T) = Kept(s, U)
  BY <1>1 DEF Kept
<1>. QED  BY <1>2, KeptList

LEMMA NoElements ==
  ASSUME NEW S, NEW s \in Seq(S), ToSet(s) = {}
  PROVE  s = <<>>
<1>1. DOMAIN s = {}
  BY DEF ToSet
<1>2. Len(s) = 0
  BY <1>1, LenProperties
<1>. QED  BY <1>2, EmptySeq

(* A list with no element in the set leaves nothing. *)
LEMMA KeepNone ==
  ASSUME NEW S, NEW s \in Seq(S), NEW T, ToSet(s) \cap T = {}
  PROVE  Keep(s, T) = <<>>
BY KeepElements, NoElements

LEMMA NothingKept ==
  ASSUME NEW T
  PROVE  Keep(<<>>, T) = <<>>
<1>1. <<>> \in Seq({}) /\ ToSet(<<>>) = {}
  BY EmptySeq DEF ToSet
<1>. QED  BY <1>1, KeepNone
-----------------------------------------------------------------------------
(* Lists of handlers and what operations are intercepted for. *)

Entry == [payload : Payload, when : When, op : Operation, external : BOOLEAN]
Arrays == [When -> Seq(Entry)]
Info == [is_intercepted : BOOLEAN, handlers : Arrays,
         default_is_intercepted : BOOLEAN, default_handlers : Arrays]

LEMMA AddedType ==
  ASSUME NEW a \in Arrays, NEW h \in Entry
  PROVE  /\ Added(a, h) \in Arrays
         /\ \A w \in When : Added(a, h)[w] = IF w = h.when THEN Append(a[w], h) ELSE a[w]
<1>1. h.when \in When
  BY DEF Entry
<1>2. \A w \in When : a[w] \in Seq(Entry) /\ Append(a[w], h) \in Seq(Entry)
  BY AppendProperties DEF Arrays
<1>. QED  BY <1>1, <1>2 DEF Arrays, Added

(* One handler changes what is known of its operation, and nothing else. *)
LEMMA AddHandlerIs ==
  ASSUME NEW inf \in [Operation -> Info], NEW h \in Entry
  PROVE  /\ AddHandler(inf, h) \in [Operation -> Info]
         /\ \A op \in Operation : op # h.op => AddHandler(inf, h)[op] = inf[op]
         /\ AddHandler(inf, h)[h.op] =
              [is_intercepted         |-> TRUE,
               handlers               |-> Added(inf[h.op].handlers, h),
               default_is_intercepted |->
                 inf[h.op].default_is_intercepted \/ h.external,
               default_handlers       |->
                 IF h.external THEN Added(inf[h.op].default_handlers, h)
                               ELSE inf[h.op].default_handlers]
<1>1. h.op \in Operation /\ h.external \in BOOLEAN
  BY DEF Entry
<1>2. inf[h.op] \in Info
  BY <1>1
<1>3. /\ Added(inf[h.op].handlers, h) \in Arrays
      /\ Added(inf[h.op].default_handlers, h) \in Arrays
      /\ inf[h.op].default_handlers \in Arrays
      /\ inf[h.op].default_is_intercepted \in BOOLEAN
  BY <1>2, AddedType DEF Info
<1>. DEFINE i == [is_intercepted         |-> TRUE,
                  handlers               |-> Added(inf[h.op].handlers, h),
                  default_is_intercepted |->
                    inf[h.op].default_is_intercepted \/ h.external,
                  default_handlers       |->
                    IF h.external THEN Added(inf[h.op].default_handlers, h)
                                  ELSE inf[h.op].default_handlers]
<1>4. i \in Info
  BY <1>1, <1>3 DEF Info
<1>5. AddHandler(inf, h) = [inf EXCEPT ![h.op] = i]
  BY DEF AddHandler
<1>. HIDE DEF i
<1>6. /\ [inf EXCEPT ![h.op] = i] \in [Operation -> Info]
      /\ \A op \in Operation : op # h.op => [inf EXCEPT ![h.op] = i][op] = inf[op]
      /\ [inf EXCEPT ![h.op] = i][h.op] = i
  BY <1>1, <1>4
<1>. QED  BY <1>5, <1>6 DEF i

(* The recursion of UseHandlers: g[n] is what the first n handlers give. *)
Uses(inf, hs, g, n) ==
  g = [k \in 0 .. n |-> IF k = 0 THEN inf ELSE AddHandler(g[k - 1], hs[k])]

(* The recursion has a value for every number of handlers, *)
LEMMA UsesExists ==
  ASSUME NEW inf, NEW hs, NEW n \in Nat
  PROVE  \E g : Uses(inf, hs, g, n)
<1>. DEFINE N == {m \in Nat : \E g : Uses(inf, hs, g, m)}
<1>1. 0 \in N
  <2>. DEFINE g == [k \in 0 .. 0 |-> inf]
  <2>1. ASSUME NEW k \in 0 .. 0
        PROVE  g[k] = IF k = 0 THEN inf ELSE AddHandler(g[k - 1], hs[k])
    BY k = 0
  <2>2. g = [k \in 0 .. 0 |-> g[k]]
    OBVIOUS
  <2>. HIDE DEF g
  <2>3. Uses(inf, hs, g, 0)
    BY <2>1, <2>2 DEF Uses
  <2>. QED  BY <2>3
<1>2. ASSUME NEW m \in Nat, m \in N PROVE m + 1 \in N
  <2>1. PICK g : Uses(inf, hs, g, m)
    BY <1>2
  <2>. DEFINE v == AddHandler(g[m], hs[m + 1])
              h == [k \in 0 .. m + 1 |-> IF k = m + 1 THEN v ELSE g[k]]
  <2>2. ASSUME NEW k \in 0 .. m + 1
        PROVE  h[k] = IF k = 0 THEN inf ELSE AddHandler(h[k - 1], hs[k])
    <3>1. CASE k = m + 1
      <4>1. k # 0 /\ k - 1 \in 0 .. m + 1 /\ k - 1 # m + 1 /\ k - 1 = m
        BY <3>1
      <4>2. h[k - 1] = g[m] /\ h[k] = v
        BY <3>1, <4>1
      <4>. HIDE DEF h
      <4>. QED  BY <3>1, <4>1, <4>2
    <3>2. CASE k # m + 1
      <4>1. k \in 0 .. m /\ (k # 0 => k - 1 \in 0 .. m + 1 /\ k - 1 # m + 1)
        BY <3>2
      <4>2. g[k] = IF k = 0 THEN inf ELSE AddHandler(g[k - 1], hs[k])
        BY <2>1, <4>1 DEF Uses
      <4>3. h[k] = g[k] /\ (k # 0 => h[k - 1] = g[k - 1])
        BY <3>2, <4>1
      <4>. HIDE DEF h
      <4>. QED  BY <4>2, <4>3
    <3>. QED  BY <3>1, <3>2
  <2>3. h = [k \in 0 .. m + 1 |-> h[k]]
    OBVIOUS
  <2>. HIDE DEF h
  <2>4. Uses(inf, hs, h, m + 1)
    BY <2>2, <2>3 DEF Uses
  <2>. QED  BY <2>4
<1>. HIDE DEF N
<1>3. n \in N
  BY <1>1, <1>2, NumbersByInduction
<1>. QED  BY <1>3 DEF N

(* and handlers that come later do not change it. *)
LEMMA UsesAgree ==
  ASSUME NEW inf, NEW hs, NEW ks, NEW n \in Nat, NEW g, NEW h,
         Uses(inf, hs, g, n), Uses(inf, ks, h, n + 1), AgreeTo(n, hs, ks)
  PROVE  g[n] = h[n]
<1>. DEFINE N == {k \in Nat : k \in 0 .. n => g[k] = h[k]}
<1>1. 0 \in N
  <2>1. 0 \in 0 .. n /\ 0 \in 0 .. n + 1
    OBVIOUS
  <2>. QED  BY <2>1 DEF Uses
<1>2. ASSUME NEW k \in Nat, k \in N PROVE k + 1 \in N
  <2>1. ASSUME k + 1 \in 0 .. n PROVE g[k + 1] = h[k + 1]
    <3>1. /\ k + 1 \in 0 .. n + 1 /\ k + 1 \in 1 .. n /\ k \in 0 .. n
          /\ (k + 1) - 1 = k /\ k + 1 # 0
      BY <2>1
    <3>2. /\ g[k + 1] = IF k + 1 = 0 THEN inf ELSE AddHandler(g[(k + 1) - 1], hs[k + 1])
          /\ h[k + 1] = IF k + 1 = 0 THEN inf ELSE AddHandler(h[(k + 1) - 1], ks[k + 1])
      BY <2>1, <3>1 DEF Uses
    <3>3. g[k] = h[k] /\ hs[k + 1] = ks[k + 1]
      BY <1>2, <3>1 DEF AgreeTo
    <3>. QED  BY <3>1, <3>2, <3>3
  <2>. QED  BY <2>1
<1>. HIDE DEF N
<1>3. n \in N
  BY <1>1, <1>2, NumbersByInduction
<1>. QED  BY <1>3 DEF N

LEMMA UseHandlersIs ==
  ASSUME NEW S, NEW inf, NEW hs \in Seq(S)
  PROVE  \E g : Uses(inf, hs, g, Len(hs)) /\ UseHandlers(inf, hs) = g[Len(hs)]
<1>1. Len(hs) \in Nat
  BY LenProperties
<1>. DEFINE f == CHOOSE g : g = [n \in 0 .. Len(hs) |->
                     IF n = 0 THEN inf ELSE AddHandler(g[n - 1], hs[n])]
<1>2. UseHandlers(inf, hs) = f[Len(hs)]
  BY DEF UseHandlers
<1>3. \E g : Uses(inf, hs, g, Len(hs))
  BY <1>1, UsesExists
<1>4. Uses(inf, hs, f, Len(hs))
  BY <1>3 DEF Uses
<1>. HIDE DEF f
<1>. QED  BY <1>2, <1>4

LEMMA UseNone ==
  ASSUME NEW inf
  PROVE  UseHandlers(inf, <<>>) = inf
<1>1. <<>> \in Seq({}) /\ Len(<<>>) = 0 /\ 0 \in 0 .. 0
  BY EmptySeq
<1>2. PICK g : Uses(inf, <<>>, g, Len(<<>>)) /\ UseHandlers(inf, <<>>) = g[Len(<<>>)]
  BY <1>1, UseHandlersIs
<1>. QED  BY <1>1, <1>2 DEF Uses

(* Of a list one handler longer, that handler is added last. *)
LEMMA UseOneMore ==
  ASSUME NEW S, NEW inf, NEW hs \in Seq(S), NEW e \in S
  PROVE  UseHandlers(inf, Append(hs, e)) = AddHandler(UseHandlers(inf, hs), e)
<1>. DEFINE ks == Append(hs, e)
            n  == Len(hs)
<1>1. /\ n \in Nat /\ ks \in Seq(S) /\ Len(ks) = n + 1
      /\ \A k \in 1 .. n : ks[k] = hs[k]
      /\ ks[n + 1] = e
  BY LenProperties, AppendProperties
<1>. HIDE DEF ks
<1>2. PICK g : Uses(inf, hs, g, n) /\ UseHandlers(inf, hs) = g[n]
  BY UseHandlersIs
<1>3. PICK h : Uses(inf, ks, h, n + 1) /\ UseHandlers(inf, ks) = h[n + 1]
  BY <1>1, UseHandlersIs
<1>. HIDE DEF n
<1>4. g[n] = h[n]
  <2>1. AgreeTo(n, hs, ks)
    BY <1>1 DEF AgreeTo
  <2>. QED  BY <1>1, <1>2, <1>3, <2>1, UsesAgree
<1>5. h[n + 1] = AddHandler(h[n], e)
  <2>1. n + 1 \in 0 .. n + 1 /\ n + 1 # 0 /\ (n + 1) - 1 = n
    BY <1>1
  <2>2. h[n + 1] = IF n + 1 = 0 THEN inf ELSE AddHandler(h[(n + 1) - 1], ks[n + 1])
    BY <1>3, <2>1 DEF Uses
  <2>. QED  BY <1>1, <2>1, <2>2
<1>. QED  BY <1>2, <1>3, <1>4, <1>5 DEF ks, n
-----------------------------------------------------------------------------
(* What the handlers of a list make of operations, without recursion. *)

For(op, w)     == {h \in Entry : h.op = op /\ h.when = w}
ForNull(op, w) == {h \in Entry : h.op = op /\ h.when = w /\ h.external}

Asked(op, hs)     == \E h \in ToSet(hs) : h.op = op
AskedNull(op, hs) == \E h \in ToSet(hs) : h.op = op /\ h.external

GatheredFor(i, hs, op) ==
  [is_intercepted         |-> i.is_intercepted \/ Asked(op, hs),
   handlers               |-> [w \in When |-> Keep(hs, For(op, w))],
   default_is_intercepted |-> i.default_is_intercepted \/ AskedNull(op, hs),
   default_handlers       |-> [w \in When |-> Keep(hs, ForNull(op, w))]]

Gathered(inf, hs) == [op \in Operation |-> GatheredFor(inf[op], hs, op)]

(* Operations which no handlers are added to yet. *)
Bare(inf) ==
  /\ inf \in [Operation -> Info]
  /\ \A op \in Operation :
       inf[op].handlers = NoHandlers /\ inf[op].default_handlers = NoHandlers

LEMMA SameInfo ==
  ASSUME NEW i \in Info, NEW j \in Info,
         i.is_intercepted = j.is_intercepted, i.handlers = j.handlers,
         i.default_is_intercepted = j.default_is_intercepted,
         i.default_handlers = j.default_handlers
  PROVE  i = j
BY DEF Info

LEMMA GatheredType ==
  ASSUME NEW inf \in [Operation -> Info], NEW hs \in Seq(Entry)
  PROVE  Gathered(inf, hs) \in [Operation -> Info]
<1>1. ASSUME NEW op \in Operation PROVE GatheredFor(inf[op], hs, op) \in Info
  <2>1. inf[op] \in Info
    OBVIOUS
  <2>2. /\ (inf[op].is_intercepted \/ Asked(op, hs)) \in BOOLEAN
        /\ (inf[op].default_is_intercepted \/ AskedNull(op, hs)) \in BOOLEAN
    BY DEF Asked, AskedNull
  <2>3. /\ [w \in When |-> Keep(hs, For(op, w))] \in Arrays
        /\ [w \in When |-> Keep(hs, ForNull(op, w))] \in Arrays
    BY KeepElements DEF Arrays
  <2>. QED  BY <2>1, <2>2, <2>3 DEF GatheredFor, Info
<1>. QED  BY <1>1 DEF Gathered

LEMMA GatheredNone ==
  ASSUME NEW inf, Bare(inf)
  PROVE  Gathered(inf, <<>>) = inf
<1>1. inf \in [Operation -> Info]
  BY DEF Bare
<1>2. ToSet(<<>>) = {} /\ <<>> \in Seq(Entry)
  BY EmptySeq DEF ToSet
<1>3. ASSUME NEW op \in Operation PROVE GatheredFor(inf[op], <<>>, op) = inf[op]
  <2>. DEFINE i == GatheredFor(inf[op], <<>>, op)
  <2>1. i \in Info
    BY <1>1, <1>2, GatheredType DEF Gathered
  <2>2. i.handlers = NoHandlers /\ i.default_handlers = NoHandlers
    BY NothingKept DEF GatheredFor, NoHandlers
  <2>3. inf[op] \in Info /\ inf[op].handlers = NoHandlers
        /\ inf[op].default_handlers = NoHandlers
    BY <1>1 DEF Bare
  <2>4. /\ inf[op].is_intercepted \in BOOLEAN
        /\ inf[op].default_is_intercepted \in BOOLEAN
    BY <2>3 DEF Info
  <2>5. /\ i.is_intercepted = inf[op].is_intercepted
        /\ i.default_is_intercepted = inf[op].default_is_intercepted
    BY <1>2, <2>4 DEF GatheredFor, Asked, AskedNull
  <2>. HIDE DEF i
  <2>6. i = inf[op]
    BY <2>1, <2>2, <2>3, <2>5, SameInfo
  <2>. QED  BY <2>6 DEF i
<1>. QED  BY <1>1, <1>3 DEF Gathered

LEMMA AskedMore ==
  ASSUME NEW hs \in Seq(Entry), NEW e \in Entry, NEW op \in Operation
  PROVE  /\ Asked(op, Append(hs, e)) <=> Asked(op, hs) \/ e.op = op
         /\ AskedNull(op, Append(hs, e)) <=> AskedNull(op, hs) \/ (e.op = op /\ e.external)
<1>. DEFINE u == Append(hs, e)
<1>1. /\ DOMAIN u = 1 .. Len(hs) + 1 /\ DOMAIN hs = 1 .. Len(hs) /\ Len(hs) \in Nat
      /\ \A n \in 1 .. Len(hs) : u[n] = hs[n]
      /\ u[Len(hs) + 1] = e
  BY AppendProperties, LenProperties
<1>. HIDE DEF u
<1>2. ToSet(u) = ToSet(hs) \cup {e}
  <2>1. \A x : x \in ToSet(u) <=> \E n \in 1 .. Len(hs) + 1 : u[n] = x
    BY <1>1 DEF ToSet
  <2>2. \A x : x \in ToSet(hs) <=> \E n \in 1 .. Len(hs) : hs[n] = x
    BY <1>1 DEF ToSet
  <2>3. 1 .. Len(hs) + 1 = 1 .. Len(hs) \cup {Len(hs) + 1}
    BY <1>1
  <2>. QED  BY <1>1, <2>1, <2>2, <2>3
<1>3. Asked(op, u) <=> Asked(op, hs) \/ e.op = op
  BY <1>2 DEF Asked
<1>4. AskedNull(op, u) <=> AskedNull(op, hs) \/ (e.op = op /\ e.external)
  BY <1>2 DEF AskedNull
<1>. QED  BY <1>3, <1>4 DEF u

(* One handler more gathers what adding it makes of the rest. *)
LEMMA GatheredMore ==
  ASSUME NEW inf \in [Operation -> Info], NEW hs \in Seq(Entry), NEW e \in Entry
  PROVE  Gathered(inf, Append(hs, e)) = AddHandler(Gathered(inf, hs), e)
<1>. DEFINE f == Gathered(inf, hs)
            u == Append(hs, e)
            g == Gathered(inf, u)
            a == AddHandler(f, e)
<1>1. u \in Seq(Entry) /\ f \in [Operation -> Info] /\ g \in [Operation -> Info]
  BY AppendProperties, GatheredType
<1>2. e.op \in Operation /\ e.when \in When /\ e.external \in BOOLEAN
  BY DEF Entry
<1>3. ASSUME NEW T PROVE Keep(u, T) = IF e \in T THEN Append(Keep(hs, T), e) ELSE Keep(hs, T)
  BY KeepAppend
<1>4. ASSUME NEW op \in Operation
      PROVE  /\ Asked(op, u) <=> Asked(op, hs) \/ e.op = op
             /\ AskedNull(op, u) <=> AskedNull(op, hs) \/ (e.op = op /\ e.external)
  BY AskedMore
<1>5. ASSUME NEW op \in Operation
      PROVE  /\ g[op] = GatheredFor(inf[op], u, op)
             /\ f[op] = GatheredFor(inf[op], hs, op)
  BY DEF Gathered
<1>6. /\ a \in [Operation -> Info]
      /\ \A op \in Operation : op # e.op => a[op] = f[op]
      /\ a[e.op] = [is_intercepted         |-> TRUE,
                    handlers               |-> Added(f[e.op].handlers, e),
                    default_is_intercepted |->
                      f[e.op].default_is_intercepted \/ e.external,
                    default_handlers       |->
                      IF e.external THEN Added(f[e.op].default_handlers, e)
                                    ELSE f[e.op].default_handlers]
  BY <1>1, AddHandlerIs
<1>. HIDE DEF f, u, g, a
<1>7. ASSUME NEW op \in Operation, NEW w \in When
      PROVE  /\ e \in For(op, w) <=> e.op = op /\ e.when = w
             /\ e \in ForNull(op, w) <=> e.op = op /\ e.when = w /\ e.external
  BY DEF For, ForNull
<1>8. ASSUME NEW op \in Operation, op # e.op PROVE g[op] = a[op]
  <2>1. ASSUME NEW w \in When
        PROVE  /\ Keep(u, For(op, w)) = Keep(hs, For(op, w))
               /\ Keep(u, ForNull(op, w)) = Keep(hs, ForNull(op, w))
    BY <1>3, <1>7, <1>8
  <2>2. (Asked(op, u) <=> Asked(op, hs)) /\ (AskedNull(op, u) <=> AskedNull(op, hs))
    BY <1>4, <1>8
  <2>3. Asked(op, u) = Asked(op, hs) /\ AskedNull(op, u) = AskedNull(op, hs)
    BY <2>2 DEF Asked, AskedNull
  <2>4. GatheredFor(inf[op], u, op) = GatheredFor(inf[op], hs, op)
    BY <2>1, <2>3 DEF GatheredFor
  <2>. QED  BY <1>5, <1>6, <1>8, <2>4
<1>9. g[e.op] = a[e.op]
  <2>. DEFINE i == inf[e.op]
  <2>1. i \in Info /\ f[e.op] \in Info /\ g[e.op] \in Info /\ a[e.op] \in Info
    BY <1>1, <1>2, <1>6
  <2>2. f[e.op].handlers \in Arrays /\ f[e.op].default_handlers \in Arrays
        /\ f[e.op].default_is_intercepted \in BOOLEAN
    BY <2>1 DEF Info
  <2>3. /\ f[e.op].handlers = [w \in When |-> Keep(hs, For(e.op, w))]
        /\ f[e.op].default_handlers = [w \in When |-> Keep(hs, ForNull(e.op, w))]
        /\ f[e.op].default_is_intercepted = (i.default_is_intercepted \/ AskedNull(e.op, hs))
    <3>1. f[e.op] = GatheredFor(i, hs, e.op)
      BY <1>2, <1>5
    <3>. QED  BY <3>1 DEF GatheredFor
  <2>4. /\ g[e.op].handlers = [w \in When |-> Keep(u, For(e.op, w))]
        /\ g[e.op].default_handlers = [w \in When |-> Keep(u, ForNull(e.op, w))]
        /\ g[e.op].is_intercepted = (i.is_intercepted \/ Asked(e.op, u))
        /\ g[e.op].default_is_intercepted = (i.default_is_intercepted \/ AskedNull(e.op, u))
    <3>1. g[e.op] = GatheredFor(i, u, e.op)
      BY <1>2, <1>5
    <3>. QED  BY <3>1 DEF GatheredFor
  <2>5. /\ a[e.op].is_intercepted = TRUE
        /\ a[e.op].handlers = Added(f[e.op].handlers, e)
        /\ a[e.op].default_is_intercepted = (f[e.op].default_is_intercepted \/ e.external)
        /\ a[e.op].default_handlers = IF e.external THEN Added(f[e.op].default_handlers, e)
                                                    ELSE f[e.op].default_handlers
    BY <1>6
  <2>6. g[e.op].is_intercepted = a[e.op].is_intercepted
    <3>1. Asked(e.op, u)
      BY <1>2, <1>4
    <3>. QED  BY <2>4, <2>5, <3>1
  <2>7. g[e.op].default_is_intercepted = a[e.op].default_is_intercepted
    <3>1. AskedNull(e.op, u) <=> AskedNull(e.op, hs) \/ e.external
      BY <1>2, <1>4
    <3>2. AskedNull(e.op, u) = (AskedNull(e.op, hs) \/ e.external)
      BY <3>1 DEF AskedNull
    <3>. QED  BY <2>3, <2>4, <2>5, <3>2
  <2>8. g[e.op].handlers = a[e.op].handlers
    <3>1. Added(f[e.op].handlers, e) \in Arrays
          /\ \A w \in When : Added(f[e.op].handlers, e)[w] =
               IF w = e.when THEN Append(f[e.op].handlers[w], e) ELSE f[e.op].handlers[w]
      BY <2>2, AddedType
    <3>2. ASSUME NEW w \in When
          PROVE  Keep(u, For(e.op, w)) = Added(f[e.op].handlers, e)[w]
      <4>1. f[e.op].handlers[w] = Keep(hs, For(e.op, w))
        BY <2>3
      <4>2. e \in For(e.op, w) <=> w = e.when
        BY <1>2, <1>7
      <4>. QED  BY <1>3, <3>1, <4>1, <4>2
    <3>3. Added(f[e.op].handlers, e) = [w \in When |-> Keep(u, For(e.op, w))]
      BY <3>1, <3>2 DEF Arrays
    <3>. QED  BY <2>4, <2>5, <3>3
  <2>9. g[e.op].default_handlers = a[e.op].default_handlers
    <3>. DEFINE d == f[e.op].default_handlers
    <3>1. Added(d, e) \in Arrays /\ d \in Arrays
          /\ \A w \in When : Added(d, e)[w] = IF w = e.when THEN Append(d[w], e) ELSE d[w]
      BY <2>2, AddedType
    <3>2. a[e.op].default_handlers \in Arrays
      BY <2>5, <3>1
    <3>3. ASSUME NEW w \in When
          PROVE  Keep(u, ForNull(e.op, w)) = a[e.op].default_handlers[w]
      <4>1. d[w] = Keep(hs, ForNull(e.op, w))
        BY <2>3
      <4>2. e \in ForNull(e.op, w) <=> w = e.when /\ e.external
        BY <1>2, <1>7
      <4>3. a[e.op].default_handlers[w] =
              IF e.external /\ w = e.when THEN Append(d[w], e) ELSE d[w]
        BY <2>5, <3>1
      <4>. HIDE DEF d
      <4>. QED  BY <1>3, <4>1, <4>2, <4>3
    <3>4. a[e.op].default_handlers = [w \in When |-> Keep(u, ForNull(e.op, w))]
      BY <3>2, <3>3 DEF Arrays
    <3>. QED  BY <2>4, <3>4
  <2>. QED  BY <2>1, <2>6, <2>7, <2>8, <2>9, SameInfo
<1>10. g = a
  BY <1>1, <1>6, <1>8, <1>9
<1>. QED  BY <1>10 DEF f, u, g, a

(* Adding the handlers of a list one by one gives what is gathered from it:
   every operation has its handlers, in their order. *)
LEMMA UseGathers ==
  ASSUME NEW inf, Bare(inf), NEW hs \in Seq(Entry)
  PROVE  UseHandlers(inf, hs) = Gathered(inf, hs)
<1>. DEFINE T == {s \in Seq(Entry) : UseHandlers(inf, s) = Gathered(inf, s)}
<1>1. <<>> \in T
  BY EmptySeq, UseNone, GatheredNone
<1>2. ASSUME NEW s \in Seq(Entry), NEW e \in Entry, s \in T PROVE Append(s, e) \in T
  <2>1. inf \in [Operation -> Info] /\ Append(s, e) \in Seq(Entry)
    BY AppendProperties DEF Bare
  <2>2. UseHandlers(inf, Append(s, e)) = AddHandler(UseHandlers(inf, s), e)
    BY UseOneMore
  <2>3. Gathered(inf, Append(s, e)) = AddHandler(Gathered(inf, s), e)
    BY <2>1, GatheredMore
  <2>4. UseHandlers(inf, s) = Gathered(inf, s)
    BY <1>2
  <2>. QED  BY <2>1, <2>2, <2>3, <2>4
<1>. HIDE DEF T
<1>3. hs \in T
  BY <1>1, <1>2, ListsByInduction
<1>. QED  BY <1>3 DEF T
-----------------------------------------------------------------------------
(* The handlers of acceptable payloads. *)

Good == {p \in Payload : CheckPayload(p)}

(* A payload's handlers are for operations there are, and are its own. *)
LEMMA HandlersOfType ==
  ASSUME NEW p \in Good
  PROVE  /\ HandlersOf(p) \in Seq(Entry)
         /\ \A h \in ToSet(HandlersOf(p)) : h.payload = p
<1>. DEFINE Make(hs, w) == [k \in DOMAIN hs |-> [payload |-> p, when |-> w,
                              op |-> hs[k].op, external |-> hs[k].external]]
<1>1. p \in Payload /\ CheckPayload(p)
  BY DEF Good
<1>2. ASSUME NEW hs \in Seq([op : Offset, external : BOOLEAN]), NEW w \in When,
             \A h \in ToSet(hs) : h.op \in Operation
      PROVE  /\ Make(hs, w) \in Seq(Entry)
             /\ Len(Make(hs, w)) \in Nat /\ DOMAIN Make(hs, w) = 1 .. Len(Make(hs, w))
             /\ \A k \in DOMAIN Make(hs, w) : Make(hs, w)[k].payload = p
  <2>1. /\ Len(hs) \in Nat /\ DOMAIN hs = 1 .. Len(hs)
        /\ \A k \in DOMAIN hs : hs[k] \in [op : Offset, external : BOOLEAN]
    BY LenProperties, ElementOfSeq
  <2>2. \A k \in DOMAIN hs : hs[k].op \in Operation
    BY <1>2 DEF ToSet
  <2>3. \A k \in DOMAIN hs :
          [payload |-> p, when |-> w, op |-> hs[k].op, external |-> hs[k].external] \in Entry
    BY <1>1, <2>1, <2>2 DEF Entry
  <2>4. Make(hs, w) \in Seq(Entry)
    BY <2>1, <2>3
  <2>5. \A k \in DOMAIN Make(hs, w) : Make(hs, w)[k].payload = p
    OBVIOUS
  <2>. HIDE DEF Make
  <2>. QED  BY <2>4, <2>5, LenProperties
<1>. DEFINE a == Make(PreHandlers[p], "pre")
            b == Make(PostHandlers[p], "post")
<1>3. /\ PreHandlers[p] \in Seq([op : Offset, external : BOOLEAN])
      /\ PostHandlers[p] \in Seq([op : Offset, external : BOOLEAN])
      /\ \A h \in ToSet(PreHandlers[p]) : h.op \in Operation
      /\ \A h \in ToSet(PostHandlers[p]) : h.op \in Operation
  BY <1>1, PayloadAssumption DEF CheckPayload
<1>4. "pre" \in When /\ "post" \in When
  BY DEF When
<1>5. HandlersOf(p) = a \o b
  BY DEF HandlersOf
<1>. HIDE DEF Make
<1>6. /\ a \in Seq(Entry) /\ Len(a) \in Nat /\ DOMAIN a = 1 .. Len(a)
      /\ \A k \in DOMAIN a : a[k].payload = p
  BY <1>2, <1>3, <1>4
<1>7. /\ b \in Seq(Entry) /\ Len(b) \in Nat /\ DOMAIN b = 1 .. Len(b)
      /\ \A k \in DOMAIN b : b[k].payload = p
  BY <1>2, <1>3, <1>4
<1>. HIDE DEF a, b
<1>8. /\ a \o b \in Seq(Entry) /\ Len(a \o b) = Len(a) + Len(b)
      /\ \A k \in 1 .. Len(a) + Len(b) :
           (a \o b)[k] = IF k <= Len(a) THEN a[k] ELSE b[k - Len(a)]
  BY <1>6, <1>7, ConcatProperties
<1>9. DOMAIN (a \o b) = 1 .. Len(a) + Len(b)
  BY <1>8, LenProperties
<1>10. ASSUME NEW k \in 1 .. Len(a) + Len(b) PROVE (a \o b)[k].payload = p
  <2>1. CASE k <= Len(a)
    <3>1. k \in DOMAIN a /\ (a \o b)[k] = a[k]
      BY <1>6, <1>7, <1>8, <2>1
    <3>. QED  BY <1>6, <3>1
  <2>2. CASE ~(k <= Len(a))
    <3>1. k - Len(a) \in DOMAIN b /\ (a \o b)[k] = b[k - Len(a)]
      BY <1>6, <1>7, <1>8, <2>2
    <3>. QED  BY <1>7, <3>1
  <2>. QED  BY <2>1, <2>2
<1>. QED  BY <1>5, <1>8, <1>9, <1>10 DEF ToSet

(* So are those of a list of payloads. *)
LEMMA AllHandlersType ==
  ASSUME NEW ps \in Seq(Good)
  PROVE  /\ AllHandlers(ps) \in Seq(Entry)
         /\ \A h \in ToSet(AllHandlers(ps)) : h.payload \in ToSet(ps)
<1>. DEFINE l == [k \in DOMAIN ps |-> HandlersOf(ps[k])]
<1>1. Len(ps) \in Nat /\ DOMAIN ps = 1 .. Len(ps) /\ \A k \in DOMAIN ps : ps[k] \in Good
  BY LenProperties, ElementOfSeq
<1>2. ASSUME NEW k \in DOMAIN ps
      PROVE  /\ HandlersOf(ps[k]) \in Seq(Entry)
             /\ \A h \in ToSet(HandlersOf(ps[k])) : h.payload = ps[k]
  BY <1>1, HandlersOfType
<1>3. l \in Seq(Seq(Entry)) /\ DOMAIN l = DOMAIN ps
      /\ \A k \in DOMAIN ps : l[k] = HandlersOf(ps[k])
  BY <1>1, <1>2
<1>4. AllHandlers(ps) = FlattenSeq(l)
  BY DEF AllHandlers
<1>. HIDE DEF l
<1>5. FlattenSeq(l) \in Seq(Entry)
      /\ ToSet(FlattenSeq(l)) = UNION {ToSet(l[k]) : k \in DOMAIN l}
  BY <1>3, FlattenList
<1>6. ASSUME NEW h \in ToSet(FlattenSeq(l)) PROVE h.payload \in ToSet(ps)
  <2>1. PICK k \in DOMAIN ps : h \in ToSet(l[k])
    BY <1>3, <1>5
  <2>2. h.payload = ps[k]
    BY <1>2, <1>3, <2>1
  <2>. QED  BY <2>2 DEF ToSet
<1>. QED  BY <1>4, <1>5, <1>6
-----------------------------------------------------------------------------
(* Nothing is left of a use that fails or ends. *)

NoInfos == [op \in Operation |-> NoInfo]

(* Where an operation is not marked, it has no handlers. *)
Sound(inf) ==
  /\ inf \in [Operation -> Info]
  /\ \A op \in Operation :
       /\ ~inf[op].is_intercepted => inf[op].handlers = NoHandlers
       /\ ~inf[op].default_is_intercepted => inf[op].default_handlers = NoHandlers

LEMMA NoInfoType ==
  NoHandlers \in Arrays /\ NoInfo \in Info /\ Bare(NoInfos)
<1>1. NoHandlers \in Arrays
  BY EmptySeq DEF NoHandlers, Arrays
<1>2. NoInfo \in Info
  BY <1>1 DEF NoInfo, Info
<1>3. NoInfo.handlers = NoHandlers /\ NoInfo.default_handlers = NoHandlers
  BY DEF NoInfo
<1>4. NoInfos \in [Operation -> Info] /\ \A op \in Operation : NoInfos[op] = NoInfo
  BY <1>2 DEF NoInfos
<1>. QED  BY <1>1, <1>2, <1>3, <1>4 DEF Bare

LEMMA MarkedBare == Bare(Marked(NoInfos))
<1>1. CASE ~InterceptAll
  BY <1>1, NoInfoType DEF Marked
<1>2. CASE InterceptAll
  <2>. DEFINE i(op) == [NoInfos[op] EXCEPT !.is_intercepted = TRUE,
                          !.default_is_intercepted = @ \/ op \notin InternalOnly]
  <2>1. ASSUME NEW op \in Operation
        PROVE  i(op) \in Info /\ i(op).handlers = NoHandlers
               /\ i(op).default_handlers = NoHandlers
    <3>. DEFINE d == NoInfo.default_is_intercepted \/ op \notin InternalOnly
    <3>1. NoInfos[op] = NoInfo /\ NoInfo \in Info /\ d \in BOOLEAN
      BY NoInfoType DEF NoInfos
    <3>2. i(op) = [NoInfo EXCEPT !.is_intercepted = TRUE, !.default_is_intercepted = d]
      BY <3>1
    <3>3. NoInfo.handlers = NoHandlers /\ NoInfo.default_handlers = NoHandlers
      BY DEF NoInfo
    <3>. HIDE DEF d, i
    <3>. QED  BY <3>1, <3>2, <3>3 DEF Info
  <2>2. Marked(NoInfos) = [op \in Operation |-> i(op)]
    BY <1>2 DEF Marked
  <2>. HIDE DEF i
  <2>. QED  BY <2>1, <2>2 DEF Bare
<1>. QED  BY <1>1, <1>2

(* Handlers leave a mark where they are added. *)
LEMMA GatheredSound ==
  ASSUME NEW inf, Bare(inf), NEW hs \in Seq(Entry)
  PROVE  Sound(Gathered(inf, hs))
<1>. DEFINE g == Gathered(inf, hs)
<1>1. inf \in [Operation -> Info] /\ g \in [Operation -> Info]
  BY GatheredType DEF Bare
<1>2. ASSUME NEW op \in Operation
      PROVE  /\ ~g[op].is_intercepted => g[op].handlers = NoHandlers
             /\ ~g[op].default_is_intercepted => g[op].default_handlers = NoHandlers
  <2>1. g[op] = GatheredFor(inf[op], hs, op)
    BY DEF Gathered
  <2>. HIDE DEF g
  <2>2. /\ g[op].is_intercepted = (inf[op].is_intercepted \/ Asked(op, hs))
        /\ g[op].handlers = [w \in When |-> Keep(hs, For(op, w))]
        /\ g[op].default_is_intercepted = (inf[op].default_is_intercepted \/ AskedNull(op, hs))
        /\ g[op].default_handlers = [w \in When |-> Keep(hs, ForNull(op, w))]
    BY <2>1 DEF GatheredFor
  <2>3. ASSUME ~Asked(op, hs), NEW w \in When PROVE Keep(hs, For(op, w)) = <<>>
    <3>1. ToSet(hs) \cap For(op, w) = {}
      BY <2>3 DEF Asked, For
    <3>. QED  BY <3>1, KeepNone
  <2>4. ASSUME ~AskedNull(op, hs), NEW w \in When PROVE Keep(hs, ForNull(op, w)) = <<>>
    <3>1. ToSet(hs) \cap ForNull(op, w) = {}
      BY <2>4 DEF AskedNull, ForNull
    <3>. QED  BY <3>1, KeepNone
  <2>5. ASSUME ~g[op].is_intercepted PROVE g[op].handlers = NoHandlers
    BY <2>2, <2>3, <2>5 DEF NoHandlers
  <2>6. ASSUME ~g[op].default_is_intercepted PROVE g[op].default_handlers = NoHandlers
    BY <2>2, <2>4, <2>6 DEF NoHandlers
  <2>. QED  BY <2>5, <2>6
<1>. HIDE DEF g
<1>3. Sound(g)
  BY <1>1, <1>2 DEF Sound
<1>. QED  BY <1>3 DEF g

(* So do those for whose default there was no memory. *)
LEMMA PartlySound ==
  ASSUME NEW inf, Sound(inf), NEW h \in Entry
  PROVE  Sound(AddHandlerPartly(inf, h))
<1>. DEFINE i == [is_intercepted         |-> TRUE,
                  handlers               |-> Added(inf[h.op].handlers, h),
                  default_is_intercepted |-> inf[h.op].default_is_intercepted,
                  default_handlers       |-> inf[h.op].default_handlers]
<1>1. h.op \in Operation /\ inf \in [Operation -> Info] /\ inf[h.op] \in Info
  BY DEF Entry, Sound
<1>2. i \in Info
  <2>1. Added(inf[h.op].handlers, h) \in Arrays
    BY <1>1, AddedType DEF Info
  <2>. QED  BY <1>1, <2>1 DEF Info
<1>3. i.is_intercepted = TRUE
      /\ i.default_is_intercepted = inf[h.op].default_is_intercepted
      /\ i.default_handlers = inf[h.op].default_handlers
  OBVIOUS
<1>4. AddHandlerPartly(inf, h) = [inf EXCEPT ![h.op] = i]
  BY DEF AddHandlerPartly
<1>. HIDE DEF i
<1>5. /\ [inf EXCEPT ![h.op] = i] \in [Operation -> Info]
      /\ \A op \in Operation :
           [inf EXCEPT ![h.op] = i][op] = IF op = h.op THEN i ELSE inf[op]
  BY <1>1, <1>2
<1>. QED  BY <1>1, <1>3, <1>4, <1>5 DEF Sound

(* Closing groups marks operations and adds no handlers. *)
LEMMA ClosedIs ==
  ASSUME NEW inf \in [Operation -> Info]
  PROVE  /\ CloseOperations(inf) \in [Operation -> Info]
         /\ \A op \in Operation :
              LET i == CloseOperations(inf)[op] IN
              /\ i.is_intercepted = inf[op].is_intercepted
              /\ i.handlers = inf[op].handlers
              /\ i.default_handlers = inf[op].default_handlers
              /\ i.default_is_intercepted =
                   (inf[op].default_is_intercepted
                    \/ \E op1 \in Operation :
                         /\ Group[op1] # 0 /\ Group[op1] = Group[op]
                         /\ inf[op1].default_is_intercepted)
<1>. DEFINE d(op) == inf[op].default_is_intercepted
                     \/ \E op1 \in Operation :
                          /\ Group[op1] # 0 /\ Group[op1] = Group[op]
                          /\ inf[op1].default_is_intercepted
<1>1. ASSUME NEW op \in Operation
      PROVE  LET i == [inf[op] EXCEPT !.default_is_intercepted = d(op)] IN
             /\ i \in Info
             /\ i.is_intercepted = inf[op].is_intercepted
             /\ i.handlers = inf[op].handlers
             /\ i.default_handlers = inf[op].default_handlers
             /\ i.default_is_intercepted = d(op)
  <2>1. inf[op] \in Info /\ d(op) \in BOOLEAN
    OBVIOUS
  <2>. HIDE DEF d
  <2>. QED  BY <2>1 DEF Info
<1>2. CloseOperations(inf) =
        [op \in Operation |-> [inf[op] EXCEPT !.default_is_intercepted = d(op)]]
  BY DEF CloseOperations
<1>. HIDE DEF d
<1>3. /\ CloseOperations(inf) \in [Operation -> Info]
      /\ \A op \in Operation :
           LET i == CloseOperations(inf)[op] IN
           /\ i.is_intercepted = inf[op].is_intercepted
           /\ i.handlers = inf[op].handlers
           /\ i.default_handlers = inf[op].default_handlers
           /\ i.default_is_intercepted = d(op)
  BY <1>1, <1>2
<1>. QED  BY <1>3 DEF d

LEMMA ClosedSound ==
  ASSUME NEW inf, Sound(inf)
  PROVE  Sound(CloseOperations(inf))
<1>1. inf \in [Operation -> Info]
  BY DEF Sound
<1>. DEFINE c == CloseOperations(inf)
<1>2. /\ c \in [Operation -> Info]
      /\ \A op \in Operation :
           /\ c[op].is_intercepted = inf[op].is_intercepted
           /\ c[op].handlers = inf[op].handlers
           /\ c[op].default_handlers = inf[op].default_handlers
           /\ inf[op].default_is_intercepted => c[op].default_is_intercepted
  <2>1. c \in [Operation -> Info]
    BY <1>1, ClosedIs
  <2>2. ASSUME NEW op \in Operation
        PROVE  /\ c[op].is_intercepted = inf[op].is_intercepted
               /\ c[op].handlers = inf[op].handlers
               /\ c[op].default_handlers = inf[op].default_handlers
               /\ inf[op].default_is_intercepted => c[op].default_is_intercepted
    BY <1>1, ClosedIs
  <2>. QED  BY <2>1, <2>2
<1>. HIDE DEF c
<1>3. Sound(c)
  BY <1>2 DEF Sound
<1>. QED  BY <1>3 DEF c

(* Whatever was added, nothing is left of it: what is not marked has nothing
   to be cleared. *)
LEMMA UnuseCleans ==
  ASSUME NEW inf, Sound(inf)
  PROVE  UnuseAll(inf) = NoInfos
<1>1. ASSUME NEW i \in Info, ~i.is_intercepted => i.handlers = NoHandlers,
             ~i.default_is_intercepted => i.default_handlers = NoHandlers
      PROVE  ClearInterception(i) = NoInfo
  <2>. DEFINE j == ClearInternal(i)
  <2>1. /\ j \in Info /\ j.is_intercepted = FALSE /\ j.handlers = NoHandlers
        /\ j.default_is_intercepted = i.default_is_intercepted
        /\ j.default_handlers = i.default_handlers
    <3>1. CASE i.is_intercepted
      BY <1>1, <3>1, NoInfoType DEF Info, ClearInternal
    <3>2. CASE ~i.is_intercepted
      <4>1. i.is_intercepted = FALSE
        BY <3>2 DEF Info
      <4>. QED  BY <1>1, <3>2, <4>1 DEF ClearInternal
    <3>. QED  BY <3>1, <3>2
  <2>. HIDE DEF j
  <2>. DEFINE k == ClearDefault(j)
  <2>2. /\ k \in Info /\ k.default_is_intercepted = FALSE
        /\ k.default_handlers = NoHandlers
        /\ k.is_intercepted = j.is_intercepted /\ k.handlers = j.handlers
    <3>1. CASE j.default_is_intercepted
      BY <2>1, <3>1, NoInfoType DEF Info, ClearDefault
    <3>2. CASE ~j.default_is_intercepted
      <4>1. j.default_is_intercepted = FALSE
        BY <2>1, <3>2 DEF Info
      <4>. QED  BY <1>1, <2>1, <3>2, <4>1 DEF ClearDefault
    <3>. QED  BY <3>1, <3>2
  <2>. HIDE DEF k
  <2>3. /\ NoInfo.is_intercepted = FALSE /\ NoInfo.handlers = NoHandlers
        /\ NoInfo.default_is_intercepted = FALSE
        /\ NoInfo.default_handlers = NoHandlers
    BY DEF NoInfo
  <2>4. k = NoInfo
    BY <2>1, <2>2, <2>3, NoInfoType, SameInfo
  <2>. QED  BY <2>4 DEF j, k, ClearInterception
<1>2. ASSUME NEW op \in Operation PROVE ClearInterception(inf[op]) = NoInfo
  BY <1>1 DEF Sound
<1>. QED  BY <1>2 DEF UnuseAll, NoInfos
-----------------------------------------------------------------------------
(* The invariant. *)

Registered ==
  /\ elems \in Seq(Good) /\ used \in Seq(Good)
  /\ fixed = ToSet(used) /\ fixed \subseteq ToSet(elems)

Modules ==
  /\ refs \in [Module -> Nat]
  /\ ModuleRefsExact
  /\ loaded \in [Module -> {"live", "going", "gone"}]
  /\ \A p \in fixed : CanFix(p)

(* Either nothing was added to the operations, or all handlers of the payloads
   in use were, in their order. *)
Intercepted ==
  IF is_used
  THEN /\ info = CloseOperations(Gathered(Marked(NoInfos), AllHandlers(used)))
       /\ replacements = CreateReplacements(info)
  ELSE /\ info = NoInfos
       /\ replacements = NoReplacements
       /\ used = <<>>

PInv ==
  /\ is_used \in BOOLEAN /\ bug \in BOOLEAN
  /\ Registered
  /\ Modules
  /\ Intercepted

LEMMA ListFinite ==
  ASSUME NEW S, NEW s \in Seq(S)
  PROVE  IsFiniteSet(ToSet(s))
<1>1. Len(s) \in Nat /\ DOMAIN s = 1 .. Len(s) /\ s \in [1 .. Len(s) -> S]
  BY LenProperties
<1>2. s \in Surjection(1 .. Len(s), ToSet(s))
  BY <1>1 DEF ToSet, Surjection
<1>3. IsFiniteSet(1 .. Len(s))
  BY <1>1, FS_Interval
<1>. QED  BY <1>2, <1>3, FS_Surjection

(* Payloads of a module are counted as none exactly if there is none. *)
LEMMA ProvidersCount ==
  ASSUME NEW ps, IsFiniteSet(ps), NEW m
  PROVE  /\ Cardinality({p \in ps : ModuleOf[p] = m}) \in Nat
         /\ Cardinality({p \in ps : ModuleOf[p] = m}) = 0
              <=> \A p \in ps : ModuleOf[p] # m
<1>. DEFINE T == {p \in ps : ModuleOf[p] = m}
<1>1. T \in SUBSET ps
  OBVIOUS
<1>. HIDE DEF T
<1>2. IsFiniteSet(T)
  BY <1>1, FS_Subset
<1>3. Cardinality(T) \in Nat /\ (Cardinality(T) = 0 <=> T = {})
  BY <1>2, FS_CardinalityType, FS_EmptySet
<1>. QED  BY <1>3 DEF T

(* A failed use gives all references back. *)
LEMMA ReferencesBack ==
  ASSUME NEW r \in [Module -> Nat], NEW ps, IsFiniteSet(ps)
  PROVE  PutModules(GetModules(r, ps), ps) = r
<1>. DEFINE c(m) == Cardinality({p \in ps : ModuleOf[p] = m})
<1>1. \A m \in Module : c(m) \in Nat
  BY ProvidersCount
<1>2. PutModules(GetModules(r, ps), ps) = [m \in Module |-> (r[m] + c(m)) - c(m)]
  BY DEF PutModules, GetModules
<1>. HIDE DEF c
<1>3. \A m \in Module : (r[m] + c(m)) - c(m) = r[m]
  BY <1>1
<1>. QED  BY <1>2, <1>3

(* Payloads that can be fixed are registered, and their modules are live. *)
LEMMA FixAllType ==
  ASSUME PInv
  PROVE  /\ FixAll \in Seq(Good) /\ ToSet(FixAll) \subseteq ToSet(elems)
         /\ IsFiniteSet(ToSet(FixAll)) /\ \A p \in ToSet(FixAll) : CanFix(p)
<1>1. elems \in Seq(Good)
  BY DEF PInv, Registered
<1>. DEFINE T == {p \in ToSet(elems) : CanFix(p)}
<1>2. FixAll \in Seq(Good) /\ ToSet(FixAll) = ToSet(elems) \cap T
  <2>. HIDE DEF T
  <2>. QED  BY <1>1, KeepElements DEF FixAll, T
<1>. QED  BY <1>2, ListFinite

(* The invariant holds when an interceptor is created, *)
THEOREM Initially == Init => PInv
<1>. SUFFICES ASSUME Init PROVE PInv
  OBVIOUS
<1>1. ToSet(<<>>) = {} /\ <<>> \in Seq(Good)
  BY EmptySeq DEF ToSet
<1>2. Registered
  BY <1>1 DEF Init, Registered
<1>3. Modules
  <2>1. ASSUME NEW m \in Module PROVE Cardinality({p \in fixed : ModuleOf[p] = m}) = 0
    <3>1. {p \in fixed : ModuleOf[p] = m} = {}
      BY DEF Init
    <3>. QED  BY <3>1, FS_EmptySet
  <2>. QED  BY <2>1 DEF Init, Modules, ModuleRefsExact
<1>4. Intercepted
  BY DEF Init, Intercepted, NoInfos
<1>. QED  BY <1>2, <1>3, <1>4 DEF Init, PInv
-----------------------------------------------------------------------------
(* Each call keeps the invariant. *)

(* What does not touch the use of payloads keeps what is known of it. *)
LEMMA SameUse ==
  ASSUME PInv, UNCHANGED <<fixed, used, info, replacements, is_used, refs, loaded, bug>>
  PROVE  /\ is_used' \in BOOLEAN /\ bug' \in BOOLEAN
         /\ used' \in Seq(Good) /\ fixed' = ToSet(used)'
         /\ Modules' /\ Intercepted'
BY DEF PInv, Registered, Modules, ModuleRefsExact, Intercepted, CanFix, ModulesOf

(* Registration puts an acceptable payload at the end. *)
LEMMA AddKeeps ==
  ASSUME PInv, NEW p \in Payload, AddPayload(p)
  PROVE  PInv'
<1>1. elems \in Seq(Good) /\ p \in Good /\ elems' = Append(elems, p)
  BY DEF PInv, Registered, AddPayload, Good
<1>2. elems' \in Seq(Good) /\ ToSet(elems) \subseteq ToSet(elems')
  <2>1. /\ elems' \in Seq(Good)
        /\ DOMAIN elems = 1 .. Len(elems) /\ Len(elems) \in Nat
        /\ DOMAIN elems' = 1 .. Len(elems) + 1
        /\ \A n \in 1 .. Len(elems) : elems'[n] = elems[n]
    BY <1>1, AppendProperties, LenProperties
  <2>2. \A n \in DOMAIN elems : n \in DOMAIN elems' /\ elems'[n] = elems[n]
    BY <2>1
  <2>. QED  BY <2>1, <2>2 DEF ToSet
<1>3. UNCHANGED <<fixed, used, info, replacements, is_used, refs, loaded, bug>>
  BY DEF AddPayload
<1>4. fixed' \subseteq ToSet(elems')
  BY <1>2, <1>3 DEF PInv, Registered
<1>. QED  BY <1>2, <1>3, <1>4, SameUse DEF PInv, Registered

(* Only what is not fixed is removed. *)
LEMMA RemoveKeeps ==
  ASSUME PInv, NEW p \in Payload, RemovePayload(p)
  PROVE  PInv'
<1>1. elems \in Seq(Good) /\ elems' = Keep(elems, ToSet(elems) \ {p}) /\ p \notin fixed
  BY DEF PInv, Registered, RemovePayload
<1>2. elems' \in Seq(Good) /\ ToSet(elems') = ToSet(elems) \ {p}
  BY <1>1, KeepElements
<1>3. UNCHANGED <<fixed, used, info, replacements, is_used, refs, loaded, bug>>
  BY DEF RemovePayload
<1>4. fixed' \subseteq ToSet(elems')
  BY <1>1, <1>2, <1>3 DEF PInv, Registered
<1>. QED  BY <1>2, <1>3, <1>4, SameUse DEF PInv, Registered

(* From nothing, a use adds all handlers of the payloads it could fix. *)
LEMMA UseKeeps ==
  ASSUME PInv, Use
  PROVE  PInv'
<1>. DEFINE hs == AllHandlers(FixAll)
<1>1. /\ is_used = FALSE /\ info = NoInfos /\ fixed = {}
      /\ refs \in [Module -> Nat] /\ ModuleRefsExact
  <2>1. is_used = FALSE
    BY DEF PInv, Use
  <2>2. used = <<>> /\ info = NoInfos
    BY <2>1 DEF PInv, Intercepted
  <2>3. ToSet(<<>>) = {}
    BY DEF ToSet
  <2>. QED  BY <2>1, <2>2, <2>3 DEF PInv, Registered, Modules
<1>2. /\ FixAll \in Seq(Good) /\ ToSet(FixAll) \subseteq ToSet(elems)
      /\ IsFiniteSet(ToSet(FixAll)) /\ \A p \in ToSet(FixAll) : CanFix(p)
  BY FixAllType
<1>3. hs \in Seq(Entry)
  BY <1>2, AllHandlersType
<1>4. UseHandlers(Marked(NoInfos), hs) = Gathered(Marked(NoInfos), hs)
  BY <1>3, MarkedBare, UseGathers
<1>5. /\ info' = CloseOperations(UseHandlers(Marked(info), hs))
      /\ replacements' = CreateReplacements(info')
      /\ bug' \in BOOLEAN /\ is_used' = TRUE
      /\ fixed' = ToSet(FixAll) /\ used' = FixAll
      /\ refs' = GetModules(refs, ToSet(FixAll))
      /\ UNCHANGED <<elems, loaded>>
  BY DEF PInv, Use, UseFixed
<1>. HIDE DEF hs
<1>6. Registered'
  BY <1>2, <1>5 DEF PInv, Registered
<1>7. Modules'
  <2>. DEFINE ps == ToSet(FixAll)
              c(m) == Cardinality({p \in ps : ModuleOf[p] = m})
  <2>1. \A m \in Module : refs[m] = 0 /\ c(m) \in Nat
    <3>1. ASSUME NEW m \in Module PROVE refs[m] = 0
      <4>1. {p \in fixed : ModuleOf[p] = m} = {}
        BY <1>1
      <4>2. refs[m] = Cardinality({p \in fixed : ModuleOf[p] = m})
        BY <1>1 DEF ModuleRefsExact
      <4>. QED  BY <4>1, <4>2, FS_EmptySet
    <3>. QED  BY <1>2, <3>1, ProvidersCount
  <2>2. refs' = [m \in Module |-> refs[m] + c(m)]
    BY <1>5 DEF GetModules
  <2>3. fixed' = ps
    BY <1>5
  <2>4. \A m \in Module : c(m) = Cardinality({p \in ps : ModuleOf[p] = m})
    OBVIOUS
  <2>. HIDE DEF c
  <2>5. refs' \in [Module -> Nat] /\ \A m \in Module : refs'[m] = c(m)
    BY <2>1, <2>2
  <2>6. ModuleRefsExact'
    BY <2>3, <2>4, <2>5 DEF ModuleRefsExact
  <2>7. loaded' \in [Module -> {"live", "going", "gone"}] /\ \A p \in fixed' : CanFix(p)'
    BY <1>2, <1>5, <2>3 DEF PInv, Modules, CanFix, ModulesOf
  <2>. QED  BY <2>5, <2>6, <2>7 DEF Modules
<1>8. Intercepted'
  <2>1. info' = CloseOperations(Gathered(Marked(NoInfos), AllHandlers(used')))
    BY <1>1, <1>4, <1>5 DEF hs
  <2>2. is_used' = TRUE /\ replacements' = CreateReplacements(info')
    BY <1>5
  <2>3. (replacements = CreateReplacements(info))'
    BY <2>2 DEF CreateReplacements
  <2>4. (info = CloseOperations(Gathered(Marked(NoInfos), AllHandlers(used))))'
    BY <2>1
  <2>. QED  BY <2>2, <2>3, <2>4 DEF Intercepted
<1>. QED  BY <1>5, <1>6, <1>7, <1>8 DEF PInv

(* However far a use came, what it added is sound. *)
LEMMA PartlyUsedSound ==
  ASSUME NEW base, Bare(base), NEW hs \in Seq(Entry), NEW inf \in PartlyUsed(base, hs)
  PROVE  Sound(inf)
<1>1. Len(hs) \in Nat /\ DOMAIN hs = 1 .. Len(hs) /\ \A n \in DOMAIN hs : hs[n] \in Entry
  BY LenProperties, ElementOfSeq
<1>2. ASSUME NEW n \in 0 .. Len(hs) PROVE Sound(UseHandlers(base, SubSeq(hs, 1, n)))
  <2>1. SubSeq(hs, 1, n) \in Seq(Entry)
    BY <1>1, SubSeqProperties
  <2>. QED  BY <2>1, UseGathers, GatheredSound
<1>3. CASE inf \in {UseHandlers(base, SubSeq(hs, 1, n)) : n \in 0 .. Len(hs) - 1}
  <2>1. PICK n \in 0 .. Len(hs) - 1 : inf = UseHandlers(base, SubSeq(hs, 1, n))
    BY <1>3
  <2>2. n \in 0 .. Len(hs)
    BY <1>1
  <2>. QED  BY <1>2, <2>1, <2>2
<1>4. CASE inf \in {AddHandlerPartly(UseHandlers(base, SubSeq(hs, 1, n - 1)), hs[n]) :
                      n \in {k \in DOMAIN hs : hs[k].external}}
  <2>1. PICK n \in DOMAIN hs :
          inf = AddHandlerPartly(UseHandlers(base, SubSeq(hs, 1, n - 1)), hs[n])
    BY <1>4
  <2>2. n - 1 \in 0 .. Len(hs) /\ hs[n] \in Entry
    BY <1>1
  <2>3. Sound(UseHandlers(base, SubSeq(hs, 1, n - 1)))
    BY <1>2, <2>2
  <2>. QED  BY <2>1, <2>2, <2>3, PartlySound
<1>5. CASE inf = CloseOperations(UseHandlers(base, hs))
  BY <1>5, UseGathers, GatheredSound, ClosedSound
<1>. QED  BY <1>3, <1>4, <1>5 DEF PartlyUsed

(* A use that fails changes nothing in the end. *)
LEMMA UseFailsKeeps ==
  ASSUME PInv, UseFails
  PROVE  PInv'
<1>1. /\ is_used = FALSE /\ info = NoInfos /\ replacements = NoReplacements
      /\ used = <<>> /\ fixed = {}
  <2>1. is_used = FALSE
    BY DEF PInv, UseFails
  <2>2. used = <<>> /\ info = NoInfos /\ replacements = NoReplacements
    BY <2>1 DEF PInv, Intercepted
  <2>3. ToSet(<<>>) = {}
    BY DEF ToSet
  <2>. QED  BY <2>1, <2>2, <2>3 DEF PInv, Registered
<1>2. /\ FixAll \in Seq(Good) /\ IsFiniteSet(ToSet(FixAll))
  BY FixAllType
<1>3. info' = NoInfos
  <2>1. PICK inf \in PartlyUsed(Marked(info), AllHandlers(FixAll)) : info' = UnuseAll(inf)
    BY DEF UseFails
  <2>2. Sound(inf)
    BY <1>1, <1>2, <2>1, AllHandlersType, MarkedBare, PartlyUsedSound
  <2>. QED  BY <2>1, <2>2, UnuseCleans
<1>4. refs' = refs
  <2>1. refs \in [Module -> Nat]
    BY DEF PInv, Modules
  <2>2. refs' = PutModules(GetModules(refs, ToSet(FixAll)), ToSet(FixAll))
    BY DEF UseFails
  <2>. QED  BY <1>2, <2>1, <2>2, ReferencesBack
<1>5. fixed' = fixed /\ used' = used
      /\ UNCHANGED <<elems, replacements, is_used, loaded, bug>>
  BY <1>1 DEF UseFails
<1>6. UNCHANGED <<fixed, used, info, replacements, is_used, refs, loaded, bug>>
  BY <1>1, <1>3, <1>4, <1>5
<1>7. Registered'
  BY <1>5 DEF PInv, Registered
<1>. QED  BY <1>6, <1>7, SameUse DEF PInv

(* Release gives back all that use took. *)
LEMMA UnuseKeeps ==
  ASSUME PInv, Unuse
  PROVE  PInv'
<1>1. /\ used \in Seq(Good) /\ fixed = ToSet(used) /\ fixed \subseteq ToSet(elems)
      /\ IsFiniteSet(fixed) /\ is_used = TRUE
  BY ListFinite DEF PInv, Registered, Unuse
<1>2. /\ is_used' = FALSE /\ replacements' = NoReplacements
      /\ info' = UnuseAll(info) /\ refs' = PutModules(refs, fixed)
      /\ fixed' = {} /\ used' = Keep(used, {})
      /\ UNCHANGED <<elems, loaded, bug>>
  <2>1. fixed \cap ToSet(elems) = fixed /\ fixed \ ToSet(elems) = {}
        /\ ToSet(used) \ (fixed \cap ToSet(elems)) = {}
    BY <1>1
  <2>. QED  BY <2>1 DEF Unuse
<1>3. used' = <<>>
  BY <1>1, <1>2, KeepNone
<1>4. info' = NoInfos
  <2>. DEFINE hs == AllHandlers(used)
              g  == Gathered(Marked(NoInfos), hs)
  <2>1. hs \in Seq(Entry)
    BY <1>1, AllHandlersType
  <2>2. info = CloseOperations(g)
    BY <1>1 DEF PInv, Intercepted
  <2>. HIDE DEF hs
  <2>3. Sound(g)
    BY <2>1, MarkedBare, GatheredSound
  <2>. HIDE DEF g
  <2>4. Sound(info)
    BY <2>2, <2>3, ClosedSound
  <2>. QED  BY <1>2, <2>4, UnuseCleans
<1>5. Registered'
  <2>1. ToSet(<<>>) = {} /\ <<>> \in Seq(Good)
    BY EmptySeq DEF ToSet
  <2>. QED  BY <1>2, <1>3, <2>1 DEF PInv, Registered
<1>6. Modules'
  <2>. DEFINE c(m) == Cardinality({p \in fixed : ModuleOf[p] = m})
  <2>1. refs \in [Module -> Nat] /\ \A m \in Module : refs[m] = c(m)
    BY DEF PInv, Modules, ModuleRefsExact
  <2>2. refs' = [m \in Module |-> refs[m] - c(m)]
    BY <1>2 DEF PutModules
  <2>. HIDE DEF c
  <2>3. refs' \in [Module -> Nat] /\ \A m \in Module : refs'[m] = 0
    BY <2>1, <2>2
  <2>4. ASSUME NEW m \in Module
        PROVE  refs'[m] = Cardinality({p \in fixed' : ModuleOf[p] = m})
    <3>1. {p \in fixed' : ModuleOf[p] = m} = {}
      BY <1>2
    <3>. QED  BY <2>3, <3>1, FS_EmptySet
  <2>5. ModuleRefsExact'
    BY <2>4 DEF ModuleRefsExact
  <2>. QED  BY <1>2, <2>3, <2>5 DEF PInv, Modules
<1>7. Intercepted'
  BY <1>2, <1>3, <1>4 DEF Intercepted, NoInfos
<1>8. is_used' \in BOOLEAN /\ bug' \in BOOLEAN
  BY <1>2 DEF PInv
<1>. QED  BY <1>5, <1>6, <1>7, <1>8 DEF PInv

(* A module leaves the live ones only when none of its payloads is fixed. *)
LEMMA ModuleKeeps ==
  ASSUME PInv, NEW m \in Module, BeginUnload(m) \/ EndUnload(m) \/ Load(m)
  PROVE  PInv'
<1>1. UNCHANGED <<elems, fixed, used, info, replacements, is_used, refs, bug>>
  BY DEF BeginUnload, EndUnload, Load
<1>2. PICK s \in {"live", "going", "gone"} : loaded' = [loaded EXCEPT ![m] = s]
  BY DEF BeginUnload, EndUnload, Load
<1>3. loaded \in [Module -> {"live", "going", "gone"}]
  BY DEF PInv, Modules
<1>4. IsFiniteSet(fixed)
  BY ListFinite DEF PInv, Registered
<1>5. ASSUME NEW p \in fixed, ModuleOf[p] = m PROVE s = "live"
  <2>1. loaded[m] = "live"
    BY <1>5, PayloadAssumption DEF PInv, Modules, CanFix, ModulesOf
  <2>2. refs[m] # 0
    <3>1. refs[m] = Cardinality({q \in fixed : ModuleOf[q] = m})
      BY DEF PInv, Modules, ModuleRefsExact
    <3>2. Cardinality({q \in fixed : ModuleOf[q] = m}) = 0
            <=> \A q \in fixed : ModuleOf[q] # m
      BY <1>4, ProvidersCount
    <3>. QED  BY <1>5, <3>1, <3>2
  <2>. QED  BY <2>1, <2>2 DEF BeginUnload, EndUnload, Load
<1>6. /\ loaded' \in [Module -> {"live", "going", "gone"}]
      /\ \A n \in Module : n # m => loaded'[n] = loaded[n]
      /\ loaded'[m] = s
  BY <1>2, <1>3
<1>7. ASSUME NEW p \in fixed PROVE CanFix(p)'
  <2>1. ModuleOf[p] \in Module \cup {NULL}
    BY PayloadAssumption DEF PInv, Registered, Good, ToSet
  <2>2. \A n \in ModulesOf(p) : loaded[n] = "live"
    BY DEF PInv, Modules, CanFix
  <2>3. ASSUME NEW n \in ModulesOf(p) PROVE loaded'[n] = "live"
    BY <1>5, <1>6, <2>1, <2>2 DEF ModulesOf
  <2>. QED  BY <2>3 DEF CanFix, ModulesOf
<1>8. Modules'
  BY <1>1, <1>6, <1>7 DEF PInv, Modules, ModuleRefsExact
<1>9. Registered' /\ Intercepted' /\ is_used' \in BOOLEAN /\ bug' \in BOOLEAN
  BY <1>1 DEF PInv, Registered, Intercepted
<1>. QED  BY <1>8, <1>9 DEF PInv

(* every call, and every module that is loaded or unloaded, keeps it, *)
THEOREM StepKeeps == PInv /\ [Next]_vars => PInv'
<1>. SUFFICES ASSUME PInv, [Next]_vars PROVE PInv'
  OBVIOUS
<1>1. ASSUME NEW p \in Payload, AddPayload(p) PROVE PInv'
  BY <1>1, AddKeeps
<1>2. ASSUME NEW p \in Payload, RemovePayload(p) PROVE PInv'
  BY <1>2, RemoveKeeps
<1>3. CASE Use
  BY <1>3, UseKeeps
<1>4. CASE UseFails
  BY <1>4, UseFailsKeeps
<1>5. CASE Unuse
  BY <1>5, UnuseKeeps
<1>6. ASSUME NEW m \in Module, BeginUnload(m) \/ EndUnload(m) \/ Load(m) PROVE PInv'
  BY <1>6, ModuleKeeps
<1>7. CASE UNCHANGED vars
  <2>1. UNCHANGED <<fixed, used, info, replacements, is_used, refs, loaded, bug>>
        /\ elems' = elems
    BY <1>7 DEF vars
  <2>. QED  BY <2>1, SameUse DEF PInv, Registered
<1>. QED  BY <1>1, <1>2, <1>3, <1>4, <1>5, <1>6, <1>7 DEF Next

(* and so it holds at all times. *)
THEOREM Invariant == Spec => []PInv
BY Initially, StepKeeps, PTL DEF Spec
-----------------------------------------------------------------------------
(* Results. *)

LEMMA PInvGivesTypes == PInv => TypeOK
<1>. SUFFICES ASSUME PInv PROVE TypeOK
  OBVIOUS
<1>1. elems \in Seq(Good) /\ used \in Seq(Good) /\ Good \subseteq Payload
  BY DEF PInv, Registered, Good
<1>2. ToSet(elems) \subseteq Payload /\ ToSet(used) \subseteq Payload /\ fixed \subseteq Payload
  <2>1. ASSUME NEW s \in Seq(Good) PROVE ToSet(s) \subseteq Payload
    BY <1>1, ElementOfSeq, LenProperties DEF ToSet
  <2>. QED  BY <1>1, <2>1 DEF PInv, Registered
<1>3. info \in [Operation -> Info]
  <2>1. AllHandlers(used) \in Seq(Entry) /\ Marked(NoInfos) \in [Operation -> Info]
    BY <1>1, AllHandlersType, MarkedBare DEF Bare
  <2>2. CloseOperations(Gathered(Marked(NoInfos), AllHandlers(used))) \in [Operation -> Info]
    BY <2>1, GatheredType, ClosedIs
  <2>. QED  BY <2>2, NoInfoType DEF PInv, Intercepted, Bare
<1>4. /\ DOMAIN info = Operation
      /\ \A i \in Infos : i.is_intercepted \in BOOLEAN /\ i.default_is_intercepted \in BOOLEAN
  BY <1>3 DEF Infos, Info
<1>5. /\ DOMAIN replacements \subseteq Operation
      /\ \A op \in DOMAIN replacements :
           replacements[op] \in {"replace_all", "replace_null", "replace_not_null"}
  <2>1. CASE is_used
    BY <2>1 DEF PInv, Intercepted, CreateReplacements, ReplacementMode
  <2>2. CASE ~is_used
    BY <2>2 DEF PInv, Intercepted, NoReplacements
  <2>. QED  BY <2>1, <2>2
<1>. QED  BY <1>2, <1>4, <1>5 DEF PInv, Modules, TypeOK

(* Registered, fixed and used payloads are payloads, and replacements and
   references are of their kinds. *)
THEOREM TypeCorrect == Spec => []TypeOK
BY Invariant, PInvGivesTypes, PTL

LEMMA PInvGivesClean == PInv => CleanWhenUnused
<1>1. ToSet(<<>>) = {}
  BY DEF ToSet
<1>. QED  BY <1>1 DEF PInv, Registered, Intercepted, NoInfos, CleanWhenUnused

(* Whatever was registered, and wherever memory ran out, a failed start and a
   stop leave no handler, mark, fixed payload or replacement behind. *)
THEOREM NothingLeft == Spec => []CleanWhenUnused
BY Invariant, PInvGivesClean, PTL

LEMMA PInvGivesRefs == PInv => ModuleRefsExact
BY DEF PInv, Modules

(* For any payloads of any modules, a module is referenced once for each of
   its payloads in use. *)
THEOREM RefsAreExact == Spec => []ModuleRefsExact
BY Invariant, PInvGivesRefs, PTL

(* What is called for an operation that was gathered. *)
LEMMA HandlersInUse ==
  ASSUME PInv, is_used, NEW op \in Operation
  PROVE  /\ info[op].handlers = [w \in When |-> Keep(AllHandlers(used), For(op, w))]
         /\ info[op].default_handlers =
              [w \in When |-> Keep(AllHandlers(used), ForNull(op, w))]
         /\ info[op].is_intercepted =
              (Marked(NoInfos)[op].is_intercepted \/ Asked(op, AllHandlers(used)))
         /\ info[op].default_is_intercepted =
              (\/ Marked(NoInfos)[op].default_is_intercepted
               \/ AskedNull(op, AllHandlers(used))
               \/ \E op1 \in Operation :
                    /\ Group[op1] # 0 /\ Group[op1] = Group[op]
                    /\ \/ Marked(NoInfos)[op1].default_is_intercepted
                       \/ AskedNull(op1, AllHandlers(used)))
<1>. DEFINE hs == AllHandlers(used)
            b  == Marked(NoInfos)
            g  == Gathered(b, hs)
<1>1. hs \in Seq(Entry) /\ b \in [Operation -> Info]
  BY AllHandlersType, MarkedBare DEF PInv, Registered, Bare
<1>2. info = CloseOperations(g)
  BY DEF PInv, Intercepted
<1>. HIDE DEF hs, b
<1>3. g \in [Operation -> Info] /\ \A o \in Operation : g[o] = GatheredFor(b[o], hs, o)
  BY <1>1, GatheredType DEF Gathered
<1>. HIDE DEF g
<1>4. \A o \in Operation :
        /\ g[o].is_intercepted = (b[o].is_intercepted \/ Asked(o, hs))
        /\ g[o].handlers = [w \in When |-> Keep(hs, For(o, w))]
        /\ g[o].default_is_intercepted = (b[o].default_is_intercepted \/ AskedNull(o, hs))
        /\ g[o].default_handlers = [w \in When |-> Keep(hs, ForNull(o, w))]
  BY <1>3 DEF GatheredFor
<1>5. /\ info[op].is_intercepted = g[op].is_intercepted
      /\ info[op].handlers = g[op].handlers
      /\ info[op].default_handlers = g[op].default_handlers
      /\ info[op].default_is_intercepted =
           (g[op].default_is_intercepted
            \/ \E op1 \in Operation :
                 /\ Group[op1] # 0 /\ Group[op1] = Group[op]
                 /\ g[op1].default_is_intercepted)
  BY <1>2, <1>3, ClosedIs
<1>6. info[op].default_is_intercepted =
        (\/ b[op].default_is_intercepted \/ AskedNull(op, hs)
         \/ \E op1 \in Operation :
              /\ Group[op1] # 0 /\ Group[op1] = Group[op]
              /\ b[op1].default_is_intercepted \/ AskedNull(op1, hs))
  <2>1. ASSUME NEW o \in Operation
        PROVE  g[o].default_is_intercepted = (b[o].default_is_intercepted \/ AskedNull(o, hs))
    BY <1>4
  <2>. QED  BY <1>5, <2>1
<1>. QED  BY <1>4, <1>5, <1>6 DEF hs, b

LEMMA PInvGivesPresent == PInv => HandlersPresent
<1>. SUFFICES ASSUME PInv, NEW h \in Handlers
              PROVE  /\ h.payload \in fixed /\ h.payload \in ToSet(elems)
                     /\ \A m \in ModulesOf(h.payload) : loaded[m] = "live"
  BY DEF HandlersPresent
<1>1. PICK op \in Operation, w \in When :
        h \in ToSet(info[op].handlers[w]) \cup ToSet(info[op].default_handlers[w])
  BY DEF Handlers, HandlerArrays, Infos
<1>2. CASE ~is_used
  <2>1. info[op] = NoInfo
    BY <1>2 DEF PInv, Intercepted, NoInfos
  <2>2. info[op].handlers[w] = <<>> /\ info[op].default_handlers[w] = <<>>
    BY <2>1 DEF NoInfo, NoHandlers
  <2>3. ToSet(<<>>) = {}
    BY DEF ToSet
  <2>. QED  BY <1>1, <2>2, <2>3
<1>3. CASE is_used
  <2>1. /\ used \in Seq(Good) /\ fixed = ToSet(used) /\ fixed \subseteq ToSet(elems)
        /\ AllHandlers(used) \in Seq(Entry)
        /\ \A k \in ToSet(AllHandlers(used)) : k.payload \in ToSet(used)
    BY AllHandlersType DEF PInv, Registered
  <2>2. /\ info[op].handlers[w] = Keep(AllHandlers(used), For(op, w))
        /\ info[op].default_handlers[w] = Keep(AllHandlers(used), ForNull(op, w))
    BY <1>3, HandlersInUse
  <2>3. h \in ToSet(AllHandlers(used))
    BY <1>1, <2>1, <2>2, KeepElements
  <2>. QED  BY <2>1, <2>3 DEF PInv, Modules, CanFix
<1>. QED  BY <1>2, <1>3

(* No handler outlives its payload's registration, and the code of none is
   unloaded. *)
THEOREM HandlersArePresent == Spec => []HandlersPresent
BY Invariant, PInvGivesPresent, PTL

LEMMA PInvGivesReplaced == PInv => ReplacedAsWanted
<1>. DEFINE hs == AllHandlers(used)
            mode(op) == IF op \in DOMAIN replacements THEN replacements[op] ELSE "none"
<1>. SUFFICES ASSUME PInv, is_used, ~InterceptAll, NEW op \in Operation
              PROVE  /\ Wants(op) <=> mode(op) \in {"replace_all", "replace_not_null"}
                     /\ WantsNull(op) <=> mode(op) \in {"replace_all", "replace_null"}
  BY DEF ReplacedAsWanted
<1>1. hs \in Seq(Entry)
  BY AllHandlersType DEF PInv, Registered
<1>2. \A o \in Operation : /\ Marked(NoInfos)[o].is_intercepted = FALSE
                           /\ Marked(NoInfos)[o].default_is_intercepted = FALSE
  BY DEF Marked, NoInfos, NoInfo
<1>3. /\ info[op].is_intercepted <=> Asked(op, hs)
      /\ info[op].default_is_intercepted <=>
           \/ AskedNull(op, hs)
           \/ \E o \in Operation : /\ Group[o] # 0 /\ Group[o] = Group[op]
                                   /\ AskedNull(o, hs)
  <2>1. info[op].is_intercepted =
          (Marked(NoInfos)[op].is_intercepted \/ Asked(op, hs))
    BY HandlersInUse
  <2>2. info[op].default_is_intercepted =
          (\/ Marked(NoInfos)[op].default_is_intercepted
           \/ AskedNull(op, hs)
           \/ \E o \in Operation :
                /\ Group[o] # 0 /\ Group[o] = Group[op]
                /\ \/ Marked(NoInfos)[o].default_is_intercepted
                   \/ AskedNull(o, hs))
    BY HandlersInUse
  <2>3. info[op].is_intercepted <=> Asked(op, hs)
    BY <1>2, <2>1
  <2>4. info[op].default_is_intercepted <=>
           \/ AskedNull(op, hs)
           \/ \E o \in Operation : /\ Group[o] # 0 /\ Group[o] = Group[op]
                                   /\ AskedNull(o, hs)
    BY <1>2, <2>2
  <2>. QED  BY <2>3, <2>4
<1>4. Wants(op) <=> Asked(op, hs)
  BY DEF Wants, Asked
<1>5. WantsNull(op) <=> \/ AskedNull(op, hs)
                        \/ \E o \in Operation : /\ Group[o] # 0 /\ Group[o] = Group[op]
                                                /\ AskedNull(o, hs)
  <2>. HIDE DEF hs
  <2>1. \A h \in ToSet(hs) : h.op \in Operation
    <3>1. ToSet(hs) \subseteq Entry
      BY <1>1, LenProperties, ElementOfSeq DEF ToSet
    <3>. QED  BY <3>1 DEF Entry
  <2>2. ASSUME NEW h \in ToSet(hs), h.external,
               h.op = op \/ (Group[h.op] # 0 /\ Group[h.op] = Group[op])
        PROVE  \/ AskedNull(op, hs)
               \/ \E o \in Operation : /\ Group[o] # 0 /\ Group[o] = Group[op]
                                       /\ AskedNull(o, hs)
    <3>1. AskedNull(h.op, hs)
      BY <2>2 DEF AskedNull
    <3>. QED  BY <2>1, <2>2, <3>1
  <2>3. ASSUME \/ AskedNull(op, hs)
               \/ \E o \in Operation : /\ Group[o] # 0 /\ Group[o] = Group[op]
                                       /\ AskedNull(o, hs)
        PROVE  \E h \in ToSet(hs) :
                 h.external /\ (h.op = op \/ (Group[h.op] # 0 /\ Group[h.op] = Group[op]))
    BY <2>3 DEF AskedNull
  <2>. QED  BY <2>2, <2>3 DEF WantsNull, hs
<1>6. replacements =
        [o \in {o \in Operation : info[o].is_intercepted \/ info[o].default_is_intercepted}
           |-> ReplacementMode(info[o])]
  BY DEF PInv, Intercepted, CreateReplacements
<1>7. mode(op) = IF ~info[op].is_intercepted /\ ~info[op].default_is_intercepted THEN "none"
                 ELSE IF ~info[op].default_is_intercepted THEN "replace_not_null"
                 ELSE IF info[op].is_intercepted THEN "replace_all" ELSE "replace_null"
  BY <1>6 DEF ReplacementMode
<1>. HIDE DEF mode, hs
<1>. QED  BY <1>3, <1>4, <1>5, <1>7

(* For any payloads and groups, the operations which are replaced, and how,
   are those that the handlers in use ask for. *)
THEOREM ReplacementsWanted == Spec => []ReplacedAsWanted
BY Invariant, PInvGivesReplaced, PTL

LEMMA PInvGivesOrder == PInv => CalledInOrder
<1>. DEFINE hs == AllHandlers(used)
            Expected(op, d, w) ==
              Keep(hs, {h \in ToSet(hs) : h.op = op /\ h.when = w /\ (d => h.external)})
<1>. SUFFICES ASSUME PInv, is_used, NEW op \in Operation, NEW d \in BOOLEAN
              PROVE  InterceptionInfo(op, d) = [w \in When |-> Expected(op, d, w)]
  BY DEF CalledInOrder
<1>1. hs \in Seq(Entry) /\ ToSet(hs) \subseteq Entry
  <2>1. hs \in Seq(Entry)
    BY AllHandlersType DEF PInv, Registered
  <2>. HIDE DEF hs
  <2>. QED  BY <2>1, LenProperties, ElementOfSeq DEF ToSet
<1>2. /\ info[op].handlers = [w \in When |-> Keep(hs, For(op, w))]
      /\ info[op].default_handlers = [w \in When |-> Keep(hs, ForNull(op, w))]
  BY HandlersInUse
<1>. HIDE DEF hs
<1>3. ASSUME NEW w \in When
      PROVE  Expected(op, d, w) = IF d THEN Keep(hs, ForNull(op, w)) ELSE Keep(hs, For(op, w))
  <2>. DEFINE T == {h \in ToSet(hs) : h.op = op /\ h.when = w /\ (d => h.external)}
  <2>1. CASE d
    <3>1. ToSet(hs) \cap T = ToSet(hs) \cap ForNull(op, w)
      BY <1>1, <2>1 DEF ForNull
    <3>. HIDE DEF T
    <3>2. Keep(hs, T) = Keep(hs, ForNull(op, w))
      BY <1>1, <3>1, KeepSame
    <3>. QED  BY <2>1, <3>2 DEF T
  <2>2. CASE ~d
    <3>1. ToSet(hs) \cap T = ToSet(hs) \cap For(op, w)
      BY <1>1, <2>2 DEF For
    <3>. HIDE DEF T
    <3>2. Keep(hs, T) = Keep(hs, For(op, w))
      BY <1>1, <3>1, KeepSame
    <3>. QED  BY <2>2, <3>2 DEF T
  <2>. QED  BY <2>1, <2>2
<1>. HIDE DEF Expected
<1>. QED  BY <1>2, <1>3 DEF InterceptionInfo

(* For any payloads, the handlers of an operation are called in the order of
   their payloads' registration, and of each payload's array. *)
THEOREM OrderOfCalls == Spec => []CalledInOrder
BY Invariant, PInvGivesOrder, PTL

(* No call changes what is intercepted while the payloads are in use. *)
THEOREM FrozenWhileUsed == Spec => UsedIsFrozen
<1>1. PInv /\ [Next]_vars =>
        [is_used /\ is_used' => UNCHANGED <<info, replacements, used, fixed>>]_vars
  BY DEF Next, vars, AddPayload, RemovePayload, Use, UseFixed, UseFails, Unuse,
         BeginUnload, EndUnload, Load
<1>. QED  BY <1>1, Invariant, PTL DEF Spec, UsedIsFrozen
=============================================================================
