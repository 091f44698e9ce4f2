------------------------- MODULE Instrumentors_proofs -------------------------
(***************************************************************************)
(* Proofs about the normal and the foreign instrumentors.                  *)
(*                                                                         *)
(* For any interceptors, objects, operations structures and memory for     *)
(* copies, instrument data are counted and freed exactly, no structure     *)
(* mixes the replacements of two interceptors, every live object calls     *)
(* what the program wants, and the instrumentors do to their objects what  *)
(* Interception promises. For any foreign instrumentors bound to one       *)
(* normal instrumentor, foreign data are counted and freed exactly, the    *)
(* replacements in a structure lie in the order of the list, no pointer of *)
(* a watched object is to freed memory, and a call of an operation finds   *)
(* the one the program gave the object, having bound it on the way.        *)
(*                                                                         *)
(* The first part is about module Instrumentor alone. The heap is treated  *)
(* first, apart from the objects: what each operator of Instrumentor does  *)
(* to it and that it preserves HeapInv.                                    *)
(*                                                                         *)
(* The second part is about ForeignInstrumentor: first lists of foreign    *)
(* instrumentors and what they make of a structure, then what the          *)
(* operators do to heap, lists and reference counts, then the watches that *)
(* are counted, then the pointers, and last the call.                      *)
(***************************************************************************)
EXTENDS ForeignInstrumentor, ListLemmas, FiniteSetTheorems, TLAPS

(* The original operations of which interceptor i may have data. *)
Originals(i) == IF i \in Direct THEN DirectObject ELSE Ops \cup {NULL}

(* idata_table finds data by both of their pointers and by no other address,
   and an address belongs to one interceptor, which ops_table_global tells. *)
Tables(h) ==
  /\ \A i \in Interceptor : \A k \in DOMAIN h.idata[i] :
       /\ k \in DOMAIN h.table[i] /\ h.table[i][k] = k
       /\ h.idata[i][k].repl \in DOMAIN h.table[i]
       /\ h.table[i][h.idata[i][k].repl] = k
  /\ \A i \in Interceptor : \A a \in DOMAIN h.table[i] :
       /\ h.table[i][a] \in DOMAIN h.idata[i]
       /\ MyOperations(h, i, h.table[i][a], a)
  /\ \A i \in Interceptor : DOMAIN h.table[i] \subseteq h.global
  /\ \A a \in h.global : \E i \in Interceptor : a \in DOMAIN h.table[i]
  /\ \A i, j \in Interceptor : \A a \in DOMAIN h.table[i] :
       a \in DOMAIN h.table[j] => i = j

(* Data at place are keyed by the structure itself, and keep its original. *)
Mechanism(h) ==
  \A i \in Interceptor : \A k \in DOMAIN h.idata[i] :
    /\ k \in Originals(i)
    /\ i \in Direct => h.idata[i][k].kind = "at_place"
    /\ h.idata[i][k].kind = "at_place" =>
         k \in Struct /\ h.idata[i][k].repl = k /\ h.idata[i][k].saved = Content[k]

(* The copies allocated are those in ops_table_global. *)
Held(h) == DOMAIN h.mem = Struct \cup (h.global \cap Copy)

(* What the memory holds when the objects of L are live. *)
Plain(h, L) ==
  \A s \in Struct \ h.global : s \in Ops \cup L => h.mem[s] = Content[s]

PatchedAt(h, i, k) ==
  /\ h.idata[i][k].kind = "at_place" =>
       \/ h.mem[k] = Patch(i, Content[k])
       \/ k \in DirectObject /\ h.mem[k] = Content[k]
  /\ h.idata[i][k].kind = "use_copy" =>
       /\ h.mem[h.idata[i][k].repl] = Patch(i, ContentAt(k))
       /\ OpsAt(h, k) = ContentAt(k)

Patched(h) ==
  \A i \in Interceptor : \A k \in DOMAIN h.idata[i] : PatchedAt(h, i, k)

(* All of the invariant but what is in the structures that are replaced. *)
Base(h, L) == HeapOK(h) /\ Tables(h) /\ Mechanism(h) /\ Held(h) /\ Plain(h, L)

HeapInv(h, L) == Base(h, L) /\ Patched(h)

(* The key of data with which a direct object is watched is the object. *)
Keyed == \A i \in Direct : \A x \in DOMAIN watch[i] : watch[i][x] = x

IInv == TypeOK /\ HeapInv(heap, live) /\ Keyed /\ RefsExact /\ PointersOwned
-----------------------------------------------------------------------------
(* Replacements. *)

(* What the program puts in a structure has no intermediate operations, and
   a structure has those of one interceptor at most. *)
LEMMA IntermediateOnly ==
  ASSUME NEW i \in Interceptor, NEW ops \in ProgramOps, NEW f \in Field
  PROVE  /\ ops[f] \notin Intermediates
         /\ Patch(i, ops)[f] = ops[f] \/ Patch(i, ops)[f] = Intermediate(i, f)
         /\ \A j \in Interceptor :
              Patch(i, ops)[f] = Intermediate(j, f) => j = i
BY FunctionAssumption DEF ProgramOps, Patch, Intermediate, Intermediates

LEMMA PatchType ==
  ASSUME NEW i \in Interceptor, NEW ops \in ProgramOps
  PROVE  Patch(i, ops) \in AnyOps /\ ops \in AnyOps
BY DEF ProgramOps, AnyOps, Patch, Intermediate, Intermediates

(* Restoring a structure patched by the same interceptor, or one which is
   not patched at all, gives the original. *)
LEMMA RestoreOriginal ==
  ASSUME NEW i \in Interceptor, NEW ops \in ProgramOps
  PROVE  Restore(i, Patch(i, ops), ops) = ops /\ Restore(i, ops, ops) = ops
<1>1. ASSUME NEW f \in Field
      PROVE  Mode[i][f] = "no_replacement" => Patch(i, ops)[f] = ops[f]
  BY ModeAssumption DEF Patch, Replaces
<1>2. ASSUME NEW f \in Field
      PROVE  Restore(i, Patch(i, ops), ops)[f] = ops[f]
  BY <1>1, IntermediateOnly DEF Restore
<1>3. DOMAIN Restore(i, Patch(i, ops), ops) = Field
  BY DEF Restore
<1>4. Restore(i, Patch(i, ops), ops) = [f \in Field |-> ops[f]]
  BY <1>2 DEF Restore
<1>5. Restore(i, ops, ops) = [f \in Field |-> ops[f]]
  BY DEF Restore
<1>. QED  BY <1>4, <1>5 DEF ProgramOps

LEMMA ContentType ==
  /\ \A s \in Struct : Content[s] \in ProgramOps
  /\ \A a \in Struct \cup {NULL} : ContentAt(a) \in ProgramOps
BY ContentAssumption DEF ContentAt, ProgramOps, NoOps
-----------------------------------------------------------------------------
(* What the operators do to the heap. *)

LEMMA PutIs ==
  ASSUME NEW fun, NEW x, NEW v
  PROVE  /\ DOMAIN Put(fun, x, v) = DOMAIN fun \cup {x}
         /\ Put(fun, x, v)[x] = v
         /\ \A y \in DOMAIN fun : y # x => Put(fun, x, v)[y] = fun[y]
BY DEF Put

LEMMA DropIs ==
  ASSUME NEW fun, NEW S
  PROVE  /\ DOMAIN Drop(fun, S) = DOMAIN fun \ S
         /\ \A y \in DOMAIN fun \ S : Drop(fun, S)[y] = fun[y]
BY DEF Drop

LEMMA PutType ==
  ASSUME NEW S, NEW T, NEW fun, IsPartial(fun, S, T), NEW x \in S, NEW v \in T
  PROVE  IsPartial(Put(fun, x, v), S, T)
BY DEF IsPartial, Put

LEMMA DropType ==
  ASSUME NEW S, NEW T, NEW R, NEW fun, IsPartial(fun, S, T)
  PROVE  IsPartial(Drop(fun, R), S, T)
BY DEF IsPartial, Drop

(* The parts of a heap. *)
LEMMA Parts ==
  ASSUME NEW h, HeapOK(h), NEW i \in Interceptor
  PROVE  /\ DOMAIN h.idata = Interceptor /\ DOMAIN h.table = Interceptor
         /\ h.idata[i] \in [DOMAIN h.idata[i] -> InstrumentData]
         /\ h.table[i] \in [DOMAIN h.table[i] -> Key]
         /\ h.mem \in [DOMAIN h.mem -> AnyOps]
         /\ DOMAIN h.idata[i] \subseteq Key
         /\ DOMAIN h.table[i] \subseteq Address
         /\ h.global \subseteq Address
         /\ DOMAIN h.mem \subseteq Struct \cup Copy
BY DEF HeapOK, IsPartial

(* Heap h with the reference count of one data set to n. *)
SetRefs(h, i, k, n) == [h EXCEPT !.idata[i][k].refs = n]

LEMMA SetRefsIs ==
  ASSUME NEW h, HeapOK(h), NEW i \in Interceptor, NEW k \in DOMAIN h.idata[i],
         NEW n
  PROVE  SetRefs(h, i, k, n) =
           [idata  |-> [h.idata EXCEPT ![i][k].refs = n],
            table  |-> h.table, global |-> h.global, mem |-> h.mem]
<1>. DEFINE new == [h.idata EXCEPT ![i][k].refs = n]
<1>2. h = [idata |-> h.idata, table |-> h.table, global |-> h.global, mem |-> h.mem]
  BY DEF HeapOK
<1>1. SetRefs(h, i, k, n) = [h EXCEPT !.idata = new]
  BY <1>2, Parts DEF SetRefs
<1>. HIDE DEF new
<1>3. [h EXCEPT !.idata = new] =
        [idata |-> new, table |-> h.table, global |-> h.global, mem |-> h.mem]
  BY <1>2
<1>. QED  BY <1>1, <1>3 DEF new
-----------------------------------------------------------------------------
(* Data come and go. *)

(* Heap h2 differs from h in data k of interceptor i, if at all. *)
Elsewhere(h, h2, i, k) ==
  /\ \A j \in Interceptor \ {i} :
       h2.idata[j] = h.idata[j] /\ h2.table[j] = h.table[j]
  /\ DOMAIN h2.idata[i] \ {k} = DOMAIN h.idata[i] \ {k}
  /\ \A l \in DOMAIN h.idata[i] \ {k} : h2.idata[i][l] = h.idata[i][l]

(* Data d2 are data d with another reference count. *)
SameData(d, d2) ==
  /\ d2.kind = d.kind /\ d2.repl = d.repl
  /\ d.kind = "at_place" => d2.saved = d.saved

(* The data which heaps h and h2 have in common, and the structures these are
   for, differ in the reference counts at most. *)
Untouched(h, h2) ==
  \A j \in Interceptor : \A l \in DOMAIN h.idata[j] \cap DOMAIN h2.idata[j] :
    /\ SameData(h.idata[j][l], h2.idata[j][l])
    /\ h2.mem[h.idata[j][l].repl] = h.mem[h.idata[j][l].repl]
    /\ OpsAt(h2, l) = OpsAt(h, l)

(* Heap h2 is h with data d of interceptor i under key k, and memory m. *)
Added(h, i, k, d, m, h2) ==
  /\ h2 = [idata |-> h2.idata, table |-> h2.table,
           global |-> h2.global, mem |-> h2.mem]
  /\ h2.idata = [j \in Interceptor |-> h2.idata[j]]
  /\ h2.table = [j \in Interceptor |-> h2.table[j]]
  /\ \A j \in Interceptor \ {i} :
       h2.idata[j] = h.idata[j] /\ h2.table[j] = h.table[j]
  /\ h2.idata[i] = Put(h.idata[i], k, d)
  /\ h2.table[i] = Put(Put(h.table[i], k, k), d.repl, k)
  /\ h2.global = h.global \cup {k, d.repl}
  /\ h2.mem = m

(* New data, whose two pointers nobody uses. *)
New(h, i, k, d) ==
  /\ i \in Interceptor /\ k \in Originals(i) \ h.global
  /\ d \in InstrumentData /\ d.refs = 1
  /\ d.kind = "at_place" => k \in Struct /\ d.repl = k /\ d.saved = Content[k]
  /\ d.kind = "use_copy" => i \notin Direct /\ d.repl \in Copy \ DOMAIN h.mem

(* Memory m of heap h after it is patched for the new data. *)
PatchedMem(h, i, k, d, m) ==
  /\ DOMAIN m = DOMAIN h.mem \cup ({d.repl} \cap Copy)
  /\ m \in [DOMAIN m -> AnyOps]
  /\ \A a \in DOMAIN h.mem \ {d.repl} : m[a] = h.mem[a]
  /\ m[d.repl] = Patch(i, ContentAt(k))

LEMMA OriginalsType ==
  \A i \in Interceptor : /\ Originals(i) \subseteq Key
                         /\ Originals(i) \cap Copy = {}
BY AddressAssumption DEF Originals, Key, Struct

LEMMA DataType ==
  ASSUME NEW d \in InstrumentData
  PROVE  /\ d.kind \in {"at_place", "use_copy"}
         /\ d.refs \in Nat \ {0}
         /\ d.kind = "at_place" => d.repl \in Struct /\ d.saved \in AnyOps
         /\ d.kind = "use_copy" => d.repl \in Copy
         /\ d.repl \in Struct \cup Copy
BY DEF InstrumentData

LEMMA NewIs ==
  ASSUME NEW h, HeapOK(h), Tables(h), Held(h), NEW i, NEW k, NEW d, New(h, i, k, d)
  PROVE  /\ k \in Key /\ d.repl \in Address
         /\ d.repl \notin h.global
         /\ \A j \in Interceptor : /\ k \notin DOMAIN h.table[j]
                                   /\ d.repl \notin DOMAIN h.table[j]
         /\ k \notin DOMAIN h.idata[i]
<1>1. k \in Key /\ d.repl \in Address
  BY OriginalsType, DataType DEF New, Address
<1>2. d.repl \notin h.global
  BY DataType DEF New, Held
<1>3. ASSUME NEW j \in Interceptor
      PROVE  k \notin DOMAIN h.table[j] /\ d.repl \notin DOMAIN h.table[j]
  BY <1>2 DEF New, Tables
<1>. QED  BY <1>1, <1>2, <1>3 DEF Tables, New

(* What the tables of interceptor i look like then. *)
LEMMA AddedTo ==
  ASSUME NEW h, HeapOK(h), Tables(h), Held(h), NEW i, NEW k, NEW d, New(h, i, k, d),
         NEW m, NEW h2, Added(h, i, k, d, m, h2)
  PROVE  /\ DOMAIN h2.idata[i] = DOMAIN h.idata[i] \cup {k}
         /\ h2.idata[i][k] = d
         /\ \A l \in DOMAIN h.idata[i] : l # k /\ h2.idata[i][l] = h.idata[i][l]
         /\ DOMAIN h2.table[i] = DOMAIN h.table[i] \cup {k, d.repl}
         /\ h2.table[i][k] = k /\ h2.table[i][d.repl] = k
         /\ \A a \in DOMAIN h.table[i] :
              a \notin {k, d.repl} /\ h2.table[i][a] = h.table[i][a]
<1>1. i \in Interceptor
  BY DEF New
<1>2. /\ h2.idata[i] = Put(h.idata[i], k, d)
      /\ h2.table[i] = Put(Put(h.table[i], k, k), d.repl, k)
  BY DEF Added
<1>3. /\ k \notin DOMAIN h.idata[i]
      /\ k \notin DOMAIN h.table[i] /\ d.repl \notin DOMAIN h.table[i]
  BY <1>1, NewIs
<1>. QED  BY <1>2, <1>3 DEF Put

LEMMA AddedOK ==
  ASSUME NEW h, HeapOK(h), Tables(h), Held(h), NEW i, NEW k, NEW d, New(h, i, k, d),
         NEW m, PatchedMem(h, i, k, d, m), NEW h2, Added(h, i, k, d, m, h2)
  PROVE  HeapOK(h2)
<1>1. /\ i \in Interceptor /\ k \in Key /\ k \in Address
      /\ d.repl \in Address /\ d \in InstrumentData
  BY NewIs DEF New, Key, Address
<1>2. IsPartial(h2.mem, Struct \cup Copy, AnyOps)
  <2>1. d.repl \in Struct \cup Copy
    BY <1>1, DataType
  <2>. QED  BY <1>1, <2>1, Parts DEF Added, PatchedMem, IsPartial
<1>3. h2.global \subseteq Address
  BY <1>1, Parts DEF Added
<1>4. ASSUME NEW j \in Interceptor
      PROVE  /\ IsPartial(h2.idata[j], Key, InstrumentData)
             /\ IsPartial(h2.table[j], Address, Key)
  <2>1. /\ IsPartial(h.idata[j], Key, InstrumentData)
        /\ IsPartial(h.table[j], Address, Key)
    BY DEF HeapOK
  <2>2. CASE j # i
    BY <2>1, <2>2 DEF Added
  <2>3. CASE j = i
    <3>1. IsPartial(h2.idata[j], Key, InstrumentData)
      BY <1>1, <2>1, <2>3, PutType DEF Added
    <3>2. IsPartial(Put(h.table[i], k, k), Address, Key)
      BY <1>1, <2>1, <2>3, PutType
    <3>3. IsPartial(h2.table[j], Address, Key)
      BY <1>1, <2>3, <3>2, PutType DEF Added
    <3>. QED  BY <3>1, <3>3
  <2>. QED  BY <2>2, <2>3
<1>. QED  BY <1>2, <1>3, <1>4 DEF Added, HeapOK

LEMMA AddedTables ==
  ASSUME NEW h, HeapOK(h), Tables(h), Held(h), NEW i, NEW k, NEW d, New(h, i, k, d),
         NEW m, NEW h2, Added(h, i, k, d, m, h2)
  PROVE  Tables(h2)
<1>1. i \in Interceptor
  BY DEF New
<1>2. /\ \A j \in Interceptor \ {i} :
           h2.idata[j] = h.idata[j] /\ h2.table[j] = h.table[j]
      /\ h2.global = h.global \cup {k, d.repl}
  BY DEF Added
<1>3. /\ DOMAIN h2.idata[i] = DOMAIN h.idata[i] \cup {k}
      /\ h2.idata[i][k] = d
      /\ \A l \in DOMAIN h.idata[i] : l # k /\ h2.idata[i][l] = h.idata[i][l]
  BY AddedTo
<1>4. /\ DOMAIN h2.table[i] = DOMAIN h.table[i] \cup {k, d.repl}
      /\ h2.table[i][k] = k /\ h2.table[i][d.repl] = k
      /\ \A a \in DOMAIN h.table[i] :
           a \notin {k, d.repl} /\ h2.table[i][a] = h.table[i][a]
  BY AddedTo
<1>5. ASSUME NEW j \in Interceptor, NEW l \in DOMAIN h2.idata[j]
      PROVE  /\ l \in DOMAIN h2.table[j] /\ h2.table[j][l] = l
             /\ h2.idata[j][l].repl \in DOMAIN h2.table[j]
             /\ h2.table[j][h2.idata[j][l].repl] = l
  <2>1. CASE j # i
    BY <1>2, <2>1 DEF Tables
  <2>2. CASE j = i
    BY <1>1, <1>3, <1>4, <2>2 DEF Tables
  <2>. QED  BY <2>1, <2>2
<1>6. ASSUME NEW j \in Interceptor, NEW a \in DOMAIN h2.table[j]
      PROVE  /\ h2.table[j][a] \in DOMAIN h2.idata[j]
             /\ MyOperations(h2, j, h2.table[j][a], a)
  <2>1. CASE j # i
    <3>1. h2.idata[j] = h.idata[j] /\ h2.table[j] = h.table[j] /\ a \in DOMAIN h.table[j]
      BY <1>2, <2>1
    <3>2. h.table[j][a] \in DOMAIN h.idata[j] /\ MyOperations(h, j, h.table[j][a], a)
      BY <3>1 DEF Tables
    <3>. QED  BY <3>1, <3>2 DEF MyOperations
  <2>2. CASE j = i
    <3>1. CASE a \in DOMAIN h.table[i]
      <4>1. h.table[i][a] \in DOMAIN h.idata[i] /\ MyOperations(h, i, h.table[i][a], a)
        BY <1>1, <3>1 DEF Tables
      <4>. QED  BY <1>3, <1>4, <2>2, <3>1, <4>1 DEF MyOperations
    <3>2. CASE a \in {k, d.repl}
      BY <1>3, <1>4, <2>2, <3>2 DEF MyOperations
    <3>. QED  BY <1>4, <2>2, <3>1, <3>2
  <2>. QED  BY <2>1, <2>2
<1>7. \A j \in Interceptor : DOMAIN h2.table[j] \subseteq h2.global
  BY <1>1, <1>2, <1>4 DEF Tables
<1>8. \A a \in h2.global : \E j \in Interceptor : a \in DOMAIN h2.table[j]
  BY <1>1, <1>2, <1>4 DEF Tables
<1>9. ASSUME NEW j \in Interceptor, NEW j2 \in Interceptor,
             NEW a \in DOMAIN h2.table[j], a \in DOMAIN h2.table[j2]
      PROVE  j = j2
  <2>1. \A j3 \in Interceptor : /\ k \notin DOMAIN h.table[j3]
                                /\ d.repl \notin DOMAIN h.table[j3]
    BY NewIs
  <2>2. CASE j = i /\ j2 # i
    BY <1>2, <1>4, <1>9, <2>1, <2>2 DEF Tables
  <2>3. CASE j # i /\ j2 = i
    BY <1>2, <1>4, <1>9, <2>1, <2>3 DEF Tables
  <2>4. CASE j # i /\ j2 # i
    BY <1>2, <1>9, <2>4 DEF Tables
  <2>. QED  BY <2>2, <2>3, <2>4
<1>. QED  BY <1>5, <1>6, <1>7, <1>8, <1>9 DEF Tables

(* What is patched stays so in structures that are not touched. *)
LEMMA PatchedKept ==
  ASSUME NEW h, NEW h2, Mechanism(h), Patched(h), Untouched(h, h2),
         \A j \in Interceptor : \A l \in DOMAIN h2.idata[j] \ DOMAIN h.idata[j] :
           PatchedAt(h2, j, l)
  PROVE  Patched(h2)
<1>1. ASSUME NEW j \in Interceptor, NEW l \in DOMAIN h2.idata[j], l \in DOMAIN h.idata[j]
      PROVE  PatchedAt(h2, j, l)
  <2>1. PatchedAt(h, j, l) /\ SameData(h.idata[j][l], h2.idata[j][l])
    BY <1>1 DEF Patched, Untouched
  <2>2. /\ h2.mem[h.idata[j][l].repl] = h.mem[h.idata[j][l].repl]
        /\ OpsAt(h2, l) = OpsAt(h, l)
    BY <1>1 DEF Untouched
  <2>3. h.idata[j][l].kind = "at_place" => h.idata[j][l].repl = l
    BY <1>1 DEF Mechanism
  <2>. QED  BY <2>1, <2>2, <2>3 DEF PatchedAt, SameData
<1>. QED  BY <1>1 DEF Patched

(* New data leave every part of the invariant as it was. *)
LEMMA AddedBase ==
  ASSUME NEW h, NEW L, Base(h, L), NEW i, NEW k, NEW d, New(h, i, k, d),
         NEW m, PatchedMem(h, i, k, d, m), NEW h2, Added(h, i, k, d, m, h2)
  PROVE  /\ Base(h2, L) /\ Elsewhere(h, h2, i, k) /\ Untouched(h, h2)
         /\ k \notin DOMAIN h.idata[i]
         /\ k \in DOMAIN h2.idata[i] /\ h2.idata[i][k] = d
         /\ h2.mem[d.repl] = Patch(i, ContentAt(k))
         /\ d.kind = "use_copy" => OpsAt(h2, k) = ContentAt(k)
<1>1. i \in Interceptor /\ HeapOK(h) /\ Tables(h) /\ Held(h)
  BY DEF New, Base
<1>2. /\ \A j \in Interceptor \ {i} :
           h2.idata[j] = h.idata[j] /\ h2.table[j] = h.table[j]
      /\ h2.global = h.global \cup {k, d.repl}
      /\ h2.mem = m
  BY DEF Added
<1>3. /\ DOMAIN h2.idata[i] = DOMAIN h.idata[i] \cup {k}
      /\ h2.idata[i][k] = d
      /\ \A l \in DOMAIN h.idata[i] : l # k /\ h2.idata[i][l] = h.idata[i][l]
  BY <1>1, AddedTo
<1>4. HeapOK(h2) /\ Tables(h2)
  BY <1>1, AddedOK, AddedTables
<1>5. Elsewhere(h, h2, i, k) /\ k \notin DOMAIN h.idata[i]
  BY <1>2, <1>3 DEF Elsewhere
<1>6. Mechanism(h2)
  <2>1. ASSUME NEW j \in Interceptor, NEW l \in DOMAIN h2.idata[j]
        PROVE  \/ l \in DOMAIN h.idata[j] /\ h2.idata[j][l] = h.idata[j][l]
               \/ j = i /\ l = k /\ h2.idata[j][l] = d
    BY <1>2, <1>3
  <2>2. d.kind = "at_place" \/ i \notin Direct
    BY DataType DEF New
  <2>. QED  BY <2>1, <2>2 DEF Base, Mechanism, New
<1>7. d.repl \in Struct \cup Copy /\ k \notin Copy
  BY <1>1, DataType, OriginalsType DEF New
<1>8. Held(h2)
  BY <1>1, <1>2, <1>7 DEF Held, PatchedMem
<1>9. Plain(h2, L)
  BY <1>1, <1>2 DEF Base, Held, Plain, PatchedMem
<1>10. ASSUME NEW j \in Interceptor,
              NEW l \in DOMAIN h.idata[j] \cap DOMAIN h2.idata[j]
       PROVE  /\ SameData(h.idata[j][l], h2.idata[j][l])
              /\ h2.mem[h.idata[j][l].repl] = h.mem[h.idata[j][l].repl]
              /\ OpsAt(h2, l) = OpsAt(h, l)
  <2>1. l \in h.global /\ h.idata[j][l].repl \in h.global
    BY <1>1 DEF Tables
  <2>2. d.repl \notin h.global
    BY <1>1, NewIs
  <2>3. l \in Struct \cup {NULL}
    BY <1>1, Parts DEF Key
  <2>4. h.idata[j][l].repl \in Struct \cup Copy
    BY <1>1, Parts, DataType
  <2>5. /\ h.idata[j][l].repl \in DOMAIN h.mem
        /\ l \in Struct => l \in DOMAIN h.mem
    BY <1>1, <2>1, <2>4 DEF Held
  <2>6. h2.idata[j][l] = h.idata[j][l]
    BY <1>2, <1>3
  <2>. QED
    BY <1>2, <2>1, <2>2, <2>3, <2>5, <2>6 DEF PatchedMem, OpsAt, SameData
<1>11. /\ h2.mem[d.repl] = Patch(i, ContentAt(k))
       /\ d.kind = "use_copy" => OpsAt(h2, k) = ContentAt(k)
  <2>1. ASSUME d.kind = "use_copy" PROVE OpsAt(h2, k) = ContentAt(k)
    <3>1. k \in Ops \cup {NULL}
      BY <2>1 DEF New, Originals
    <3>2. k # NULL => /\ k \in Struct \ h.global
                      /\ k \in DOMAIN h.mem /\ k # d.repl
                      /\ h.mem[k] = Content[k]
      BY <1>1, <1>7, <2>1, <3>1, AddressAssumption DEF New, Base, Plain, Held, Struct
    <3>. QED  BY <1>2, <3>2 DEF PatchedMem, OpsAt, ContentAt
  <2>. QED  BY <1>2, <2>1 DEF PatchedMem
<1>. QED
  BY <1>3, <1>4, <1>5, <1>6, <1>8, <1>9, <1>10, <1>11 DEF Base, Untouched

(* Data of a kind whose structure is patched. *)
LEMMA PatchedThere ==
  ASSUME NEW h, NEW i \in Interceptor, NEW k \in DOMAIN h.idata[i], Mechanism(h),
         h.mem[h.idata[i][k].repl] = Patch(i, ContentAt(k)),
         h.idata[i][k].kind = "use_copy" => OpsAt(h, k) = ContentAt(k)
  PROVE  PatchedAt(h, i, k)
<1>1. h.idata[i][k].kind = "at_place" => k \in Struct /\ h.idata[i][k].repl = k
  BY DEF Mechanism
<1>2. k \in Struct => ContentAt(k) = Content[k]
  BY AddressAssumption DEF ContentAt
<1>. QED  BY <1>1, <1>2 DEF PatchedAt

LEMMA AddedInv ==
  ASSUME NEW h, NEW L, HeapInv(h, L), NEW i, NEW k, NEW d, New(h, i, k, d),
         NEW m, PatchedMem(h, i, k, d, m), NEW h2, Added(h, i, k, d, m, h2)
  PROVE  /\ HeapInv(h2, L) /\ Elsewhere(h, h2, i, k)
         /\ k \notin DOMAIN h.idata[i]
         /\ k \in DOMAIN h2.idata[i] /\ h2.idata[i][k] = d
<1>1. Base(h, L) /\ Mechanism(h) /\ Patched(h) /\ i \in Interceptor
  BY DEF HeapInv, Base, New
<1>2. /\ Base(h2, L) /\ Elsewhere(h, h2, i, k) /\ Untouched(h, h2)
      /\ k \notin DOMAIN h.idata[i]
      /\ k \in DOMAIN h2.idata[i] /\ h2.idata[i][k] = d
      /\ h2.mem[d.repl] = Patch(i, ContentAt(k))
      /\ d.kind = "use_copy" => OpsAt(h2, k) = ContentAt(k)
  BY <1>1, AddedBase
<1>3. PatchedAt(h2, i, k)
  BY <1>1, <1>2, PatchedThere DEF Base
<1>4. \A j \in Interceptor : \A l \in DOMAIN h2.idata[j] \ DOMAIN h.idata[j] :
        PatchedAt(h2, j, l)
  BY <1>2, <1>3 DEF Elsewhere
<1>5. Patched(h2)
  BY <1>1, <1>2, <1>4, PatchedKept
<1>. QED  BY <1>2, <1>5 DEF HeapInv

(* Heap h2 is h without data k of interceptor i, and with memory m. *)
Removed(h, i, k, m, h2) ==
  /\ h2 = [idata |-> h2.idata, table |-> h2.table,
           global |-> h2.global, mem |-> h2.mem]
  /\ h2.idata = [j \in Interceptor |-> h2.idata[j]]
  /\ h2.table = [j \in Interceptor |-> h2.table[j]]
  /\ \A j \in Interceptor \ {i} :
       h2.idata[j] = h.idata[j] /\ h2.table[j] = h.table[j]
  /\ h2.idata[i] = Drop(h.idata[i], {k})
  /\ h2.table[i] = Drop(h.table[i], {k, h.idata[i][k].repl})
  /\ h2.global = h.global \ {k, h.idata[i][k].repl}
  /\ h2.mem = m

(* Memory m of heap h after the structure of data k is restored, unless
   it is a direct object that is not live any more, and its copy freed. *)
RestoredMem(h, L, i, k, m) ==
  /\ DOMAIN m = DOMAIN h.mem \ ({h.idata[i][k].repl} \cap Copy)
  /\ m \in [DOMAIN m -> AnyOps]
  /\ \A a \in DOMAIN m \ {k} : m[a] = h.mem[a]
  /\ k \in Struct => m[k] = Content[k] \/ k \in DirectObject \ L

LEMMA RemovedOK ==
  ASSUME NEW h, HeapOK(h), NEW L, NEW i \in Interceptor, NEW k, NEW m,
         RestoredMem(h, L, i, k, m), NEW h2, Removed(h, i, k, m, h2)
  PROVE  HeapOK(h2)
<1>2. IsPartial(h2.mem, Struct \cup Copy, AnyOps) /\ h2.global \subseteq Address
  BY Parts DEF Removed, RestoredMem, IsPartial
<1>3. ASSUME NEW j \in Interceptor
      PROVE  /\ IsPartial(h2.idata[j], Key, InstrumentData)
             /\ IsPartial(h2.table[j], Address, Key)
  <2>1. /\ IsPartial(h.idata[j], Key, InstrumentData)
        /\ IsPartial(h.table[j], Address, Key)
    BY DEF HeapOK
  <2>. QED  BY <2>1, DropType DEF Removed
<1>. QED  BY <1>2, <1>3 DEF HeapOK, Removed

LEMMA RemovedTables ==
  ASSUME NEW h, HeapOK(h), Tables(h), NEW i \in Interceptor,
         NEW k \in DOMAIN h.idata[i], NEW m, NEW h2, Removed(h, i, k, m, h2)
  PROVE  Tables(h2)
<1>. DEFINE r == h.idata[i][k].repl
<1>1. /\ \A j \in Interceptor \ {i} :
           h2.idata[j] = h.idata[j] /\ h2.table[j] = h.table[j]
      /\ h2.global = h.global \ {k, r}
  BY DEF Removed
<1>2. /\ DOMAIN h2.idata[i] = DOMAIN h.idata[i] \ {k}
      /\ \A l \in DOMAIN h2.idata[i] : h2.idata[i][l] = h.idata[i][l]
      /\ DOMAIN h2.table[i] = DOMAIN h.table[i] \ {k, r}
      /\ \A a \in DOMAIN h2.table[i] : h2.table[i][a] = h.table[i][a]
  <2>1. h2.idata[i] = Drop(h.idata[i], {k}) /\ h2.table[i] = Drop(h.table[i], {k, r})
    BY DEF Removed
  <2>2. DOMAIN h2.idata[i] = DOMAIN h.idata[i] \ {k}
    BY <2>1, DropIs
  <2>3. DOMAIN h2.table[i] = DOMAIN h.table[i] \ {k, r}
    BY <2>1, DropIs
  <2>. QED  BY <2>1, <2>2, <2>3 DEF Drop
<1>3. /\ k \in DOMAIN h.table[i] /\ h.table[i][k] = k
      /\ r \in DOMAIN h.table[i] /\ h.table[i][r] = k
  BY DEF Tables
<1>. HIDE DEF r
<1>4. ASSUME NEW j \in Interceptor, NEW l \in DOMAIN h2.idata[j]
      PROVE  /\ l \in DOMAIN h2.table[j] /\ h2.table[j][l] = l
             /\ h2.idata[j][l].repl \in DOMAIN h2.table[j]
             /\ h2.table[j][h2.idata[j][l].repl] = l
  <2>1. CASE j # i
    BY <1>1, <2>1 DEF Tables
  <2>2. CASE j = i
    <3>1. /\ l \in DOMAIN h.idata[i] /\ l # k
          /\ h2.idata[i][l] = h.idata[i][l]
      BY <1>2, <2>2
    <3>2. /\ l \in DOMAIN h.table[i] /\ h.table[i][l] = l
          /\ h.idata[i][l].repl \in DOMAIN h.table[i]
          /\ h.table[i][h.idata[i][l].repl] = l
      BY <3>1 DEF Tables
    <3>. QED  BY <1>2, <1>3, <2>2, <3>1, <3>2
  <2>. QED  BY <2>1, <2>2
<1>5. ASSUME NEW j \in Interceptor, NEW a \in DOMAIN h2.table[j]
      PROVE  /\ h2.table[j][a] \in DOMAIN h2.idata[j]
             /\ MyOperations(h2, j, h2.table[j][a], a)
  <2>1. CASE j # i
    BY <1>1, <2>1 DEF Tables, MyOperations
  <2>2. CASE j = i
    <3>1. a \in DOMAIN h.table[i] /\ a \notin {k, r} /\ h2.table[i][a] = h.table[i][a]
      BY <1>2, <2>2
    <3>2. h.table[i][a] \in DOMAIN h.idata[i] /\ MyOperations(h, i, h.table[i][a], a)
      BY <3>1 DEF Tables
    <3>3. h.table[i][a] # k
      BY <3>1, <3>2 DEF MyOperations, r
    <3>. QED  BY <1>2, <2>2, <3>1, <3>2, <3>3 DEF MyOperations
  <2>. QED  BY <2>1, <2>2
<1>6. ASSUME NEW j \in Interceptor, NEW a \in DOMAIN h2.table[j]
      PROVE  a \in h2.global
  <2>1. CASE j # i
    <3>1. a \in DOMAIN h.table[j] /\ a \in h.global
      BY <1>1, <2>1 DEF Tables
    <3>2. a \notin {k, r}
      BY <1>3, <2>1, <3>1 DEF Tables
    <3>. QED  BY <1>1, <3>1, <3>2
  <2>2. CASE j = i
    BY <1>1, <1>2, <2>2 DEF Tables
  <2>. QED  BY <2>1, <2>2
<1>7. ASSUME NEW a \in h2.global
      PROVE  \E j \in Interceptor : a \in DOMAIN h2.table[j]
  <2>1. PICK j \in Interceptor : a \in DOMAIN h.table[j]
    BY <1>1 DEF Tables
  <2>. QED  BY <1>1, <1>2, <2>1
<1>8. \A j \in Interceptor : DOMAIN h2.table[j] \subseteq DOMAIN h.table[j]
  BY <1>1, <1>2
<1>. QED  BY <1>4, <1>5, <1>6, <1>7, <1>8 DEF Tables

(* Neither does the end of data, when their structure is restored. *)
LEMMA RemovedBase ==
  ASSUME NEW h, NEW L, Base(h, L), NEW i \in Interceptor,
         NEW k \in DOMAIN h.idata[i], NEW m, NEW L2 \in SUBSET L,
         RestoredMem(h, L2, i, k, m), NEW h2, Removed(h, i, k, m, h2)
  PROVE  /\ Base(h2, L2) /\ Elsewhere(h, h2, i, k) /\ Untouched(h, h2)
         /\ k \notin DOMAIN h2.idata[i]
         /\ h.idata[i][k].repl \in Copy => h.idata[i][k].repl \notin DOMAIN h2.mem
<1>. DEFINE r == h.idata[i][k].repl
<1>1. HeapOK(h) /\ Tables(h) /\ Held(h) /\ Mechanism(h)
  BY DEF Base
<1>2. /\ \A j \in Interceptor \ {i} :
           h2.idata[j] = h.idata[j] /\ h2.table[j] = h.table[j]
      /\ h2.idata[i] = Drop(h.idata[i], {k})
      /\ h2.global = h.global \ {k, r}
      /\ h2.mem = m
  BY DEF Removed
<1>3. /\ DOMAIN h2.idata[i] = DOMAIN h.idata[i] \ {k}
      /\ \A l \in DOMAIN h2.idata[i] : h2.idata[i][l] = h.idata[i][l]
  BY <1>2 DEF Drop
<1>4. HeapOK(h2) /\ Tables(h2)
  BY <1>1, RemovedOK, RemovedTables
<1>5. Elsewhere(h, h2, i, k) /\ k \notin DOMAIN h2.idata[i]
  BY <1>2, <1>3 DEF Elsewhere
<1>6. /\ r \in Struct \cup Copy /\ r \in Struct => r = k
      /\ k \notin Copy /\ k \in h.global /\ r \in h.global
  <2>1. h.idata[i][k] \in InstrumentData
    BY <1>1, Parts
  <2>2. /\ k \in Originals(i)
        /\ h.idata[i][k].kind = "at_place" => k \in Struct /\ r = k
    BY <1>1 DEF Mechanism
  <2>3. k \in h.global /\ r \in h.global
    <3>1. k \in DOMAIN h.table[i] /\ r \in DOMAIN h.table[i] /\ DOMAIN h.table[i] \subseteq h.global
      BY <1>1 DEF Tables
    <3>. QED  BY <3>1
  <2>4. k \notin Copy
    BY <2>2, OriginalsType
  <2>5. Struct \cap Copy = {}
    BY AddressAssumption
  <2>. QED  BY <2>1, <2>2, <2>3, <2>4, <2>5, DataType
<1>7. \A j \in Interceptor : \A l \in DOMAIN h2.idata[j] :
        /\ l \in DOMAIN h.idata[j] /\ h2.idata[j][l] = h.idata[j][l]
        /\ l \notin {k, r} /\ h.idata[j][l].repl \notin {k, r}
  <2>1. ASSUME NEW j \in Interceptor, NEW l \in DOMAIN h2.idata[j]
        PROVE  l \in DOMAIN h.idata[j] /\ h2.idata[j][l] = h.idata[j][l]
    BY <1>2, <1>3
  <2>2. ASSUME NEW j \in Interceptor, NEW l \in DOMAIN h2.idata[j]
        PROVE  l \in h2.global /\ h2.idata[j][l].repl \in h2.global
    BY <1>4 DEF Tables
  <2>. QED  BY <1>2, <2>1, <2>2
<1>. HIDE DEF r
<1>8. Mechanism(h2)
  BY <1>1, <1>7 DEF Mechanism
<1>9. Held(h2)
  <2>1. DOMAIN m = DOMAIN h.mem \ ({r} \cap Copy)
    BY DEF RestoredMem, r
  <2>2. Struct \cap Copy = {}
    BY AddressAssumption
  <2>. QED  BY <1>1, <1>2, <1>6, <2>1, <2>2 DEF Held
<1>10. \A a \in DOMAIN h2.mem \ {k} : h2.mem[a] = h.mem[a]
  BY <1>2 DEF RestoredMem
<1>11. Plain(h2, L2)
  <2>1. ASSUME NEW s \in Struct \ h2.global, s \in Ops \cup L2
        PROVE  h2.mem[s] = Content[s]
    <3>1. CASE s = k
      BY <1>2, <2>1, <3>1, AddressAssumption DEF RestoredMem, Struct
    <3>2. CASE s # k
      <4>1. s \notin h.global
        BY <1>2, <1>6, <2>1, <3>2
      <4>2. s \in DOMAIN h2.mem
        BY <1>9 DEF Held
      <4>. QED  BY <1>10, <2>1, <3>2, <4>1, <4>2 DEF Base, Plain
    <3>. QED  BY <3>1, <3>2
  <2>. QED  BY <2>1 DEF Plain
<1>12. ASSUME NEW j \in Interceptor,
              NEW l \in DOMAIN h.idata[j] \cap DOMAIN h2.idata[j]
       PROVE  /\ SameData(h.idata[j][l], h2.idata[j][l])
              /\ h2.mem[h.idata[j][l].repl] = h.mem[h.idata[j][l].repl]
              /\ OpsAt(h2, l) = OpsAt(h, l)
  <2>1. l \in h2.global /\ h2.idata[j][l].repl \in h2.global
    BY <1>4 DEF Tables
  <2>2. h2.idata[j][l].repl \in Struct \cup Copy
    BY <1>4, Parts, DataType
  <2>3. l \in Struct \cup {NULL}
    BY <1>4, Parts DEF Key
  <2>4. /\ h2.idata[j][l].repl \in DOMAIN h2.mem
        /\ l \in Struct => l \in DOMAIN h2.mem
    BY <1>9, <2>1, <2>2 DEF Held
  <2>. QED  BY <1>7, <1>10, <2>3, <2>4 DEF OpsAt, SameData
<1>13. r \in Copy => r \notin DOMAIN h2.mem
  BY <1>2 DEF RestoredMem, r
<1>. QED
  BY <1>4, <1>5, <1>8, <1>9, <1>11, <1>12, <1>13 DEF Base, Untouched, r

LEMMA RemovedInv ==
  ASSUME NEW h, NEW L, HeapInv(h, L), NEW i \in Interceptor,
         NEW k \in DOMAIN h.idata[i], NEW m, NEW L2 \in SUBSET L,
         RestoredMem(h, L2, i, k, m), NEW h2, Removed(h, i, k, m, h2)
  PROVE  /\ HeapInv(h2, L2) /\ Elsewhere(h, h2, i, k)
         /\ k \notin DOMAIN h2.idata[i]
<1>1. Base(h, L) /\ Mechanism(h) /\ Patched(h)
  BY DEF HeapInv, Base
<1>2. /\ Base(h2, L2) /\ Elsewhere(h, h2, i, k) /\ Untouched(h, h2)
      /\ k \notin DOMAIN h2.idata[i]
  BY <1>1, RemovedBase
<1>3. \A j \in Interceptor : \A l \in DOMAIN h2.idata[j] \ DOMAIN h.idata[j] :
        PatchedAt(h2, j, l)
  BY <1>2 DEF Elsewhere
<1>4. Patched(h2)
  BY <1>1, <1>2, <1>3, PatchedKept
<1>. QED  BY <1>2, <1>4 DEF HeapInv

LEMMA DataRefs ==
  ASSUME NEW d \in InstrumentData, NEW n \in Nat \ {0}
  PROVE  /\ [d EXCEPT !.refs = n] \in InstrumentData
         /\ SameData(d, [d EXCEPT !.refs = n]) /\ [d EXCEPT !.refs = n].refs = n
<1>1. CASE d \in [kind : {"at_place"}, repl : Struct, saved : AnyOps, refs : Nat \ {0}]
  BY <1>1 DEF InstrumentData, SameData
<1>2. CASE d \in [kind : {"use_copy"}, repl : Copy, refs : Nat \ {0}]
  BY <1>2 DEF InstrumentData, SameData
<1>. QED  BY <1>1, <1>2 DEF InstrumentData

(* A reference more or less leaves the invariant as it was. *)
LEMMA SetRefsBase ==
  ASSUME NEW h, NEW L, Base(h, L), NEW i \in Interceptor,
         NEW k \in DOMAIN h.idata[i], NEW n \in Nat \ {0},
         NEW h2, h2 = SetRefs(h, i, k, n)
  PROVE  /\ Base(h2, L) /\ Elsewhere(h, h2, i, k) /\ Untouched(h, h2)
         /\ DOMAIN h2.idata[i] = DOMAIN h.idata[i]
         /\ SameData(h.idata[i][k], h2.idata[i][k]) /\ h2.idata[i][k].refs = n
         /\ h2.table = h.table /\ h2.global = h.global /\ h2.mem = h.mem
<1>. DEFINE d  == h.idata[i][k]
            d2 == [h.idata[i][k] EXCEPT !.refs = n]
<1>1. /\ HeapOK(h) /\ Tables(h) /\ Mechanism(h) /\ Held(h) /\ Plain(h, L)
  BY DEF Base
<1>2. h2 = [idata  |-> [h.idata EXCEPT ![i][k].refs = n],
            table  |-> h.table, global |-> h.global, mem |-> h.mem]
  BY <1>1, SetRefsIs
<1>3. /\ h2 = [idata |-> h2.idata, table |-> h2.table,
               global |-> h2.global, mem |-> h2.mem]
      /\ h2.table = h.table /\ h2.global = h.global /\ h2.mem = h.mem
      /\ h2.idata = [h.idata EXCEPT ![i][k].refs = n]
  BY <1>2
<1>4. /\ h2.idata = [j \in Interceptor |-> h2.idata[j]]
      /\ \A j \in Interceptor \ {i} : h2.idata[j] = h.idata[j]
      /\ h2.idata[i] = [h.idata[i] EXCEPT ![k] = d2]
  BY <1>1, <1>3, Parts
<1>5. d \in InstrumentData /\ h.idata[i] \in [DOMAIN h.idata[i] -> InstrumentData]
  BY <1>1, Parts
<1>6. d2 \in InstrumentData /\ SameData(d, d2) /\ d2.refs = n
  BY <1>5, DataRefs
<1>. HIDE DEF d, d2
<1>7. /\ DOMAIN h2.idata[i] = DOMAIN h.idata[i] /\ h2.idata[i][k] = d2
      /\ \A l \in DOMAIN h.idata[i] \ {k} : h2.idata[i][l] = h.idata[i][l]
      /\ h2.idata[i] \in [DOMAIN h.idata[i] -> InstrumentData]
  BY <1>4, <1>5, <1>6
<1>8. \A j \in Interceptor :
        /\ DOMAIN h2.idata[j] = DOMAIN h.idata[j]
        /\ \A l \in DOMAIN h.idata[j] : SameData(h.idata[j][l], h2.idata[j][l])
  <2>1. ASSUME NEW j \in Interceptor, j # i
        PROVE  h2.idata[j] = h.idata[j]
    BY <1>4, <2>1
  <2>2. SameData(h.idata[i][k], h2.idata[i][k])
    BY <1>6, <1>7 DEF d
  <2>. QED  BY <1>7, <2>1, <2>2 DEF SameData
<1>9. HeapOK(h2)
  <2>1. ASSUME NEW j \in Interceptor PROVE IsPartial(h2.idata[j], Key, InstrumentData)
    <3>1. IsPartial(h.idata[j], Key, InstrumentData)
      BY <1>1 DEF HeapOK
    <3>2. CASE j # i
      BY <1>4, <3>1, <3>2
    <3>3. CASE j = i
      BY <1>7, <3>1, <3>3 DEF IsPartial
    <3>. QED  BY <3>2, <3>3
  <2>. QED  BY <1>1, <1>3, <1>4, <2>1 DEF HeapOK
<1>10. Tables(h2)
  <2>1. \A j \in Interceptor : \A l \in DOMAIN h2.idata[j] :
          l \in DOMAIN h.idata[j] /\ h2.idata[j][l].repl = h.idata[j][l].repl
    BY <1>8 DEF SameData
  <2>2. ASSUME NEW j \in Interceptor, NEW a \in DOMAIN h2.table[j]
        PROVE  /\ h2.table[j][a] \in DOMAIN h2.idata[j]
               /\ MyOperations(h2, j, h2.table[j][a], a)
    <3>1. /\ h.table[j][a] \in DOMAIN h.idata[j]
          /\ MyOperations(h, j, h.table[j][a], a)
      BY <1>1, <1>3 DEF Tables
    <3>. QED  BY <1>3, <1>8, <2>1, <3>1 DEF MyOperations
  <2>3. ASSUME NEW j \in Interceptor, NEW l \in DOMAIN h2.idata[j]
        PROVE  /\ l \in DOMAIN h2.table[j] /\ h2.table[j][l] = l
               /\ h2.idata[j][l].repl \in DOMAIN h2.table[j]
               /\ h2.table[j][h2.idata[j][l].repl] = l
    <3>1. /\ l \in DOMAIN h.table[j] /\ h.table[j][l] = l
          /\ h.idata[j][l].repl \in DOMAIN h.table[j]
          /\ h.table[j][h.idata[j][l].repl] = l
      BY <1>1, <2>1 DEF Tables
    <3>. QED  BY <1>3, <2>1, <3>1
  <2>. QED  BY <1>1, <1>3, <2>2, <2>3 DEF Tables
<1>11. Mechanism(h2)
  BY <1>1, <1>8 DEF Mechanism, SameData
<1>12. Held(h2) /\ Plain(h2, L)
  BY <1>1, <1>3 DEF Held, Plain
<1>13. Untouched(h, h2)
  BY <1>3, <1>8 DEF Untouched, OpsAt
<1>14. Elsewhere(h, h2, i, k)
  BY <1>3, <1>4, <1>7 DEF Elsewhere
<1>. QED
  BY <1>3, <1>6, <1>7, <1>9, <1>10, <1>11, <1>12, <1>13, <1>14 DEF Base, d
-----------------------------------------------------------------------------
(* The calls on instrument data. *)

(* Operations a, if nobody uses them, are of the program and not patched. *)
Fetchable(h, L, i, a) ==
  a \notin h.global => a \in Originals(i) /\ (a \in DirectObject => a \in L)

LEMMA CreateAtPlaceAdds ==
  ASSUME NEW h, NEW L, Base(h, L), NEW i \in Interceptor,
         NEW s \in AtPlace[i] \ h.global, Fetchable(h, L, i, s)
  PROVE  \E d, m : /\ New(h, i, s, d) /\ PatchedMem(h, i, s, d, m)
                   /\ d.repl = s
                   /\ Added(h, i, s, d, m, CreateAtPlace(h, i, s))
<1>. DEFINE d == [kind |-> "at_place", repl |-> s, saved |-> h.mem[s], refs |-> 1]
            m == [h.mem EXCEPT ![s] = Patch(i, @)]
<1>1. /\ s \in Struct /\ s \in Originals(i) /\ s \in DOMAIN h.mem
      /\ s # NULL /\ s \notin Copy
  BY InterceptorAssumption, AddressAssumption DEF Fetchable, Base, Held
<1>2. h.mem[s] = Content[s]
  BY <1>1 DEF Base, Plain, Fetchable, Struct
<1>3. Content[s] \in AnyOps /\ Patch(i, Content[s]) \in AnyOps
  BY <1>1, ContentType, PatchType
<1>4. h.mem \in [DOMAIN h.mem -> AnyOps]
  BY Parts DEF Base
<1>5. New(h, i, s, d)
  BY <1>1, <1>2, <1>3 DEF New, InstrumentData
<1>6. PatchedMem(h, i, s, d, m)
  BY <1>1, <1>2, <1>3, <1>4 DEF PatchedMem, ContentAt
<1>7. Put(Put(h.table[i], s, s), s, s) = Put(h.table[i], s, s)
  BY DEF Put
<1>8. Added(h, i, s, d, m, CreateAtPlace(h, i, s))
  BY <1>7, Parts DEF CreateAtPlace, Added, Base
<1>. QED  BY <1>5, <1>6, <1>8

LEMMA CreateCopyAdds ==
  ASSUME NEW h, NEW L, Base(h, L), NEW i \in Interceptor,
         NEW k, k \notin h.global, k \notin AtPlace[i], Fetchable(h, L, i, k),
         NEW c \in Copy \ DOMAIN h.mem
  PROVE  \E d, m : /\ New(h, i, k, d) /\ PatchedMem(h, i, k, d, m)
                   /\ d.repl = c
                   /\ Added(h, i, k, d, m, CreateCopy(h, i, k, c))
<1>. DEFINE d == [kind |-> "use_copy", repl |-> c, refs |-> 1]
            m == Put(h.mem, c, Patch(i, OpsAt(h, k)))
<1>1. k \in Originals(i) /\ i \notin Direct
  BY InterceptorAssumption DEF Fetchable, Originals, Struct
<1>2. OpsAt(h, k) = ContentAt(k)
  BY <1>1, AddressAssumption DEF Base, Plain, OpsAt, ContentAt, Originals, Struct
<1>3. Patch(i, ContentAt(k)) \in AnyOps
  BY <1>1, ContentType, PatchType DEF Originals, Struct
<1>4. h.mem \in [DOMAIN h.mem -> AnyOps]
  BY Parts DEF Base
<1>5. New(h, i, k, d)
  BY <1>1 DEF New, InstrumentData
<1>6. PatchedMem(h, i, k, d, m)
  BY <1>2, <1>3, <1>4 DEF PatchedMem, Put
<1>7. Added(h, i, k, d, m, CreateCopy(h, i, k, c))
  BY Parts DEF CreateCopy, Added, Base
<1>. QED  BY <1>5, <1>6, <1>7

(* Getting data succeeds only for operations no other interceptor uses; it
   finds data by either pointer, with one reference more, or creates them. *)
LEMMA GetDataBase ==
  ASSUME NEW h, NEW L, Base(h, L), NEW i \in Interceptor, NEW a,
         Fetchable(h, L, i, a), NEW d \in GetData(h, i, a)
  PROVE  /\ Base(d.heap, L) /\ Elsewhere(h, d.heap, i, d.key)
         /\ Untouched(h, d.heap)
         /\ d.key \in DOMAIN d.heap.idata[i]
         /\ MyOperations(d.heap, i, d.key, a)
         /\ a \in DOMAIN h.table[i] \/ a \notin h.global
         /\ \/ /\ d.key \in DOMAIN h.idata[i]
               /\ SameData(h.idata[i][d.key], d.heap.idata[i][d.key])
               /\ d.heap.idata[i][d.key].refs = h.idata[i][d.key].refs + 1
            \/ /\ d.key \notin DOMAIN h.idata[i] /\ d.key = a
               /\ d.heap.idata[i][d.key].refs = 1
               /\ d.heap.mem[d.heap.idata[i][d.key].repl] = Patch(i, ContentAt(d.key))
               /\ d.heap.idata[i][d.key].kind = "use_copy" =>
                    OpsAt(d.heap, d.key) = ContentAt(d.key)
<1>1. CASE a \in DOMAIN h.table[i]
  <2>. DEFINE k == h.table[i][a]
              n == h.idata[i][k].refs + 1
  <2>1. d.key = k /\ d.heap = Ref(h, i, k)
    BY <1>1 DEF GetData
  <2>2. k \in DOMAIN h.idata[i] /\ MyOperations(h, i, k, a)
    BY <1>1 DEF Base, Tables
  <2>3. h.idata[i][k].refs \in Nat \ {0}
    BY <2>2, Parts, DataType DEF Base
  <2>4. Ref(h, i, k) = SetRefs(h, i, k, n)
    BY DEF Ref, SetRefs
  <2>5. n \in Nat \ {0}
    BY <2>3
  <2>. HIDE DEF k, n
  <2>6. /\ Base(d.heap, L) /\ Elsewhere(h, d.heap, i, k) /\ Untouched(h, d.heap)
        /\ DOMAIN d.heap.idata[i] = DOMAIN h.idata[i]
        /\ SameData(h.idata[i][k], d.heap.idata[i][k])
        /\ d.heap.idata[i][k].refs = n
    BY <2>1, <2>2, <2>4, <2>5, SetRefsBase
  <2>. QED  BY <1>1, <2>1, <2>2, <2>6 DEF n, MyOperations, SameData
<1>2. ASSUME NEW e, NEW m, New(h, i, a, e), PatchedMem(h, i, a, e, m),
             d.key = a, Added(h, i, a, e, m, d.heap)
      PROVE  /\ Base(d.heap, L) /\ Elsewhere(h, d.heap, i, d.key)
             /\ Untouched(h, d.heap)
             /\ d.key \in DOMAIN d.heap.idata[i]
             /\ MyOperations(d.heap, i, d.key, a)
             /\ d.key \notin DOMAIN h.idata[i]
             /\ d.heap.idata[i][d.key].refs = 1
             /\ d.heap.mem[d.heap.idata[i][d.key].repl] = Patch(i, ContentAt(d.key))
             /\ d.heap.idata[i][d.key].kind = "use_copy" =>
                  OpsAt(d.heap, d.key) = ContentAt(d.key)
  BY <1>2, AddedBase DEF New, MyOperations
<1>3. CASE a \notin DOMAIN h.table[i] /\ a \in AtPlace[i]
  <2>1. a \notin h.global /\ d.key = a /\ d.heap = CreateAtPlace(h, i, a)
    BY <1>3 DEF GetData
  <2>2. PICK e, m : /\ New(h, i, a, e) /\ PatchedMem(h, i, a, e, m)
                    /\ Added(h, i, a, e, m, CreateAtPlace(h, i, a))
    BY <1>3, <2>1, CreateAtPlaceAdds
  <2>. QED  BY <1>2, <2>1, <2>2
<1>4. CASE a \notin DOMAIN h.table[i] /\ a \notin AtPlace[i]
  <2>1. a \notin h.global /\ d.key = a
    BY <1>4 DEF GetData
  <2>2. PICK c \in Copy \ DOMAIN h.mem : d.heap = CreateCopy(h, i, a, c)
    BY <1>4 DEF GetData
  <2>3. PICK e, m : /\ New(h, i, a, e) /\ PatchedMem(h, i, a, e, m)
                    /\ Added(h, i, a, e, m, CreateCopy(h, i, a, c))
    BY <1>4, <2>1, CreateCopyAdds
  <2>. QED  BY <1>2, <2>1, <2>2, <2>3
<1>. QED  BY <1>1, <1>3, <1>4

LEMMA GetDataInv ==
  ASSUME NEW h, NEW L, HeapInv(h, L), NEW i \in Interceptor, NEW a,
         Fetchable(h, L, i, a), NEW d \in GetData(h, i, a)
  PROVE  /\ HeapInv(d.heap, L) /\ Elsewhere(h, d.heap, i, d.key)
         /\ d.key \in DOMAIN d.heap.idata[i]
         /\ MyOperations(d.heap, i, d.key, a)
         /\ a \in DOMAIN h.table[i] \/ a \notin h.global
         /\ \/ /\ d.key \in DOMAIN h.idata[i]
               /\ SameData(h.idata[i][d.key], d.heap.idata[i][d.key])
               /\ d.heap.idata[i][d.key].refs = h.idata[i][d.key].refs + 1
            \/ /\ d.key \notin DOMAIN h.idata[i] /\ d.key = a
               /\ d.heap.idata[i][d.key].refs = 1
<1>1. Base(h, L) /\ Mechanism(h) /\ Patched(h)
  BY DEF HeapInv, Base
<1>2. /\ Base(d.heap, L) /\ Elsewhere(h, d.heap, i, d.key)
      /\ Untouched(h, d.heap)
      /\ d.key \in DOMAIN d.heap.idata[i]
      /\ MyOperations(d.heap, i, d.key, a)
      /\ a \in DOMAIN h.table[i] \/ a \notin h.global
      /\ \/ /\ d.key \in DOMAIN h.idata[i]
            /\ SameData(h.idata[i][d.key], d.heap.idata[i][d.key])
            /\ d.heap.idata[i][d.key].refs = h.idata[i][d.key].refs + 1
         \/ /\ d.key \notin DOMAIN h.idata[i] /\ d.key = a
            /\ d.heap.idata[i][d.key].refs = 1
            /\ d.heap.mem[d.heap.idata[i][d.key].repl] = Patch(i, ContentAt(d.key))
            /\ d.heap.idata[i][d.key].kind = "use_copy" =>
                 OpsAt(d.heap, d.key) = ContentAt(d.key)
  BY <1>1, GetDataBase
<1>3. ASSUME NEW j \in Interceptor,
             NEW l \in DOMAIN d.heap.idata[j] \ DOMAIN h.idata[j]
      PROVE  PatchedAt(d.heap, j, l)
  <2>1. j = i /\ l = d.key
    BY <1>2, <1>3 DEF Elsewhere
  <2>. QED  BY <1>2, <1>3, <2>1, PatchedThere DEF Base
<1>4. Patched(d.heap)
  BY <1>1, <1>2, <1>3, PatchedKept
<1>. QED  BY <1>2, <1>4 DEF HeapInv

LEMMA DestroyNorestoreRemoves ==
  ASSUME NEW h, HeapOK(h), NEW i \in Interceptor, NEW k
  PROVE  Removed(h, i, k, Drop(h.mem, {k, h.idata[i][k].repl} \cap Copy),
                 DestroyNorestore(h, i, k))
BY Parts DEF DestroyNorestore, Removed

(* Without restoring, what is left at the address of a direct object which
   is not live any more is nobody's concern. *)
LEMMA DestroyNorestoreInv ==
  ASSUME NEW h, NEW L, HeapInv(h, L), NEW i \in Direct,
         NEW k \in DOMAIN h.idata[i], NEW L2 \in SUBSET L, k \notin L2,
         NEW h2, h2 = DestroyNorestore(h, i, k)
  PROVE  /\ HeapInv(h2, L2) /\ Elsewhere(h, h2, i, k)
         /\ k \notin DOMAIN h2.idata[i] /\ h2.mem = h.mem
<1>. DEFINE r == h.idata[i][k].repl
            m == Drop(h.mem, {k, r} \cap Copy)
<1>1. i \in Interceptor /\ HeapOK(h)
  BY InterceptorAssumption DEF HeapInv, Base
<1>2. k \in DirectObject /\ k \in Struct /\ r = k /\ k \notin Copy
  BY <1>1, AddressAssumption DEF HeapInv, Base, Mechanism, Originals, Struct
<1>3. h.mem \in [DOMAIN h.mem -> AnyOps]
  BY <1>1, Parts
<1>4. m = h.mem
  BY <1>2, <1>3 DEF Drop
<1>5. RestoredMem(h, L2, i, k, m)
  BY <1>2, <1>3, <1>4 DEF RestoredMem
<1>6. Removed(h, i, k, m, h2)
  BY <1>1, DestroyNorestoreRemoves
<1>. HIDE DEF m
<1>7. h2.mem = h.mem
  BY <1>4, <1>6 DEF Removed
<1>. QED  BY <1>1, <1>5, <1>6, <1>7, RemovedInv

(* The heap after the structure of data k is restored. *)
LEMMA RestoreStructIs ==
  ASSUME NEW h, NEW L, Base(h, L), NEW i \in Interceptor,
         NEW k \in DOMAIN h.idata[i], PatchedAt(h, i, k), NEW g, g = RestoreStruct(h, i, k)
  PROVE  /\ g = [idata |-> h.idata, table |-> h.table,
                 global |-> h.global, mem |-> g.mem]
         /\ DOMAIN g.mem = DOMAIN h.mem /\ g.mem \in [DOMAIN h.mem -> AnyOps]
         /\ \A a \in DOMAIN h.mem \ {k} : g.mem[a] = h.mem[a]
         /\ k \in Struct => g.mem[k] = Content[k]
<1>. DEFINE d == h.idata[i][k]
<1>1. /\ HeapOK(h) /\ h.mem \in [DOMAIN h.mem -> AnyOps]
      /\ h = [idata |-> h.idata, table |-> h.table,
              global |-> h.global, mem |-> h.mem]
  BY Parts DEF Base, HeapOK
<1>2. d.kind \in {"at_place", "use_copy"} /\ k \in Key
  BY <1>1, Parts, DataType
<1>3. CASE d.kind = "at_place"
  <2>1. /\ k \in Struct /\ d.saved = Content[k] /\ k \in DOMAIN h.mem
        /\ h.mem[k] = Patch(i, Content[k]) \/ h.mem[k] = Content[k]
    BY <1>3 DEF Base, Mechanism, PatchedAt, Held
  <2>2. Restore(i, h.mem[k], d.saved) = Content[k] /\ Content[k] \in AnyOps
    BY <2>1, RestoreOriginal, ContentType, PatchType
  <2>3. g = [h EXCEPT !.mem = [h.mem EXCEPT ![k] = Content[k]]]
    BY <1>1, <1>3, <2>2 DEF RestoreStruct
  <2>4. g = [idata |-> h.idata, table |-> h.table, global |-> h.global,
             mem |-> [h.mem EXCEPT ![k] = Content[k]]]
    BY <1>1, <2>3
  <2>. QED  BY <1>1, <2>1, <2>2, <2>4
<1>4. CASE d.kind = "use_copy"
  <2>1. g = h
    BY <1>4 DEF RestoreStruct
  <2>2. k \in Struct => h.mem[k] = Content[k]
    BY <1>4, AddressAssumption DEF Base, PatchedAt, OpsAt, ContentAt
  <2>. QED  BY <1>1, <2>1, <2>2
<1>. QED  BY <1>2, <1>3, <1>4

LEMMA DestroyDataRemoves ==
  ASSUME NEW h, NEW L, Base(h, L), NEW i \in Interceptor,
         NEW k \in DOMAIN h.idata[i], PatchedAt(h, i, k)
  PROVE  \E m : /\ RestoredMem(h, L, i, k, m)
                /\ Removed(h, i, k, m, DestroyData(h, i, k))
                /\ k \in Struct => m[k] = Content[k]
<1>. DEFINE h2 == DestroyData(h, i, k)
<1>. DEFINE g == RestoreStruct(h, i, k)
            r == h.idata[i][k].repl
            m == Drop(g.mem, {k, r} \cap Copy)
<1>1. HeapOK(h) /\ Held(h) /\ k \notin Copy /\ r \in Struct \cup Copy
  BY Parts, DataType, OriginalsType DEF Base, Mechanism
<1>2. /\ g = [idata |-> h.idata, table |-> h.table,
               global |-> h.global, mem |-> g.mem]
      /\ DOMAIN g.mem = DOMAIN h.mem /\ g.mem \in [DOMAIN h.mem -> AnyOps]
      /\ \A a \in DOMAIN h.mem \ {k} : g.mem[a] = h.mem[a]
      /\ k \in Struct => g.mem[k] = Content[k]
  BY RestoreStructIs
<1>. HIDE DEF g
<1>3. HeapOK(g) /\ g.idata = h.idata /\ g.table = h.table /\ g.global = h.global
  BY <1>1, <1>2 DEF HeapOK, IsPartial
<1>4. h2 = DestroyNorestore(g, i, k)
  BY DEF DestroyData, g
<1>5. Removed(g, i, k, m, h2)
  BY <1>3, <1>4, DestroyNorestoreRemoves
<1>6. Removed(h, i, k, m, h2)
  BY <1>3, <1>5 DEF Removed
<1>7. /\ DOMAIN m = DOMAIN h.mem \ ({r} \cap Copy)
      /\ \A a \in DOMAIN m : m[a] = g.mem[a]
      /\ m \in [DOMAIN m -> AnyOps]
  BY <1>1, <1>2 DEF Drop
<1>8. k \in Struct => k \in DOMAIN m
  BY <1>1, <1>7 DEF Held
<1>. HIDE DEF m
<1>9. RestoredMem(h, L, i, k, m) /\ (k \in Struct => m[k] = Content[k])
  BY <1>2, <1>7, <1>8 DEF RestoredMem
<1>. QED  BY <1>6, <1>9

LEMMA DestroyDataBase ==
  ASSUME NEW h, NEW L, Base(h, L), NEW i \in Interceptor,
         NEW k \in DOMAIN h.idata[i], PatchedAt(h, i, k),
         NEW h2, h2 = DestroyData(h, i, k)
  PROVE  /\ Base(h2, L) /\ Elsewhere(h, h2, i, k) /\ Untouched(h, h2)
         /\ k \notin DOMAIN h2.idata[i]
         /\ h.idata[i][k].repl \in Copy => h.idata[i][k].repl \notin DOMAIN h2.mem
<1>1. PICK m : RestoredMem(h, L, i, k, m) /\ Removed(h, i, k, m, h2)
  BY DestroyDataRemoves
<1>. QED  BY <1>1, RemovedBase

(* What dropping a reference to data k does to them. *)
Released(h, h2, i, k) ==
  IF h.idata[i][k].refs = 1
  THEN k \notin DOMAIN h2.idata[i]
  ELSE /\ k \in DOMAIN h2.idata[i]
       /\ SameData(h.idata[i][k], h2.idata[i][k])
       /\ h2.idata[i][k].refs = h.idata[i][k].refs - 1

LEMMA ReleaseBase ==
  ASSUME NEW h, NEW L, Base(h, L), NEW i \in Interceptor,
         NEW k \in DOMAIN h.idata[i], h.idata[i][k].refs # 1,
         NEW h2, h2 = SetRefs(h, i, k, h.idata[i][k].refs - 1)
  PROVE  /\ Base(h2, L) /\ Elsewhere(h, h2, i, k) /\ Untouched(h, h2)
         /\ Released(h, h2, i, k) /\ h2.mem = h.mem
<1>. DEFINE n == h.idata[i][k].refs - 1
<1>1. n \in Nat \ {0}
  BY Parts, DataType DEF Base
<1>2. h2 = SetRefs(h, i, k, n)
  OBVIOUS
<1>. HIDE DEF n
<1>3. /\ Base(h2, L) /\ Elsewhere(h, h2, i, k) /\ Untouched(h, h2)
      /\ DOMAIN h2.idata[i] = DOMAIN h.idata[i]
      /\ SameData(h.idata[i][k], h2.idata[i][k]) /\ h2.idata[i][k].refs = n
      /\ h2.mem = h.mem
  BY <1>1, <1>2, SetRefsBase
<1>. QED  BY <1>3 DEF Released, n

LEMMA ReleaseInv ==
  ASSUME NEW h, NEW L, HeapInv(h, L), NEW i \in Interceptor,
         NEW k \in DOMAIN h.idata[i], h.idata[i][k].refs # 1,
         NEW h2, h2 = SetRefs(h, i, k, h.idata[i][k].refs - 1)
  PROVE  /\ HeapInv(h2, L) /\ Elsewhere(h, h2, i, k) /\ Released(h, h2, i, k)
         /\ h2.mem = h.mem
<1>1. Base(h, L) /\ Mechanism(h) /\ Patched(h)
  BY DEF HeapInv, Base
<1>2. /\ Base(h2, L) /\ Elsewhere(h, h2, i, k) /\ Untouched(h, h2)
      /\ Released(h, h2, i, k) /\ h2.mem = h.mem
  BY <1>1, ReleaseBase
<1>3. \A j \in Interceptor : \A l \in DOMAIN h2.idata[j] \ DOMAIN h.idata[j] :
        PatchedAt(h2, j, l)
  BY <1>2 DEF Elsewhere, Released
<1>4. Patched(h2)
  BY <1>1, <1>2, <1>3, PatchedKept
<1>. QED  BY <1>2, <1>4 DEF HeapInv

LEMMA UnrefBase ==
  ASSUME NEW h, NEW L, Base(h, L), NEW i \in Interceptor,
         NEW k \in DOMAIN h.idata[i], h.idata[i][k].refs = 1 => PatchedAt(h, i, k),
         NEW h2, h2 = Unref(h, i, k)
  PROVE  /\ Base(h2, L) /\ Elsewhere(h, h2, i, k) /\ Untouched(h, h2)
         /\ Released(h, h2, i, k)
         /\ h.idata[i][k].refs = 1 /\ h.idata[i][k].repl \in Copy
              => h.idata[i][k].repl \notin DOMAIN h2.mem
<1>1. CASE h.idata[i][k].refs = 1
  BY <1>1, DestroyDataBase DEF Unref, Released
<1>2. CASE h.idata[i][k].refs # 1
  BY <1>2, ReleaseBase DEF Unref, SetRefs
<1>. QED  BY <1>1, <1>2

LEMMA UnrefInv ==
  ASSUME NEW h, NEW L, HeapInv(h, L), NEW i \in Interceptor,
         NEW k \in DOMAIN h.idata[i], NEW h2, h2 = Unref(h, i, k)
  PROVE  HeapInv(h2, L) /\ Elsewhere(h, h2, i, k) /\ Released(h, h2, i, k)
<1>1. Base(h, L) /\ Mechanism(h) /\ Patched(h)
  BY DEF HeapInv, Base
<1>2. /\ Base(h2, L) /\ Elsewhere(h, h2, i, k) /\ Untouched(h, h2)
      /\ Released(h, h2, i, k)
  BY <1>1, UnrefBase DEF Patched
<1>3. \A j \in Interceptor : \A l \in DOMAIN h2.idata[j] \ DOMAIN h.idata[j] :
        PatchedAt(h2, j, l)
  BY <1>2 DEF Elsewhere, Released
<1>4. Patched(h2)
  BY <1>1, <1>2, <1>3, PatchedKept
<1>. QED  BY <1>2, <1>4 DEF HeapInv

LEMMA SmallerL ==
  ASSUME NEW h, NEW L, HeapInv(h, L), NEW L2 \in SUBSET L
  PROVE  HeapInv(h, L2)
BY DEF HeapInv, Base, Plain

LEMMA UnrefNorestoreInv ==
  ASSUME NEW h, NEW L, HeapInv(h, L), NEW i \in Direct,
         NEW k \in DOMAIN h.idata[i], NEW L2 \in SUBSET L, k \notin L2,
         NEW h2, h2 = UnrefNorestore(h, i, k)
  PROVE  /\ HeapInv(h2, L2) /\ Elsewhere(h, h2, i, k) /\ Released(h, h2, i, k)
         /\ h2.mem = h.mem
<1>1. CASE h.idata[i][k].refs = 1
  BY <1>1, DestroyNorestoreInv DEF UnrefNorestore, Released
<1>2. CASE h.idata[i][k].refs # 1
  <2>1. i \in Interceptor
    BY InterceptorAssumption
  <2>. QED  BY <1>2, <2>1, ReleaseInv, SmallerL DEF UnrefNorestore, SetRefs
<1>. QED  BY <1>1, <1>2

(* What the end of interceptor i does to the memory: the structures it used
   hold what the program stored there, and its copies are freed. *)
LEMMA DestroyAllMem ==
  ASSUME NEW h, NEW L, HeapInv(h, L), NEW i \in Interceptor,
         NEW h2, h2 = DestroyAll(h, i)
  PROVE  /\ DOMAIN h2.mem = DOMAIN h.mem \ (DOMAIN h.table[i] \cap Copy)
         /\ \A a \in Struct \cap DOMAIN h.table[i] : h2.mem[a] = Content[a]
         /\ \A a \in DOMAIN h2.mem \ DOMAIN h.table[i] : h2.mem[a] = h.mem[a]
         /\ h2.mem \in [DOMAIN h2.mem -> AnyOps]
<1>. DEFINE T == DOMAIN h.table[i]
            copies == {h.idata[i][k].repl : k \in DOMAIN h.idata[i]} \cap Copy
            inPlace == {k \in DOMAIN h.idata[i] : h.idata[i][k].kind = "at_place"}
            m == [a \in DOMAIN h.mem \ copies |->
                    IF a \in inPlace
                    THEN Restore(i, h.mem[a], h.idata[i][a].saved)
                    ELSE h.mem[a]]
<1>1. h2.mem = m
  BY DEF DestroyAll
<1>2. /\ HeapOK(h) /\ Tables(h) /\ Mechanism(h) /\ Held(h) /\ Patched(h)
      /\ h.mem \in [DOMAIN h.mem -> AnyOps] /\ Struct \subseteq DOMAIN h.mem
  BY Parts DEF HeapInv, Base, Held
<1>3. copies = T \cap Copy
  <2>1. ASSUME NEW a \in T \cap Copy
        PROVE  \E k \in DOMAIN h.idata[i] : a = h.idata[i][k].repl
    <3>1. h.table[i][a] \in DOMAIN h.idata[i] /\ MyOperations(h, i, h.table[i][a], a)
      BY <1>2, <2>1 DEF Tables
    <3>2. h.table[i][a] \notin Copy
      BY <1>2, <3>1, OriginalsType DEF Mechanism
    <3>. QED  BY <2>1, <3>1, <3>2 DEF MyOperations
  <2>2. \A k \in DOMAIN h.idata[i] : h.idata[i][k].repl \in T
    BY <1>2 DEF Tables
  <2>. QED  BY <2>1, <2>2
<1>4. \A k \in DOMAIN h.idata[i] :
        /\ h.idata[i][k].kind \in {"at_place", "use_copy"}
        /\ h.idata[i][k].kind = "use_copy" => h.idata[i][k].repl \in Copy
  BY <1>2, Parts, DataType
<1>. HIDE DEF copies
<1>5. ASSUME NEW a \in Struct \cap T
      PROVE  m[a] = Content[a]
  <2>1. a \notin Copy /\ a # NULL /\ a \in DOMAIN h.mem
    BY <1>2, AddressAssumption
  <2>2. a \in DOMAIN m
    BY <1>3, <2>1
  <2>3. a \in DOMAIN h.idata[i]
    <3>1. h.table[i][a] \in DOMAIN h.idata[i] /\ MyOperations(h, i, h.table[i][a], a)
      BY <1>2 DEF Tables
    <3>. QED  BY <1>2, <1>4, <2>1, <3>1 DEF MyOperations, Mechanism
  <2>4. CASE h.idata[i][a].kind = "at_place"
    <3>1. /\ h.mem[a] = Patch(i, Content[a]) \/ h.mem[a] = Content[a]
          /\ h.idata[i][a].saved = Content[a]
      BY <1>2, <2>3, <2>4 DEF Patched, PatchedAt, Mechanism
    <3>2. Restore(i, h.mem[a], h.idata[i][a].saved) = Content[a]
      BY <3>1, RestoreOriginal, ContentType
    <3>. QED  BY <2>2, <2>3, <2>4, <3>2
  <2>5. CASE h.idata[i][a].kind = "use_copy"
    <3>1. h.mem[a] = Content[a]
      BY <1>2, <2>1, <2>3, <2>5 DEF Patched, PatchedAt, OpsAt, ContentAt
    <3>. QED  BY <2>2, <2>5, <3>1
  <2>. QED  BY <1>4, <2>3, <2>4, <2>5
<1>6. ASSUME NEW a \in DOMAIN m \ T
      PROVE  m[a] = h.mem[a]
  <2>1. a \notin DOMAIN h.idata[i]
    BY <1>2, <1>6 DEF Tables
  <2>. QED  BY <1>6, <2>1
<1>7. ASSUME NEW a \in DOMAIN m
      PROVE  m[a] \in AnyOps
  <2>1. CASE a \in T
    <3>1. a \in Struct
      BY <1>2, <1>3, <1>7, <2>1, Parts
    <3>. QED  BY <1>5, <2>1, <3>1, ContentType, PatchType
  <2>2. CASE a \notin T
    BY <1>2, <1>6, <2>2
  <2>. QED  BY <2>1, <2>2
<1>8. m \in [DOMAIN m -> AnyOps]
  BY <1>7
<1>9. DOMAIN m = DOMAIN h.mem \ (T \cap Copy)
  BY <1>3
<1>. HIDE DEF m
<1>. QED  BY <1>1, <1>2, <1>5, <1>6, <1>8, <1>9

LEMMA DestroyAllInv ==
  ASSUME NEW h, NEW L, HeapInv(h, L), NEW i \in Interceptor,
         NEW h2, h2 = DestroyAll(h, i)
  PROVE  /\ HeapInv(h2, L)
         /\ \A j \in Interceptor \ {i} :
              h2.idata[j] = h.idata[j] /\ h2.table[j] = h.table[j]
         /\ DOMAIN h2.idata[i] = {}
<1>. DEFINE T == DOMAIN h.table[i]
<1>1. /\ HeapOK(h) /\ Tables(h) /\ Mechanism(h) /\ Held(h) /\ Plain(h, L)
      /\ Patched(h) /\ T \subseteq Address
  BY Parts DEF HeapInv, Base
<1>2. /\ h2 = [idata |-> h2.idata, table |-> h2.table,
               global |-> h2.global, mem |-> h2.mem]
      /\ h2.idata = [j \in Interceptor |-> h2.idata[j]]
      /\ h2.table = [j \in Interceptor |-> h2.table[j]]
      /\ \A j \in Interceptor \ {i} :
           h2.idata[j] = h.idata[j] /\ h2.table[j] = h.table[j]
      /\ h2.global = h.global \ T
  BY <1>1, Parts DEF DestroyAll
<1>3. /\ h2.idata[i] = Drop(h.idata[i], DOMAIN h.idata[i])
      /\ h2.table[i] = Drop(h.table[i], T)
  BY <1>1, Parts DEF DestroyAll
<1>4. DOMAIN h2.idata[i] = {} /\ DOMAIN h2.table[i] = {}
  BY <1>3 DEF Drop
<1>5. /\ DOMAIN h2.mem = DOMAIN h.mem \ (T \cap Copy)
      /\ \A a \in Struct \cap T : h2.mem[a] = Content[a]
      /\ \A a \in DOMAIN h2.mem \ T : h2.mem[a] = h.mem[a]
      /\ h2.mem \in [DOMAIN h2.mem -> AnyOps]
  BY DestroyAllMem
<1>. HIDE DEF T
<1>6. HeapOK(h2)
  <2>1. ASSUME NEW j \in Interceptor
        PROVE  /\ IsPartial(h2.idata[j], Key, InstrumentData)
               /\ IsPartial(h2.table[j], Address, Key)
    <3>1. /\ IsPartial(h.idata[j], Key, InstrumentData)
          /\ IsPartial(h.table[j], Address, Key)
      BY <1>1 DEF HeapOK
    <3>. QED  BY <1>2, <1>3, <3>1, DropType
  <2>2. IsPartial(h2.mem, Struct \cup Copy, AnyOps)
    BY <1>1, <1>5, Parts DEF IsPartial
  <2>3. h2.global \subseteq Address
    BY <1>1, <1>2, Parts
  <2>. QED  BY <1>2, <2>1, <2>2, <2>3 DEF HeapOK
<1>7. ASSUME NEW j \in Interceptor, NEW l \in DOMAIN h2.idata[j]
      PROVE  /\ j # i /\ l \in DOMAIN h.idata[j] /\ h2.idata[j] = h.idata[j]
             /\ h2.table[j] = h.table[j]
             /\ l \in h2.global /\ h.idata[j][l].repl \in h2.global
             /\ l \notin T /\ h.idata[j][l].repl \notin T
  <2>1. /\ j # i /\ l \in DOMAIN h.idata[j] /\ h2.idata[j] = h.idata[j]
        /\ h2.table[j] = h.table[j]
    BY <1>2, <1>4
  <2>2. l \in DOMAIN h.table[j] /\ h.idata[j][l].repl \in DOMAIN h.table[j]
    BY <1>1, <2>1 DEF Tables
  <2>3. \A a \in DOMAIN h.table[j] : a \in h.global \ T
    BY <1>1, <2>1 DEF Tables, T
  <2>. QED  BY <1>2, <2>1, <2>2, <2>3
<1>8. Tables(h2)
  <2>1. ASSUME NEW j \in Interceptor, NEW l \in DOMAIN h2.idata[j]
        PROVE  /\ l \in DOMAIN h2.table[j] /\ h2.table[j][l] = l
               /\ h2.idata[j][l].repl \in DOMAIN h2.table[j]
               /\ h2.table[j][h2.idata[j][l].repl] = l
    BY <1>1, <1>7 DEF Tables
  <2>2. ASSUME NEW j \in Interceptor, NEW a \in DOMAIN h2.table[j]
        PROVE  /\ h2.table[j][a] \in DOMAIN h2.idata[j]
               /\ MyOperations(h2, j, h2.table[j][a], a)
               /\ a \in h2.global
    <3>1. /\ j # i /\ h2.idata[j] = h.idata[j] /\ h2.table[j] = h.table[j]
      BY <1>2, <1>4
    <3>2. a \in h.global /\ a \notin T
      BY <1>1, <3>1 DEF Tables, T
    <3>. QED  BY <1>1, <1>2, <3>1, <3>2 DEF Tables, MyOperations
  <2>3. ASSUME NEW a \in h2.global
        PROVE  \E j \in Interceptor : a \in DOMAIN h2.table[j]
    <3>1. PICK j \in Interceptor : a \in DOMAIN h.table[j]
      BY <1>1, <1>2 DEF Tables
    <3>. QED  BY <1>2, <3>1 DEF T
  <2>4. \A j \in Interceptor : DOMAIN h2.table[j] \subseteq DOMAIN h.table[j]
    BY <1>2, <1>4
  <2>5. ASSUME NEW j \in Interceptor, NEW j2 \in Interceptor,
               NEW a \in DOMAIN h2.table[j], a \in DOMAIN h2.table[j2]
        PROVE  j = j2
    BY <1>1, <2>4, <2>5 DEF Tables
  <2>. QED  BY <2>1, <2>2, <2>3, <2>5 DEF Tables
<1>9. Mechanism(h2)
  BY <1>1, <1>7 DEF Mechanism
<1>10. Held(h2)
  BY <1>1, <1>2, <1>5, AddressAssumption DEF Held
<1>11. Plain(h2, L)
  <2>1. ASSUME NEW s \in Struct \ h2.global, s \in Ops \cup L
        PROVE  h2.mem[s] = Content[s]
    <3>1. CASE s \in T
      BY <1>5, <3>1
    <3>2. CASE s \notin T
      <4>1. s \notin h.global /\ s \in DOMAIN h2.mem
        BY <1>2, <1>10, <2>1, <3>2 DEF Held
      <4>. QED  BY <1>1, <1>5, <2>1, <3>2, <4>1 DEF Plain
    <3>. QED  BY <3>1, <3>2
  <2>. QED  BY <2>1 DEF Plain
<1>12. ASSUME NEW j \in Interceptor, NEW l \in DOMAIN h2.idata[j]
       PROVE  /\ h.idata[j][l].kind = "at_place" => h2.mem[l] = h.mem[l]
              /\ h.idata[j][l].kind = "use_copy" =>
                   /\ h2.mem[h.idata[j][l].repl] = h.mem[h.idata[j][l].repl]
                   /\ OpsAt(h2, l) = OpsAt(h, l)
  <2>1. h2.idata[j][l].repl \in Struct \cup Copy /\ l \in Struct \cup {NULL}
    BY <1>6, Parts, DataType DEF Key
  <2>2. /\ h.idata[j][l].repl \in DOMAIN h2.mem
        /\ l \in Struct => l \in DOMAIN h2.mem
    BY <1>7, <1>10, <2>1 DEF Held
  <2>3. h.idata[j][l].kind = "at_place" => l \in Struct
    BY <1>7, <1>9 DEF Mechanism
  <2>. QED  BY <1>5, <1>7, <2>1, <2>2, <2>3 DEF OpsAt
<1>13. Patched(h2)
  BY <1>1, <1>7, <1>12 DEF Patched, PatchedAt
<1>. QED  BY <1>2, <1>4, <1>6, <1>8, <1>9, <1>10, <1>11, <1>13 DEF HeapInv, Base

(* Creating data and dropping the only reference to them changes nothing. *)
LEMMA AddedRemoved ==
  ASSUME NEW h, NEW L, HeapInv(h, L), NEW i, NEW k, NEW d, New(h, i, k, d),
         NEW m, PatchedMem(h, i, k, d, m), k \in Struct => h.mem[k] = Content[k],
         NEW g, Added(h, i, k, d, m, g)
  PROVE  DestroyData(g, i, k) = h
<1>. DEFINE h2 == DestroyData(g, i, k)
<1>1. i \in Interceptor /\ HeapOK(h) /\ Tables(h) /\ Held(h)
  BY DEF New, HeapInv, Base
<1>2. /\ HeapInv(g, L) /\ k \in DOMAIN g.idata[i] /\ g.idata[i][k] = d
  BY AddedInv
<1>3. /\ \A j \in Interceptor \ {i} : g.idata[j] = h.idata[j] /\ g.table[j] = h.table[j]
      /\ g.global = h.global \cup {k, d.repl} /\ g.mem = m
  BY DEF Added
<1>4. /\ DOMAIN g.idata[i] = DOMAIN h.idata[i] \cup {k}
      /\ \A l \in DOMAIN h.idata[i] : l # k /\ g.idata[i][l] = h.idata[i][l]
      /\ DOMAIN g.table[i] = DOMAIN h.table[i] \cup {k, d.repl}
      /\ \A a \in DOMAIN h.table[i] :
           a \notin {k, d.repl} /\ g.table[i][a] = h.table[i][a]
  BY <1>1, AddedTo
<1>5. PICK m2 : /\ RestoredMem(g, L, i, k, m2) /\ Removed(g, i, k, m2, h2)
                /\ k \in Struct => m2[k] = Content[k]
  <2>1. Base(g, L) /\ PatchedAt(g, i, k)
    BY <1>1, <1>2 DEF HeapInv, Patched
  <2>. QED  BY <1>1, <1>2, <2>1, DestroyDataRemoves, Zenon
<1>. HIDE DEF h2
<1>6. HeapOK(h2)
  BY <1>1, <1>2, <1>5, RemovedOK DEF HeapInv, Base
<1>7. k \notin h.global /\ d.repl \notin h.global /\ k \notin Copy
  BY <1>1, NewIs, OriginalsType DEF New
<1>8. h2.global = h.global
  <2>1. h2.global = g.global \ {k, d.repl}
    BY <1>2, <1>5 DEF Removed
  <2>. QED  BY <1>3, <1>7, <2>1
<1>9. ASSUME NEW j \in Interceptor
      PROVE  h2.idata[j] = h.idata[j] /\ h2.table[j] = h.table[j]
  <2>1. CASE j # i
    BY <1>3, <1>5, <2>1 DEF Removed
  <2>2. CASE j = i
    <3>1. h2.idata[i] = Drop(g.idata[i], {k}) /\ h2.table[i] = Drop(g.table[i], {k, d.repl})
      BY <1>2, <1>5 DEF Removed
    <3>2. /\ h.idata[i] = [l \in DOMAIN h.idata[i] |-> h.idata[i][l]]
          /\ h.table[i] = [a \in DOMAIN h.table[i] |-> h.table[i][a]]
      BY <1>1, Parts
    <3>3. h2.idata[i] = h.idata[i]
      BY <1>4, <3>1, <3>2 DEF Drop
    <3>4. DOMAIN g.table[i] \ {k, d.repl} = DOMAIN h.table[i]
      BY <1>4
    <3>5. h2.table[i] = h.table[i]
      BY <1>4, <3>1, <3>2, <3>4 DEF Drop
    <3>. QED  BY <2>2, <3>3, <3>5
  <2>. QED  BY <2>1, <2>2
<1>10. h2.mem = h.mem
  <2>1. h2.mem = m2
    BY <1>5 DEF Removed
  <2>2. d.kind = "at_place" \/ d.kind = "use_copy"
    BY DataType DEF New
  <2>3. d.repl = k \/ d.repl \in Copy \ DOMAIN h.mem
    BY <2>2 DEF New
  <2>4. DOMAIN m2 = DOMAIN h.mem
    <3>1. /\ DOMAIN m2 = DOMAIN m \ ({d.repl} \cap Copy)
          /\ DOMAIN m = DOMAIN h.mem \cup ({d.repl} \cap Copy)
      BY <1>2, <1>3, <1>5 DEF RestoredMem, PatchedMem
    <3>. QED  BY <1>7, <2>3, <3>1
  <2>5. ASSUME NEW a \in DOMAIN h.mem
        PROVE  m2[a] = h.mem[a]
    <3>1. CASE a = k
      <4>1. a \in Struct
        BY <1>1, <1>7, <3>1, Parts
      <4>. QED  BY <1>5, <3>1, <4>1
    <3>2. CASE a # k
      <4>1. m2[a] = m[a]
        BY <1>3, <1>5, <2>4, <3>2 DEF RestoredMem
      <4>2. a # d.repl
        BY <2>3, <3>2
      <4>. QED  BY <4>1, <4>2 DEF PatchedMem
    <3>. QED  BY <3>1, <3>2
  <2>6. m2 \in [DOMAIN m2 -> AnyOps] /\ h.mem \in [DOMAIN h.mem -> AnyOps]
    BY <1>1, <1>5, Parts DEF RestoredMem
  <2>. QED  BY <2>1, <2>4, <2>5, <2>6
<1>11. h2.idata = h.idata /\ h2.table = h.table
  <2>1. /\ h.idata = [j \in Interceptor |-> h.idata[j]]
        /\ h.table = [j \in Interceptor |-> h.table[j]]
        /\ h2.idata = [j \in Interceptor |-> h2.idata[j]]
        /\ h2.table = [j \in Interceptor |-> h2.table[j]]
    BY <1>1, <1>6 DEF HeapOK
  <2>2. /\ [j \in Interceptor |-> h2.idata[j]] = [j \in Interceptor |-> h.idata[j]]
        /\ [j \in Interceptor |-> h2.table[j]] = [j \in Interceptor |-> h.table[j]]
    BY <1>9
  <2>. QED  BY <2>1, <2>2
<1>12. h2 = h
  BY <1>1, <1>6, <1>8, <1>10, <1>11 DEF HeapOK
<1>. QED  BY <1>12 DEF h2
(* Nor does taking a reference and dropping it. *)
LEMMA RefUnref ==
  ASSUME NEW h, HeapOK(h), NEW i \in Interceptor, NEW k \in DOMAIN h.idata[i]
  PROVE  Unref(Ref(h, i, k), i, k) = h
<1>. DEFINE d  == h.idata[i][k]
            n  == d.refs
            g  == SetRefs(h, i, k, n + 1)
            h2 == SetRefs(g, i, k, n)
<1>1. Ref(h, i, k) = g
  BY DEF Ref, SetRefs
<1>2. d \in InstrumentData /\ n \in Nat \ {0} /\ n + 1 \in Nat \ {0}
  BY Parts, DataType
<1>3. g = [idata |-> [h.idata EXCEPT ![i][k].refs = n + 1],
           table |-> h.table, global |-> h.global, mem |-> h.mem]
  BY SetRefsIs
<1>. HIDE DEF g
<1>4. /\ g.idata[i] = [h.idata[i] EXCEPT ![k] = [d EXCEPT !.refs = n + 1]]
      /\ \A j \in Interceptor \ {i} : g.idata[j] = h.idata[j]
      /\ g.idata = [j \in Interceptor |-> g.idata[j]]
      /\ g.table = h.table /\ g.global = h.global /\ g.mem = h.mem
  BY <1>3, Parts
<1>5. /\ DOMAIN g.idata[i] = DOMAIN h.idata[i]
      /\ g.idata[i][k] = [d EXCEPT !.refs = n + 1]
      /\ \A l \in DOMAIN h.idata[i] \ {k} : g.idata[i][l] = h.idata[i][l]
  BY <1>4, Parts
<1>6. /\ g.idata[i][k] \in InstrumentData
      /\ g.idata[i][k].refs = n + 1
      /\ [g.idata[i][k] EXCEPT !.refs = n] = d
  <2>1. CASE d \in [kind : {"at_place"}, repl : Struct, saved : AnyOps, refs : Nat \ {0}]
    BY <1>2, <1>5, <2>1 DEF InstrumentData
  <2>2. CASE d \in [kind : {"use_copy"}, repl : Copy, refs : Nat \ {0}]
    BY <1>2, <1>5, <2>2 DEF InstrumentData
  <2>. QED  BY <1>2, <2>1, <2>2 DEF InstrumentData
<1>7. HeapOK(g)
  <2>1. ASSUME NEW j \in Interceptor PROVE IsPartial(g.idata[j], Key, InstrumentData)
    <3>1. IsPartial(h.idata[j], Key, InstrumentData)
      BY DEF HeapOK
    <3>2. CASE j # i
      BY <1>4, <3>1, <3>2
    <3>3. CASE j = i
      BY <1>4, <1>5, <1>6, <3>1, <3>3 DEF IsPartial
    <3>. QED  BY <3>2, <3>3
  <2>2. g = [idata |-> g.idata, table |-> g.table, global |-> g.global, mem |-> g.mem]
    BY <1>3
  <2>. QED  BY <1>4, <2>1, <2>2 DEF HeapOK
<1>8. Unref(g, i, k) = h2
  <2>1. g.idata[i][k].refs # 1 /\ g.idata[i][k].refs - 1 = n
    BY <1>2, <1>6
  <2>. QED  BY <2>1 DEF Unref, SetRefs
<1>9. h2 = [idata |-> [g.idata EXCEPT ![i][k].refs = n],
            table |-> h.table, global |-> h.global, mem |-> h.mem]
  <2>1. k \in DOMAIN g.idata[i]
    BY <1>5
  <2>2. h2 = [idata |-> [g.idata EXCEPT ![i][k].refs = n],
              table |-> g.table, global |-> g.global, mem |-> g.mem]
    BY <1>7, <2>1, SetRefsIs
  <2>. QED  BY <1>4, <2>2
<1>10. [g.idata EXCEPT ![i][k].refs = n] = h.idata
  <2>. DEFINE m == [g.idata EXCEPT ![i][k].refs = n]
  <2>1. m = [j \in Interceptor |-> m[j]]
    BY <1>4
  <2>2. h.idata = [j \in Interceptor |-> h.idata[j]]
    BY DEF HeapOK
  <2>3. m[i] = [g.idata[i] EXCEPT ![k] = [g.idata[i][k] EXCEPT !.refs = n]]
    BY <1>4
  <2>4. m[i] = [g.idata[i] EXCEPT ![k] = d]
    BY <1>6, <2>3
  <2>5. m[i] = h.idata[i]
    BY <1>4, <2>4, Parts
  <2>6. \A j \in Interceptor \ {i} : m[j] = h.idata[j]
    BY <1>4
  <2>. HIDE DEF m
  <2>7. m = h.idata
    BY <2>1, <2>2, <2>5, <2>6
  <2>. QED  BY <2>7 DEF m
<1>11. h2 = h
  BY <1>9, <1>10 DEF HeapOK
<1>. QED  BY <1>1, <1>8, <1>11

(* So a watch that fails for lack of memory leaves the heap as it was. *)
LEMMA FailedWatchUndone ==
  ASSUME NEW h, NEW L, HeapInv(h, L), NEW i \in Interceptor, NEW a,
         Fetchable(h, L, i, a), NEW d \in GetData(h, i, a)
  PROVE  Unref(d.heap, i, d.key) = h
<1>1. CASE a \in DOMAIN h.table[i]
  <2>1. h.table[i][a] \in DOMAIN h.idata[i] /\ HeapOK(h)
    BY <1>1 DEF HeapInv, Base, Tables
  <2>2. d.key = h.table[i][a] /\ d.heap = Ref(h, i, h.table[i][a])
    BY <1>1 DEF GetData
  <2>. QED  BY <2>1, <2>2, RefUnref
<1>2. ASSUME NEW e, NEW m, New(h, i, a, e), PatchedMem(h, i, a, e, m),
             a \notin h.global, d.key = a, Added(h, i, a, e, m, d.heap)
      PROVE  Unref(d.heap, i, d.key) = h
  <2>1. a \in Struct => h.mem[a] = Content[a]
    BY <1>2 DEF HeapInv, Base, Plain, Fetchable, Struct
  <2>2. DestroyData(d.heap, i, a) = h
    BY <1>2, <2>1, AddedRemoved
  <2>3. d.heap.idata[i][a].refs = 1
    BY <1>2, AddedInv DEF New
  <2>. QED  BY <1>2, <2>2, <2>3 DEF Unref
<1>3. CASE a \notin DOMAIN h.table[i] /\ a \in AtPlace[i]
  <2>1. a \notin h.global /\ d.key = a /\ d.heap = CreateAtPlace(h, i, a)
    BY <1>3 DEF GetData
  <2>2. PICK e, m : /\ New(h, i, a, e) /\ PatchedMem(h, i, a, e, m)
                    /\ Added(h, i, a, e, m, CreateAtPlace(h, i, a))
    BY <1>3, <2>1, CreateAtPlaceAdds DEF HeapInv
  <2>. QED  BY <1>2, <2>1, <2>2
<1>4. CASE a \notin DOMAIN h.table[i] /\ a \notin AtPlace[i]
  <2>1. a \notin h.global /\ d.key = a
    BY <1>4 DEF GetData
  <2>2. PICK c \in Copy \ DOMAIN h.mem : d.heap = CreateCopy(h, i, a, c)
    BY <1>4 DEF GetData
  <2>3. PICK e, m : /\ New(h, i, a, e) /\ PatchedMem(h, i, a, e, m)
                    /\ Added(h, i, a, e, m, CreateCopy(h, i, a, c))
    BY <1>4, <2>1, CreateCopyAdds DEF HeapInv
  <2>. QED  BY <1>2, <2>1, <2>2, <2>3
<1>. QED  BY <1>1, <1>3, <1>4
-----------------------------------------------------------------------------
(* References. *)

(* The objects watched with data k; w is what an interceptor watches. *)
Users(w, k) == {x \in DOMAIN w : w[x] = k}

Typed(h, w) ==
  /\ DOMAIN w = Interceptor
  /\ \A i \in Interceptor : IsPartial(w[i], Watchable(i), DOMAIN h.idata[i])
  /\ \A i \in Direct : \A x \in DOMAIN w[i] : w[i][x] = x

(* The references are those of the watched objects and, for data <<i, k>> in
   E, one which the running call holds itself. *)
Counted(h, w, E) ==
  \A i \in Interceptor : \A k \in DOMAIN h.idata[i] :
    h.idata[i][k].refs =
      Cardinality(Users(w[i], k)) + (IF <<i, k>> \in E THEN 1 ELSE 0)

LEMMA UsersFinite ==
  ASSUME NEW h, NEW w, Typed(h, w), NEW i \in Interceptor, NEW k
  PROVE  IsFiniteSet(Users(w[i], k)) /\ Cardinality(Users(w[i], k)) \in Nat
<1>1. Users(w[i], k) \subseteq Object \cup DirectObject
  BY DEF Typed, IsPartial, Users, Watchable
<1>2. IsFiniteSet(Users(w[i], k))
  BY <1>1, FiniteAssumption, FS_Subset
<1>. QED  BY <1>2, FS_CardinalityType

(* A call that gets data holds a reference to them. *)
LEMMA GetCounted ==
  ASSUME NEW h, NEW w, Typed(h, w), Counted(h, w, {}),
         NEW i \in Interceptor, NEW k, NEW g,
         Elsewhere(h, g, i, k), k \in DOMAIN g.idata[i],
         \/ k \in DOMAIN h.idata[i] /\ g.idata[i][k].refs = h.idata[i][k].refs + 1
         \/ k \notin DOMAIN h.idata[i] /\ g.idata[i][k].refs = 1
  PROVE  Typed(g, w) /\ Counted(g, w, {<<i, k>>})
<1>1. \A j \in Interceptor : DOMAIN h.idata[j] \subseteq DOMAIN g.idata[j]
  BY DEF Elsewhere
<1>2. Typed(g, w)
  BY <1>1 DEF Typed, IsPartial
<1>3. ASSUME NEW j \in Interceptor, NEW l \in DOMAIN g.idata[j]
      PROVE  g.idata[j][l].refs =
               Cardinality(Users(w[j], l)) + (IF <<j, l>> \in {<<i, k>>} THEN 1 ELSE 0)
  <2>1. CASE j # i \/ l # k
    BY <2>1 DEF Elsewhere, Counted
  <2>2. CASE j = i /\ l = k /\ k \in DOMAIN h.idata[i]
    <3>1. h.idata[i][k].refs = Cardinality(Users(w[i], k)) + 0
      BY <2>2 DEF Counted
    <3>2. Cardinality(Users(w[i], k)) \in Nat
      BY UsersFinite
    <3>. QED  BY <2>2, <3>1, <3>2
  <2>3. CASE j = i /\ l = k /\ k \notin DOMAIN h.idata[i]
    <3>1. Users(w[i], k) = {}
      BY <2>3 DEF Typed, IsPartial, Users
    <3>2. Cardinality(Users(w[i], k)) = 0
      BY <3>1, FS_EmptySet
    <3>. QED  BY <2>3, <3>2
  <2>. QED  BY <2>1, <2>2, <2>3
<1>. QED  BY <1>2, <1>3 DEF Counted

(* The reference passes to a new watch. *)
LEMMA PutCounted ==
  ASSUME NEW h, NEW w, Typed(h, w), NEW i \in Interceptor,
         NEW k \in DOMAIN h.idata[i], Counted(h, w, {<<i, k>>}),
         NEW x \in Watchable(i) \ DOMAIN w[i], i \in Direct => k = x,
         NEW w2, w2 = [w EXCEPT ![i] = Put(@, x, k)]
  PROVE  Typed(h, w2) /\ Counted(h, w2, {})
<1>1. /\ DOMAIN w2 = Interceptor /\ w2[i] = Put(w[i], x, k)
      /\ \A j \in Interceptor \ {i} : w2[j] = w[j]
  BY DEF Typed
<1>2. Typed(h, w2)
  <2>1. IsPartial(w2[i], Watchable(i), DOMAIN h.idata[i])
    BY <1>1, PutType DEF Typed
  <2>2. i \in Direct => \A y \in DOMAIN w2[i] : w2[i][y] = y
    BY <1>1 DEF Typed, Put
  <2>3. Direct \subseteq Interceptor
    BY InterceptorAssumption
  <2>. QED  BY <1>1, <2>1, <2>2, <2>3 DEF Typed
<1>3. ASSUME NEW j \in Interceptor, NEW l \in DOMAIN h.idata[j]
      PROVE  h.idata[j][l].refs =
               Cardinality(Users(w2[j], l)) + (IF <<j, l>> \in {} THEN 1 ELSE 0)
  <2>1. CASE j # i \/ l # k
    <3>1. Users(w2[j], l) = Users(w[j], l)
      BY <1>1, <2>1 DEF Users, Put
    <3>. QED  BY <2>1, <3>1, UsersFinite DEF Counted
  <2>2. CASE j = i /\ l = k
    <3>1. Users(w2[i], k) = Users(w[i], k) \cup {x} /\ x \notin Users(w[i], k)
      BY <1>1 DEF Users, Put
    <3>2. Cardinality(Users(w2[i], k)) = Cardinality(Users(w[i], k)) + 1
      BY <3>1, UsersFinite, FS_AddElement
    <3>3. h.idata[i][k].refs = Cardinality(Users(w[i], k)) + 1
      BY DEF Counted
    <3>. QED  BY <2>2, <3>2, <3>3, UsersFinite
  <2>. QED  BY <2>1, <2>2
<1>. QED  BY <1>2, <1>3 DEF Counted

(* A watch that is dropped leaves its reference to the call. *)
LEMMA DropCounted ==
  ASSUME NEW h, NEW w, Typed(h, w), Counted(h, w, {}), NEW i \in Interceptor,
         NEW x \in DOMAIN w[i], NEW k, k = w[i][x],
         NEW w2, w2 = [w EXCEPT ![i] = Drop(@, {x})]
  PROVE  Typed(h, w2) /\ Counted(h, w2, {<<i, k>>})
<1>1. /\ DOMAIN w2 = Interceptor /\ w2[i] = Drop(w[i], {x})
      /\ \A j \in Interceptor \ {i} : w2[j] = w[j]
  BY DEF Typed
<1>2. Typed(h, w2)
  <2>1. IsPartial(w2[i], Watchable(i), DOMAIN h.idata[i])
    BY <1>1, DropType DEF Typed
  <2>2. i \in Direct => \A y \in DOMAIN w2[i] : w2[i][y] = y
    BY <1>1 DEF Typed, Drop
  <2>3. Direct \subseteq Interceptor
    BY InterceptorAssumption
  <2>. QED  BY <1>1, <2>1, <2>2, <2>3 DEF Typed
<1>3. ASSUME NEW j \in Interceptor, NEW l \in DOMAIN h.idata[j]
      PROVE  h.idata[j][l].refs =
               Cardinality(Users(w2[j], l)) + (IF <<j, l>> \in {<<i, k>>} THEN 1 ELSE 0)
  <2>1. CASE j # i \/ l # k
    <3>1. Users(w2[j], l) = Users(w[j], l)
      BY <1>1, <2>1 DEF Users, Drop
    <3>. QED  BY <2>1, <3>1 DEF Counted
  <2>2. CASE j = i /\ l = k
    <3>1. Users(w[i], k) = Users(w2[i], k) \cup {x} /\ x \notin Users(w2[i], k)
      BY <1>1 DEF Users, Drop
    <3>2. Cardinality(Users(w[i], k)) = Cardinality(Users(w2[i], k)) + 1
      BY <1>2, <3>1, UsersFinite, FS_AddElement
    <3>3. h.idata[i][l].refs = Cardinality(Users(w[i], k)) + 0
      BY <2>2 DEF Counted
    <3>4. Cardinality(Users(w2[i], k)) \in Nat
      BY <1>2, UsersFinite
    <3>. QED  BY <2>2, <3>2, <3>3, <3>4
  <2>. QED  BY <2>1, <2>2
<1>. QED  BY <1>2, <1>3 DEF Counted

(* A watch that moves passes the old reference for the new one. *)
LEMMA MoveCounted ==
  ASSUME NEW h, NEW w, Typed(h, w), NEW i \in Interceptor, i \notin Direct,
         NEW k \in DOMAIN h.idata[i], Counted(h, w, {<<i, k>>}),
         NEW x \in DOMAIN w[i], NEW old, old = w[i][x], old # k,
         NEW w2, w2 = [w EXCEPT ![i] = Put(@, x, k)]
  PROVE  Typed(h, w2) /\ Counted(h, w2, {<<i, old>>})
<1>1. /\ DOMAIN w2 = Interceptor /\ w2[i] = Put(w[i], x, k)
      /\ \A j \in Interceptor \ {i} : w2[j] = w[j]
  BY DEF Typed
<1>2. Typed(h, w2)
  <2>1. IsPartial(w2[i], Watchable(i), DOMAIN h.idata[i])
    <3>1. IsPartial(w[i], Watchable(i), DOMAIN h.idata[i])
      BY DEF Typed
    <3>2. x \in Watchable(i)
      BY <3>1 DEF IsPartial
    <3>. QED  BY <1>1, <3>1, <3>2, PutType
  <2>2. Direct \subseteq Interceptor
    BY InterceptorAssumption
  <2>. QED  BY <1>1, <2>1, <2>2 DEF Typed
<1>3. ASSUME NEW j \in Interceptor, NEW l \in DOMAIN h.idata[j]
      PROVE  h.idata[j][l].refs =
               Cardinality(Users(w2[j], l)) + (IF <<j, l>> \in {<<i, old>>} THEN 1 ELSE 0)
  <2>1. CASE j # i \/ l \notin {k, old}
    <3>1. Users(w2[j], l) = Users(w[j], l)
      BY <1>1, <2>1 DEF Users, Put
    <3>. QED  BY <2>1, <3>1 DEF Counted
  <2>2. CASE j = i /\ l = k
    <3>1. Users(w2[i], k) = Users(w[i], k) \cup {x} /\ x \notin Users(w[i], k)
      BY <1>1 DEF Users, Put
    <3>2. Cardinality(Users(w2[i], k)) = Cardinality(Users(w[i], k)) + 1
      BY <3>1, UsersFinite, FS_AddElement
    <3>3. h.idata[i][k].refs = Cardinality(Users(w[i], k)) + 1
      BY DEF Counted
    <3>. QED  BY <2>2, <3>2, <3>3, UsersFinite
  <2>3. CASE j = i /\ l = old
    <3>1. Users(w[i], old) = Users(w2[i], old) \cup {x} /\ x \notin Users(w2[i], old)
      BY <1>1 DEF Users, Put
    <3>2. Cardinality(Users(w[i], old)) = Cardinality(Users(w2[i], old)) + 1
      BY <1>2, <3>1, UsersFinite, FS_AddElement
    <3>3. h.idata[i][l].refs = Cardinality(Users(w[i], old)) + 0
      BY <2>3 DEF Counted
    <3>4. Cardinality(Users(w2[i], old)) \in Nat
      BY <1>2, UsersFinite
    <3>. QED  BY <2>3, <3>2, <3>3, <3>4
  <2>. QED  BY <2>1, <2>2, <2>3
<1>. QED  BY <1>2, <1>3 DEF Counted

(* The call drops its reference; data that go are used by no object. *)
LEMMA ReleaseCounted ==
  ASSUME NEW g, NEW w, Typed(g, w), NEW i \in Interceptor,
         NEW k \in DOMAIN g.idata[i], Counted(g, w, {<<i, k>>}),
         NEW h, Elsewhere(g, h, i, k), Released(g, h, i, k)
  PROVE  Typed(h, w) /\ Counted(h, w, {})
<1>1. g.idata[i][k].refs = Cardinality(Users(w[i], k)) + 1
  BY DEF Counted
<1>2. IsFiniteSet(Users(w[i], k)) /\ Cardinality(Users(w[i], k)) \in Nat
  BY UsersFinite
<1>3. ASSUME NEW j \in Interceptor, NEW x \in DOMAIN w[j]
      PROVE  w[j][x] \in DOMAIN h.idata[j]
  <2>1. w[j][x] \in DOMAIN g.idata[j]
    BY DEF Typed, IsPartial
  <2>2. CASE g.idata[i][k].refs # 1
    BY <2>1, <2>2 DEF Elsewhere, Released
  <2>3. CASE g.idata[i][k].refs = 1
    <3>1. Users(w[i], k) = {}
      BY <1>1, <1>2, <2>3, FS_EmptySet
    <3>2. j = i => w[j][x] # k
      BY <3>1 DEF Users
    <3>. QED  BY <2>1, <3>2 DEF Elsewhere
  <2>. QED  BY <2>2, <2>3
<1>4. Typed(h, w)
  BY <1>3 DEF Typed, IsPartial
<1>5. ASSUME NEW j \in Interceptor, NEW l \in DOMAIN h.idata[j]
      PROVE  h.idata[j][l].refs =
               Cardinality(Users(w[j], l)) + (IF <<j, l>> \in {} THEN 1 ELSE 0)
  <2>1. CASE j # i \/ l # k
    BY <2>1 DEF Elsewhere, Counted
  <2>2. CASE j = i /\ l = k
    BY <1>1, <1>2, <2>2 DEF Released
  <2>. QED  BY <2>1, <2>2
<1>. QED  BY <1>4, <1>5 DEF Counted
-----------------------------------------------------------------------------
(* The calls. *)

(* The invariant with the parts the lemmas above speak of. *)
LEMMA InvParts ==
  IInv <=>
    /\ HeapInv(heap, live) /\ Typed(heap, watch) /\ Counted(heap, watch, {})
    /\ field \in [Object -> Ops \cup Copy \cup {NULL}]
    /\ prog \in [Object -> Ops \cup {NULL}]
    /\ live \subseteq Object \cup DirectObject /\ lost \subseteq Object
    /\ PointersOwned
<1>1. Typed(heap, watch) => (RefsExact <=> Counted(heap, watch, {}))
  <2>1. ASSUME Typed(heap, watch), NEW i \in Interceptor, NEW k \in DOMAIN heap.idata[i]
        PROVE  Cardinality(Users(watch[i], k)) \in Nat
    BY <2>1, UsersFinite
  <2>2. ASSUME Typed(heap, watch), NEW i \in Interceptor, NEW k \in DOMAIN heap.idata[i]
        PROVE  Cardinality(Users(watch[i], k))
                 = Cardinality(Users(watch[i], k)) + (IF <<i, k>> \in {} THEN 1 ELSE 0)
    BY <2>1, <2>2
  <2>. QED  BY <2>2, Zenon DEF RefsExact, Counted, Users
<1>2. Direct \subseteq Interceptor
  BY InterceptorAssumption
<1>. QED  BY <1>1, <1>2 DEF IInv, TypeOK, Keyed, Typed, HeapInv, Base

(* No data change which both heaps have. *)
Steady(h, h2) ==
  \A j \in Interceptor : \A l \in DOMAIN h.idata[j] \cap DOMAIN h2.idata[j] :
    h2.idata[j][l].repl = h.idata[j][l].repl

LEMMA GetSteady ==
  ASSUME NEW h, NEW g, NEW i \in Interceptor, NEW k, Elsewhere(h, g, i, k),
         k \in DOMAIN h.idata[i] => SameData(h.idata[i][k], g.idata[i][k])
  PROVE  Steady(h, g)
BY DEF Elsewhere, SameData, Steady

LEMMA ReleaseSteady ==
  ASSUME NEW h, NEW g, NEW i \in Interceptor, NEW k, Elsewhere(h, g, i, k),
         Released(h, g, i, k)
  PROVE  Steady(h, g)
BY DEF Elsewhere, Released, SameData, Steady

(* What owns the pointer of a live object. *)
LEMMA PointerOf ==
  ASSUME IInv, NEW o \in Object \cap live
  PROVE  field[o] \notin heap.global => field[o] \in Ops \cup {NULL}
<1>1. ASSUME NEW i \in Interceptor, Watched(i, o),
             field[o] = heap.idata[i][watch[i][o]].repl
      PROVE  field[o] \in heap.global
  <2>1. watch[i][o] \in DOMAIN heap.idata[i]
    BY <1>1 DEF IInv, TypeOK, IsPartial, Watched
  <2>. QED  BY <1>1, <2>1 DEF IInv, HeapInv, Base, Tables
<1>2. prog[o] \in Ops \cup {NULL}
  BY DEF IInv, TypeOK
<1>. QED  BY <1>1, <1>2 DEF IInv, PointersOwned

(* The operations a watch asks for can be instrumented, if nobody uses them. *)
LEMMA WatchFetchable ==
  ASSUME IInv, NEW i \in Interceptor, NEW x \in Watchable(i) \cap live
  PROVE  Fetchable(heap, live, i, Pointer(x))
<1>1. CASE i \in Direct
  BY <1>1, AddressAssumption DEF Fetchable, Originals, Watchable, Pointer
<1>2. CASE i \notin Direct
  <2>1. x \in Object /\ Pointer(x) = field[x]
    BY <1>2 DEF Watchable, Pointer
  <2>2. Pointer(x) \notin heap.global => Pointer(x) \in Ops \cup {NULL}
    BY <2>1, PointerOf
  <2>3. (Ops \cup {NULL}) \cap DirectObject = {}
    BY AddressAssumption DEF Struct
  <2>. QED  BY <1>2, <2>2, <2>3 DEF Fetchable, Originals
<1>. QED  BY <1>1, <1>2

(* What holds of heap and watches after every call. *)
Kept ==
  /\ HeapInv(heap', live') /\ Typed(heap', watch') /\ Counted(heap', watch', {})
  /\ Steady(heap, heap')

(* Interceptor i, the only one, instruments the operations object x had. *)
Instrumented(i, x) ==
  /\ Pointer(x) \in DOMAIN heap.table[i] \/ Pointer(x) \notin heap.global
  /\ \E k \in DOMAIN heap'.idata[i] :
       /\ MyOperations(heap', i, k, Pointer(x))
       /\ SetWatch(i, x, k)
       /\ SetPointer(x, heap'.idata[i][k].repl)

LEMMA WatchNewStep ==
  ASSUME IInv, NEW i \in Interceptor, NEW x \in Watchable(i), WatchNew(i, x)
  PROVE  Kept /\ Instrumented(i, x)
<1>1. /\ x \in live /\ x \notin DOMAIN watch[i] /\ live' = live
      /\ HeapInv(heap, live) /\ Typed(heap, watch) /\ Counted(heap, watch, {})
  BY InvParts DEF WatchNew, Watched
<1>2. PICK d \in GetData(heap, i, Pointer(x)) :
        /\ heap' = d.heap
        /\ SetWatch(i, x, d.key)
        /\ SetPointer(x, d.heap.idata[i][d.key].repl)
  BY DEF WatchNew
<1>. DEFINE k == d.key
<1>3. /\ HeapInv(heap', live) /\ Elsewhere(heap, heap', i, k)
      /\ k \in DOMAIN heap'.idata[i]
      /\ MyOperations(heap', i, k, Pointer(x))
      /\ Pointer(x) \in DOMAIN heap.table[i] \/ Pointer(x) \notin heap.global
      /\ \/ /\ k \in DOMAIN heap.idata[i]
            /\ SameData(heap.idata[i][k], heap'.idata[i][k])
            /\ heap'.idata[i][k].refs = heap.idata[i][k].refs + 1
         \/ k \notin DOMAIN heap.idata[i] /\ heap'.idata[i][k].refs = 1
  <2>1. Fetchable(heap, live, i, Pointer(x))
    BY <1>1, WatchFetchable
  <2>2. /\ HeapInv(d.heap, live) /\ Elsewhere(heap, d.heap, i, d.key)
        /\ d.key \in DOMAIN d.heap.idata[i]
        /\ MyOperations(d.heap, i, d.key, Pointer(x))
    BY <1>1, <2>1, GetDataInv
  <2>3. \/ /\ d.key \in DOMAIN heap.idata[i]
           /\ SameData(heap.idata[i][d.key], d.heap.idata[i][d.key])
           /\ d.heap.idata[i][d.key].refs = heap.idata[i][d.key].refs + 1
        \/ d.key \notin DOMAIN heap.idata[i] /\ d.heap.idata[i][d.key].refs = 1
    BY <1>1, <2>1, GetDataInv
  <2>4. Pointer(x) \in DOMAIN heap.table[i] \/ Pointer(x) \notin heap.global
    BY <1>1, <2>1, GetDataInv
  <2>. QED  BY <1>2, <2>2, <2>3, <2>4
<1>. HIDE DEF k
<1>4. Typed(heap', watch) /\ Counted(heap', watch, {<<i, k>>})
  BY <1>1, <1>3, GetCounted
<1>5. i \in Direct => k = x
  <2>1. ASSUME i \in Direct
        PROVE  Pointer(x) = x /\ heap'.idata[i][k].repl = k
    BY <1>3, <2>1, AddressAssumption DEF Watchable, Pointer, HeapInv, Base, Mechanism
  <2>. QED  BY <1>3, <2>1 DEF MyOperations
<1>6. watch' = [watch EXCEPT ![i] = Put(@, x, k)]
  BY <1>2 DEF SetWatch, k
<1>7. Typed(heap', watch') /\ Counted(heap', watch', {})
  BY <1>1, <1>3, <1>4, <1>5, <1>6, PutCounted
<1>8. Steady(heap, heap')
  BY <1>3, GetSteady
<1>. QED
  BY <1>1, <1>2, <1>3, <1>7, <1>8 DEF Kept, Instrumented, k

LEMMA WatchMovedStep ==
  ASSUME IInv, NEW i \in Interceptor, NEW x \in Watchable(i), WatchMoved(i, x)
  PROVE  Kept /\ Instrumented(i, x) /\ i \notin Direct
<1>1. /\ x \in live /\ x \in DOMAIN watch[i] /\ live' = live
      /\ HeapInv(heap, live) /\ Typed(heap, watch) /\ Counted(heap, watch, {})
  BY InvParts DEF WatchMoved, Watched
<1>. DEFINE old == watch[i][x]
<1>2. old \in DOMAIN heap.idata[i] /\ ~MyOperations(heap, i, old, Pointer(x))
  BY <1>1 DEF Typed, IsPartial, WatchMoved
<1>3. i \notin Direct
  <2>1. ASSUME i \in Direct PROVE Pointer(x) = old
    BY <1>1, <2>1, AddressAssumption DEF Watchable, Pointer, Typed
  <2>. QED  BY <1>2, <2>1 DEF MyOperations
<1>4. PICK d \in GetData(heap, i, Pointer(x)) :
        /\ heap' = Unref(d.heap, i, old)
        /\ SetWatch(i, x, d.key)
        /\ SetPointer(x, d.heap.idata[i][d.key].repl)
  BY DEF WatchMoved
<1>. DEFINE k == d.key
            g == d.heap
<1>5. /\ HeapInv(g, live) /\ Elsewhere(heap, g, i, k)
      /\ k \in DOMAIN g.idata[i]
      /\ MyOperations(g, i, k, Pointer(x))
      /\ Pointer(x) \in DOMAIN heap.table[i] \/ Pointer(x) \notin heap.global
      /\ \/ /\ k \in DOMAIN heap.idata[i]
            /\ SameData(heap.idata[i][k], g.idata[i][k])
            /\ g.idata[i][k].refs = heap.idata[i][k].refs + 1
         \/ k \notin DOMAIN heap.idata[i] /\ g.idata[i][k].refs = 1
  BY <1>1, <1>4, WatchFetchable, GetDataInv
<1>6. heap' = Unref(g, i, old) /\ watch' = [watch EXCEPT ![i] = Put(@, x, k)]
  BY <1>4 DEF SetWatch
<1>7. SetPointer(x, g.idata[i][k].repl)
  BY <1>4
<1>. HIDE DEF k, g, old
<1>8. old # k
  BY <1>2, <1>5 DEF MyOperations, SameData
<1>9. old \in DOMAIN g.idata[i]
  BY <1>2, <1>5, <1>8 DEF Elsewhere
<1>10. HeapInv(heap', live) /\ Elsewhere(g, heap', i, old) /\ Released(g, heap', i, old)
  BY <1>5, <1>6, <1>9, UnrefInv
<1>11. k \in DOMAIN heap'.idata[i] /\ heap'.idata[i][k] = g.idata[i][k]
  BY <1>5, <1>8, <1>10 DEF Elsewhere
<1>12. Typed(g, watch) /\ Counted(g, watch, {<<i, k>>})
  BY <1>1, <1>5, GetCounted
<1>13. Typed(g, watch') /\ Counted(g, watch', {<<i, old>>})
  BY <1>1, <1>3, <1>5, <1>6, <1>8, <1>12, MoveCounted DEF old
<1>14. Typed(heap', watch') /\ Counted(heap', watch', {})
  BY <1>9, <1>10, <1>13, ReleaseCounted
<1>15. Steady(heap, heap')
  <2>1. Steady(heap, g) /\ Steady(g, heap')
    BY <1>5, <1>10, GetSteady, ReleaseSteady
  <2>2. \A j \in Interceptor : DOMAIN heap.idata[j] \subseteq DOMAIN g.idata[j]
    BY <1>5 DEF Elsewhere
  <2>. QED  BY <2>1, <2>2 DEF Steady
<1>. QED
  BY <1>1, <1>3, <1>5, <1>6, <1>7, <1>10, <1>11, <1>14, <1>15
  DEF Kept, Instrumented, MyOperations, SetWatch

(* A watch that is forgotten, whichever call forgets it. *)
LEMMA DropStep ==
  ASSUME IInv, NEW i \in Interceptor, NEW x \in DOMAIN watch[i],
         heap' = Unref(heap, i, watch[i][x]), DropWatch(i, x),
         live' \subseteq live
  PROVE  Kept
<1>1. /\ HeapInv(heap, live) /\ Typed(heap, watch) /\ Counted(heap, watch, {})
  BY InvParts
<1>. DEFINE k == watch[i][x]
<1>2. k \in DOMAIN heap.idata[i]
  BY <1>1 DEF Typed, IsPartial
<1>3. HeapInv(heap', live) /\ Elsewhere(heap, heap', i, k) /\ Released(heap, heap', i, k)
  BY <1>1, <1>2, UnrefInv
<1>4. watch' = [watch EXCEPT ![i] = Drop(@, {x})]
  BY DEF DropWatch
<1>5. Typed(heap, watch') /\ Counted(heap, watch', {<<i, k>>})
  BY <1>1, <1>4, DropCounted
<1>. HIDE DEF k
<1>6. Typed(heap', watch') /\ Counted(heap', watch', {})
  BY <1>2, <1>3, <1>5, ReleaseCounted
<1>7. Steady(heap, heap')
  BY <1>3, ReleaseSteady
<1>8. HeapInv(heap', live')
  BY <1>3, SmallerL
<1>. QED  BY <1>6, <1>7, <1>8 DEF Kept

LEMMA ForgetNorestoreStep ==
  ASSUME IInv, NEW i \in Interceptor, NEW x \in Watchable(i), ForgetNorestore(i, x)
  PROVE  Kept /\ (i \in Direct => heap'.mem = heap.mem)
<1>1. /\ HeapInv(heap, live) /\ Typed(heap, watch) /\ Counted(heap, watch, {})
      /\ x \in DOMAIN watch[i] /\ live' = live \ {x} /\ DropWatch(i, x)
  BY InvParts DEF ForgetNorestore, Watched
<1>2. CASE i \notin Direct
  BY <1>1, <1>2, DropStep DEF ForgetNorestore
<1>3. CASE i \in Direct
  <2>. DEFINE k == watch[i][x]
  <2>1. k \in DOMAIN heap.idata[i] /\ k \notin live' /\ live' \in SUBSET live
    BY <1>1, <1>3 DEF Typed, IsPartial
  <2>2. heap' = UnrefNorestore(heap, i, k)
    BY <1>3 DEF ForgetNorestore
  <2>3. /\ HeapInv(heap', live') /\ Elsewhere(heap, heap', i, k)
        /\ Released(heap, heap', i, k) /\ heap'.mem = heap.mem
    BY <1>1, <1>3, <2>1, <2>2, UnrefNorestoreInv
  <2>4. watch' = [watch EXCEPT ![i] = Drop(@, {x})]
    BY <1>1 DEF DropWatch
  <2>5. Typed(heap, watch') /\ Counted(heap, watch', {<<i, k>>})
    BY <1>1, <2>4, DropCounted
  <2>. HIDE DEF k
  <2>6. Typed(heap', watch') /\ Counted(heap', watch', {})
    BY <2>1, <2>3, <2>5, ReleaseCounted
  <2>7. Steady(heap, heap')
    BY <2>3, ReleaseSteady
  <2>. QED  BY <2>3, <2>6, <2>7 DEF Kept
<1>. QED  BY <1>2, <1>3

LEMMA WatchNewFailsStep ==
  ASSUME IInv, NEW i \in Interceptor, NEW x \in Watchable(i), WatchNewFails(i, x)
  PROVE  heap' = heap
<1>1. x \in live /\ HeapInv(heap, live)
  BY DEF IInv, WatchNewFails
<1>2. PICK d \in GetData(heap, i, Pointer(x)) : heap' = Unref(d.heap, i, d.key)
  BY DEF WatchNewFails
<1>. QED  BY <1>1, <1>2, WatchFetchable, FailedWatchUndone

LEMMA DestroyStep ==
  ASSUME IInv, NEW i \in Interceptor, Destroy(i)
  PROVE  /\ Kept /\ DOMAIN watch'[i] = {}
         /\ \A j \in Interceptor \ {i} :
              watch'[j] = watch[j] /\ heap'.idata[j] = heap.idata[j]
         /\ \A k \in DOMAIN heap.idata[i] :
              heap.idata[i][k].repl \in Copy => heap.idata[i][k].repl \notin DOMAIN heap'.mem
<1>1. /\ HeapInv(heap, live) /\ Typed(heap, watch) /\ Counted(heap, watch, {})
      /\ heap' = DestroyAll(heap, i) /\ live' \in SUBSET live
      /\ watch' = [watch EXCEPT ![i] = Drop(@, DOMAIN @)]
  BY InvParts DEF Destroy
<1>2. /\ HeapInv(heap', live) /\ DOMAIN heap'.idata[i] = {}
      /\ \A j \in Interceptor \ {i} : heap'.idata[j] = heap.idata[j]
  BY <1>1, DestroyAllInv
<1>3. DOMAIN heap'.mem = DOMAIN heap.mem \ (DOMAIN heap.table[i] \cap Copy)
  BY <1>1, DestroyAllMem
<1>4. /\ DOMAIN watch' = Interceptor /\ watch'[i] = Drop(watch[i], DOMAIN watch[i])
      /\ \A j \in Interceptor \ {i} : watch'[j] = watch[j]
  BY <1>1 DEF Typed
<1>5. DOMAIN watch'[i] = {}
  BY <1>4 DEF Drop
<1>6. Typed(heap', watch')
  <2>1. IsPartial(watch'[i], Watchable(i), DOMAIN heap'.idata[i])
    BY <1>4, <1>5 DEF IsPartial, Drop
  <2>2. Direct \subseteq Interceptor
    BY InterceptorAssumption
  <2>. QED  BY <1>1, <1>2, <1>4, <1>5, <2>1, <2>2 DEF Typed
<1>7. Counted(heap', watch', {}) /\ Steady(heap, heap')
  BY <1>1, <1>2, <1>4 DEF Counted, Steady
<1>8. \A k \in DOMAIN heap.idata[i] : heap.idata[i][k].repl \in DOMAIN heap.table[i]
  BY <1>1 DEF HeapInv, Base, Tables
<1>. QED
  BY <1>1, <1>2, <1>3, <1>4, <1>5, <1>6, <1>7, <1>8, SmallerL DEF Kept

(* A direct object is created at an address which data may still know. *)
LEMMA ProgramInitStep ==
  ASSUME IInv, NEW s \in DirectObject, ProgramInit(s)
  PROVE  Kept
<1>1. /\ HeapInv(heap, live) /\ Typed(heap, watch) /\ Counted(heap, watch, {})
      /\ live' = live \cup {s} /\ watch' = watch
      /\ heap' = [heap EXCEPT !.mem[s] = Content[s]]
  BY InvParts DEF ProgramInit
<1>2. /\ HeapOK(heap) /\ Tables(heap) /\ Mechanism(heap) /\ Held(heap)
      /\ Plain(heap, live) /\ Patched(heap)
      /\ heap = [idata |-> heap.idata, table |-> heap.table,
                 global |-> heap.global, mem |-> heap.mem]
  BY <1>1 DEF HeapInv, Base, HeapOK
<1>3. s \in Struct /\ s \notin Ops /\ s \notin Copy /\ s # NULL /\ s \in DOMAIN heap.mem
  BY <1>2, AddressAssumption DEF Held, Struct
<1>4. /\ heap' = [idata |-> heap.idata, table |-> heap.table,
                  global |-> heap.global, mem |-> heap'.mem]
      /\ heap'.mem = [heap.mem EXCEPT ![s] = Content[s]]
  BY <1>1, <1>2
<1>5. Content[s] \in AnyOps /\ heap.mem \in [DOMAIN heap.mem -> AnyOps]
  <2>1. Content[s] \in ProgramOps
    BY <1>3, ContentType
  <2>2. ProgramOps \subseteq AnyOps
    BY DEF ProgramOps, AnyOps
  <2>3. IsPartial(heap.mem, Struct \cup Copy, AnyOps)
    BY <1>2 DEF HeapOK
  <2>. QED  BY <2>1, <2>2, <2>3 DEF IsPartial
<1>6. /\ DOMAIN heap'.mem = DOMAIN heap.mem /\ heap'.mem \in [DOMAIN heap.mem -> AnyOps]
      /\ heap'.mem[s] = Content[s]
      /\ \A a \in DOMAIN heap.mem \ {s} : heap'.mem[a] = heap.mem[a]
  BY <1>3, <1>4, <1>5
<1>7. /\ heap'.idata = heap.idata /\ heap'.table = heap.table /\ heap'.global = heap.global
      /\ heap' = [idata |-> heap'.idata, table |-> heap'.table,
                  global |-> heap'.global, mem |-> heap'.mem]
  BY <1>4
<1>8. HeapOK(heap')
  BY <1>2, <1>6, <1>7 DEF HeapOK, IsPartial
<1>9. Tables(heap') /\ Mechanism(heap') /\ Held(heap')
  BY <1>2, <1>6, <1>7 DEF Tables, Mechanism, Held, MyOperations
<1>10. Plain(heap', live')
  BY <1>1, <1>2, <1>3, <1>6, <1>7 DEF Plain, Held
<1>11. ASSUME NEW i \in Interceptor, NEW k \in DOMAIN heap.idata[i]
       PROVE  /\ heap.idata[i][k].kind = "at_place" =>
                   \/ heap'.mem[k] = Patch(i, Content[k])
                   \/ k \in DirectObject /\ heap'.mem[k] = Content[k]
              /\ heap.idata[i][k].kind = "use_copy" =>
                   /\ heap'.mem[heap.idata[i][k].repl] = Patch(i, ContentAt(k))
                   /\ OpsAt(heap', k) = ContentAt(k)
  <2>1. CASE heap.idata[i][k].kind = "at_place"
    <3>1. k \in DOMAIN heap.mem
      BY <1>2, <2>1 DEF Mechanism, Held
    <3>. QED  BY <1>2, <1>6, <2>1, <3>1 DEF Patched, PatchedAt
  <2>2. CASE heap.idata[i][k].kind = "use_copy"
    <3>1. heap.idata[i][k].repl \in Copy /\ heap.idata[i][k].repl \in heap.global
      BY <1>2, <2>2, Parts, DataType DEF Tables
    <3>2. k \in Ops \cup {NULL} /\ (k # NULL => k \in DOMAIN heap.mem)
      BY <1>2, <2>2 DEF Mechanism, Originals, Held, Struct
    <3>3. heap.idata[i][k].repl \in DOMAIN heap.mem \ {s}
      BY <1>2, <1>3, <3>1 DEF Held
    <3>. QED  BY <1>2, <1>3, <1>6, <2>2, <3>2, <3>3 DEF Patched, PatchedAt, OpsAt
  <2>. QED  BY <1>2, <2>1, <2>2, Parts, DataType
<1>12. Patched(heap')
  BY <1>7, <1>11 DEF Patched, PatchedAt
<1>13. HeapInv(heap', live')
  BY <1>8, <1>9, <1>10, <1>12 DEF HeapInv, Base
<1>. QED  BY <1>1, <1>7, <1>13 DEF Kept, Typed, Counted, Steady
-----------------------------------------------------------------------------
(* Pointers. *)

(* Data are known by their pointers; one of the program is the original. *)
LEMMA OneOwner ==
  ASSUME NEW h, NEW L, Base(h, L), NEW a,
         NEW i \in Interceptor, NEW k \in DOMAIN h.idata[i], MyOperations(h, i, k, a),
         NEW j \in Interceptor, NEW l \in DOMAIN h.idata[j], MyOperations(h, j, l, a)
  PROVE  i = j /\ k = l
<1>1. ASSUME NEW j2 \in Interceptor, NEW l2 \in DOMAIN h.idata[j2],
             MyOperations(h, j2, l2, a)
      PROVE  a \in DOMAIN h.table[j2] /\ h.table[j2][a] = l2
  <2>1. /\ l2 \in DOMAIN h.table[j2] /\ h.table[j2][l2] = l2
        /\ h.idata[j2][l2].repl \in DOMAIN h.table[j2]
        /\ h.table[j2][h.idata[j2][l2].repl] = l2
    BY DEF Base, Tables
  <2>2. a = l2 \/ a = h.idata[j2][l2].repl
    BY <1>1 DEF MyOperations
  <2>. QED  BY <2>1, <2>2
<1>2. /\ a \in DOMAIN h.table[i] /\ h.table[i][a] = k
      /\ a \in DOMAIN h.table[j] /\ h.table[j][a] = l
  BY <1>1
<1>3. i = j
  BY <1>2 DEF Base, Tables
<1>. QED  BY <1>2, <1>3

LEMMA KeyOf ==
  ASSUME NEW h, NEW L, Base(h, L), NEW i \in Interceptor,
         NEW k \in DOMAIN h.idata[i], NEW a \in Ops \cup {NULL}, MyOperations(h, i, k, a)
  PROVE  a = k
<1>1. h.idata[i][k] \in InstrumentData
  BY Parts DEF Base
<1>2. a \notin Copy
  BY AddressAssumption DEF Struct
<1>. QED  BY <1>1, <1>2, DataType DEF Base, Mechanism, MyOperations

LEMMA WatchedKey ==
  ASSUME IInv, NEW i \in Interceptor, NEW x \in DOMAIN watch[i]
  PROVE  /\ watch[i][x] \in DOMAIN heap.idata[i] /\ x \in Watchable(i)
         /\ x \in Object => i \notin Direct /\ watch[i][x] \in Ops \cup {NULL}
<1>1. watch[i][x] \in DOMAIN heap.idata[i] /\ x \in Watchable(i)
  BY DEF IInv, TypeOK, IsPartial
<1>2. x \in Object => i \notin Direct
  BY <1>1, AddressAssumption DEF Watchable
<1>. QED  BY <1>1, <1>2 DEF IInv, HeapInv, Base, Mechanism, Originals

PointerOwned(o) ==
  \/ o \in lost /\ field[o] \in Ops \cup {NULL}
  \/ field[o] = prog[o]
  \/ \E i \in Interceptor :
       /\ Watched(i, o)
       /\ field[o] = heap.idata[i][watch[i][o]].repl
       /\ o \in lost \/ watch[i][o] = prog[o]

(* The pointer of an object which no call has touched. *)
LEMMA BystanderOwned ==
  ASSUME IInv, Kept, NEW o \in Object \cap live,
         field'[o] = field[o], prog'[o] = prog[o], o \in lost => o \in lost',
         \A j \in Interceptor : o \in DOMAIN watch[j] =>
           o \in DOMAIN watch'[j] /\ watch'[j][o] = watch[j][o]
  PROVE  PointerOwned(o)'
<1>1. PointerOwned(o)
  BY DEF IInv, PointersOwned, PointerOwned
<1>2. ASSUME NEW j \in Interceptor, o \in DOMAIN watch[j]
      PROVE  heap'.idata[j][watch'[j][o]].repl = heap.idata[j][watch[j][o]].repl
  <2>1. watch[j][o] \in DOMAIN heap.idata[j]
    BY <1>2, WatchedKey
  <2>2. watch'[j][o] \in DOMAIN heap'.idata[j]
    BY <1>2 DEF Kept, Typed, IsPartial
  <2>. QED  BY <1>2, <2>1, <2>2 DEF Kept, Steady
<1>. QED  BY <1>1, <1>2 DEF PointerOwned, Watched

LEMMA InstrumentedOwned ==
  ASSUME IInv, NEW i \in Interceptor, NEW x \in Watchable(i) \cap live, Kept,
         Instrumented(i, x), UNCHANGED <<prog, live, lost>>,
         x \in DOMAIN watch[i] => ~MyOperations(heap, i, watch[i][x], Pointer(x))
  PROVE  PointersOwned'
<1>1. PICK k \in DOMAIN heap'.idata[i] :
        /\ MyOperations(heap', i, k, Pointer(x))
        /\ SetWatch(i, x, k)
        /\ SetPointer(x, heap'.idata[i][k].repl)
  BY DEF Instrumented
<1>2. /\ HeapInv(heap, live) /\ HeapInv(heap', live) /\ DOMAIN watch = Interceptor
      /\ prog \in [Object -> Ops \cup {NULL}]
  BY DEF IInv, TypeOK, Kept
<1>3. /\ watch'[i] = Put(watch[i], x, k)
      /\ \A j \in Interceptor \ {i} : watch'[j] = watch[j]
  BY <1>1, <1>2 DEF SetWatch
<1>4. ASSUME NEW o \in Object \cap live, o # x
      PROVE  PointerOwned(o)'
  <2>1. field'[o] = field[o]
    BY <1>1, <1>4 DEF SetPointer
  <2>2. \A j \in Interceptor : o \in DOMAIN watch[j] =>
          o \in DOMAIN watch'[j] /\ watch'[j][o] = watch[j][o]
    BY <1>3, <1>4 DEF Put
  <2>. QED  BY <2>1, <2>2, BystanderOwned
<1>5. ASSUME x \in Object
      PROVE  PointerOwned(x)'
  <2>1. /\ Pointer(x) = field[x] /\ field'[x] = heap'.idata[i][k].repl
        /\ x \in DOMAIN watch'[i] /\ watch'[i][x] = k
    BY <1>1, <1>3, <1>5 DEF Pointer, SetPointer, Put
  <2>2. PointerOwned(x)
    BY <1>5 DEF IInv, PointersOwned, PointerOwned
  <2>3. CASE x \in lost
    BY <2>1, <2>3 DEF PointerOwned, Watched
  <2>4. CASE field[x] = prog[x]
    <3>1. k = prog[x]
      BY <1>1, <1>2, <1>5, <2>1, <2>4, KeyOf DEF HeapInv
    <3>. QED  BY <2>1, <3>1 DEF PointerOwned, Watched
  <2>5. ASSUME NEW j \in Interceptor, Watched(j, x),
               field[x] = heap.idata[j][watch[j][x]].repl
        PROVE  FALSE
    <3>1. watch[j][x] \in DOMAIN heap.idata[j]
      BY <2>5, WatchedKey DEF Watched
    <3>2. heap.idata[j][watch[j][x]].repl \in DOMAIN heap.table[j]
      BY <1>2, <3>1 DEF HeapInv, Base, Tables
    <3>4. DOMAIN heap.table[j] \subseteq heap.global
      BY <1>2 DEF HeapInv, Base, Tables
    <3>5. field[x] \in DOMAIN heap.table[j] /\ field[x] \in heap.global
      BY <2>5, <3>2, <3>4
    <3>3. j = i
      BY <1>2, <2>1, <3>5 DEF HeapInv, Base, Tables, Instrumented
    <3>. QED  BY <2>1, <2>5, <3>3 DEF MyOperations, Watched
  <2>. QED  BY <2>2, <2>3, <2>4, <2>5 DEF PointerOwned
<1>. QED  BY <1>4, <1>5 DEF PointersOwned, PointerOwned

(* Interceptor i forgets x, and no more. *)
LEMMA DroppedOwned ==
  ASSUME IInv, NEW i \in Interceptor, NEW x \in DOMAIN watch[i], Kept,
         DropWatch(i, x), UNCHANGED prog, live' \subseteq live,
         lost' \in {lost, lost \cup {x}},
         \A o \in Object \ {x} : field'[o] = field[o],
         x \in Object \cap live' => PointerOwned(x)'
  PROVE  PointersOwned'
<1>1. DOMAIN watch = Interceptor
  BY DEF IInv, TypeOK
<1>2. /\ watch'[i] = Drop(watch[i], {x})
      /\ \A j \in Interceptor \ {i} : watch'[j] = watch[j]
  BY <1>1 DEF DropWatch
<1>3. ASSUME NEW o \in Object \cap live', o # x
      PROVE  PointerOwned(o)'
  <2>1. \A j \in Interceptor : o \in DOMAIN watch[j] =>
          o \in DOMAIN watch'[j] /\ watch'[j][o] = watch[j][o]
    BY <1>2, <1>3 DEF Drop
  <2>. QED  BY <1>3, <2>1, BystanderOwned
<1>. QED  BY <1>3 DEF PointersOwned, PointerOwned
-----------------------------------------------------------------------------
(* Every step keeps the invariant. *)

LEMMA InvPartsNext ==
  IInv' <=>
    /\ HeapInv(heap', live') /\ Typed(heap', watch') /\ Counted(heap', watch', {})
    /\ field' \in [Object -> Ops \cup Copy \cup {NULL}]
    /\ prog' \in [Object -> Ops \cup {NULL}]
    /\ live' \subseteq Object \cup DirectObject /\ lost' \subseteq Object
    /\ PointersOwned'
<1>. DEFINE Assembled ==
       /\ HeapInv(heap, live) /\ Typed(heap, watch) /\ Counted(heap, watch, {})
       /\ field \in [Object -> Ops \cup Copy \cup {NULL}]
       /\ prog \in [Object -> Ops \cup {NULL}]
       /\ live \subseteq Object \cup DirectObject /\ lost \subseteq Object
       /\ PointersOwned
<1>1. IInv <=> Assembled
  BY InvParts
<1>. HIDE DEF Assembled
<1>2. IInv' <=> Assembled'
  BY <1>1, PTL
<1>. QED  BY <1>2 DEF Assembled

LEMMA InitInv == Init => IInv
<1>. SUFFICES ASSUME Init PROVE IInv
  OBVIOUS
<1>1. /\ heap.idata = [i \in Interceptor |-> Nothing]
      /\ heap.table = [i \in Interceptor |-> Nothing]
      /\ heap.global = {} /\ heap.mem = Content
      /\ heap = [idata |-> heap.idata, table |-> heap.table,
                 global |-> heap.global, mem |-> heap.mem]
      /\ watch = [i \in Interceptor |-> Nothing]
      /\ live = Object \cup DirectObject /\ lost = {}
      /\ field \in [Object -> Given] /\ prog = field
  BY DEF Init
<1>2. DOMAIN Nothing = {} /\ \A S, T : IsPartial(Nothing, S, T)
  BY DEF Nothing, IsPartial
<1>3. Given \subseteq Ops \cup {NULL} /\ Content \in [Struct -> ProgramOps]
  BY ContentAssumption
<1>4. \A i \in Interceptor : /\ heap.idata[i] = Nothing /\ heap.table[i] = Nothing
                             /\ watch[i] = Nothing
  BY <1>1
<1>5. HeapOK(heap)
  <2>1. /\ heap.idata = [i \in Interceptor |-> heap.idata[i]]
        /\ heap.table = [i \in Interceptor |-> heap.table[i]]
    BY <1>1
  <2>2. \A i \in Interceptor : /\ IsPartial(heap.idata[i], Key, InstrumentData)
                               /\ IsPartial(heap.table[i], Address, Key)
    BY <1>2, <1>4
  <2>3. IsPartial(heap.mem, Struct \cup Copy, AnyOps)
    <3>1. ProgramOps \subseteq AnyOps
      BY DEF ProgramOps, AnyOps
    <3>. QED  BY <1>1, <1>3, <3>1 DEF IsPartial
  <2>. QED  BY <1>1, <2>1, <2>2, <2>3 DEF HeapOK
<1>6. Tables(heap) /\ Mechanism(heap) /\ Patched(heap)
  BY <1>1, <1>2, <1>4 DEF Tables, Mechanism, Patched, PatchedAt
<1>7. Held(heap) /\ Plain(heap, live)
  BY <1>1, <1>3 DEF Held, Plain
<1>8. Typed(heap, watch) /\ Counted(heap, watch, {})
  <2>1. Direct \subseteq Interceptor
    BY InterceptorAssumption
  <2>. QED  BY <1>1, <1>2, <1>4, <2>1 DEF Typed, Counted
<1>9. PointersOwned
  BY <1>1 DEF PointersOwned
<1>10. field \in [Object -> Ops \cup {NULL}]
  BY <1>1, <1>3
<1>. QED  BY <1>1, <1>5, <1>6, <1>7, <1>8, <1>9, <1>10, InvParts DEF HeapInv, Base

(* The data of objects with a pointer to operations. *)
LEMMA ReplOf ==
  ASSUME IInv, NEW i \in Interceptor \ Direct, NEW k \in DOMAIN heap.idata[i]
  PROVE  k \in Ops \cup {NULL} /\ heap.idata[i][k].repl \in Ops \cup Copy
<1>1. k \in Ops \cup {NULL}
  BY DEF IInv, HeapInv, Base, Mechanism, Originals
<1>2. heap.idata[i][k] \in InstrumentData
  BY Parts DEF IInv, HeapInv, Base
<1>3. CASE heap.idata[i][k].kind = "at_place"
  <2>1. k \in Struct /\ heap.idata[i][k].repl = k
    BY <1>3 DEF IInv, HeapInv, Base, Mechanism
  <2>. QED  BY <1>1, <2>1, AddressAssumption
<1>4. CASE heap.idata[i][k].kind = "use_copy"
  BY <1>1, <1>2, <1>4, DataType
<1>. QED  BY <1>2, <1>3, <1>4, DataType

(* A call changes the pointer of its object only. *)
LEMMA SetPointerType ==
  ASSUME IInv, NEW x \in Object \cup DirectObject, NEW a, SetPointer(x, a),
         x \in Object => a \in Ops \cup Copy \cup {NULL}
  PROVE  field' \in [Object -> Ops \cup Copy \cup {NULL}]
BY DEF IInv, TypeOK, SetPointer

LEMMA WatchUpdateInv ==
  ASSUME IInv, NEW i \in Interceptor, NEW x \in Watchable(i), WatchUpdate(i, x)
  PROVE  IInv'
<1>1. /\ x \in live /\ x \in DOMAIN watch[i]
      /\ UNCHANGED <<heap, watch, prog, live, lost>>
      /\ HeapInv(heap, live) /\ Typed(heap, watch) /\ Counted(heap, watch, {})
      /\ live \subseteq Object \cup DirectObject /\ lost \subseteq Object
      /\ prog \in [Object -> Ops \cup {NULL}]
  BY InvParts DEF WatchUpdate, Watched
<1>. DEFINE k == watch[i][x]
<1>2. /\ k \in DOMAIN heap.idata[i]
      /\ MyOperations(heap, i, k, Pointer(x))
      /\ SetPointer(x, heap.idata[i][k].repl)
      /\ x \in Object => i \notin Direct
  BY <1>1, WatchedKey DEF WatchUpdate
<1>3. Kept
  BY <1>1 DEF Kept, Steady
<1>4. ASSUME NEW o \in Object \cap live, o # x
      PROVE  PointerOwned(o)'
  <2>1. field'[o] = field[o]
    BY <1>2, <1>4 DEF SetPointer
  <2>. QED  BY <1>1, <1>3, <2>1, BystanderOwned
<1>5. ASSUME x \in Object
      PROVE  PointerOwned(x)'
  <2>1. Pointer(x) = field[x] /\ field'[x] = heap'.idata[i][watch'[i][x]].repl
    BY <1>1, <1>2, <1>5 DEF Pointer, SetPointer
  <2>2. PointerOwned(x)
    BY <1>1, <1>5 DEF IInv, PointersOwned, PointerOwned
  <2>3. x \in lost \/ k = prog[x]
    <3>1. CASE field[x] = prog[x]
      BY <1>1, <1>2, <1>5, <2>1, <3>1, KeyOf DEF HeapInv
    <3>2. ASSUME NEW j \in Interceptor, Watched(j, x),
                 field[x] = heap.idata[j][watch[j][x]].repl,
                 watch[j][x] = prog[x]
          PROVE  k = prog[x]
      <4>1. /\ watch[j][x] \in DOMAIN heap.idata[j]
            /\ MyOperations(heap, j, watch[j][x], field[x])
        BY <3>2, WatchedKey DEF Watched, MyOperations
      <4>2. k = watch[j][x]
        BY <1>1, <1>2, <2>1, <4>1, OneOwner DEF HeapInv
      <4>. QED  BY <3>2, <4>2
    <3>. QED  BY <2>2, <3>1, <3>2 DEF PointerOwned
  <2>. QED  BY <1>1, <2>1, <2>3 DEF PointerOwned, Watched
<1>6. PointersOwned'
  BY <1>1, <1>4, <1>5 DEF PointersOwned, PointerOwned
<1>7. field' \in [Object -> Ops \cup Copy \cup {NULL}]
  BY <1>1, <1>2, SetPointerType, ReplOf
<1>. QED  BY <1>1, <1>3, <1>6, <1>7, InvPartsNext DEF Kept

(* A watch that instruments something, new or another one than before. *)
LEMMA InstrumentedInv ==
  ASSUME IInv, NEW i \in Interceptor, NEW x \in Watchable(i) \cap live, Kept,
         Instrumented(i, x), UNCHANGED <<prog, live, lost>>,
         x \in DOMAIN watch[i] => ~MyOperations(heap, i, watch[i][x], Pointer(x))
  PROVE  IInv'
<1>1. PointersOwned'
  BY InstrumentedOwned
<1>2. /\ prog' \in [Object -> Ops \cup {NULL}]
      /\ live' \subseteq Object \cup DirectObject /\ lost' \subseteq Object
      /\ x \in Object \cup DirectObject
      /\ field \in [Object -> Ops \cup Copy \cup {NULL}]
  BY InvParts
<1>3. PICK k \in DOMAIN heap'.idata[i] : SetPointer(x, heap'.idata[i][k].repl)
  BY DEF Instrumented
<1>4. x \in Object => heap'.idata[i][k].repl \in Ops \cup Copy
  <2>1. ASSUME x \in Object PROVE i \notin Direct
    BY <2>1, AddressAssumption DEF Watchable
  <2>2. HeapInv(heap', live')
    BY DEF Kept
  <2>3. ASSUME i \notin Direct PROVE k \in Ops \cup {NULL}
    BY <2>2, <2>3 DEF HeapInv, Base, Mechanism, Originals
  <2>4. heap'.idata[i][k] \in InstrumentData
    BY <2>2, Parts DEF HeapInv, Base
  <2>5. heap'.idata[i][k].kind = "at_place" =>
          k \in Struct /\ heap'.idata[i][k].repl = k
    BY <2>2 DEF HeapInv, Base, Mechanism
  <2>. QED  BY <2>1, <2>3, <2>4, <2>5, DataType, AddressAssumption
<1>5. field' \in [Object -> Ops \cup Copy \cup {NULL}]
  BY <1>2, <1>3, <1>4 DEF SetPointer
<1>. QED  BY <1>1, <1>2, <1>5, InvPartsNext DEF Kept

LEMMA WatchMovedFailsInv ==
  ASSUME IInv, NEW i \in Interceptor, NEW x \in Watchable(i), WatchMovedFails(i, x)
  PROVE  IInv' /\ i \notin Direct
<1>1. /\ x \in live /\ x \in DOMAIN watch[i] /\ DropWatch(i, x)
      /\ SetPointer(x, watch[i][x]) /\ UNCHANGED <<prog, live>>
      /\ lost' = lost \cup {x}
      /\ prog \in [Object -> Ops \cup {NULL}]
      /\ live \subseteq Object \cup DirectObject /\ lost \subseteq Object
  BY InvParts DEF WatchMovedFails, Watched
<1>2. Kept
  BY <1>1, DropStep DEF WatchMovedFails
<1>3. i \notin Direct
  <2>1. ASSUME i \in Direct PROVE Pointer(x) = watch[i][x]
    BY <1>1, <2>1, AddressAssumption DEF Watchable, Pointer, IInv, Keyed
  <2>. QED  BY <2>1 DEF MyOperations, WatchMovedFails
<1>4. x \in Object /\ watch[i][x] \in Ops \cup {NULL}
  BY <1>1, <1>3, WatchedKey DEF Watchable
<1>5. field' \in [Object -> Ops \cup Copy \cup {NULL}]
  BY <1>1, <1>4, SetPointerType
<1>6. PointerOwned(x)'
  BY <1>1, <1>4 DEF PointerOwned, SetPointer
<1>7. PointersOwned'
  <2>1. \A o \in Object \ {x} : field'[o] = field[o]
    BY <1>1 DEF SetPointer
  <2>. QED  BY <1>1, <1>2, <1>6, <2>1, DroppedOwned
<1>. QED  BY <1>1, <1>2, <1>3, <1>4, <1>5, <1>7, InvPartsNext DEF Kept

LEMMA ForgetInv ==
  ASSUME IInv, NEW i \in Interceptor, NEW x \in Watchable(i), Forget(i, x)
  PROVE  IInv' /\ Kept
<1>. DEFINE k == watch[i][x]
            a == IF MyOperations(heap, i, k, Pointer(x)) THEN k ELSE Pointer(x)
<1>1. /\ x \in live /\ x \in DOMAIN watch[i] /\ DropWatch(i, x)
      /\ SetPointer(x, a) /\ UNCHANGED <<prog, live, lost>>
      /\ HeapInv(heap, live) /\ DOMAIN watch = Interceptor
      /\ field \in [Object -> Ops \cup Copy \cup {NULL}]
      /\ prog \in [Object -> Ops \cup {NULL}]
      /\ live \subseteq Object \cup DirectObject /\ lost \subseteq Object
  BY InvParts DEF Forget, Watched, Typed
<1>2. Kept
  BY <1>1, DropStep DEF Forget
<1>3. k \in DOMAIN heap.idata[i] /\ (x \in Object => k \in Ops \cup {NULL})
  BY <1>1, WatchedKey
<1>4. ASSUME x \in Object
      PROVE  field'[x] = a /\ Pointer(x) = field[x] /\ PointerOwned(x)
  BY <1>1, <1>4 DEF SetPointer, Pointer, IInv, PointersOwned, PointerOwned
<1>5. x \in Object => a \in Ops \cup Copy \cup {NULL}
  BY <1>1, <1>3, <1>4
<1>6. field' \in [Object -> Ops \cup Copy \cup {NULL}]
  BY <1>1, <1>5, SetPointerType DEF SetPointer
<1>7. ASSUME x \in Object, MyOperations(heap, i, k, field[x])
      PROVE  PointerOwned(x)'
  <2>1. field'[x] = k
    BY <1>4, <1>7
  <2>2. x \in lost \/ k = prog[x]
    <3>1. CASE field[x] = prog[x]
      BY <1>1, <1>3, <1>7, <3>1, KeyOf DEF HeapInv
    <3>2. ASSUME NEW j \in Interceptor, Watched(j, x),
                 field[x] = heap.idata[j][watch[j][x]].repl,
                 watch[j][x] = prog[x]
          PROVE  k = prog[x]
      <4>1. /\ watch[j][x] \in DOMAIN heap.idata[j]
            /\ MyOperations(heap, j, watch[j][x], field[x])
        BY <3>2, WatchedKey DEF Watched, MyOperations
      <4>2. k = watch[j][x]
        BY <1>1, <1>3, <1>7, <4>1, OneOwner DEF HeapInv
      <4>. QED  BY <3>2, <4>2
    <3>. QED  BY <1>4, <1>7, <3>1, <3>2 DEF PointerOwned
  <2>. QED  BY <1>1, <1>3, <1>7, <2>1, <2>2 DEF PointerOwned
<1>8. ASSUME x \in Object, ~MyOperations(heap, i, k, field[x])
      PROVE  PointerOwned(x)'
  <2>1. field'[x] = field[x]
    BY <1>4, <1>8
  <2>2. ASSUME NEW j \in Interceptor, Watched(j, x),
               field[x] = heap.idata[j][watch[j][x]].repl
        PROVE  /\ j # i /\ x \in DOMAIN watch'[j] /\ watch'[j][x] = watch[j][x]
               /\ heap'.idata[j][watch[j][x]].repl = heap.idata[j][watch[j][x]].repl
    <3>1. j # i
      BY <1>8, <2>2 DEF MyOperations
    <3>2. watch'[j] = watch[j]
      BY <1>1, <3>1 DEF DropWatch
    <3>3. watch[j][x] \in DOMAIN heap.idata[j]
      BY <2>2, WatchedKey DEF Watched
    <3>4. watch[j][x] \in DOMAIN heap'.idata[j]
      BY <1>2, <2>2, <3>2 DEF Kept, Typed, IsPartial, Watched
    <3>. QED  BY <1>2, <2>2, <3>1, <3>2, <3>3, <3>4 DEF Kept, Steady, Watched
  <2>. QED  BY <1>1, <1>4, <1>8, <2>1, <2>2 DEF PointerOwned, Watched
<1>9. PointersOwned'
  <2>1. \A o \in Object \ {x} : field'[o] = field[o]
    BY <1>1 DEF SetPointer
  <2>. QED  BY <1>1, <1>2, <1>7, <1>8, <2>1, DroppedOwned
<1>. QED  BY <1>1, <1>2, <1>6, <1>9, InvPartsNext DEF Kept

LEMMA ForgetNorestoreInv ==
  ASSUME IInv, NEW i \in Interceptor, NEW x \in Watchable(i), ForgetNorestore(i, x)
  PROVE  IInv' /\ Kept
<1>1. /\ x \in DOMAIN watch[i] /\ DropWatch(i, x) /\ live' = live \ {x}
      /\ UNCHANGED <<field, prog, lost>>
      /\ field \in [Object -> Ops \cup Copy \cup {NULL}]
      /\ prog \in [Object -> Ops \cup {NULL}]
      /\ live \subseteq Object \cup DirectObject /\ lost \subseteq Object
  BY InvParts DEF ForgetNorestore, Watched
<1>2. Kept
  BY ForgetNorestoreStep
<1>3. PointersOwned'
  BY <1>1, <1>2, DroppedOwned
<1>. QED  BY <1>1, <1>2, <1>3, InvPartsNext DEF Kept

LEMMA DestroyInv ==
  ASSUME IInv, NEW i \in Interceptor, Destroy(i)
  PROVE  IInv' /\ Kept
<1>1. /\ live' = live \ {o \in Object : field[o] \in Copy \ DOMAIN heap'.mem}
      /\ UNCHANGED <<field, prog, lost>>
      /\ field \in [Object -> Ops \cup Copy \cup {NULL}]
      /\ prog \in [Object -> Ops \cup {NULL}]
      /\ live \subseteq Object \cup DirectObject /\ lost \subseteq Object
  BY InvParts DEF Destroy
<1>2. /\ Kept
      /\ \A j \in Interceptor \ {i} :
           watch'[j] = watch[j] /\ heap'.idata[j] = heap.idata[j]
      /\ \A k \in DOMAIN heap.idata[i] :
           heap.idata[i][k].repl \in Copy => heap.idata[i][k].repl \notin DOMAIN heap'.mem
  BY DestroyStep
<1>3. ASSUME NEW o \in Object \cap live'
      PROVE  PointerOwned(o)'
  <2>1. PointerOwned(o)
    BY <1>1, <1>3 DEF IInv, PointersOwned, PointerOwned
  <2>2. ASSUME Watched(i, o), field[o] = heap.idata[i][watch[i][o]].repl
        PROVE  field[o] = watch[i][o] /\ field[o] \in Ops \cup {NULL}
    <3>. DEFINE k == watch[i][o]
    <3>1. k \in DOMAIN heap.idata[i] /\ k \in Ops \cup {NULL}
      BY <2>2, WatchedKey DEF Watched
    <3>2. heap.idata[i][k].repl \notin Copy
      BY <1>1, <1>2, <1>3, <2>2, <3>1
    <3>3. heap.idata[i][k] \in InstrumentData
      BY <3>1, Parts DEF IInv, HeapInv, Base
    <3>4. heap.idata[i][k].kind = "at_place"
      BY <3>2, <3>3, DataType
    <3>. QED  BY <2>2, <3>1, <3>4 DEF IInv, HeapInv, Base, Mechanism
  <2>. QED  BY <1>1, <1>2, <2>1, <2>2 DEF PointerOwned, Watched
<1>4. PointersOwned'
  BY <1>3 DEF PointersOwned, PointerOwned
<1>. QED  BY <1>1, <1>2, <1>4, InvPartsNext DEF Kept

LEMMA ProgramSetOpsInv ==
  ASSUME IInv, NEW o \in Object, NEW a \in Given, ProgramSetOps(o, a)
  PROVE  IInv' /\ Kept
<1>1. /\ SetPointer(o, a) /\ prog' = [prog EXCEPT ![o] = a]
      /\ live' = live \cup {o} /\ lost' = lost \ {o} /\ UNCHANGED <<heap, watch>>
      /\ HeapInv(heap, live) /\ Typed(heap, watch) /\ Counted(heap, watch, {})
      /\ prog \in [Object -> Ops \cup {NULL}]
      /\ live \subseteq Object \cup DirectObject /\ lost \subseteq Object
  BY InvParts DEF ProgramSetOps
<1>2. a \in Ops \cup {NULL}
  BY ContentAssumption
<1>3. o \in DirectObject => FALSE
  BY AddressAssumption
<1>4. Plain(heap, live \cup {o})
  BY <1>1, <1>3 DEF HeapInv, Base, Plain, Struct
<1>5. Kept
  BY <1>1, <1>4 DEF Kept, HeapInv, Base, Steady
<1>6. field' \in [Object -> Ops \cup Copy \cup {NULL}]
  BY <1>1, <1>2, SetPointerType
<1>7. prog' \in [Object -> Ops \cup {NULL}] /\ prog'[o] = a /\ field'[o] = a
  BY <1>1, <1>2 DEF SetPointer
<1>8. ASSUME NEW p \in Object \cap live', p # o
      PROVE  PointerOwned(p)'
  <2>1. p \in live /\ field'[p] = field[p] /\ prog'[p] = prog[p] /\ (p \in lost => p \in lost')
    BY <1>1, <1>8 DEF SetPointer
  <2>. QED  BY <1>1, <1>5, <2>1, BystanderOwned
<1>9. PointersOwned'
  BY <1>7, <1>8 DEF PointersOwned, PointerOwned
<1>. QED  BY <1>1, <1>5, <1>6, <1>7, <1>9, InvPartsNext DEF Kept

LEMMA ProgramInitInv ==
  ASSUME IInv, NEW s \in DirectObject, ProgramInit(s)
  PROVE  IInv' /\ Kept
<1>1. /\ live' = live \cup {s} /\ UNCHANGED <<watch, field, prog, lost>>
      /\ field \in [Object -> Ops \cup Copy \cup {NULL}]
      /\ prog \in [Object -> Ops \cup {NULL}]
      /\ live \subseteq Object \cup DirectObject /\ lost \subseteq Object
  BY InvParts DEF ProgramInit
<1>2. Kept
  BY ProgramInitStep
<1>3. Object \cap live' = Object \cap live
  BY <1>1, AddressAssumption
<1>4. ASSUME NEW o \in Object \cap live' PROVE PointerOwned(o)'
  BY <1>1, <1>2, <1>3, BystanderOwned
<1>5. PointersOwned'
  BY <1>4 DEF PointersOwned, PointerOwned
<1>. QED  BY <1>1, <1>2, <1>5, InvPartsNext DEF Kept

LEMMA ProgramFreeInv ==
  ASSUME IInv, NEW x \in Object \cup DirectObject, ProgramFree(x)
  PROVE  IInv' /\ Kept
<1>1. /\ live' = live \ {x} /\ UNCHANGED <<heap, watch, field, prog, lost>>
      /\ HeapInv(heap, live) /\ Typed(heap, watch) /\ Counted(heap, watch, {})
      /\ field \in [Object -> Ops \cup Copy \cup {NULL}]
      /\ prog \in [Object -> Ops \cup {NULL}]
      /\ live \subseteq Object \cup DirectObject /\ lost \subseteq Object
  BY InvParts DEF ProgramFree
<1>2. Kept
  BY <1>1, SmallerL DEF Kept, Steady
<1>3. ASSUME NEW o \in Object \cap live' PROVE PointerOwned(o)'
  BY <1>1, <1>2, BystanderOwned
<1>4. PointersOwned'
  BY <1>3 DEF PointersOwned, PointerOwned
<1>. QED  BY <1>1, <1>2, <1>4, InvPartsNext DEF Kept

LEMMA StepInv == IInv /\ [Next]_vars => IInv'
<1>. SUFFICES ASSUME IInv, [Next]_vars PROVE IInv'
  OBVIOUS
<1>1. CASE UNCHANGED vars
  <2>1. /\ HeapInv(heap', live') /\ Typed(heap', watch') /\ Counted(heap', watch', {})
        /\ field' \in [Object -> Ops \cup Copy \cup {NULL}]
        /\ prog' \in [Object -> Ops \cup {NULL}]
        /\ live' \subseteq Object \cup DirectObject /\ lost' \subseteq Object
    BY <1>1, InvParts DEF vars
  <2>2. PointersOwned'
    BY <1>1 DEF vars, IInv, PointersOwned, Watched
  <2>. QED  BY <2>1, <2>2, InvPartsNext
<1>2. ASSUME NEW i \in Interceptor, NEW x \in Watchable(i), Watch(i, x)
      PROVE  IInv'
  <2>1. CASE WatchUpdate(i, x)
    BY <2>1, WatchUpdateInv
  <2>2. CASE WatchMoved(i, x)
    BY <2>2, WatchMovedStep, InstrumentedInv DEF WatchMoved
  <2>3. CASE WatchMovedFails(i, x)
    BY <2>3, WatchMovedFailsInv
  <2>4. CASE WatchNew(i, x)
    BY <2>4, WatchNewStep, InstrumentedInv DEF WatchNew, Watched
  <2>5. CASE WatchNewFails(i, x)
    <3>1. UNCHANGED vars
      BY <2>5, WatchNewFailsStep DEF WatchNewFails, vars
    <3>. QED  BY <1>1, <3>1
  <2>. QED  BY <1>2, <2>1, <2>2, <2>3, <2>4, <2>5 DEF Watch
<1>3. ASSUME NEW i \in Interceptor, NEW x \in Watchable(i),
             Forget(i, x) \/ ForgetNorestore(i, x)
      PROVE  IInv'
  BY <1>3, ForgetInv, ForgetNorestoreInv
<1>4. ASSUME NEW i \in Interceptor, Destroy(i) PROVE IInv'
  BY <1>4, DestroyInv
<1>5. ASSUME NEW o \in Object, NEW a \in Given, ProgramSetOps(o, a) PROVE IInv'
  BY <1>5, ProgramSetOpsInv
<1>6. ASSUME NEW s \in DirectObject, ProgramInit(s) PROVE IInv'
  BY <1>6, ProgramInitInv
<1>7. ASSUME NEW x \in Object \cup DirectObject, ProgramFree(x) PROVE IInv'
  BY <1>7, ProgramFreeInv
<1>. QED  BY <1>1, <1>2, <1>3, <1>4, <1>5, <1>6, <1>7 DEF Next

(* The inductive invariant: the two tables, the memory and the reference
   counts fit together, and each pointer of a live object has an owner,
   whatever calls of the API and steps of the program came before. *)
THEOREM Invariant == Spec => []IInv
BY InitInv, StepInv, PTL DEF Spec
-----------------------------------------------------------------------------
(* What follows in every reachable state. *)

(* Instrument data have as many references as objects are watched with them,
   after any failed or repeated watch, any forget and any stop. *)
THEOREM CountsAreExact == Spec => []RefsExact
<1>1. IInv => RefsExact
  BY DEF IInv
<1>. QED  BY <1>1, Invariant, PTL

(* Every pointer in a live object is the program's, or belongs to the data
   with which the object is watched. *)
THEOREM OwnersKnown == Spec => []PointersOwned
<1>1. IInv => PointersOwned
  BY DEF IInv
<1>. QED  BY <1>1, Invariant, PTL

(* The copies allocated are those that data use: none leaks, and none that
   is still used is freed. *)
THEOREM CopiesAreHeld == Spec => []CopiesHeld
<1>1. ASSUME IInv PROVE CopiesHeld
  <2>. DEFINE used == UNION {{heap.idata[i][k].repl : k \in DOMAIN heap.idata[i]}
                               : i \in Interceptor}
  <2>1. /\ HeapOK(heap) /\ Tables(heap) /\ Mechanism(heap)
        /\ DOMAIN heap.mem = Struct \cup (heap.global \cap Copy)
    BY <1>1 DEF IInv, HeapInv, Base, Held
  <2>2. ASSUME NEW a \in heap.global \cap Copy PROVE a \in used
    <3>1. PICK i \in Interceptor : a \in DOMAIN heap.table[i]
      BY <2>1 DEF Tables
    <3>. DEFINE k == heap.table[i][a]
    <3>2. k \in DOMAIN heap.idata[i] /\ a \in {k, heap.idata[i][k].repl}
      BY <2>1, <3>1 DEF Tables, MyOperations
    <3>3. k \notin Copy
      BY <2>1, <3>2, OriginalsType DEF Mechanism
    <3>. HIDE DEF k
    <3>. QED  BY <3>2, <3>3
  <2>3. ASSUME NEW i \in Interceptor, NEW k \in DOMAIN heap.idata[i]
        PROVE  heap.idata[i][k].repl \in Struct \cup (heap.global \cap Copy)
    <3>1. heap.idata[i][k].repl \in Struct \cup Copy
      BY <2>1, Parts, DataType
    <3>2. heap.idata[i][k].repl \in heap.global
      BY <2>1 DEF Tables
    <3>. QED  BY <3>1, <3>2
  <2>4. used \subseteq Struct \cup (heap.global \cap Copy)
    BY <2>3
  <2>5. heap.global \cap Copy \subseteq used
    BY <2>2
  <2>. HIDE DEF used
  <2>6. DOMAIN heap.mem = Struct \cup used
    BY <2>1, <2>4, <2>5
  <2>. QED  BY <2>6 DEF used, CopiesHeld
<1>. QED  BY <1>1, Invariant, PTL

(* Every structure holds what the program put there, with the replacements of
   one interceptor at most, and every original saved is the program's. *)
THEOREM NoneIsStacked == Spec => []NeverStacked
<1>1. ASSUME IInv PROVE NeverStacked
  <2>1. HeapOK(heap) /\ Mechanism(heap) /\ Plain(heap, live) /\ Patched(heap)
    BY <1>1 DEF IInv, HeapInv, Base
  <2>2. ASSUME NEW i \in Interceptor, NEW k \in DOMAIN heap.idata[i]
        PROVE  heap.idata[i][k].kind \in {"at_place", "use_copy"}
    BY <2>1, Parts, DataType
  <2>. QED  BY <2>1, <2>2 DEF NeverStacked, Plain, Mechanism, Patched, PatchedAt
<1>. QED  BY <1>1, Invariant, PTL

(* What is found at an address that data own, and through these data. *)
LEMMA Found ==
  ASSUME NEW h, NEW L, HeapInv(h, L), NEW a, NEW i \in Interceptor,
         NEW k \in DOMAIN h.idata[i], MyOperations(h, i, k, a), NEW f \in Field
  PROVE  /\ a \in DOMAIN h.mem \cup {NULL}
         /\ OpsAt(h, a)[f] \notin Intermediates => OpsAt(h, a)[f] = ContentAt(k)[f]
         /\ \A j \in Interceptor : OpsAt(h, a)[f] = Intermediate(j, f) => j = i
         /\ OrigOperation(h, i, k, f) = ContentAt(k)[f]
         /\ a \in DOMAIN h.table[i] /\ h.table[i][a] = k
<1>1. HeapOK(h) /\ Tables(h) /\ Mechanism(h) /\ Held(h) /\ Patched(h)
  BY DEF HeapInv, Base
<1>2. h.idata[i][k] \in InstrumentData /\ k \in Key
  BY <1>1, Parts
<1>3. /\ k \in DOMAIN h.table[i] /\ h.table[i][k] = k
      /\ h.idata[i][k].repl \in DOMAIN h.table[i]
      /\ h.table[i][h.idata[i][k].repl] = k
  BY <1>1 DEF Tables
<1>4. a = k \/ a = h.idata[i][k].repl
  BY DEF MyOperations
<1>5. a \in DOMAIN h.table[i] /\ h.table[i][a] = k
  BY <1>3, <1>4
<1>6. a \in DOMAIN h.mem \cup {NULL}
  <2>1. a \in h.global
    BY <1>1, <1>5 DEF Tables
  <2>2. a \in Struct \cup Copy \cup {NULL}
    BY <1>2, <1>4, DataType DEF Key
  <2>. QED  BY <1>1, <2>1, <2>2 DEF Held
<1>7. ContentAt(k) \in ProgramOps
  BY <1>2, ContentType DEF Key
<1>8. OpsAt(h, a) = ContentAt(k) \/ OpsAt(h, a) = Patch(i, ContentAt(k))
  <2>1. CASE h.idata[i][k].kind = "at_place"
    <3>1. k \in Struct /\ a = k /\ k # NULL
      BY <1>1, <1>4, <2>1, AddressAssumption DEF Mechanism
    <3>2. h.mem[k] = Patch(i, Content[k]) \/ h.mem[k] = Content[k]
      BY <1>1, <2>1 DEF Patched, PatchedAt
    <3>. QED  BY <3>1, <3>2 DEF OpsAt, ContentAt
  <2>2. CASE h.idata[i][k].kind = "use_copy"
    <3>1. /\ h.mem[h.idata[i][k].repl] = Patch(i, ContentAt(k))
          /\ OpsAt(h, k) = ContentAt(k)
      BY <1>1, <2>2 DEF Patched, PatchedAt
    <3>2. h.idata[i][k].repl # NULL
      BY <1>2, <2>2, DataType, AddressAssumption
    <3>. QED  BY <1>4, <3>1, <3>2 DEF OpsAt
  <2>. QED  BY <1>2, <2>1, <2>2, DataType
<1>9. OrigOperation(h, i, k, f) = ContentAt(k)[f]
  <2>1. CASE h.idata[i][k].kind = "at_place"
    BY <1>1, <2>1, AddressAssumption DEF Mechanism, OrigOperation, ContentAt
  <2>2. CASE h.idata[i][k].kind = "use_copy"
    BY <1>1, <2>2 DEF Patched, PatchedAt, OrigOperation
  <2>. QED  BY <1>2, <2>1, <2>2, DataType
<1>10. /\ OpsAt(h, a)[f] \notin Intermediates => OpsAt(h, a)[f] = ContentAt(k)[f]
       /\ \A j \in Interceptor : OpsAt(h, a)[f] = Intermediate(j, f) => j = i
  <2>1. /\ ContentAt(k)[f] \notin Intermediates
        /\ \/ Patch(i, ContentAt(k))[f] = ContentAt(k)[f]
           \/ Patch(i, ContentAt(k))[f] = Intermediate(i, f)
    BY <1>7, IntermediateOnly
  <2>2. \A j \in Interceptor : /\ Intermediate(j, f) \in Intermediates
                               /\ Intermediate(j, f) = Intermediate(i, f) => j = i
    BY DEF Intermediate, Intermediates
  <2>. QED  BY <1>8, <2>1, <2>2
<1>. QED  BY <1>5, <1>6, <1>9, <1>10

(* An object that may be used has an address of the data of what the program
   wants for it, or the program's own structure, which nobody uses. *)
LEMMA Reached ==
  ASSUME IInv, NEW x \in live \ lost
  PROVE  \/ /\ Pointer(x) \in DOMAIN heap.mem \cup {NULL}
            /\ OpsAt(heap, Pointer(x)) = Wanted(x) /\ Wanted(x) \in ProgramOps
         \/ \E i \in Interceptor : \E k \in DOMAIN heap.idata[i] :
              MyOperations(heap, i, k, Pointer(x)) /\ Wanted(x) = ContentAt(k)
<1>1. /\ HeapInv(heap, live) /\ Tables(heap) /\ Mechanism(heap) /\ Held(heap)
      /\ HeapOK(heap) /\ Plain(heap, live)
      /\ prog \in [Object -> Ops \cup {NULL}] /\ x \in Object \cup DirectObject
  BY DEF IInv, TypeOK, HeapInv, Base
<1>2. ASSUME NEW a \in heap.global
      PROVE  \E i \in Interceptor : \E k \in DOMAIN heap.idata[i] :
               MyOperations(heap, i, k, a)
  BY <1>1 DEF Tables
<1>3. CASE x \in Object
  <2>1. Pointer(x) = field[x] /\ Wanted(x) = ContentAt(prog[x])
    BY <1>3 DEF Pointer, Wanted
  <2>2. PointerOwned(x)
    BY <1>3 DEF IInv, PointersOwned, PointerOwned
  <2>3. CASE field[x] = prog[x] /\ field[x] \in heap.global
    <3>1. \E i \in Interceptor : \E k \in DOMAIN heap.idata[i] :
            MyOperations(heap, i, k, field[x])
      BY <1>2, <2>3
    <3>2. ASSUME NEW i \in Interceptor, NEW k \in DOMAIN heap.idata[i],
                 MyOperations(heap, i, k, field[x])
          PROVE  k = prog[x]
      BY <1>1, <1>3, <2>3, <3>2, KeyOf DEF HeapInv
    <3>. QED  BY <2>1, <3>1, <3>2
  <2>4. CASE field[x] = prog[x] /\ field[x] \notin heap.global
    <3>1. field[x] \in Ops \cup {NULL}
      BY <1>1, <1>3, <2>4
    <3>2. Wanted(x) \in ProgramOps
      BY <2>1, <2>4, <3>1, ContentType DEF Struct
    <3>3. field[x] # NULL => field[x] \in DOMAIN heap.mem /\ heap.mem[field[x]] = Content[field[x]]
      BY <1>1, <2>4, <3>1 DEF Held, Plain, Struct
    <3>. QED  BY <2>1, <2>4, <3>1, <3>2, <3>3 DEF OpsAt, ContentAt
  <2>5. ASSUME NEW j \in Interceptor, Watched(j, x),
               field[x] = heap.idata[j][watch[j][x]].repl, watch[j][x] = prog[x]
        PROVE  \E i \in Interceptor : \E k \in DOMAIN heap.idata[i] :
                 MyOperations(heap, i, k, Pointer(x)) /\ Wanted(x) = ContentAt(k)
    <3>1. /\ watch[j][x] \in DOMAIN heap.idata[j]
          /\ MyOperations(heap, j, watch[j][x], field[x])
      BY <2>5, WatchedKey DEF Watched, MyOperations
    <3>. QED  BY <2>1, <2>5, <3>1
  <2>. QED  BY <2>2, <2>3, <2>4, <2>5 DEF PointerOwned
<1>4. CASE x \notin Object
  <2>1. Pointer(x) = x /\ Wanted(x) = Content[x] /\ x \in DirectObject /\ x \in Struct
    BY <1>1, <1>4 DEF Pointer, Wanted, Struct
  <2>2. x # NULL /\ x \notin Copy /\ x \notin Ops
    BY <2>1, AddressAssumption DEF Struct
  <2>3. CASE x \in heap.global
    <3>1. \E i \in Interceptor : \E k \in DOMAIN heap.idata[i] : MyOperations(heap, i, k, x)
      BY <1>2, <2>3
    <3>2. ASSUME NEW i \in Interceptor, NEW k \in DOMAIN heap.idata[i],
                 MyOperations(heap, i, k, x)
          PROVE  x = k
      <4>1. CASE i \in Direct
        BY <1>1, <3>2, <4>1 DEF Mechanism, MyOperations
      <4>2. CASE i \notin Direct
        BY <2>2, <3>2, <4>2, ReplOf DEF MyOperations
      <4>. QED  BY <4>1, <4>2
    <3>. QED  BY <2>1, <2>2, <3>1, <3>2 DEF ContentAt
  <2>4. CASE x \notin heap.global
    <3>1. x \in DOMAIN heap.mem /\ heap.mem[x] = Content[x]
      BY <1>1, <2>1, <2>4 DEF Held, Plain
    <3>. QED  BY <2>1, <2>2, <3>1, ContentType DEF OpsAt
  <2>. QED  BY <2>3, <2>4
<1>. QED  BY <1>3, <1>4

(* For every object the program may use, whatever came before, the operation
   called is the program's own or an intermediate one which finds it. *)
THEOREM CallsAreTransparent == Spec => []Transparent
<1>1. ASSUME IInv, NEW x \in live \ lost
      PROVE  Pointer(x) \in DOMAIN heap.mem \cup {NULL}
  <2>1. HeapInv(heap, live)
    BY <1>1 DEF IInv
  <2>2. ASSUME NEW i \in Interceptor, NEW k \in DOMAIN heap.idata[i],
               MyOperations(heap, i, k, Pointer(x))
        PROVE  Pointer(x) \in DOMAIN heap.mem \cup {NULL}
    <3>1. /\ HeapOK(heap) /\ Held(heap) /\ k \in heap.global
          /\ heap.idata[i][k].repl \in heap.global
      BY <2>1 DEF HeapInv, Base, Tables
    <3>2. k \in Key /\ heap.idata[i][k].repl \in Struct \cup Copy
      BY <3>1, Parts, DataType
    <3>. QED  BY <2>2, <3>1, <3>2 DEF Held, Key, MyOperations
  <2>. QED  BY <1>1, <2>2, Reached
<1>2. ASSUME IInv, NEW x \in live \ lost, NEW f \in Field
      PROVE  /\ Called(x, f) \notin Intermediates => Called(x, f) = Wanted(x)[f]
             /\ \A i \in Interceptor :
                  Called(x, f) = Intermediate(i, f) /\ ~Stale(i, x)
                    => GetOrigOperation(i, x, Pointer(x), f) = Wanted(x)[f]
  <2>1. HeapInv(heap, live)
    BY <1>2 DEF IInv
  <2>2. CASE OpsAt(heap, Pointer(x)) = Wanted(x) /\ Wanted(x) \in ProgramOps
    <3>1. Called(x, f) \notin Intermediates /\ Called(x, f) = Wanted(x)[f]
      BY <2>2, FunctionAssumption DEF Called, ProgramOps
    <3>2. \A i \in Interceptor : Intermediate(i, f) \in Intermediates
      BY DEF Intermediate, Intermediates
    <3>. QED  BY <3>1, <3>2
  <2>3. ASSUME NEW j \in Interceptor, NEW k \in DOMAIN heap.idata[j],
               MyOperations(heap, j, k, Pointer(x)), Wanted(x) = ContentAt(k)
        PROVE  /\ Called(x, f) \notin Intermediates => Called(x, f) = Wanted(x)[f]
               /\ \A i \in Interceptor :
                    Called(x, f) = Intermediate(i, f) /\ ~Stale(i, x)
                      => GetOrigOperation(i, x, Pointer(x), f) = Wanted(x)[f]
    <3>1. /\ Called(x, f) \notin Intermediates => Called(x, f) = Wanted(x)[f]
          /\ \A i \in Interceptor : Called(x, f) = Intermediate(i, f) => i = j
          /\ OrigOperation(heap, j, k, f) = Wanted(x)[f]
          /\ Pointer(x) \in DOMAIN heap.table[j] /\ heap.table[j][Pointer(x)] = k
      BY <2>1, <2>3, Found DEF Called
    <3>2. ASSUME Watched(j, x), ~Stale(j, x)
          PROVE  watch[j][x] = k
      <4>1. watch[j][x] \in DOMAIN heap.idata[j]
        BY <1>2, <3>2, WatchedKey DEF Watched
      <4>2. MyOperations(heap, j, watch[j][x], Pointer(x))
        BY <3>2 DEF Stale
      <4>. QED  BY <2>1, <2>3, <4>1, <4>2, OneOwner DEF HeapInv
    <3>3. ~Stale(j, x) => GetOrigOperation(j, x, Pointer(x), f) = Wanted(x)[f]
      BY <3>1, <3>2 DEF GetOrigOperation
    <3>. QED  BY <3>1, <3>3
  <2>. QED  BY <1>2, <2>2, <2>3, Reached
<1>3. IInv => Transparent
  BY <1>1, <1>2 DEF Transparent
<1>. QED  BY <1>3, Invariant, PTL

(* No forget without restore writes to a direct object, in any behaviour. *)
THEOREM NorestoreWritesNothing == Spec => NorestoreUntouched
<1>1. ASSUME IInv, [Next]_vars
      PROVE  [\A i \in Direct : \A s \in DirectObject :
                ForgetNorestore(i, s) => heap'.mem[s] = heap.mem[s]]_vars
  <2>1. ASSUME NEW i \in Direct, NEW s \in DirectObject, ForgetNorestore(i, s)
        PROVE  heap'.mem[s] = heap.mem[s]
    <3>1. i \in Interceptor /\ s \in Watchable(i)
      BY InterceptorAssumption DEF Watchable
    <3>2. heap'.mem = heap.mem
      BY <1>1, <2>1, <3>1, ForgetNorestoreStep
    <3>. QED  BY <3>2
  <2>. QED  BY <2>1
<1>2. IInv /\ [Next]_vars =>
        [\A i \in Direct : \A s \in DirectObject :
           ForgetNorestore(i, s) => heap'.mem[s] = heap.mem[s]]_vars
  BY <1>1
<1>. QED  BY <1>2, Invariant, PTL DEF Spec, NorestoreUntouched
-----------------------------------------------------------------------------
(* The refinement of Interception. *)

Indirect == Interceptor \ Direct

(* Object o has the operations with which i replaced those it had. *)
Meets(i, o) == Watched(i, o) /\ field[o] = heap.idata[i][watch[i][o]].repl

(* The state of Interception, as Promise maps it. *)
PWatched     == [i \in Indirect |-> DOMAIN watch[i]]
PIntercepted == [i \in Indirect |-> {o \in Object : Intercepts(i, o)}]
PUsable      == live \cap Object

Met == [i \in Indirect |-> {o \in Object : Meets(i, o)}]

(* To have these operations is to be intercepted. *)
LEMMA MetIntercepted == IInv => PIntercepted = Met
<1>. SUFFICES ASSUME IInv, NEW i \in Indirect, NEW o \in Object
              PROVE  Intercepts(i, o) <=> Meets(i, o)
  BY DEF PIntercepted, Met
<1>1. HeapInv(heap, live) /\ i \in Interceptor \ Direct
  BY DEF IInv, Indirect
<1>2. ASSUME Meets(i, o) PROVE Intercepts(i, o)
  <2>. DEFINE k == watch[i][o]
  <2>1. /\ k \in DOMAIN heap.idata[i] /\ k \in Ops \cup {NULL}
        /\ field[o] = heap.idata[i][k].repl
    BY <1>2, WatchedKey, <1>1 DEF Meets, Watched
  <2>2. heap.mem[field[o]] = Patch(i, ContentAt(k))
    <3>1. CASE heap.idata[i][k].kind = "at_place"
      <4>1. k \in Struct /\ heap.idata[i][k].repl = k /\ k # NULL /\ k \notin DirectObject
        BY <1>1, <2>1, <3>1, AddressAssumption DEF HeapInv, Base, Mechanism, Struct
      <4>. QED  BY <1>1, <2>1, <3>1, <4>1 DEF HeapInv, Base, Patched, PatchedAt, ContentAt
    <3>2. CASE heap.idata[i][k].kind = "use_copy"
      BY <1>1, <2>1, <3>2 DEF HeapInv, Base, Patched, PatchedAt
    <3>3. heap.idata[i][k] \in InstrumentData
      BY <1>1, <2>1, Parts DEF HeapInv, Base
    <3>. QED  BY <3>1, <3>2, <3>3, DataType
  <2>. QED  BY <1>2, <2>1, <2>2 DEF Intercepts, Meets
<1>. QED  BY <1>2 DEF Intercepts, Meets

LEMMA MetInterceptedNext == IInv' => PIntercepted' = Met'
<1>. DEFINE Same == PIntercepted = Met
<1>1. IInv => Same
  BY MetIntercepted
<1>. HIDE DEF Same
<1>2. IInv' => Same'
  BY <1>1, PTL
<1>. QED  BY <1>2 DEF Same

(* The data of one interceptor at most have the pointer of an object. *)
LEMMA MetOnce ==
  ASSUME IInv, NEW i \in Interceptor, NEW k \in DOMAIN heap.idata[i], NEW o,
         MyOperations(heap, i, k, field[o]), NEW j \in Interceptor, Meets(j, o)
  PROVE  j = i /\ watch[j][o] = k
<1>1. /\ HeapInv(heap, live) /\ watch[j][o] \in DOMAIN heap.idata[j]
      /\ MyOperations(heap, j, watch[j][o], field[o])
  BY WatchedKey DEF IInv, Meets, Watched, MyOperations
<1>. QED  BY <1>1, OneOwner DEF HeapInv

(* An object which a step does not touch is met as before. *)
LEMMA MetBefore ==
  ASSUME IInv, Kept, NEW o, NEW j \in Interceptor, field'[o] = field[o],
         \/ watch'[j] = watch[j]
         \/ o \in DOMAIN watch[j] \cap DOMAIN watch'[j] /\ watch'[j][o] = watch[j][o]
         \/ o \notin DOMAIN watch[j] \cup DOMAIN watch'[j]
  PROVE  Meets(j, o)' <=> Meets(j, o)
<1>1. CASE o \in DOMAIN watch[j] \cap DOMAIN watch'[j] /\ watch'[j][o] = watch[j][o]
  <2>1. /\ watch[j][o] \in DOMAIN heap.idata[j]
        /\ watch'[j][o] \in DOMAIN heap'.idata[j]
    BY <1>1, WatchedKey DEF Kept, Typed, IsPartial
  <2>2. heap'.idata[j][watch'[j][o]].repl = heap.idata[j][watch[j][o]].repl
    BY <1>1, <2>1 DEF Kept, Steady
  <2>. QED  BY <1>1, <2>2 DEF Meets, Watched
<1>2. CASE o \notin DOMAIN watch[j] \cup DOMAIN watch'[j]
  BY <1>2 DEF Meets, Watched
<1>. QED  BY <1>1, <1>2

(* Where the steps of the instrumentors lead in Interception. *)
LEMMA ToWatch ==
  ASSUME IInv, IInv', NEW i \in Indirect, NEW x \in Object \cap live,
         PWatched' = [PWatched EXCEPT ![i] = @ \cup {x}],
         Met' = [Met EXCEPT ![i] = @ \cup {x}], live' = live,
         \A j \in Indirect \ {i} : ~Meets(j, x)
  PROVE  Promise!Watch(i, x)
<1>1. \A j \in Indirect \ {i} : x \notin PIntercepted[j]
  BY MetIntercepted DEF Met
<1>. QED
  BY <1>1, MetIntercepted, MetInterceptedNext
  DEF Promise!Watch, Promise!FreeFor, PWatched, PIntercepted, PUsable, Indirect

LEMMA ToWatchFails ==
  ASSUME IInv, IInv', NEW i \in Indirect, NEW x \in Object \cap live,
         x \in DOMAIN watch[i], ~Meets(i, x),
         PWatched' = [PWatched EXCEPT ![i] = @ \ {x}],
         Met' = [j \in Indirect |-> Met[j] \ {x}], live' = live
  PROVE  Promise!WatchFails(i, x)
<1>1. x \notin PIntercepted[i] /\ x \in PWatched[i]
  BY MetIntercepted DEF Met, PWatched
<1>. QED
  BY <1>1, MetIntercepted, MetInterceptedNext
  DEF Promise!WatchFails, PWatched, PIntercepted, Indirect

LEMMA ToForget ==
  ASSUME IInv, IInv', NEW i \in Indirect, NEW x \in Object, x \in DOMAIN watch[i],
         PWatched' = [PWatched EXCEPT ![i] = @ \ {x}],
         Met' = [Met EXCEPT ![i] = @ \ {x}]
  PROVE  /\ x \in live /\ live' = live => Promise!Forget(i, x)
         /\ live' = live \ {x} => Promise!ForgetNorestore(i, x)
<1>1. x \in PWatched[i]
  BY DEF PWatched
<1>2. Promise!Forgotten(i, x)
  BY <1>1, MetIntercepted, MetInterceptedNext
  DEF Promise!Forgotten, PWatched, PIntercepted, Indirect
<1>. QED  BY <1>2 DEF Promise!Forget, Promise!ForgetNorestore

LEMMA ToStop ==
  ASSUME IInv, IInv', NEW i \in Indirect,
         PWatched' = [PWatched EXCEPT ![i] = {}], Met' = [Met EXCEPT ![i] = {}],
         NEW S \in SUBSET Met[i], live' \cap Object = (live \cap Object) \ S
  PROVE  Promise!Stop(i)
<1>1. S \in SUBSET PIntercepted[i]
  BY MetIntercepted
<1>. QED
  BY <1>1, MetIntercepted, MetInterceptedNext
  DEF Promise!Stop, PWatched, PIntercepted, Indirect

LEMMA ToProgramSets ==
  ASSUME IInv, IInv', NEW o \in Object, NEW I \in SUBSET Indirect,
         \A i, j \in I : i = j, \A i \in I : o \in DOMAIN watch[i],
         watch' = watch, live' = live \cup {o},
         Met' = [i \in Indirect |-> IF i \in I THEN Met[i] \cup {o} ELSE Met[i] \ {o}]
  PROVE  Promise!ProgramSets(o)
<1>1. PIntercepted' = [i \in Indirect |-> IF i \in I THEN PIntercepted[i] \cup {o}
                                                     ELSE PIntercepted[i] \ {o}]
  BY MetIntercepted, MetInterceptedNext
<1>2. \A i \in I : o \in PWatched[i]
  BY DEF PWatched
<1>3. PWatched' = PWatched
  BY DEF PWatched
<1>. QED
  BY <1>1, <1>2, <1>3 DEF Promise!ProgramSets, PWatched, PIntercepted, Indirect

LEMMA ToStutter ==
  ASSUME IInv, IInv', PWatched' = PWatched, Met' = Met
  PROVE  /\ live' \cap Object = live \cap Object => UNCHANGED Promise!vars
         /\ \A o \in Object : live' = live \ {o} => Promise!ProgramFrees(o)
<1>1. PIntercepted' = PIntercepted
  BY MetIntercepted, MetInterceptedNext
<1>. QED
  BY <1>1 DEF Promise!vars, Promise!ProgramFrees, PWatched, PIntercepted, Indirect

(* Which objects are watched after a call of interceptor i about x. *)
LEMMA WatchedNext ==
  ASSUME IInv, NEW i \in Interceptor
  PROVE  /\ \A x, k : SetWatch(i, x, k) /\ i \in Indirect =>
                        PWatched' = [PWatched EXCEPT ![i] = @ \cup {x}]
         /\ \A x : DropWatch(i, x) /\ i \in Indirect =>
                        PWatched' = [PWatched EXCEPT ![i] = @ \ {x}]
         /\ \A x, k : SetWatch(i, x, k) \/ DropWatch(i, x) =>
                        \A j \in Interceptor \ {i} : watch'[j] = watch[j]
<1>1. DOMAIN watch = Interceptor
  BY DEF IInv, TypeOK
<1>2. ASSUME NEW x, NEW k, SetWatch(i, x, k), i \in Indirect
      PROVE  PWatched' = [PWatched EXCEPT ![i] = @ \cup {x}]
  <2>1. /\ DOMAIN watch'[i] = DOMAIN watch[i] \cup {x}
        /\ \A j \in Interceptor \ {i} : watch'[j] = watch[j]
    BY <1>1, <1>2, PutIs DEF SetWatch
  <2>. QED  BY <1>2, <2>1 DEF PWatched, Indirect
<1>3. ASSUME NEW x, DropWatch(i, x), i \in Indirect
      PROVE  PWatched' = [PWatched EXCEPT ![i] = @ \ {x}]
  <2>1. /\ DOMAIN watch'[i] = DOMAIN watch[i] \ {x}
        /\ \A j \in Interceptor \ {i} : watch'[j] = watch[j]
    BY <1>1, <1>3, DropIs DEF DropWatch
  <2>. QED  BY <1>3, <2>1 DEF PWatched, Indirect
<1>4. ASSUME NEW x, NEW k, SetWatch(i, x, k) \/ DropWatch(i, x),
             NEW j \in Interceptor \ {i}
      PROVE  watch'[j] = watch[j]
  BY <1>1, <1>4 DEF SetWatch, DropWatch
<1>. QED  BY <1>2, <1>3, <1>4

(* A call about x leaves the others as met as they were. *)
LEMMA MetElsewhere ==
  ASSUME IInv, Kept, NEW i \in Interceptor, NEW x,
         (\E k : SetWatch(i, x, k)) \/ DropWatch(i, x) \/ watch' = watch,
         NEW o \in Object \ {x}, field'[o] = field[o], NEW j \in Interceptor
  PROVE  Meets(j, o)' <=> Meets(j, o)
<1>1. DOMAIN watch = Interceptor
  BY DEF IInv, TypeOK
<1>2. \/ watch'[j] = watch[j]
      \/ o \in DOMAIN watch[j] \cap DOMAIN watch'[j] /\ watch'[j][o] = watch[j][o]
      \/ o \notin DOMAIN watch[j] \cup DOMAIN watch'[j]
  <2>1. CASE j # i \/ watch' = watch
    BY <1>1, <2>1 DEF SetWatch, DropWatch
  <2>2. ASSUME j = i, NEW k, SetWatch(i, x, k)
        PROVE  \/ o \in DOMAIN watch[j] \cap DOMAIN watch'[j] /\ watch'[j][o] = watch[j][o]
               \/ o \notin DOMAIN watch[j] \cup DOMAIN watch'[j]
    <3>1. watch'[i] = Put(watch[i], x, k)
      BY <1>1, <2>2 DEF SetWatch
    <3>. QED  BY <2>2, <3>1 DEF Put
  <2>3. CASE j = i /\ DropWatch(i, x)
    <3>1. watch'[i] = Drop(watch[i], {x})
      BY <1>1, <2>3 DEF DropWatch
    <3>. QED  BY <2>3, <3>1 DEF Drop
  <2>. QED  BY <2>1, <2>2, <2>3
<1>. QED  BY <1>2, MetBefore

LEMMA WatchUpdateRefines ==
  ASSUME IInv, NEW i \in Indirect, NEW x \in Watchable(i), WatchUpdate(i, x)
  PROVE  Promise!Watch(i, x)
<1>1. /\ x \in live /\ x \in Object /\ i \in Interceptor /\ x \in DOMAIN watch[i]
      /\ UNCHANGED <<heap, watch, live>>
      /\ MyOperations(heap, i, watch[i][x], field[x])
      /\ SetPointer(x, heap.idata[i][watch[i][x]].repl)
  BY DEF WatchUpdate, Watched, Watchable, Indirect, Pointer
<1>2. IInv' /\ Kept
  BY <1>1, InvPartsNext, WatchUpdateInv DEF Kept, Steady
<1>3. watch[i][x] \in DOMAIN heap.idata[i]
  BY <1>1, WatchedKey
<1>4. \A j \in Indirect \ {i} : ~Meets(j, x)
  BY <1>1, <1>3, MetOnce DEF Indirect
<1>5. /\ field'[x] = heap'.idata[i][watch'[i][x]].repl /\ x \in DOMAIN watch'[i]
      /\ \A o \in Object \ {x} : field'[o] = field[o]
  BY <1>1 DEF SetPointer
<1>6. Meets(i, x)'
  BY <1>5 DEF Meets, Watched
<1>7. ASSUME NEW j \in Indirect \ {i} PROVE ~Meets(j, x)'
  <2>1. ASSUME Meets(j, x)'
        PROVE  FALSE
    <3>1. /\ HeapInv(heap, live) /\ j \in Interceptor
          /\ watch[j][x] \in DOMAIN heap.idata[j]
          /\ MyOperations(heap, j, watch[j][x], field'[x])
      BY <1>1, <2>1, WatchedKey DEF IInv, Meets, Watched, MyOperations, Indirect
    <3>2. MyOperations(heap, i, watch[i][x], field'[x])
      BY <1>1, <1>5 DEF MyOperations
    <3>. QED  BY <1>1, <1>3, <3>1, <3>2, OneOwner DEF HeapInv
  <2>. QED  BY <2>1
<1>8. \A j \in Indirect : \A o \in Object \ {x} : Meets(j, o)' <=> Meets(j, o)
  BY <1>1, <1>2, <1>5, MetElsewhere DEF Indirect
<1>9. Met' = [Met EXCEPT ![i] = @ \cup {x}]
  BY <1>1, <1>4, <1>6, <1>7, <1>8 DEF Met
<1>10. PWatched' = [PWatched EXCEPT ![i] = @ \cup {x}]
  BY <1>1 DEF PWatched
<1>. QED  BY <1>1, <1>2, <1>4, <1>9, <1>10, ToWatch

LEMMA InstrumentedRefines ==
  ASSUME IInv, IInv', NEW i \in Indirect, NEW x \in Watchable(i) \cap live, Kept,
         Instrumented(i, x), UNCHANGED live
  PROVE  Promise!Watch(i, x)
<1>1. PICK k \in DOMAIN heap'.idata[i] :
        /\ MyOperations(heap', i, k, Pointer(x))
        /\ SetWatch(i, x, k)
        /\ SetPointer(x, heap'.idata[i][k].repl)
  BY DEF Instrumented
<1>2. /\ x \in Object /\ i \in Interceptor /\ Pointer(x) = field[x]
      /\ DOMAIN watch = Interceptor
      /\ HeapInv(heap, live) /\ HeapInv(heap', live')
  BY DEF Watchable, Indirect, Pointer, IInv, TypeOK, Kept
<1>3. /\ field'[x] = heap'.idata[i][k].repl
      /\ x \in DOMAIN watch'[i] /\ watch'[i][x] = k
      /\ \A o \in Object \ {x} : field'[o] = field[o]
      /\ \A j \in Interceptor \ {i} : watch'[j] = watch[j]
  BY <1>1, <1>2 DEF SetPointer, SetWatch, Put
<1>4. ASSUME NEW j \in Indirect \ {i}, Meets(j, x)
      PROVE  FALSE
  <2>1. watch[j][x] \in DOMAIN heap.idata[j] /\ j \in Interceptor
    BY <1>4, WatchedKey DEF Meets, Watched, Indirect
  <2>2. field[x] \in DOMAIN heap.table[j] /\ field[x] \in heap.global
    <3>1. heap.idata[j][watch[j][x]].repl \in DOMAIN heap.table[j]
      BY <1>2, <2>1 DEF HeapInv, Base, Tables
    <3>2. DOMAIN heap.table[j] \subseteq heap.global
      BY <1>2, <2>1 DEF HeapInv, Base, Tables
    <3>. QED  BY <1>4, <3>1, <3>2 DEF Meets
  <2>3. field[x] \in DOMAIN heap.table[i]
    BY <1>2, <2>2 DEF Instrumented
  <2>. QED  BY <1>2, <1>4, <2>1, <2>2, <2>3 DEF HeapInv, Base, Tables
<1>5. Meets(i, x)'
  BY <1>3 DEF Meets, Watched
<1>6. ASSUME NEW j \in Indirect \ {i}, Meets(j, x)'
      PROVE  FALSE
  <2>1. /\ j \in Interceptor /\ watch'[j][x] \in DOMAIN heap'.idata[j]
        /\ MyOperations(heap', j, watch'[j][x], field'[x])
    BY <1>6 DEF Kept, Typed, IsPartial, Meets, Watched, MyOperations, Indirect
  <2>2. MyOperations(heap', i, k, field'[x])
    BY <1>3 DEF MyOperations
  <2>. QED  BY <1>1, <1>2, <1>6, <2>1, <2>2, OneOwner DEF HeapInv
<1>7. ASSUME NEW j \in Indirect, NEW o \in Object \ {x}
      PROVE  Meets(j, o)' <=> Meets(j, o)
  <2>1. j \in Interceptor /\ \E l : SetWatch(i, x, l)
    BY <1>1 DEF Indirect
  <2>. QED  BY <1>2, <1>3, <2>1, MetElsewhere
<1>8. Met' = [Met EXCEPT ![i] = @ \cup {x}]
  BY <1>2, <1>4, <1>5, <1>6, <1>7 DEF Met
<1>9. PWatched' = [PWatched EXCEPT ![i] = @ \cup {x}]
  BY <1>1, <1>2, WatchedNext
<1>. QED  BY <1>2, <1>4, <1>8, <1>9, ToWatch

LEMMA WatchMovedFailsRefines ==
  ASSUME IInv, NEW i \in Indirect, NEW x \in Watchable(i), WatchMovedFails(i, x)
  PROVE  Promise!WatchFails(i, x)
<1>. DEFINE k == watch[i][x]
<1>1. /\ x \in live /\ x \in Object /\ i \in Interceptor /\ x \in DOMAIN watch[i]
      /\ DropWatch(i, x) /\ UNCHANGED live
      /\ ~MyOperations(heap, i, k, field[x])
      /\ SetPointer(x, k)
  BY DEF WatchMovedFails, Watched, Watchable, Indirect, Pointer
<1>2. IInv'
  BY <1>1, WatchMovedFailsInv
<1>3. Kept
  BY <1>1, DropStep DEF WatchMovedFails
<1>4. k \in DOMAIN heap.idata[i]
  BY <1>1, WatchedKey
<1>5. DOMAIN watch = Interceptor /\ HeapInv(heap, live)
  BY DEF IInv, TypeOK
<1>6. /\ field'[x] = k /\ \A o \in Object \ {x} : field'[o] = field[o]
      /\ x \notin DOMAIN watch'[i]
      /\ \A j \in Interceptor \ {i} : watch'[j] = watch[j]
  BY <1>1, <1>5 DEF SetPointer, DropWatch, Drop
<1>7. ASSUME NEW j \in Indirect, Meets(j, x)' PROVE FALSE
  <2>1. j \in Interceptor /\ j # i
    BY <1>6, <1>7 DEF Meets, Watched, Indirect
  <2>2. x \in DOMAIN watch[j] /\ watch'[j][x] = watch[j][x]
    BY <1>6, <1>7, <2>1 DEF Meets, Watched
  <2>3. /\ watch[j][x] \in DOMAIN heap.idata[j]
        /\ watch[j][x] \in DOMAIN heap'.idata[j]
    <3>1. watch[j][x] \in DOMAIN heap.idata[j]
      BY <2>1, <2>2, WatchedKey
    <3>2. x \in DOMAIN watch'[j]
      BY <1>7 DEF Meets, Watched
    <3>3. watch'[j][x] \in DOMAIN heap'.idata[j]
      BY <1>3, <2>1, <3>2 DEF Kept, Typed, IsPartial
    <3>. QED  BY <2>2, <3>1, <3>3
  <2>4. heap.idata[j][watch[j][x]].repl = k
    BY <1>3, <1>6, <1>7, <2>1, <2>2, <2>3 DEF Kept, Steady, Meets
  <2>5. MyOperations(heap, j, watch[j][x], k) /\ MyOperations(heap, i, k, k)
    BY <2>4 DEF MyOperations
  <2>. HIDE DEF k
  <2>. QED  BY <1>1, <1>4, <1>5, <2>1, <2>3, <2>5, OneOwner DEF HeapInv
<1>8. ASSUME NEW j \in Indirect, NEW o \in Object \ {x}
      PROVE  Meets(j, o)' <=> Meets(j, o)
  <2>1. j \in Interceptor
    BY DEF Indirect
  <2>. QED  BY <1>1, <1>3, <1>6, <2>1, MetElsewhere
<1>9. Met' = [j \in Indirect |-> Met[j] \ {x}]
  BY <1>7, <1>8 DEF Met
<1>10. PWatched' = [PWatched EXCEPT ![i] = @ \ {x}]
  BY <1>1, WatchedNext
<1>11. ~Meets(i, x)
  BY <1>1 DEF Meets, MyOperations
<1>. QED  BY <1>1, <1>2, <1>9, <1>10, <1>11, ToWatchFails

LEMMA ForgetRefines ==
  ASSUME IInv, NEW i \in Indirect, NEW x \in Watchable(i), Forget(i, x)
  PROVE  Promise!Forget(i, x)
<1>. DEFINE k == watch[i][x]
<1>1. /\ x \in live /\ x \in Object /\ i \in Interceptor /\ x \in DOMAIN watch[i]
      /\ DropWatch(i, x) /\ UNCHANGED live
      /\ SetPointer(x, IF MyOperations(heap, i, k, field[x]) THEN k ELSE field[x])
  BY DEF Forget, Watched, Watchable, Indirect, Pointer
<1>2. IInv' /\ Kept
  BY <1>1, ForgetInv
<1>3. k \in DOMAIN heap.idata[i]
  BY <1>1, WatchedKey
<1>4. DOMAIN watch = Interceptor /\ HeapInv(heap, live)
  BY DEF IInv, TypeOK
<1>5. /\ \A o \in Object \ {x} : field'[o] = field[o]
      /\ x \notin DOMAIN watch'[i]
      /\ \A j \in Interceptor \ {i} : watch'[j] = watch[j]
  BY <1>1, <1>4 DEF SetPointer, DropWatch, Drop
<1>6. ~Meets(i, x)'
  BY <1>5 DEF Meets, Watched
<1>7. ASSUME NEW j \in Indirect \ {i}
      PROVE  Meets(j, x)' <=> Meets(j, x)
  <2>1. j \in Interceptor /\ watch'[j] = watch[j]
    BY <1>5 DEF Indirect
  <2>2. CASE ~MyOperations(heap, i, k, field[x])
    <3>1. field'[x] = field[x]
      BY <1>1, <2>2 DEF SetPointer
    <3>. QED  BY <1>2, <2>1, <3>1, MetBefore
  <2>3. CASE MyOperations(heap, i, k, field[x])
    <3>1. ~Meets(j, x)
      BY <1>1, <1>3, <1>7, <2>1, <2>3, MetOnce
    <3>2. ASSUME Meets(j, x)' PROVE FALSE
      <4>1. field'[x] = k /\ x \in DOMAIN watch[j] /\ watch'[j][x] = watch[j][x]
        BY <1>1, <2>1, <2>3, <3>2 DEF SetPointer, Meets, Watched
      <4>2. /\ watch[j][x] \in DOMAIN heap.idata[j]
            /\ watch[j][x] \in DOMAIN heap'.idata[j]
        BY <1>2, <3>2, <2>1, <4>1, WatchedKey DEF Kept, Typed, IsPartial
      <4>3. heap.idata[j][watch[j][x]].repl = k
        BY <1>2, <2>1, <3>2, <4>1, <4>2 DEF Kept, Steady, Meets
      <4>4. MyOperations(heap, j, watch[j][x], k) /\ MyOperations(heap, i, k, k)
        BY <4>3 DEF MyOperations
      <4>. HIDE DEF k
      <4>. QED  BY <1>1, <1>3, <1>4, <1>7, <2>1, <4>2, <4>4, OneOwner DEF HeapInv
    <3>. QED  BY <3>1, <3>2
  <2>. QED  BY <2>2, <2>3
<1>8. ASSUME NEW j \in Indirect, NEW o \in Object \ {x}
      PROVE  Meets(j, o)' <=> Meets(j, o)
  <2>1. j \in Interceptor
    BY DEF Indirect
  <2>. QED  BY <1>1, <1>2, <1>5, <2>1, MetElsewhere
<1>9. Met' = [Met EXCEPT ![i] = @ \ {x}]
  BY <1>1, <1>6, <1>7, <1>8 DEF Met
<1>10. PWatched' = [PWatched EXCEPT ![i] = @ \ {x}]
  BY <1>1, WatchedNext
<1>. QED  BY <1>1, <1>2, <1>9, <1>10, ToForget

LEMMA ForgetNorestoreRefines ==
  ASSUME IInv, NEW i \in Indirect, NEW x \in Watchable(i), ForgetNorestore(i, x)
  PROVE  Promise!ForgetNorestore(i, x)
<1>1. /\ x \in Object /\ i \in Interceptor /\ x \in DOMAIN watch[i]
      /\ DropWatch(i, x) /\ live' = live \ {x} /\ field' = field
  BY DEF ForgetNorestore, Watched, Watchable, Indirect
<1>2. IInv' /\ Kept
  BY <1>1, ForgetNorestoreInv
<1>3. /\ x \notin DOMAIN watch'[i]
      /\ \A j \in Interceptor \ {i} : watch'[j] = watch[j]
  BY <1>1 DEF IInv, TypeOK, DropWatch, Drop
<1>4. ~Meets(i, x)'
  BY <1>3 DEF Meets, Watched
<1>5. ASSUME NEW j \in Indirect \ {i} PROVE Meets(j, x)' <=> Meets(j, x)
  BY <1>1, <1>2, <1>3, MetBefore DEF Indirect
<1>6. ASSUME NEW j \in Indirect, NEW o \in Object \ {x}
      PROVE  Meets(j, o)' <=> Meets(j, o)
  <2>1. j \in Interceptor
    BY DEF Indirect
  <2>. QED  BY <1>1, <1>2, <2>1, MetElsewhere
<1>7. Met' = [Met EXCEPT ![i] = @ \ {x}]
  BY <1>1, <1>4, <1>5, <1>6 DEF Met
<1>8. PWatched' = [PWatched EXCEPT ![i] = @ \ {x}]
  BY <1>1, WatchedNext
<1>. QED  BY <1>1, <1>2, <1>7, <1>8, ToForget

(* The objects which a stop leaves with a freed copy were intercepted. *)
LEMMA LeftBehind ==
  ASSUME IInv, NEW i \in Interceptor, Destroy(i), NEW o \in live \cap Object,
         field[o] \in Copy \ DOMAIN heap'.mem
  PROVE  Meets(i, o) /\ i \in Indirect
<1>1. /\ Kept
      /\ \A j \in Interceptor \ {i} :
           watch'[j] = watch[j] /\ heap'.idata[j] = heap.idata[j]
  BY DestroyStep
<1>2. PointerOwned(o) /\ prog[o] \in Ops \cup {NULL} /\ field[o] \notin Ops \cup {NULL}
  BY AddressAssumption DEF IInv, TypeOK, PointersOwned, PointerOwned, Struct
<1>3. PICK j \in Interceptor : Watched(j, o) /\ field[o] = heap.idata[j][watch[j][o]].repl
  BY <1>2 DEF PointerOwned
<1>4. watch[j][o] \in DOMAIN heap.idata[j] /\ j \in Indirect
  BY <1>3, WatchedKey DEF Watched, Indirect
<1>5. j = i
  <2>1. ASSUME j # i PROVE FALSE
    <3>1. heap'.idata[j] = heap.idata[j]
      BY <1>1, <2>1
    <3>3. Tables(heap') /\ watch[j][o] \in DOMAIN heap'.idata[j]
      BY <1>1, <1>4, <3>1 DEF Kept, HeapInv, Base
    <3>2. field[o] \in heap'.global
      BY <1>3, <3>1, <3>3 DEF Tables
    <3>. QED  BY <1>1, <3>2 DEF Kept, HeapInv, Base, Held
  <2>. QED  BY <2>1
<1>. QED  BY <1>3, <1>4, <1>5 DEF Meets

LEMMA DestroyRefines ==
  ASSUME IInv, NEW i \in Indirect, Destroy(i)
  PROVE  Promise!Stop(i)
<1>1. IInv' /\ Kept /\ i \in Interceptor
  BY DestroyInv DEF Indirect
<1>2. /\ DOMAIN watch'[i] = {}
      /\ \A j \in Interceptor \ {i} : watch'[j] = watch[j]
  BY <1>1, DestroyStep
<1>3. /\ live' = live \ {o \in Object : field[o] \in Copy \ DOMAIN heap'.mem}
      /\ field' = field
  BY DEF Destroy
<1>. DEFINE S == {o \in live \cap Object : field[o] \in Copy \ DOMAIN heap'.mem}
<1>4. S \in SUBSET Met[i]
  BY <1>1, LeftBehind DEF Met
<1>5. live' \cap Object = (live \cap Object) \ S
  BY <1>3
<1>. HIDE DEF S
<1>6. ASSUME NEW j \in Indirect \ {i}, NEW o \in Object
      PROVE  Meets(j, o)' <=> Meets(j, o)
  BY <1>1, <1>2, <1>3, MetBefore DEF Indirect
<1>7. \A o \in Object : ~Meets(i, o)'
  BY <1>2 DEF Meets, Watched
<1>8. Met' = [Met EXCEPT ![i] = {}]
  BY <1>6, <1>7 DEF Met
<1>9. PWatched' = [PWatched EXCEPT ![i] = {}]
  BY <1>2 DEF PWatched, Indirect
<1>. QED  BY <1>1, <1>4, <1>5, <1>8, <1>9, ToStop

LEMMA ProgramSetOpsRefines ==
  ASSUME IInv, NEW o \in Object, NEW a \in Given, ProgramSetOps(o, a)
  PROVE  Promise!ProgramSets(o)
<1>1. IInv' /\ Kept
  BY ProgramSetOpsInv
<1>2. /\ SetPointer(o, a) /\ live' = live \cup {o} /\ UNCHANGED <<heap, watch>>
      /\ field'[o] = a
  BY DEF ProgramSetOps, SetPointer
<1>. DEFINE I == {i \in Indirect : Watched(i, o) /\ heap.idata[i][watch[i][o]].repl = a}
<1>3. ASSUME NEW i \in I, NEW j \in I PROVE i = j
  <2>1. /\ i \in Interceptor /\ watch[i][o] \in DOMAIN heap.idata[i]
        /\ j \in Interceptor /\ watch[j][o] \in DOMAIN heap.idata[j]
    BY WatchedKey DEF Watched, Indirect
  <2>2. /\ MyOperations(heap, i, watch[i][o], a)
        /\ MyOperations(heap, j, watch[j][o], a)
    BY DEF MyOperations
  <2>3. HeapInv(heap, live)
    BY DEF IInv
  <2>. HIDE DEF I
  <2>. QED  BY <2>1, <2>2, <2>3, OneOwner DEF HeapInv
<1>4. I \in SUBSET Indirect /\ \A i \in I : o \in DOMAIN watch[i]
  BY DEF Watched
<1>5. ASSUME NEW i \in Indirect PROVE Meets(i, o)' <=> i \in I
  BY <1>2 DEF Meets, Watched
<1>6. ASSUME NEW i \in Indirect, NEW p \in Object \ {o}
      PROVE  Meets(i, p)' <=> Meets(i, p)
  BY <1>2 DEF Meets, Watched, SetPointer
<1>. HIDE DEF I
<1>7. Met' = [i \in Indirect |-> IF i \in I THEN Met[i] \cup {o} ELSE Met[i] \ {o}]
  BY <1>5, <1>6 DEF Met
<1>. QED  BY <1>1, <1>2, <1>3, <1>4, <1>7, ToProgramSets

(* What direct interceptors do, and what is done to direct objects, does not
   touch objects with a pointer to operations. *)
LEMMA BystanderRefines ==
  ASSUME IInv, IInv', Kept, field' = field, \A j \in Indirect : watch'[j] = watch[j]
  PROVE  /\ live' \cap Object = live \cap Object => UNCHANGED Promise!vars
         /\ \A o \in Object : live' = live \ {o} => Promise!ProgramFrees(o)
<1>1. \A j \in Indirect : \A o \in Object : Meets(j, o)' <=> Meets(j, o)
  BY MetBefore DEF Indirect
<1>2. Met' = Met /\ PWatched' = PWatched
  BY <1>1 DEF Met, PWatched
<1>. QED  BY <1>2, ToStutter

LEMMA DirectRefines ==
  ASSUME IInv, NEW i \in Direct, IInv', Kept,
         \/ Destroy(i)
         \/ \E x \in DirectObject :
              /\ (\E k : SetWatch(i, x, k)) \/ DropWatch(i, x) \/ watch' = watch
              /\ (\E a : SetPointer(x, a)) \/ field' = field
              /\ live' = live \/ live' = live \ {x}
  PROVE  UNCHANGED Promise!vars
<1>1. i \in Interceptor
  BY InterceptorAssumption
<1>2. CASE Destroy(i)
  <2>1. \A j \in Indirect : watch'[j] = watch[j]
    BY <1>1, <1>2, DestroyStep DEF Indirect
  <2>2. field' = field /\ live' \cap Object = live \cap Object
    BY <1>1, <1>2, LeftBehind DEF Destroy, Indirect
  <2>. QED  BY <2>1, <2>2, BystanderRefines
<1>3. ASSUME NEW x \in DirectObject,
             (\E k : SetWatch(i, x, k)) \/ DropWatch(i, x) \/ watch' = watch,
             (\E a : SetPointer(x, a)) \/ field' = field,
             live' = live \/ live' = live \ {x}
      PROVE  UNCHANGED Promise!vars
  <2>1. x \notin Object
    BY AddressAssumption
  <2>2. \A j \in Indirect : watch'[j] = watch[j]
    BY <1>1, <1>3, WatchedNext DEF Indirect
  <2>3. field' = field
    <3>1. field = [o \in Object |-> field[o]]
      BY DEF IInv, TypeOK
    <3>2. ASSUME NEW a, SetPointer(x, a) PROVE field' = [o \in Object |-> field[o]]
      BY <2>1, <3>2 DEF SetPointer
    <3>. QED  BY <1>3, <3>1, <3>2
  <2>4. live' \cap Object = live \cap Object
    BY <1>3, <2>1
  <2>. QED  BY <2>2, <2>3, <2>4, BystanderRefines
<1>. QED  BY <1>2, <1>3

LEMMA WatchRefines ==
  ASSUME IInv, IInv', NEW i \in Interceptor, NEW x \in Watchable(i), Watch(i, x)
  PROVE  \/ UNCHANGED Promise!vars
         \/ i \in Indirect /\ x \in Object /\ (Promise!Watch(i, x) \/ Promise!WatchFails(i, x))
<1>1. CASE i \in Indirect
  <2>1. x \in Object
    BY <1>1 DEF Watchable, Indirect
  <2>2. CASE WatchUpdate(i, x)
    BY <1>1, <2>1, <2>2, WatchUpdateRefines
  <2>3. CASE WatchMoved(i, x)
    BY <1>1, <2>1, <2>3, WatchMovedStep, InstrumentedRefines DEF WatchMoved
  <2>4. CASE WatchMovedFails(i, x)
    BY <1>1, <2>1, <2>4, WatchMovedFailsRefines
  <2>5. CASE WatchNew(i, x)
    BY <1>1, <2>1, <2>5, WatchNewStep, InstrumentedRefines DEF WatchNew
  <2>6. CASE WatchNewFails(i, x)
    <3>1. UNCHANGED vars
      BY <2>6, WatchNewFailsStep DEF WatchNewFails, vars
    <3>2. Kept
      BY <3>1, InvParts DEF Kept, Steady, vars
    <3>. QED  BY <3>1, <3>2, BystanderRefines DEF vars
  <2>. QED  BY <2>2, <2>3, <2>4, <2>5, <2>6 DEF Watch
<1>2. CASE i \in Direct
  <2>1. x \in DirectObject
    BY <1>2 DEF Watchable
  <2>2. Kept
    <3>1. CASE WatchUpdate(i, x) \/ WatchNewFails(i, x)
      <4>1. UNCHANGED <<heap, watch, live>>
        BY <3>1, WatchNewFailsStep DEF WatchUpdate, WatchNewFails
      <4>. QED  BY <4>1, InvParts DEF Kept, Steady
    <3>2. CASE WatchMoved(i, x) \/ WatchNew(i, x)
      BY <3>2, WatchMovedStep, WatchNewStep
    <3>3. CASE WatchMovedFails(i, x)
      BY <1>2, <3>3, WatchMovedFailsInv
    <3>. QED  BY <3>1, <3>2, <3>3 DEF Watch
  <2>3. /\ (\E k : SetWatch(i, x, k)) \/ DropWatch(i, x) \/ watch' = watch
        /\ (\E a : SetPointer(x, a)) \/ field' = field
        /\ live' = live
    BY DEF Watch, WatchUpdate, WatchMoved, WatchMovedFails, WatchNew, WatchNewFails
  <2>. QED  BY <1>2, <2>1, <2>2, <2>3, DirectRefines
<1>. QED  BY <1>1, <1>2 DEF Indirect

LEMMA StepRefines == IInv /\ IInv' /\ [Next]_vars => [Promise!Next]_(Promise!vars)
<1>. SUFFICES ASSUME IInv, IInv', [Next]_vars
              PROVE  Promise!Next \/ UNCHANGED Promise!vars
  OBVIOUS
<1>1. CASE UNCHANGED vars
  <2>1. Kept
    BY <1>1, InvParts DEF Kept, Steady, vars
  <2>. QED  BY <1>1, <2>1, BystanderRefines DEF vars
<1>2. ASSUME NEW i \in Interceptor, NEW x \in Watchable(i),
             Watch(i, x) \/ Forget(i, x) \/ ForgetNorestore(i, x)
      PROVE  \/ UNCHANGED Promise!vars
             \/ /\ i \in Indirect /\ x \in Object
                /\ \/ Promise!Watch(i, x) \/ Promise!WatchFails(i, x)
                   \/ Promise!Forget(i, x) \/ Promise!ForgetNorestore(i, x)
  <2>1. CASE Watch(i, x)
    BY <2>1, WatchRefines
  <2>2. CASE i \in Indirect /\ (Forget(i, x) \/ ForgetNorestore(i, x))
    <3>1. x \in Object
      BY <2>2 DEF Watchable, Indirect
    <3>. QED  BY <2>2, <3>1, ForgetRefines, ForgetNorestoreRefines
  <2>3. CASE i \in Direct /\ (Forget(i, x) \/ ForgetNorestore(i, x))
    <3>1. Kept
      BY <2>3, ForgetInv, ForgetNorestoreInv
    <3>2. /\ x \in DirectObject /\ DropWatch(i, x)
          /\ (\E a : SetPointer(x, a)) \/ field' = field
          /\ live' = live \/ live' = live \ {x}
      BY <2>3 DEF Watchable, Forget, ForgetNorestore
    <3>. QED  BY <2>3, <3>1, <3>2, DirectRefines
  <2>. QED  BY <1>2, <2>1, <2>2, <2>3 DEF Indirect
<1>3. ASSUME NEW i \in Interceptor, Destroy(i)
      PROVE  \/ UNCHANGED Promise!vars
             \/ i \in Indirect /\ Promise!Stop(i)
  <2>1. CASE i \in Indirect
    BY <1>3, <2>1, DestroyRefines
  <2>2. CASE i \in Direct
    <3>1. Kept
      BY <1>3, DestroyInv
    <3>. QED  BY <1>3, <2>2, <3>1, DirectRefines
  <2>. QED  BY <2>1, <2>2 DEF Indirect
<1>4. ASSUME NEW o \in Object, NEW a \in Given, ProgramSetOps(o, a)
      PROVE  Promise!ProgramSets(o)
  BY <1>4, ProgramSetOpsRefines
<1>5. ASSUME NEW s \in DirectObject, ProgramInit(s)
      PROVE  UNCHANGED Promise!vars
  <2>1. Kept /\ field' = field /\ watch' = watch /\ live' \cap Object = live \cap Object
    BY <1>5, ProgramInitInv, AddressAssumption DEF ProgramInit
  <2>. QED  BY <2>1, BystanderRefines
<1>6. ASSUME NEW x \in Object \cup DirectObject, ProgramFree(x)
      PROVE  \/ UNCHANGED Promise!vars
             \/ x \in Object /\ Promise!ProgramFrees(x)
  <2>1. Kept /\ field' = field /\ watch' = watch /\ live' = live \ {x}
    BY <1>6, ProgramFreeInv DEF ProgramFree
  <2>2. CASE x \in Object
    BY <2>1, <2>2, BystanderRefines
  <2>3. CASE x \notin Object
    <3>1. live' \cap Object = live \cap Object
      BY <2>1, <2>3
    <3>. QED  BY <2>1, <3>1, BystanderRefines
  <2>. QED  BY <2>2, <2>3
<1>. QED
  BY <1>1, <1>2, <1>3, <1>4, <1>5, <1>6 DEF Next, Promise!Next, Indirect

LEMMA InitRefines == Init => Promise!Init
<1>. SUFFICES ASSUME Init PROVE Promise!Init
  OBVIOUS
<1>1. \A i \in Interceptor : watch[i] = Nothing
  BY DEF Init
<1>2. \A i \in Indirect : DOMAIN watch[i] = {} /\ {o \in Object : Intercepts(i, o)} = {}
  BY <1>1 DEF Intercepts, Watched, Nothing, Indirect
<1>3. live \cap Object = Object
  BY DEF Init
<1>. QED  BY <1>2, <1>3 DEF Promise!Init, Indirect

(* For any interceptors with a pointer or without, any mechanisms and any
   memory, each call does to its object what Interception promises, and
   nothing to any other. *)
THEOREM Refinement == Spec => Implements
BY InitRefines, StepRefines, Invariant, PTL DEF Spec, Implements, Promise!Spec

(* What follows from the promise: the calls of no object are intercepted by
   two of the interceptors. *)
THEOREM NeverTwo == Spec => [](Promise!TypeOK /\ Promise!OneInterceptor)
<1>1. IInv => Promise!TypeOK /\ Promise!OneInterceptor
  <2>. SUFFICES ASSUME IInv PROVE Promise!TypeOK /\ Promise!OneInterceptor
    OBVIOUS
  <2>1. PIntercepted = Met
    BY MetIntercepted
  <2>2. ASSUME NEW i \in Indirect, NEW o \in DOMAIN watch[i]
        PROVE  o \in Object
    BY <2>2, WatchedKey DEF Indirect, Watchable
  <2>3. PWatched \in [Indirect -> SUBSET Object]
    BY <2>2 DEF PWatched
  <2>4. PIntercepted \in [Indirect -> SUBSET Object]
    BY DEF PIntercepted
  <2>5. \A i \in Indirect : PIntercepted[i] \subseteq PWatched[i]
    BY <2>1 DEF Met, Meets, Watched, PWatched
  <2>6. ASSUME NEW i \in Indirect, NEW j \in Indirect,
               NEW o \in PIntercepted[i] \cap PIntercepted[j]
        PROVE  i = j
    <3>1. i \in Interceptor /\ j \in Interceptor /\ Meets(i, o) /\ Meets(j, o)
      BY <2>1, <2>6 DEF Met, Indirect
    <3>2. watch[i][o] \in DOMAIN heap.idata[i]
      BY <3>1, WatchedKey DEF Meets, Watched
    <3>3. MyOperations(heap, i, watch[i][o], field[o])
      BY <3>1 DEF Meets, MyOperations
    <3>. QED  BY <3>1, <3>2, <3>3, MetOnce
  <2>. QED
    BY <2>3, <2>4, <2>5, <2>6
    DEF Promise!TypeOK, Promise!OneInterceptor, PWatched, PIntercepted, Indirect
<1>. QED  BY <1>1, Invariant, PTL

(* And no step, except a stop, loses the interception of two objects. *)
THEOREM LosesOne == Spec => Promise!OneAtATime
<1>1. Promise!TypeOK /\ [Promise!Next]_(Promise!vars)
        => [(\A i \in Indirect : ~Promise!Stop(i)) =>
              \E o \in Object : \A i \in Indirect :
                PIntercepted[i] \ {o} \subseteq PIntercepted'[i]]_(Promise!vars)
  <2>. SUFFICES ASSUME Promise!TypeOK, Promise!Next,
                       \A i \in Indirect : ~Promise!Stop(i)
                PROVE  \E o \in Object : \A i \in Indirect :
                         PIntercepted[i] \ {o} \subseteq PIntercepted'[i]
    OBVIOUS
  <2>1. PIntercepted \in [Indirect -> SUBSET Object]
    BY DEF PIntercepted
  <2>2. ASSUME NEW i \in Indirect, NEW o \in Object,
               \/ Promise!Watch(i, o) \/ Promise!WatchFails(i, o)
               \/ Promise!Forget(i, o) \/ Promise!ForgetNorestore(i, o)
        PROVE  \A j \in Indirect : PIntercepted[j] \ {o} \subseteq PIntercepted'[j]
    <3>1. \/ PIntercepted' = [PIntercepted EXCEPT ![i] = @ \cup {o}]
          \/ PIntercepted' = [PIntercepted EXCEPT ![i] = @ \ {o}]
          \/ PIntercepted' = [j \in Indirect |-> PIntercepted[j] \ {o}]
          \/ PIntercepted' = PIntercepted
      BY <2>2
      DEF Promise!Watch, Promise!WatchFails, Promise!Forget, Promise!ForgetNorestore,
          Promise!Forgotten, PIntercepted, Indirect
    <3>. QED  BY <2>1, <3>1
  <2>3. ASSUME NEW o \in Object, Promise!ProgramSets(o) \/ Promise!ProgramFrees(o)
        PROVE  \A j \in Indirect : PIntercepted[j] \ {o} \subseteq PIntercepted'[j]
    <3>1. \/ PIntercepted' = PIntercepted
          \/ \E I : PIntercepted' = [j \in Indirect |-> IF j \in I THEN PIntercepted[j] \cup {o}
                                                                ELSE PIntercepted[j] \ {o}]
      BY <2>3 DEF Promise!ProgramSets, Promise!ProgramFrees, PIntercepted, Indirect
    <3>. QED  BY <2>1, <3>1
  <2>. QED  BY <2>2, <2>3 DEF Promise!Next, Indirect
<1>2. Spec => [][Promise!Next]_(Promise!vars)
  BY Refinement DEF Implements, Promise!Spec
<1>. QED
  BY <1>1, <1>2, NeverTwo, PTL DEF Promise!OneAtATime, PIntercepted, Indirect
-----------------------------------------------------------------------------
(* Foreign instrumentors.                                                  *)

(* A foreign instrumentor replaces an operation whatever it is, or never. *)
Always(g, f) == Mode[g][f] = "replace_all"

LEMMA ForeignReplaces ==
  ASSUME NEW g \in Foreign, NEW f \in Field, NEW op
  PROVE  Replaces(g, f, op) <=> Always(g, f)
BY ForeignModeAssumption DEF Replaces, Always

(* Operation op is the replacement of the last that replaces among the first
   p instrumentors of list s, or none if none of them does. *)
LastOf(s, p, f, n) ==
  /\ n \in 1 .. p /\ Always(s[n], f)
  /\ \A m \in 1 .. p : n < m => ~Always(s[m], f)

TopOf(s, p, f, none, op) ==
  \/ \E n \in 1 .. p : LastOf(s, p, f, n) /\ op = Intermediate(s[n], f)
  \/ op = none /\ \A n \in 1 .. p : ~Always(s[n], f)

TopIs(s, f, none, op) == TopOf(s, Len(s), f, none, op)

LEMMA ListIs ==
  ASSUME NEW s \in Seq(Foreign)
  PROVE  /\ Len(s) \in Nat /\ DOMAIN s = 1 .. Len(s)
         /\ \A n \in 1 .. Len(s) : s[n] \in Foreign
BY LenProperties

LEMMA TopEmpty ==
  ASSUME NEW f, NEW none
  PROVE  TopIs(<<>>, f, none, none)
BY DEF TopIs, TopOf

LEMMA TopAppend ==
  ASSUME NEW s \in Seq(Foreign), NEW g \in Foreign, NEW f, NEW none, NEW op,
         TopIs(s, f, none, op)
  PROVE  TopIs(Append(s, g), f, none, IF Always(g, f) THEN Intermediate(g, f) ELSE op)
<1>. DEFINE r == Append(s, g)
<1>1. /\ Len(s) \in Nat /\ Len(r) = Len(s) + 1 /\ r[Len(s) + 1] = g
      /\ \A n \in 1 .. Len(s) : r[n] = s[n]
  BY AppendProperties, LenProperties
<1>. HIDE DEF r
<1>2. CASE Always(g, f)
  <2>1. LastOf(r, Len(r), f, Len(s) + 1)
    BY <1>1, <1>2 DEF LastOf
  <2>. QED  BY <1>1, <1>2, <2>1 DEF TopIs, TopOf, r
<1>3. CASE ~Always(g, f)
  <2>1. ASSUME NEW n \in 1 .. Len(s), LastOf(s, Len(s), f, n)
        PROVE  n \in 1 .. Len(r) /\ LastOf(r, Len(r), f, n) /\ r[n] = s[n]
    BY <1>1, <1>3, <2>1 DEF LastOf
  <2>2. (\A n \in 1 .. Len(s) : ~Always(s[n], f)) => \A n \in 1 .. Len(r) : ~Always(r[n], f)
    BY <1>1, <1>3
  <2>3. TopIs(r, f, none, op)
    BY <2>1, <2>2 DEF TopIs, TopOf
  <2>. QED  BY <1>3, <2>3 DEF r
<1>. QED  BY <1>2, <1>3

LEMMA SameIntermediate ==
  ASSUME NEW i, NEW j, NEW f, Intermediate(i, f) = Intermediate(j, f)
  PROVE  i = j
BY DEF Intermediate

(* What is left of the order when an instrumentor leaves and puts what lies
   under its operation in its place. *)
LEMMA TopRemove ==
  ASSUME NEW s \in Seq(Foreign), IsInjective(s), NEW p \in DOMAIN s, NEW f,
         NEW none, none # Intermediate(s[p], f),
         NEW op, TopIs(s, f, none, op), NEW prev, TopOf(s, p - 1, f, none, prev)
  PROVE  TopIs(RemoveAt(s, p), f, none,
               IF op = Intermediate(s[p], f) THEN prev ELSE op)
<1>. DEFINE r == RemoveAt(s, p)
<1>1. /\ Len(s) \in Nat /\ p \in 1 .. Len(s) /\ Len(r) = Len(s) - 1
      /\ \A n \in 1 .. Len(r) : r[n] = IF n <= p - 1 THEN s[n] ELSE s[n + 1]
  BY RemoveAtIs, LenProperties
<1>2. \A n, m \in 1 .. Len(s) : s[n] = s[m] => n = m
  BY LenProperties DEF IsInjective
<1>. HIDE DEF r
<1>3. CASE LastOf(s, Len(s), f, p)
  <2>1. op = Intermediate(s[p], f)
    <3>1. \A n \in 1 .. Len(s) : LastOf(s, Len(s), f, n) => n = p
      BY <1>1, <1>3 DEF LastOf
    <3>2. Always(s[p], f)
      BY <1>3 DEF LastOf
    <3>. QED  BY <1>1, <3>1, <3>2 DEF TopIs, TopOf
  <2>2. \A n \in 1 .. Len(r) : n > p - 1 => ~Always(r[n], f)
    BY <1>1, <1>3 DEF LastOf
  <2>3. ASSUME NEW n \in 1 .. p - 1, LastOf(s, p - 1, f, n)
        PROVE  n \in 1 .. Len(r) /\ LastOf(r, Len(r), f, n) /\ r[n] = s[n]
    BY <1>1, <2>2, <2>3 DEF LastOf
  <2>4. (\A n \in 1 .. p - 1 : ~Always(s[n], f)) => \A n \in 1 .. Len(r) : ~Always(r[n], f)
    BY <1>1, <2>2
  <2>5. TopIs(r, f, none, prev)
    BY <2>3, <2>4 DEF TopIs, TopOf
  <2>. QED  BY <2>1, <2>5 DEF r
<1>4. CASE ~LastOf(s, Len(s), f, p)
  <2>1. op # Intermediate(s[p], f)
    <3>1. ASSUME NEW n \in 1 .. Len(s), LastOf(s, Len(s), f, n),
                 Intermediate(s[n], f) = Intermediate(s[p], f)
          PROVE  FALSE
      BY <1>1, <1>2, <1>4, <3>1, SameIntermediate
    <3>. QED  BY <3>1 DEF TopIs, TopOf
  <2>2. ASSUME NEW n \in 1 .. Len(s), LastOf(s, Len(s), f, n)
        PROVE  \E m \in 1 .. Len(r) : LastOf(r, Len(r), f, m) /\ r[m] = s[n]
    <3>1. CASE n < p
      <4>1. n \in 1 .. Len(r) /\ r[n] = s[n] /\ LastOf(r, Len(r), f, n)
        BY <1>1, <2>2, <3>1 DEF LastOf
      <4>. QED  BY <4>1
    <3>2. CASE n > p
      <4>1. /\ n - 1 \in 1 .. Len(r) /\ r[n - 1] = s[n]
            /\ n \in 1 .. Len(s) /\ Always(s[n], f)
            /\ \A m \in 1 .. Len(s) : n < m => ~Always(s[m], f)
        BY <1>1, <2>2, <3>2 DEF LastOf
      <4>2. ASSUME NEW m \in 1 .. Len(r), n - 1 < m
            PROVE  ~Always(r[m], f)
        <5>1. m + 1 \in 1 .. Len(s) /\ n < m + 1 /\ r[m] = s[m + 1]
          BY <1>1, <3>2, <4>1, <4>2
        <5>. QED  BY <4>1, <5>1
      <4>3. LastOf(r, Len(r), f, n - 1)
        BY <4>1, <4>2 DEF LastOf
      <4>. QED  BY <4>1, <4>3
    <3>. QED  BY <1>1, <1>4, <2>2, <3>1, <3>2
  <2>3. (\A n \in 1 .. Len(s) : ~Always(s[n], f)) => \A n \in 1 .. Len(r) : ~Always(r[n], f)
    BY <1>1
  <2>4. TopIs(r, f, none, op)
    BY <2>2, <2>3 DEF TopIs, TopOf
  <2>. QED  BY <2>1, <2>4 DEF r
<1>. QED  BY <1>3, <1>4
-----------------------------------------------------------------------------
(* The data of the normal instrumentor and the lists of foreign ones. *)

Repl(h, k) == h.idata[Bound][k].repl

(* Only the normal instrumentor has instrument data. *)
Foreignless(h) == \A g \in Foreign : DOMAIN h.idata[g] = {}

(* The replacements in structure ops lie in the order of list s, above what
   the normal instrumentor made of the original k. *)
Ordered(s, k, ops) ==
  \A f \in Field : TopIs(s, f, Patch(Bound, ContentAt(k))[f], ops[f])

Tops(h, ch) ==
  \A k \in DOMAIN h.idata[Bound] :
    /\ Ordered(ch[k], k, h.mem[Repl(h, k)])
    /\ h.idata[Bound][k].kind = "use_copy" => OpsAt(h, k) = ContentAt(k)

(* Data are referenced by those in their list and by u[k] others. *)
CountIs(h, ch, u) ==
  \A k \in Key :
    IF k \in DOMAIN h.idata[Bound]
    THEN h.idata[Bound][k].refs = u[k] + Len(ch[k])
    ELSE u[k] = 0 /\ ch[k] = <<>>

(* Counts u with one more or one less for data k, and the lists ch with g at
   the end of that of k or taken out of it. *)
More(u, k)     == [u EXCEPT ![k] = @ + 1]
Less(u, k)     == [u EXCEPT ![k] = @ - 1]
Joined(ch, k, g) == [ch EXCEPT ![k] = Append(@, g)]
Left(ch, k, g) == [ch EXCEPT ![k] = RemoveFirst(@, g)]

FHeap(h, ch, u) ==
  /\ Base(h, {}) /\ Foreignless(h)
  /\ ch \in [Key -> Seq(Foreign)] /\ u \in [Key -> Nat]
  /\ Tops(h, ch) /\ CountIs(h, ch, u)

(* A structure that nobody uses is one of the program. *)
Known(h, a) == a \notin h.global => a \in Ops \cup {NULL}

(* What becomes of the data of h in h2.  A copy is freed with its data. *)
Grown(h, h2) ==
  \A k \in DOMAIN h.idata[Bound] :
    k \in DOMAIN h2.idata[Bound] /\ Repl(h2, k) = Repl(h, k)

Carried(h, h2) ==
  \A k \in DOMAIN h.idata[Bound] :
    IF k \in DOMAIN h2.idata[Bound] THEN Repl(h2, k) = Repl(h, k)
    ELSE Repl(h, k) \in Copy => Repl(h, k) \notin DOMAIN h2.mem

LEMMA GrownCarried ==
  ASSUME NEW h, NEW g, NEW h2, Grown(h, g), Carried(g, h2)
  PROVE  Carried(h, h2)
BY DEF Grown, Carried

LEMMA GrownOnly ==
  ASSUME NEW h, NEW h2, Grown(h, h2)
  PROVE  Carried(h, h2)
BY DEF Grown, Carried

LEMMA BoundIs ==
  /\ Bound \in Interceptor /\ Foreign \subseteq Interceptor
  /\ Direct = {} /\ Originals(Bound) = Ops \cup {NULL}
  /\ \A a : a \notin DirectObject \/ a \notin Ops \cup {NULL}
  /\ \A j \in Interceptor : j = Bound \/ j \in Foreign
  /\ \A g \in Foreign : g # Bound
BY BoundAssumption, AddressAssumption DEF Originals, Struct

LEMMA BoundData ==
  ASSUME NEW h, HeapOK(h), NEW k \in DOMAIN h.idata[Bound]
  PROVE  /\ k \in Key /\ h.idata[Bound][k] \in InstrumentData
         /\ h.idata[Bound][k].refs \in Nat \ {0}
         /\ h.idata[Bound][k].kind \in {"at_place", "use_copy"}
         /\ Repl(h, k) \in Struct \cup Copy
BY BoundIs, Parts, DataType DEF Repl

(* Getting data of the normal instrumentor. *)
LEMMA BoundGet ==
  ASSUME NEW h, NEW ch, NEW u, FHeap(h, ch, u), NEW a, Known(h, a),
         NEW d \in GetData(h, Bound, a)
  PROVE  /\ FHeap(d.heap, ch, More(u, d.key))
         /\ d.key \in DOMAIN d.heap.idata[Bound] /\ d.key \in Key
         /\ MyOperations(d.heap, Bound, d.key, a)
         /\ Grown(h, d.heap)
<1>. DEFINE h2 == d.heap
            k == d.key
            u2 == More(u, k)
<1>1. Base(h, {}) /\ Bound \in Interceptor /\ Fetchable(h, {}, Bound, a)
  BY BoundIs DEF FHeap, Fetchable, Known
<1>2. /\ Base(h2, {}) /\ Elsewhere(h, h2, Bound, k) /\ Untouched(h, h2)
      /\ k \in DOMAIN h2.idata[Bound] /\ MyOperations(h2, Bound, k, a)
  BY <1>1, GetDataBase
<1>3. \/ /\ k \in DOMAIN h.idata[Bound]
         /\ SameData(h.idata[Bound][k], h2.idata[Bound][k])
         /\ h2.idata[Bound][k].refs = h.idata[Bound][k].refs + 1
      \/ /\ k \notin DOMAIN h.idata[Bound]
         /\ h2.idata[Bound][k].refs = 1
         /\ h2.mem[Repl(h2, k)] = Patch(Bound, ContentAt(k))
         /\ h2.idata[Bound][k].kind = "use_copy" => OpsAt(h2, k) = ContentAt(k)
  BY <1>1, GetDataBase DEF Repl
<1>. HIDE DEF h2, k
<1>4. /\ DOMAIN h2.idata[Bound] = DOMAIN h.idata[Bound] \cup {k} /\ k \in Key
      /\ \A l \in DOMAIN h.idata[Bound] \ {k} : h2.idata[Bound][l] = h.idata[Bound][l]
  BY <1>2, BoundData DEF Elsewhere, Base
<1>5. ASSUME NEW l \in DOMAIN h.idata[Bound]
      PROVE  /\ l \in DOMAIN h2.idata[Bound] /\ Repl(h2, l) = Repl(h, l)
             /\ h2.idata[Bound][l].kind = h.idata[Bound][l].kind
             /\ h2.mem[Repl(h, l)] = h.mem[Repl(h, l)] /\ OpsAt(h2, l) = OpsAt(h, l)
  BY <1>2, <1>4, BoundIs DEF Untouched, SameData, Repl
<1>6. Tops(h2, ch)
  <2>1. ASSUME k \notin DOMAIN h.idata[Bound], NEW f \in Field
        PROVE  TopIs(ch[k], f, Patch(Bound, ContentAt(k))[f], h2.mem[Repl(h2, k)][f])
    BY <1>3, <1>4, <2>1, TopEmpty DEF FHeap, CountIs
  <2>2. ASSUME NEW l \in DOMAIN h.idata[Bound]
        PROVE  /\ \A f \in Field : TopIs(ch[l], f, Patch(Bound, ContentAt(l))[f],
                                         h2.mem[Repl(h2, l)][f])
               /\ h2.idata[Bound][l].kind = "use_copy" => OpsAt(h2, l) = ContentAt(l)
    BY <1>5 DEF FHeap, Tops, Ordered
  <2>. QED  BY <1>3, <1>4, <2>1, <2>2 DEF Tops, Ordered
<1>7. CountIs(h2, ch, u2) /\ u2 \in [Key -> Nat]
  <2>1. /\ u2 \in [Key -> Nat] /\ u2[k] = u[k] + 1 /\ u[k] \in Nat
        /\ \A l \in Key \ {k} : u2[l] = u[l]
    BY <1>4 DEF FHeap, More
  <2>2. Len(ch[k]) \in Nat
    BY <1>4, ListIs DEF FHeap
  <2>. HIDE DEF u2
  <2>3. h2.idata[Bound][k].refs = u2[k] + Len(ch[k])
    <3>1. CASE k \in DOMAIN h.idata[Bound]
      <4>1. h2.idata[Bound][k].refs = h.idata[Bound][k].refs + 1
        BY <1>3, <3>1
      <4>2. h.idata[Bound][k].refs = u[k] + Len(ch[k])
        BY <1>4, <3>1 DEF FHeap, CountIs
      <4>. QED  BY <2>1, <2>2, <4>1, <4>2
    <3>2. CASE k \notin DOMAIN h.idata[Bound]
      <4>1. h2.idata[Bound][k].refs = 1
        BY <1>3, <3>2
      <4>2. u[k] = 0 /\ ch[k] = <<>> /\ Len(<<>>) = 0
        BY <1>4, <3>2 DEF FHeap, CountIs
      <4>. QED  BY <2>1, <4>1, <4>2
    <3>. QED  BY <3>1, <3>2
  <2>4. \A l \in Key \ {k} :
          IF l \in DOMAIN h2.idata[Bound]
          THEN h2.idata[Bound][l].refs = u2[l] + Len(ch[l])
          ELSE u2[l] = 0 /\ ch[l] = <<>>
    BY <1>4, <2>1 DEF FHeap, CountIs
  <2>. QED  BY <1>2, <2>1, <2>3, <2>4 DEF CountIs
<1>8. Foreignless(h2)
  BY <1>2, BoundIs DEF Elsewhere, FHeap, Foreignless
<1>9. Grown(h, h2)
  BY <1>5 DEF Grown
<1>. QED  BY <1>2, <1>4, <1>6, <1>7, <1>8, <1>9 DEF FHeap, h2, k

(* The structure prepared for data is there. *)
LEMMA ReplThere ==
  ASSUME NEW h, Base(h, {}), NEW k \in DOMAIN h.idata[Bound]
  PROVE  /\ Repl(h, k) \in DOMAIN h.mem /\ h.mem[Repl(h, k)] \in AnyOps
         /\ k \in DOMAIN h.table[Bound] /\ h.table[Bound][k] = k /\ k \in Ops \cup {NULL}
         /\ Repl(h, k) \in DOMAIN h.table[Bound] /\ h.table[Bound][Repl(h, k)] = k
         /\ Repl(h, k) \in h.global /\ k \in h.global
         /\ Repl(h, k) \in Struct => Repl(h, k) = k
<1>1. /\ HeapOK(h) /\ Tables(h) /\ Held(h) /\ Mechanism(h)
  BY DEF Base
<1>2. /\ k \in DOMAIN h.table[Bound] /\ h.table[Bound][k] = k
      /\ Repl(h, k) \in DOMAIN h.table[Bound] /\ h.table[Bound][Repl(h, k)] = k
      /\ Repl(h, k) \in h.global /\ k \in h.global
  BY <1>1, BoundIs DEF Tables, Repl
<1>3. Repl(h, k) \in DOMAIN h.mem /\ h.mem[Repl(h, k)] \in AnyOps
  BY <1>1, <1>2, BoundData, Parts, BoundIs DEF Held
<1>4. k \in Ops \cup {NULL} /\ (Repl(h, k) \in Struct => Repl(h, k) = k)
  <2>1. h.idata[Bound][k] \in InstrumentData
    BY <1>1, BoundData
  <2>. QED  BY <1>1, <2>1, BoundIs, DataType, AddressAssumption DEF Mechanism, Repl, Struct
<1>. QED  BY <1>2, <1>3, <1>4

(* Data with an empty list are as if there were no foreign instrumentors. *)
LEMMA TopPatched ==
  ASSUME NEW h, NEW ch, NEW u, FHeap(h, ch, u), NEW k \in DOMAIN h.idata[Bound],
         ch[k] = <<>>
  PROVE  PatchedAt(h, Bound, k)
<1>. DEFINE ops == h.mem[Repl(h, k)]
            patch == Patch(Bound, ContentAt(k))
<1>1. Base(h, {}) /\ Mechanism(h)
  BY DEF FHeap, Base
<1>2. \A f \in Field : ops[f] = patch[f]
  <2>1. \A f \in Field : TopIs(<<>>, f, patch[f], ops[f])
    BY DEF FHeap, Tops, Ordered
  <2>. QED  BY <2>1 DEF TopIs, TopOf, LastOf
<1>3. ops \in AnyOps
  BY <1>1, ReplThere
<1>4. DOMAIN patch = Field /\ patch = [f \in Field |-> patch[f]]
  BY DEF Patch
<1>. HIDE DEF patch, ops
<1>5. ops = patch
  BY <1>2, <1>3, <1>4 DEF AnyOps
<1>6. h.idata[Bound][k].kind = "use_copy" => OpsAt(h, k) = ContentAt(k)
  BY DEF FHeap, Tops, Ordered
<1>. QED  BY <1>1, <1>5, <1>6, BoundIs, PatchedThere DEF ops, patch, Repl

(* Without any foreign data the heap is that of Instrumentor. *)
LEMMA FHeapInv ==
  ASSUME NEW h, NEW ch, NEW u, FHeap(h, ch, u), \A k \in Key : ch[k] = <<>>
  PROVE  HeapInv(h, {})
<1>1. \A k \in DOMAIN h.idata[Bound] : k \in Key
  BY BoundData DEF FHeap, Base
<1>2. \A k \in DOMAIN h.idata[Bound] : PatchedAt(h, Bound, k)
  BY <1>1, TopPatched
<1>3. \A j \in Interceptor : \A k \in DOMAIN h.idata[j] : PatchedAt(h, j, k)
  BY <1>2, BoundIs DEF FHeap, Foreignless
<1>. QED  BY <1>3 DEF HeapInv, FHeap, Patched

(* Dropping a reference to data of the normal instrumentor. *)
LEMMA BoundUnref ==
  ASSUME NEW h, NEW ch, NEW u, FHeap(h, ch, u), NEW k \in Key, u[k] > 0,
         NEW h2, h2 = Unref(h, Bound, k)
  PROVE  /\ FHeap(h2, ch, Less(u, k)) /\ Carried(h, h2)
         /\ k \in DOMAIN h.idata[Bound]
<1>. DEFINE u2 == Less(u, k)
<1>1. /\ Base(h, {}) /\ u \in [Key -> Nat] /\ u[k] \in Nat
  BY DEF FHeap
<1>2. /\ k \in DOMAIN h.idata[Bound]
      /\ h.idata[Bound][k].refs = u[k] + Len(ch[k])
      /\ Len(ch[k]) \in Nat /\ (Len(ch[k]) = 0 => ch[k] = <<>>)
  <2>1. ch[k] \in Seq(Foreign)
    BY DEF FHeap
  <2>2. Len(ch[k]) \in Nat /\ (Len(ch[k]) = 0 => ch[k] = <<>>)
    BY <2>1, EmptySeq, ListIs
  <2>. QED  BY <2>2 DEF FHeap, CountIs
<1>3. h.idata[Bound][k].refs = 1 => PatchedAt(h, Bound, k)
  BY <1>1, <1>2, TopPatched
<1>4. /\ Base(h2, {}) /\ Elsewhere(h, h2, Bound, k) /\ Untouched(h, h2)
      /\ Released(h, h2, Bound, k)
      /\ h.idata[Bound][k].refs = 1 /\ Repl(h, k) \in Copy
           => Repl(h, k) \notin DOMAIN h2.mem
  BY <1>1, <1>2, <1>3, BoundIs, UnrefBase DEF Repl
<1>5. /\ u2 \in [Key -> Nat] /\ u2[k] = u[k] - 1 /\ \A l \in Key \ {k} : u2[l] = u[l]
  BY <1>1 DEF Less
<1>. HIDE DEF u2
<1>6. /\ \A l \in DOMAIN h2.idata[Bound] :
           /\ l \in DOMAIN h.idata[Bound] /\ Repl(h2, l) = Repl(h, l)
           /\ h2.idata[Bound][l].kind = h.idata[Bound][l].kind
           /\ h2.mem[Repl(h, l)] = h.mem[Repl(h, l)] /\ OpsAt(h2, l) = OpsAt(h, l)
      /\ \A l \in DOMAIN h.idata[Bound] \ {k} : l \in DOMAIN h2.idata[Bound]
  BY <1>2, <1>4, BoundIs DEF Untouched, SameData, Repl, Elsewhere
<1>7. Tops(h2, ch)
  BY <1>6 DEF FHeap, Tops, Ordered
<1>8. CountIs(h2, ch, u2)
  <2>1. ASSUME NEW l \in Key, l # k
        PROVE  IF l \in DOMAIN h2.idata[Bound]
               THEN h2.idata[Bound][l].refs = u2[l] + Len(ch[l])
               ELSE u2[l] = 0 /\ ch[l] = <<>>
    BY <1>4, <1>5, <1>6, <2>1 DEF Elsewhere, FHeap, CountIs
  <2>2. IF k \in DOMAIN h2.idata[Bound]
        THEN h2.idata[Bound][k].refs = u2[k] + Len(ch[k])
        ELSE u2[k] = 0 /\ ch[k] = <<>>
    <3>1. CASE h.idata[Bound][k].refs = 1
      BY <1>1, <1>2, <1>4, <1>5, <3>1 DEF Released
    <3>2. CASE h.idata[Bound][k].refs # 1
      BY <1>1, <1>2, <1>4, <1>5, <3>2 DEF Released
    <3>. QED  BY <3>1, <3>2
  <2>. QED  BY <2>1, <2>2 DEF CountIs
<1>9. Foreignless(h2)
  BY <1>4, BoundIs DEF Elsewhere, FHeap, Foreignless
<1>10. Carried(h, h2)
  BY <1>4, <1>6 DEF Carried, Released
<1>11. FHeap(h2, ch, u2)
  BY <1>4, <1>5, <1>7, <1>8, <1>9 DEF FHeap
<1>. QED  BY <1>2, <1>10, <1>11 DEF u2

(* Heap h with operations ops in the structure prepared for data k. *)
Rewrite(h, k, ops) == [h EXCEPT !.mem[Repl(h, k)] = ops]

LEMMA RewriteIs ==
  ASSUME NEW h, Base(h, {}), NEW k \in DOMAIN h.idata[Bound], NEW ops \in AnyOps,
         NEW h2, h2 = Rewrite(h, k, ops)
  PROVE  /\ Base(h2, {}) /\ h2.idata = h.idata /\ h2.table = h.table
         /\ h2.global = h.global /\ DOMAIN h2.mem = DOMAIN h.mem
         /\ h2.mem[Repl(h, k)] = ops
         /\ \A a \in DOMAIN h.mem \ {Repl(h, k)} : h2.mem[a] = h.mem[a]
<1>. DEFINE m == [h.mem EXCEPT ![Repl(h, k)] = ops]
<1>1. h = [idata |-> h.idata, table |-> h.table, global |-> h.global, mem |-> h.mem]
  BY DEF Base, HeapOK
<1>2. h2 = [h EXCEPT !.mem = m]
  BY <1>1 DEF Rewrite
<1>3. /\ DOMAIN m = DOMAIN h.mem /\ m[Repl(h, k)] = ops
      /\ \A a \in DOMAIN h.mem \ {Repl(h, k)} : m[a] = h.mem[a]
  BY ReplThere
<1>4. IsPartial(m, Struct \cup Copy, AnyOps)
  <2>1. IsPartial(h.mem, Struct \cup Copy, AnyOps)
    BY DEF Base, HeapOK
  <2>. QED  BY <2>1 DEF IsPartial
<1>. HIDE DEF m
<1>5. h2 = [idata |-> h.idata, table |-> h.table, global |-> h.global, mem |-> m]
  BY <1>1, <1>2
<1>6. /\ h2.idata = h.idata /\ h2.table = h.table /\ h2.global = h.global /\ h2.mem = m
  BY <1>5
<1>7. HeapOK(h2)
  BY <1>4, <1>5, <1>6 DEF Base, HeapOK
<1>8. Tables(h2) /\ Mechanism(h2) /\ Held(h2)
  BY <1>3, <1>6 DEF Base, Tables, MyOperations, Mechanism, Held
<1>9. Plain(h2, {})
  BY <1>3, <1>6, ReplThere DEF Base, Plain, Held
<1>. QED  BY <1>3, <1>6, <1>7, <1>8, <1>9 DEF Base

(* A structure is rewritten for another list, of which so much is counted as
   the references that become free or are taken. *)
LEMMA RewriteHeap ==
  ASSUME NEW h, NEW ch, NEW u, FHeap(h, ch, u), NEW k \in DOMAIN h.idata[Bound],
         NEW ops \in AnyOps, NEW s \in Seq(Foreign), NEW n \in Nat,
         n + Len(s) = u[k] + Len(ch[k]),
         Ordered(s, k, ops), NEW h2, h2 = Rewrite(h, k, ops)
  PROVE  /\ FHeap(h2, [ch EXCEPT ![k] = s], [u EXCEPT ![k] = n])
         /\ Grown(h, h2) /\ h2.idata = h.idata
<1>. DEFINE ch2 == [ch EXCEPT ![k] = s]
            u2 == [u EXCEPT ![k] = n]
<1>1. Base(h, {}) /\ k \in Key
  BY BoundData DEF FHeap, Base
<1>2. /\ Base(h2, {}) /\ h2.idata = h.idata /\ DOMAIN h2.mem = DOMAIN h.mem
      /\ h2.mem[Repl(h, k)] = ops
      /\ \A a \in DOMAIN h.mem \ {Repl(h, k)} : h2.mem[a] = h.mem[a]
  BY <1>1, RewriteIs
<1>3. /\ ch2 \in [Key -> Seq(Foreign)] /\ ch2[k] = s /\ \A l \in Key \ {k} : ch2[l] = ch[l]
      /\ u2 \in [Key -> Nat] /\ u2[k] = n /\ \A l \in Key \ {k} : u2[l] = u[l]
  BY <1>1 DEF FHeap
<1>. HIDE DEF ch2, u2
<1>4. ASSUME NEW l \in DOMAIN h.idata[Bound]
      PROVE  h2.idata[Bound][l].kind = "use_copy" => OpsAt(h2, l) = ContentAt(l)
  <2>. SUFFICES ASSUME h.idata[Bound][l].kind = "use_copy"
                PROVE  OpsAt(h2, l) = ContentAt(l)
    BY <1>2
  <2>1. OpsAt(h, l) = ContentAt(l)
    BY DEF FHeap, Tops, Ordered
  <2>2. l # Repl(h, k)
    <3>1. h.idata[Bound][l] \in InstrumentData
      BY <1>1, BoundData DEF Base
    <3>2. Repl(h, l) \in Copy /\ l \notin Copy
      BY <1>1, <3>1, DataType, ReplThere, AddressAssumption DEF Repl, Struct
    <3>. QED  BY <1>1, <3>2, ReplThere
  <2>3. l # NULL => l \in DOMAIN h.mem
    BY <1>1, ReplThere DEF Base, Held, Struct
  <2>. QED  BY <1>2, <2>1, <2>2, <2>3 DEF OpsAt
<1>5. Tops(h2, ch2)
  <2>1. ASSUME NEW l \in DOMAIN h.idata[Bound], NEW f \in Field
        PROVE  TopIs(ch2[l], f, Patch(Bound, ContentAt(l))[f], h2.mem[Repl(h2, l)][f])
    <3>1. l \in Key /\ Repl(h2, l) = Repl(h, l) /\ Repl(h, l) \in DOMAIN h.mem
      BY <1>1, <1>2, BoundData, ReplThere DEF Base, Repl
    <3>2. CASE l = k
      BY <1>2, <1>3, <3>1, <3>2 DEF Ordered
    <3>3. CASE l # k
      <4>1. Repl(h, l) # Repl(h, k)
        BY <1>1, <3>3, ReplThere
      <4>. QED  BY <1>2, <1>3, <3>1, <3>3, <4>1 DEF FHeap, Tops, Ordered
    <3>. QED  BY <3>2, <3>3
  <2>. QED  BY <1>2, <1>4, <2>1 DEF Tops, Ordered
<1>6. CountIs(h2, ch2, u2)
  <2>1. h.idata[Bound][k].refs = u2[k] + Len(ch2[k])
    BY <1>1, <1>3 DEF FHeap, CountIs
  <2>. QED  BY <1>2, <1>3, <2>1 DEF FHeap, CountIs
<1>7. Foreignless(h2) /\ Grown(h, h2)
  BY <1>2 DEF FHeap, Foreignless, Grown, Repl
<1>8. FHeap(h2, ch2, u2)
  BY <1>2, <1>3, <1>5, <1>6, <1>7 DEF FHeap
<1>. QED  BY <1>2, <1>7, <1>8 DEF ch2, u2

(* The original operations are always found. *)
LEMMA OriginalIs ==
  ASSUME NEW h, NEW ch, NEW u, FHeap(h, ch, u), NEW k \in DOMAIN h.idata[Bound],
         NEW f \in Field
  PROVE  /\ OrigOperation(h, Bound, k, f) = ContentAt(k)[f]
         /\ ContentAt(k)[f] \in Function \cup {NULL}
         /\ ContentAt(k)[f] \notin Intermediates
         /\ Patch(Bound, ContentAt(k))[f] =
              Replaced(Bound, f, ContentAt(k)[f], ContentAt(k)[f])
         /\ Patch(Bound, ContentAt(k))[f] \in {ContentAt(k)[f], Intermediate(Bound, f)}
<1>1. k \in Key /\ k \in Struct \cup {NULL} /\ h.idata[Bound][k].kind \in {"at_place", "use_copy"}
  BY BoundData DEF FHeap, Base, Key
<1>2. ContentAt(k) \in ProgramOps
  BY <1>1, ContentType
<1>3. OrigOperation(h, Bound, k, f) = ContentAt(k)[f]
  <2>1. CASE h.idata[Bound][k].kind = "at_place"
    <3>1. k \in Struct /\ h.idata[Bound][k].saved = Content[k]
      BY <2>1, BoundIs DEF FHeap, Base, Mechanism
    <3>2. ContentAt(k) = Content[k]
      BY <3>1, AddressAssumption DEF ContentAt
    <3>. QED  BY <2>1, <3>1, <3>2 DEF OrigOperation
  <2>2. CASE h.idata[Bound][k].kind = "use_copy"
    BY <2>2 DEF FHeap, Tops, Ordered, OrigOperation
  <2>. QED  BY <1>1, <2>1, <2>2
<1>4. ContentAt(k)[f] \in Function \cup {NULL} /\ ContentAt(k)[f] \notin Intermediates
  BY <1>2, FunctionAssumption DEF ProgramOps
<1>5. /\ Patch(Bound, ContentAt(k))[f] =
           Replaced(Bound, f, ContentAt(k)[f], ContentAt(k)[f])
      /\ Patch(Bound, ContentAt(k))[f] \in {ContentAt(k)[f], Intermediate(Bound, f)}
  BY DEF Patch, Replaced
<1>. QED  BY <1>3, <1>4, <1>5

LEMMA IntermediateIn ==
  ASSUME NEW i \in Interceptor, NEW f \in Field
  PROVE  Intermediate(i, f) \in Intermediates
BY DEF Intermediate, Intermediates

(* The operation that lies under that of g. *)
LEMMA PreviousIs ==
  ASSUME NEW c, NEW k, c.chain[k] \in Seq(Foreign), IsInjective(c.chain[k]),
         NEW p \in DOMAIN c.chain[k], NEW g, g = c.chain[k][p], NEW f \in Field, NEW none
  PROVE  TopOf(c.chain[k], p - 1, f, none, Previous(c, g, k, f, none))
<1>. DEFINE s == c.chain[k]
            E == Earlier(c, g, k, f)
<1>1. /\ Len(s) \in Nat /\ DOMAIN s = 1 .. Len(s) /\ p \in 1 .. Len(s)
      /\ \A n \in 1 .. Len(s) : s[n] \in Foreign
  BY ListIs
<1>2. E = {n \in 1 .. p - 1 : Always(s[n], f)}
  <2>1. ASSUME NEW n \in DOMAIN s
        PROVE  n \in E <=> n < p /\ Always(s[n], f)
    <3>1. (\E m \in DOMAIN s : n < m /\ s[m] = g) <=> n < p
      BY <1>1 DEF IsInjective
    <3>2. Replaces(s[n], f, OrigOperation(c.heap, Bound, k, f)) <=> Always(s[n], f)
      BY <1>1, ForeignReplaces
    <3>. QED  BY <3>1, <3>2 DEF Earlier
  <2>2. E \subseteq DOMAIN s
    BY DEF Earlier
  <2>. HIDE DEF E
  <2>. QED  BY <1>1, <2>1, <2>2
<1>3. CASE E = {}
  BY <1>2, <1>3 DEF Previous, TopOf
<1>4. CASE E # {}
  <2>1. p - 1 \in Nat /\ E \in SUBSET (0 .. p - 1)
    BY <1>1, <1>2
  <2>2. Max(E) \in E /\ \A n \in E : n <= Max(E)
    BY <1>4, <2>1, MaxIs
  <2>3. LastOf(s, p - 1, f, Max(E))
    <3>. DEFINE x == Max(E)
    <3>1. x \in 1 .. p - 1 /\ Always(s[x], f) /\ \A n \in E : n <= x
      BY <1>2, <2>2
    <3>. HIDE DEF x, E
    <3>2. ASSUME NEW m \in 1 .. p - 1, x < m
          PROVE  ~Always(s[m], f)
      BY <1>1, <1>2, <3>1, <3>2
    <3>3. LastOf(s, p - 1, f, x)
      BY <3>1, <3>2 DEF LastOf
    <3>. QED  BY <3>3 DEF x
  <2>4. Previous(c, g, k, f, none) = Intermediate(s[Max(E)], f)
    BY <1>4 DEF Previous
  <2>. QED  BY <2>3, <2>4 DEF TopOf, LastOf
<1>. QED  BY <1>3, <1>4

LEMMA TopType ==
  ASSUME NEW s \in Seq(Foreign), NEW p \in 0 .. Len(s), NEW f \in Field,
         NEW none \in Function \cup {NULL} \cup Intermediates, NEW op,
         TopOf(s, p, f, none, op)
  PROVE  op \in Function \cup {NULL} \cup Intermediates
<1>1. \A n \in 1 .. p : s[n] \in Interceptor
  BY ListIs, BoundIs
<1>. QED  BY <1>1, IntermediateIn DEF TopOf
-----------------------------------------------------------------------------
(* Foreign data come and go. *)

(* Foreign data that are referenced are in the list of their data, once. *)
FLists(ch, refs) ==
  /\ \A k \in Key : IsInjective(ch[k])
  /\ \A g \in Foreign : \A k \in Key : g \in ToSet(ch[k]) <=> refs[g][k] > 0

FShape(c) ==
  /\ c = [heap |-> c.heap, chain |-> c.chain, refs |-> c.refs]
  /\ c.refs \in [Foreign -> [Key -> Nat]]

FData(c, u) ==
  FShape(c) /\ FHeap(c.heap, c.chain, u) /\ FLists(c.chain, c.refs)

(* References r2 are r with n more to the foreign data of g for k. *)
Plus(r, g, k, n)  == [r EXCEPT ![g][k] = @ + n]
Minus(r, g, k, n) == [r EXCEPT ![g][k] = @ - n]

LEMMA RefsPlus ==
  ASSUME NEW r \in [Foreign -> [Key -> Nat]], NEW g \in Foreign, NEW k \in Key,
         NEW n \in Nat
  PROVE  /\ [r EXCEPT ![g][k] = n] \in [Foreign -> [Key -> Nat]]
         /\ [r EXCEPT ![g][k] = n][g][k] = n
         /\ \A j \in Foreign : \A l \in Key :
              j # g \/ l # k => [r EXCEPT ![g][k] = n][j][l] = r[j][l]
OBVIOUS

(* Every list of ch is a beginning of that of ch2. *)
Longer(ch, ch2) ==
  \A k \in Key : /\ Len(ch[k]) <= Len(ch2[k])
                 /\ \A n \in 1 .. Len(ch[k]) : ch2[k][n] = ch[k][n]

LEMMA AppendIs ==
  ASSUME NEW s \in Seq(Foreign), NEW g \in Foreign
  PROVE  /\ Append(s, g) \in Seq(Foreign) /\ Len(Append(s, g)) = Len(s) + 1
         /\ Append(s, g)[Len(s) + 1] = g
         /\ \A n \in 1 .. Len(s) : Append(s, g)[n] = s[n]
BY AppendProperties, LenProperties

(* The first watch of an instrumentor with data k puts it at the end of the
   list and its replacements on top. *)
LEMMA AttachIs ==
  ASSUME NEW c, NEW u, FData(c, u), NEW g \in Foreign,
         NEW k \in DOMAIN c.heap.idata[Bound], u[k] > 0, g \notin ToSet(c.chain[k]),
         NEW c2, c2 = CreateForeign(c, g, k)
  PROVE  /\ FData(c2, Less(u, k))
         /\ c2.chain = Joined(c.chain, k, g)
         /\ c2.refs = Plus(c.refs, g, k, 1) /\ c2.refs[g][k] = 1
         /\ Longer(c.chain, c2.chain)
         /\ Grown(c.heap, c2.heap) /\ c2.heap.idata = c.heap.idata
<1>. DEFINE h == c.heap
            s == c.chain[k]
            old == h.mem[Repl(h, k)]
            ops == [f \in Field |-> IF Always(g, f) THEN Intermediate(g, f) ELSE old[f]]
            h2 == Rewrite(h, k, ops)
            ch2 == [c.chain EXCEPT ![k] = Append(@, g)]
            r2 == [c.refs EXCEPT ![g][k] = 1]
            n == u[k] - 1
<1>1. /\ Base(h, {}) /\ FHeap(h, c.chain, u) /\ k \in Key /\ s \in Seq(Foreign)
      /\ u \in [Key -> Nat] /\ c.chain \in [Key -> Seq(Foreign)]
      /\ IsInjective(s) /\ FLists(c.chain, c.refs)
      /\ h = [idata |-> h.idata, table |-> h.table, global |-> h.global, mem |-> h.mem]
  BY BoundData DEF FData, FHeap, FLists, Base, HeapOK
<1>2. old \in AnyOps /\ Repl(h, k) \in DOMAIN h.mem
  BY <1>1, ReplThere
<1>3. ops \in AnyOps
  BY <1>2, BoundIs, IntermediateIn DEF AnyOps
<1>4. c2 = [heap |-> h2, chain |-> ch2, refs |-> r2]
  <2>1. [h EXCEPT !.mem[Repl(h, k)] =
           [f \in Field |-> Replaced(g, f, OrigOperation(h, Bound, k, f), @[f])]] =
        [h EXCEPT !.mem[Repl(h, k)] =
           [f \in Field |-> Replaced(g, f, OrigOperation(h, Bound, k, f), old[f])]]
    BY <1>1, <1>2
  <2>2. \A f \in Field : Replaced(g, f, OrigOperation(h, Bound, k, f), old[f]) = ops[f]
    BY ForeignReplaces DEF Replaced
  <2>3. [f \in Field |-> Replaced(g, f, OrigOperation(h, Bound, k, f), old[f])] = ops
    BY <2>2
  <2>. QED  BY <2>1, <2>3 DEF CreateForeign, Rewrite, Repl
<1>5. /\ Append(s, g) \in Seq(Foreign) /\ Len(Append(s, g)) = Len(s) + 1
      /\ ToSet(Append(s, g)) = ToSet(s) \cup {g} /\ IsInjective(Append(s, g))
      /\ \A m \in 1 .. Len(s) : Append(s, g)[m] = s[m]
  BY <1>1, AppendIs, AppendList
<1>6. n \in Nat /\ n + Len(Append(s, g)) = u[k] + Len(s)
  BY <1>1, <1>5, ListIs
<1>7. \A f \in Field : TopIs(Append(s, g), f, Patch(Bound, ContentAt(k))[f], ops[f])
  BY <1>1, TopAppend DEF FHeap, Tops, Ordered
<1>. HIDE DEF ops
<1>8. /\ FHeap(h2, [c.chain EXCEPT ![k] = Append(s, g)], [u EXCEPT ![k] = n])
      /\ Grown(h, h2) /\ h2.idata = h.idata
  <2>. DEFINE new == Append(s, g)
  <2>1. /\ FHeap(h, c.chain, u) /\ ops \in AnyOps /\ new \in Seq(Foreign)
        /\ n \in Nat /\ n + Len(new) = u[k] + Len(c.chain[k]) /\ h2 = Rewrite(h, k, ops)
        /\ Ordered(new, k, ops)
        /\ k \in DOMAIN h.idata[Bound]
    BY <1>1, <1>3, <1>5, <1>6, <1>7 DEF Ordered
  <2>. HIDE DEF new, n, h2, h
  <2>2. /\ FHeap(h2, [c.chain EXCEPT ![k] = new], [u EXCEPT ![k] = n])
        /\ Grown(h, h2) /\ h2.idata = h.idata
    BY <2>1, RewriteHeap
  <2>. QED  BY <2>2 DEF new
<1>9. /\ ch2 = [c.chain EXCEPT ![k] = Append(s, g)] /\ ch2[k] = Append(s, g)
      /\ \A l \in Key \ {k} : ch2[l] = c.chain[l]
  BY <1>1
<1>10. /\ r2 \in [Foreign -> [Key -> Nat]] /\ r2[g][k] = 1
       /\ \A j \in Foreign : \A l \in Key : j # g \/ l # k => r2[j][l] = c.refs[j][l]
  BY <1>1, RefsPlus DEF FData, FShape
<1>11. c.refs[g][k] = 0 /\ r2 = Plus(c.refs, g, k, 1)
  <2>1. c.refs[g][k] \in Nat /\ ~(c.refs[g][k] > 0)
    BY <1>1 DEF FData, FShape, FLists
  <2>2. c.refs[g][k] = 0 /\ c.refs[g][k] + 1 = 1
    BY <2>1
  <2>. QED  BY <2>2 DEF Plus
<1>. HIDE DEF ch2, r2, h2
<1>12. FLists(ch2, r2)
  <2>1. \A l \in Key : IsInjective(ch2[l])
    BY <1>1, <1>5, <1>9 DEF FLists
  <2>2. ASSUME NEW j \in Foreign, NEW l \in Key
        PROVE  j \in ToSet(ch2[l]) <=> r2[j][l] > 0
    <3>1. j \in ToSet(c.chain[l]) <=> c.refs[j][l] > 0
      BY <1>1 DEF FLists
    <3>2. CASE l # k
      <4>1. ch2[l] = c.chain[l] /\ r2[j][l] = c.refs[j][l]
        BY <1>9, <1>10, <3>2
      <4>. QED  BY <3>1, <4>1
    <3>3. CASE l = k /\ j # g
      <4>1. ch2[l] = Append(s, g) /\ r2[j][l] = c.refs[j][l]
        BY <1>9, <1>10, <3>3
      <4>. QED  BY <1>5, <3>1, <3>3, <4>1
    <3>4. CASE l = k /\ j = g
      BY <1>5, <1>9, <1>10, <3>4
    <3>. QED  BY <3>2, <3>3, <3>4
  <2>. QED  BY <2>1, <2>2 DEF FLists
<1>13. Longer(c.chain, ch2)
  <2>1. \A l \in Key : Len(c.chain[l]) \in Nat
    BY <1>1, ListIs
  <2>. QED  BY <1>1, <1>5, <1>9, <2>1 DEF Longer
<1>14. c2.heap = h2 /\ c2.chain = ch2 /\ c2.refs = r2
  BY <1>4
<1>15. FData(c2, [u EXCEPT ![k] = n])
  BY <1>4, <1>8, <1>9, <1>10, <1>12, <1>14 DEF FData, FShape
<1>. QED  BY <1>8, <1>10, <1>11, <1>13, <1>14, <1>15 DEF ch2, Joined, Less

LEMMA ListedData ==
  ASSUME NEW c, NEW u, FData(c, u), NEW g \in Foreign, NEW k \in Key,
         c.refs[g][k] > 0
  PROVE  /\ k \in DOMAIN c.heap.idata[Bound]
         /\ \E p \in DOMAIN c.chain[k] : c.chain[k][p] = g
<1>1. \E p \in DOMAIN c.chain[k] : c.chain[k][p] = g
  BY DEF FData, FLists, ToSet
<1>2. c.chain[k] # <<>>
  BY <1>1
<1>. QED  BY <1>1, <1>2 DEF FData, FHeap, CountIs

(* With the last reference an instrumentor leaves the list, from wherever it
   is, and the order of the others stays. *)
LEMMA DetachIs ==
  ASSUME NEW c, NEW u, FData(c, u), NEW g \in Foreign, NEW k \in Key,
         c.refs[g][k] = 1, NEW c2, c2 = DestroyForeign(c, g, k)
  PROVE  /\ FData(c2, u) /\ Carried(c.heap, c2.heap)
         /\ c2.chain = Left(c.chain, k, g)
         /\ c2.refs = Minus(c.refs, g, k, 1)
<1>. DEFINE h == c.heap
            s == c.chain[k]
            old == h.mem[Repl(h, k)]
            prev(f) == Previous(c, g, k, f, NormalOperation(c, k, f))
            ops == [f \in Field |-> IF old[f] = Intermediate(g, f) THEN prev(f) ELSE old[f]]
            h2 == Rewrite(h, k, ops)
            h3 == Unref(h2, Bound, k)
            ch2 == [c.chain EXCEPT ![k] = RemoveFirst(@, g)]
            r2 == [c.refs EXCEPT ![g][k] = 0]
            n == u[k] + 1
            new == RemoveFirst(s, g)
<1>1. /\ Base(h, {}) /\ FHeap(h, c.chain, u) /\ s \in Seq(Foreign)
      /\ u \in [Key -> Nat] /\ c.chain \in [Key -> Seq(Foreign)]
      /\ IsInjective(s) /\ FLists(c.chain, c.refs)
      /\ h = [idata |-> h.idata, table |-> h.table, global |-> h.global, mem |-> h.mem]
  BY DEF FData, FHeap, FLists, Base, HeapOK
<1>2. k \in DOMAIN h.idata[Bound] /\ \E p \in DOMAIN s : s[p] = g
  <2>1. c.refs[g][k] > 0
    OBVIOUS
  <2>. QED  BY <2>1, ListedData
<1>3. PICK p \in DOMAIN s : s[p] = g
  BY <1>2
<1>4. /\ old \in AnyOps /\ Repl(h, k) \in DOMAIN h.mem
  BY <1>1, <1>2, ReplThere
<1>5. /\ Len(s) \in Nat /\ p \in 1 .. Len(s) /\ new = RemoveAt(s, p)
      /\ new \in Seq(Foreign) /\ Len(new) = Len(s) - 1
      /\ ToSet(new) = ToSet(s) \ {g} /\ IsInjective(new)
  <2>1. Len(s) \in Nat /\ p \in 1 .. Len(s)
    BY <1>1, <1>3, ListIs
  <2>2. new = RemoveAt(s, p)
    <3>1. RemoveFirst(s, s[p]) = RemoveAt(s, p)
      BY <1>1, <1>3, RemoveFirstIs
    <3>. QED  BY <1>3, <3>1
  <2>3. RemoveAt(s, p) \in Seq(Foreign) /\ Len(RemoveAt(s, p)) = Len(s) - 1
    BY <1>1, <1>3, RemoveAtIs
  <2>4. ToSet(RemoveAt(s, p)) = ToSet(s) \ {s[p]} /\ IsInjective(RemoveAt(s, p))
    BY <1>1, <1>3, RemoveList
  <2>. QED  BY <1>3, <2>1, <2>2, <2>3, <2>4
<1>6. ASSUME NEW f \in Field
      PROVE  /\ TopOf(s, p - 1, f, Patch(Bound, ContentAt(k))[f], prev(f))
             /\ prev(f) \in Function \cup {NULL} \cup Intermediates
             /\ Patch(Bound, ContentAt(k))[f] # Intermediate(g, f)
  <2>. DEFINE none == Patch(Bound, ContentAt(k))[f]
  <2>1. /\ OrigOperation(h, Bound, k, f) = ContentAt(k)[f]
        /\ ContentAt(k)[f] \in Function \cup {NULL} /\ ContentAt(k)[f] \notin Intermediates
        /\ none = Replaced(Bound, f, ContentAt(k)[f], ContentAt(k)[f])
        /\ none \in {ContentAt(k)[f], Intermediate(Bound, f)}
    BY <1>1, <1>2, OriginalIs
  <2>2. NormalOperation(c, k, f) = none
    BY <2>1 DEF NormalOperation
  <2>3. none \in Function \cup {NULL} \cup Intermediates
    BY <2>1, BoundIs, IntermediateIn
  <2>4. none # Intermediate(g, f)
    BY <2>1, BoundIs, IntermediateIn, SameIntermediate
  <2>. HIDE DEF none
  <2>5. TopOf(s, p - 1, f, none, prev(f))
    BY <1>1, <1>3, <2>2, PreviousIs
  <2>6. prev(f) \in Function \cup {NULL} \cup Intermediates
    <3>1. p - 1 \in 0 .. Len(s)
      BY <1>5
    <3>. HIDE DEF prev
    <3>. QED  BY <1>1, <2>3, <2>5, <3>1, TopType
  <2>. QED  BY <2>4, <2>5, <2>6 DEF none
<1>7. ops \in AnyOps
  BY <1>4, <1>6 DEF AnyOps
<1>8. c2 = [heap |-> h3, chain |-> ch2, refs |-> r2]
  <2>1. [h EXCEPT !.mem[Repl(h, k)] =
           [f \in Field |-> IF @[f] = Intermediate(g, f) THEN prev(f) ELSE @[f]]] = h2
    BY <1>1, <1>4 DEF Rewrite
  <2>. QED  BY <2>1 DEF DestroyForeign, Repl
<1>9. Ordered(new, k, ops)
  <2>1. ASSUME NEW f \in Field
        PROVE  TopIs(new, f, Patch(Bound, ContentAt(k))[f], ops[f])
    <3>1. TopIs(s, f, Patch(Bound, ContentAt(k))[f], old[f])
      BY <1>1, <1>2 DEF FHeap, Tops, Ordered
    <3>2. ops[f] = IF old[f] = Intermediate(s[p], f) THEN prev(f) ELSE old[f]
      BY <1>3
    <3>3. /\ TopOf(s, p - 1, f, Patch(Bound, ContentAt(k))[f], prev(f))
          /\ Patch(Bound, ContentAt(k))[f] # Intermediate(s[p], f)
      BY <1>3, <1>6
    <3>. HIDE DEF ops, prev, old, new
    <3>. QED  BY <1>1, <1>5, <3>1, <3>2, <3>3, TopRemove
  <2>. QED  BY <2>1 DEF Ordered
<1>. HIDE DEF ops
<1>10. /\ FHeap(h2, ch2, [u EXCEPT ![k] = n]) /\ Grown(h, h2)
  <2>1. n \in Nat /\ n + Len(new) = u[k] + Len(c.chain[k])
    <3>. DEFINE uk == u[k]
    <3>1. uk \in Nat /\ n = uk + 1 /\ Len(new) = Len(s) - 1 /\ Len(s) \in Nat
      BY <1>1, <1>5
    <3>. HIDE DEF new, s, n, uk
    <3>2. n \in Nat /\ n + Len(new) = uk + Len(s)
      BY <3>1
    <3>. QED  BY <3>2 DEF s, uk
  <2>2. FHeap(h, c.chain, u) /\ k \in DOMAIN h.idata[Bound] /\ h2 = Rewrite(h, k, ops)
    BY <1>1, <1>2
  <2>3. ch2 = [c.chain EXCEPT ![k] = new]
    BY <1>1
  <2>. HIDE DEF new, n, h2, h
  <2>4. FHeap(h2, [c.chain EXCEPT ![k] = new], [u EXCEPT ![k] = n]) /\ Grown(h, h2)
    BY <1>5, <1>7, <1>9, <2>1, <2>2, RewriteHeap, ZenonT(30)
  <2>. QED  BY <2>3, <2>4
<1>11. FHeap(h3, ch2, u) /\ Carried(h2, h3)
  <2>. DEFINE u2 == [u EXCEPT ![k] = n]
  <2>1. u2[k] = n /\ n > 0 /\ Less(u2, k) = u
    <3>1. u[k] \in Nat /\ n - 1 = u[k] /\ n > 0
      BY <1>1
    <3>2. [u2 EXCEPT ![k] = n - 1] = [u EXCEPT ![k] = n - 1]
      BY <1>1
    <3>. QED  BY <1>1, <3>1, <3>2 DEF Less
  <2>2. h3 = Unref(h2, Bound, k) /\ FHeap(h2, ch2, u2)
    BY <1>10
  <2>. HIDE DEF u2, h3, h2, ch2, n
  <2>3. FHeap(h3, ch2, Less(u2, k)) /\ Carried(h2, h3)
    BY <2>1, <2>2, BoundUnref
  <2>. QED  BY <2>1, <2>3
<1>12. Carried(h, h3)
  BY <1>10, <1>11, GrownCarried
<1>13. ch2[k] = new /\ \A l \in Key \ {k} : ch2[l] = c.chain[l]
  BY <1>1
<1>14. /\ r2 \in [Foreign -> [Key -> Nat]] /\ r2[g][k] = 0
       /\ \A j \in Foreign : \A l \in Key : j # g \/ l # k => r2[j][l] = c.refs[j][l]
  BY <1>1, RefsPlus DEF FData, FShape
<1>15. r2 = Minus(c.refs, g, k, 1)
  BY DEF Minus
<1>. HIDE DEF ch2, r2, h3, new
<1>16. FLists(ch2, r2)
  <2>1. \A l \in Key : IsInjective(ch2[l])
    BY <1>1, <1>5, <1>13 DEF FLists
  <2>2. ASSUME NEW j \in Foreign, NEW l \in Key
        PROVE  j \in ToSet(ch2[l]) <=> r2[j][l] > 0
    <3>1. j \in ToSet(c.chain[l]) <=> c.refs[j][l] > 0
      BY <1>1 DEF FLists
    <3>2. CASE l # k
      <4>1. ch2[l] = c.chain[l] /\ r2[j][l] = c.refs[j][l]
        BY <1>13, <1>14, <3>2
      <4>. QED  BY <3>1, <4>1
    <3>3. CASE l = k /\ j # g
      <4>1. ch2[l] = new /\ r2[j][l] = c.refs[j][l]
        BY <1>13, <1>14, <3>3
      <4>. QED  BY <1>5, <3>1, <3>3, <4>1
    <3>4. CASE l = k /\ j = g
      BY <1>5, <1>13, <1>14, <3>4
    <3>. QED  BY <3>2, <3>3, <3>4
  <2>. QED  BY <2>1, <2>2 DEF FLists
<1>17. c2.heap = h3 /\ c2.chain = ch2 /\ c2.refs = r2
  BY <1>8
<1>18. FData(c2, u)
  BY <1>8, <1>11, <1>14, <1>16, <1>17 DEF FData, FShape
<1>. QED  BY <1>12, <1>15, <1>17, <1>18 DEF ch2, Left

(* Reference counts change, but no data come or go. *)
SetRef(r, g, k, n)  == [r EXCEPT ![g][k] = n]
Recount(c, g, k, n) == [c EXCEPT !.refs[g][k] = n]

LEMMA RefsOnly ==
  ASSUME NEW c, NEW u, FData(c, u), NEW g \in Foreign, NEW k \in Key,
         c.refs[g][k] > 0, NEW n \in Nat \ {0}, NEW c2, c2 = Recount(c, g, k, n)
  PROVE  /\ FData(c2, u) /\ c2.heap = c.heap /\ c2.chain = c.chain
         /\ c2.refs = SetRef(c.refs, g, k, n)
<1>. DEFINE r2 == [c.refs EXCEPT ![g][k] = n]
<1>1. /\ c = [heap |-> c.heap, chain |-> c.chain, refs |-> c.refs]
      /\ c.refs \in [Foreign -> [Key -> Nat]]
  BY DEF FData, FShape
<1>2. c2 = [heap |-> c.heap, chain |-> c.chain, refs |-> r2]
  <2>1. c2 = [c EXCEPT !.refs = r2]
    BY <1>1 DEF Recount
  <2>. HIDE DEF r2
  <2>. QED  BY <1>1, <2>1
<1>3. /\ r2 \in [Foreign -> [Key -> Nat]] /\ r2[g][k] = n
      /\ \A j \in Foreign : \A l \in Key : j # g \/ l # k => r2[j][l] = c.refs[j][l]
  <2>1. n \in Nat
    OBVIOUS
  <2>. QED  BY <1>1, <2>1, RefsPlus
<1>. HIDE DEF r2
<1>4. FLists(c.chain, r2)
  <2>1. ASSUME NEW j \in Foreign, NEW l \in Key
        PROVE  j \in ToSet(c.chain[l]) <=> r2[j][l] > 0
    <3>1. j \in ToSet(c.chain[l]) <=> c.refs[j][l] > 0
      BY DEF FData, FLists
    <3>. QED  BY <1>3, <3>1
  <2>. QED  BY <2>1 DEF FData, FLists
<1>5. c2.heap = c.heap /\ c2.chain = c.chain /\ c2.refs = r2
  BY <1>2
<1>. QED  BY <1>2, <1>3, <1>4, <1>5 DEF FData, FShape, SetRef, r2

LEMMA LongerSame ==
  ASSUME NEW ch \in [Key -> Seq(Foreign)]
  PROVE  Longer(ch, ch)
<1>1. \A k \in Key : Len(ch[k]) \in Nat
  BY ListIs
<1>. QED  BY <1>1 DEF Longer

(* The data are the same as long as they are counted the same. *)
LEMMA SameCounts ==
  ASSUME NEW h, NEW ch, NEW u, FHeap(h, ch, u), NEW h2, FHeap(h2, ch, u), Carried(h, h2)
  PROVE  Grown(h, h2)
<1>1. ASSUME NEW k \in DOMAIN h.idata[Bound]
      PROVE  k \in DOMAIN h2.idata[Bound]
  <2>1. k \in Key /\ h.idata[Bound][k].refs \in Nat \ {0}
    BY BoundData DEF FHeap, Base
  <2>2. h.idata[Bound][k].refs = u[k] + Len(ch[k])
    BY <2>1 DEF FHeap, CountIs
  <2>3. u[k] = 0 /\ ch[k] = <<>> => u[k] + Len(ch[k]) = 0
    OBVIOUS
  <2>. QED  BY <2>1, <2>2, <2>3 DEF FHeap, CountIs
<1>. QED  BY <1>1 DEF Grown, Carried

LEMMA GrownTwice ==
  ASSUME NEW h, NEW g, NEW h2, Grown(h, g), Grown(g, h2)
  PROVE  Grown(h, h2)
BY DEF Grown

(* instrumentor_foreign_get_data *)
LEMMA ForeignGetIs ==
  ASSUME NEW c, NEW u, FData(c, u), NEW g \in Foreign, NEW a, Known(c.heap, a),
         NEW x \in ForeignGet(c, g, a)
  PROVE  /\ FData(x.data, u) /\ x.key \in Key
         /\ x.key \in DOMAIN x.data.heap.idata[Bound]
         /\ MyOperations(x.data.heap, Bound, x.key, a)
         /\ x.data.refs = Plus(c.refs, g, x.key, 1)
         /\ Grown(c.heap, x.data.heap) /\ Longer(c.chain, x.data.chain)
         /\ \/ c.refs[g][x.key] > 0 /\ x.data.chain = c.chain
            \/ /\ g \notin ToSet(c.chain[x.key])
               /\ x.data.chain = Joined(c.chain, x.key, g)
<1>0. /\ FShape(c) /\ c.chain \in [Key -> Seq(Foreign)] /\ u \in [Key -> Nat]
      /\ FHeap(c.heap, c.chain, u) /\ FLists(c.chain, c.refs)
      /\ Base(c.heap, {}) /\ Tables(c.heap)
  BY DEF FData, FHeap, Base
<1>1. CASE HasForeign(c, g, a)
  <2>. DEFINE k == c.heap.table[Bound][a]
  <2>1. /\ x.key = k /\ x.data = [c EXCEPT !.refs[g][k] = @ + 1]
        /\ a \in DOMAIN c.heap.table[Bound] /\ g \in ToSet(c.chain[k])
    BY <1>1 DEF ForeignGet, HasForeign
  <2>2. k \in DOMAIN c.heap.idata[Bound] /\ MyOperations(c.heap, Bound, k, a)
    BY <1>0, <2>1, BoundIs DEF Tables
  <2>. HIDE DEF k
  <2>3. k \in Key
    BY <1>0, <2>2, BoundData DEF Base
  <2>4. c.refs[g][k] > 0 /\ c.refs[g][k] \in Nat /\ c.refs[g][k] + 1 \in Nat \ {0}
    BY <1>0, <2>1, <2>3 DEF FLists, FShape
  <2>5. x.data = Recount(c, g, k, c.refs[g][k] + 1)
    BY <1>0, <2>1 DEF FShape, Recount
  <2>6. /\ FData(x.data, u) /\ x.data.heap = c.heap /\ x.data.chain = c.chain
        /\ x.data.refs = Plus(c.refs, g, k, 1)
    <3>1. /\ FData(x.data, u) /\ x.data.heap = c.heap /\ x.data.chain = c.chain
          /\ x.data.refs = SetRef(c.refs, g, k, c.refs[g][k] + 1)
      <4>. DEFINE n == c.refs[g][k] + 1
                  y == x.data
      <4>1. n \in Nat \ {0} /\ y = Recount(c, g, k, n)
        BY <2>4, <2>5
      <4>2. c.refs[g][k] > 0
        BY <2>4
      <4>. HIDE DEF n, y
      <4>3. FData(y, u) /\ y.heap = c.heap /\ y.chain = c.chain
        BY <2>3, <4>1, <4>2, RefsOnly
      <4>4. y.refs = SetRef(c.refs, g, k, n)
        BY <2>3, <4>1, <4>2, RefsOnly
      <4>. QED  BY <4>3, <4>4 DEF n, y
    <3>. QED  BY <1>0, <2>3, <3>1 DEF Plus, SetRef, FShape
  <2>7. Longer(c.chain, c.chain) /\ Grown(c.heap, c.heap)
    BY <1>0, LongerSame DEF Grown
  <2>. QED  BY <2>1, <2>2, <2>3, <2>4, <2>6, <2>7
<1>2. CASE ~HasForeign(c, g, a)
  <2>1. PICK d \in GetData(c.heap, Bound, a) :
          x.key = d.key /\ x.data = CreateForeign([c EXCEPT !.heap = d.heap], g, d.key)
    BY <1>2 DEF ForeignGet
  <2>. DEFINE k == d.key
              h == d.heap
              c1 == [c EXCEPT !.heap = h]
              u2 == More(u, k)
  <2>2. /\ FHeap(h, c.chain, u2) /\ k \in DOMAIN h.idata[Bound] /\ k \in Key
        /\ MyOperations(h, Bound, k, a) /\ Grown(c.heap, h)
    BY <1>0, BoundGet
  <2>3. g \notin ToSet(c.chain[k])
    <3>1. CASE a \in DOMAIN c.heap.table[Bound]
      BY <1>2, <3>1 DEF GetData, HasForeign
    <3>2. CASE a \notin DOMAIN c.heap.table[Bound]
      <4>1. k = a
        BY <3>2 DEF GetData
      <4>2. k \notin DOMAIN c.heap.idata[Bound]
        BY <1>0, <3>2, <4>1, BoundIs DEF Tables
      <4>3. c.chain[k] = <<>>
        BY <1>0, <2>2, <4>2 DEF FHeap, CountIs
      <4>. QED  BY <4>3 DEF ToSet
    <3>. QED  BY <3>1, <3>2
  <2>4. c1.heap = h /\ c1.chain = c.chain /\ c1.refs = c.refs /\ FShape(c1)
    <3>1. c = [heap |-> c.heap, chain |-> c.chain, refs |-> c.refs]
      BY <1>0 DEF FShape
    <3>2. c1 = [heap |-> h, chain |-> c.chain, refs |-> c.refs]
      BY <3>1
    <3>. HIDE DEF c1, h
    <3>. QED  BY <1>0, <3>2 DEF FShape
  <2>5. u2[k] > 0 /\ Less(u2, k) = u
    <3>1. u[k] \in Nat /\ u2[k] = u[k] + 1 /\ (u[k] + 1) - 1 = u[k]
      BY <1>0, <2>2 DEF More
    <3>2. [u2 EXCEPT ![k] = u[k]] = u
      BY <1>0, <2>2 DEF More
    <3>. QED  BY <3>1, <3>2 DEF Less
  <2>. HIDE DEF c1, u2, h, k
  <2>6. FData(c1, u2)
    BY <1>0, <2>2, <2>4 DEF FData
  <2>7. k \in DOMAIN c1.heap.idata[Bound] /\ g \notin ToSet(c1.chain[k])
    BY <2>2, <2>3, <2>4
  <2>8. x.key = k /\ x.data = CreateForeign(c1, g, k)
    BY <2>1 DEF c1, h, k
  <2>9. /\ FData(x.data, Less(u2, k))
        /\ x.data.chain = Joined(c1.chain, k, g)
        /\ x.data.refs = Plus(c1.refs, g, k, 1)
        /\ Longer(c1.chain, x.data.chain)
        /\ Grown(c1.heap, x.data.heap) /\ x.data.heap.idata = c1.heap.idata
    <3>. DEFINE y == x.data
    <3>1. y = CreateForeign(c1, g, k)
      BY <2>8
    <3>. HIDE DEF y
    <3>2. /\ FData(y, Less(u2, k))
          /\ y.chain = Joined(c1.chain, k, g)
          /\ y.refs = Plus(c1.refs, g, k, 1) /\ Longer(c1.chain, y.chain)
          /\ Grown(c1.heap, y.heap) /\ y.heap.idata = c1.heap.idata
      <4>1. u2[k] > 0
        BY <2>5
      <4>. QED  BY <2>6, <2>7, <3>1, <4>1, AttachIs
    <3>. QED  BY <3>2 DEF y
  <2>10. MyOperations(x.data.heap, Bound, k, a) /\ k \in DOMAIN x.data.heap.idata[Bound]
    BY <2>2, <2>4, <2>9 DEF MyOperations
  <2>11. Grown(c.heap, x.data.heap)
    BY <2>2, <2>4, <2>9, GrownTwice
  <2>. QED  BY <2>2, <2>3, <2>4, <2>5, <2>8, <2>9, <2>10, <2>11
<1>. QED  BY <1>1, <1>2

(* instrumentor_foreign_data_unref *)
LEMMA ForeignUnrefIs ==
  ASSUME NEW c, NEW u, FData(c, u), NEW g \in Foreign, NEW k \in Key,
         c.refs[g][k] > 0, NEW c2, c2 = ForeignUnref(c, g, k)
  PROVE  /\ FData(c2, u) /\ Carried(c.heap, c2.heap)
         /\ c2.refs = Minus(c.refs, g, k, 1)
         /\ c.refs[g][k] # 1 => c2.chain = c.chain
         /\ c.refs[g][k] = 1 => c2.chain = Left(c.chain, k, g)
<1>1. CASE c.refs[g][k] = 1
  <2>1. c2 = DestroyForeign(c, g, k)
    BY <1>1 DEF ForeignUnref
  <2>. QED  BY <1>1, <2>1, DetachIs
<1>2. CASE c.refs[g][k] # 1
  <2>. DEFINE n == c.refs[g][k] - 1
  <2>1. FShape(c)
    BY DEF FData
  <2>2. c.refs[g][k] \in Nat
    BY <2>1 DEF FShape
  <2>3. n \in Nat \ {0}
    BY <1>2, <2>2
  <2>4. c2 = Recount(c, g, k, n) /\ SetRef(c.refs, g, k, n) = Minus(c.refs, g, k, 1)
    BY <1>2, <2>1 DEF ForeignUnref, Recount, SetRef, Minus, FShape
  <2>. HIDE DEF n
  <2>5. FData(c2, u) /\ c2.heap = c.heap /\ c2.chain = c.chain
    BY <2>3, <2>4, RefsOnly
  <2>6. c2.refs = SetRef(c.refs, g, k, n)
    BY <2>3, <2>4, RefsOnly
  <2>7. Carried(c.heap, c.heap)
    BY DEF Carried
  <2>. QED  BY <1>2, <2>4, <2>5, <2>6, <2>7
<1>. QED  BY <1>1, <1>2

(* A reference that has just been taken is dropped again. *)
LEMMA GetDropIs ==
  ASSUME NEW c, NEW u, FData(c, u), NEW g \in Foreign, NEW a, Known(c.heap, a),
         NEW x \in ForeignGet(c, g, a), NEW y, y = ForeignUnref(x.data, g, x.key)
  PROVE  /\ FData(y, u) /\ Grown(c.heap, y.heap)
         /\ y.chain = c.chain /\ y.refs = c.refs
<1>. DEFINE k == x.key
            b == x.data
<1>1. /\ FData(b, u) /\ k \in Key /\ Grown(c.heap, b.heap)
      /\ b.refs = Plus(c.refs, g, k, 1)
      /\ \/ c.refs[g][k] > 0 /\ b.chain = c.chain
         \/ g \notin ToSet(c.chain[k]) /\ b.chain = Joined(c.chain, k, g)
  BY ForeignGetIs
<1>2. y = ForeignUnref(b, g, k)
  OBVIOUS
<1>. HIDE DEF k, b
<1>3. /\ FShape(c) /\ FHeap(c.heap, c.chain, u) /\ FLists(c.chain, c.refs)
      /\ c.chain \in [Key -> Seq(Foreign)] /\ c.refs \in [Foreign -> [Key -> Nat]]
  BY DEF FData, FHeap, FShape
<1>4. c.refs[g][k] \in Nat /\ b.refs[g][k] = c.refs[g][k] + 1
  BY <1>1, <1>3 DEF Plus
<1>5. b.refs[g][k] > 0
  BY <1>4
<1>6. /\ FData(y, u) /\ Carried(b.heap, y.heap) /\ y.refs = Minus(b.refs, g, k, 1)
      /\ b.refs[g][k] # 1 => y.chain = b.chain
      /\ b.refs[g][k] = 1 => y.chain = Left(b.chain, k, g)
  BY <1>1, <1>2, <1>5, ForeignUnrefIs
<1>7. y.refs = c.refs
  <2>1. /\ b.refs \in [Foreign -> [Key -> Nat]]
        /\ \A j \in Foreign : \A l \in Key :
             b.refs[j][l] = IF j = g /\ l = k THEN c.refs[j][l] + 1 ELSE c.refs[j][l]
    BY <1>1, <1>3 DEF Plus
  <2>2. /\ y.refs \in [Foreign -> [Key -> Int]]
        /\ \A j \in Foreign : \A l \in Key :
             y.refs[j][l] = IF j = g /\ l = k THEN b.refs[j][l] - 1 ELSE b.refs[j][l]
    BY <1>1, <1>6, <2>1 DEF Minus
  <2>3. \A j \in Foreign : \A l \in Key : y.refs[j][l] = c.refs[j][l]
    BY <1>3, <2>1, <2>2
  <2>4. \A j \in Foreign : y.refs[j] = c.refs[j]
    BY <1>3, <2>2, <2>3
  <2>. QED  BY <1>3, <2>2, <2>4
<1>8. y.chain = c.chain
  <2>1. CASE c.refs[g][k] > 0
    <3>1. b.chain = c.chain
      BY <1>1, <1>3, <2>1 DEF FLists
    <3>. QED  BY <1>4, <1>6, <2>1, <3>1
  <2>2. CASE ~(c.refs[g][k] > 0)
    <3>1. c.refs[g][k] = 0 /\ b.refs[g][k] = 1
      BY <1>4, <2>2
    <3>2. /\ g \notin ToSet(c.chain[k]) /\ b.chain = Joined(c.chain, k, g)
          /\ y.chain = Left(b.chain, k, g)
      BY <1>1, <1>6, <2>2, <3>1
    <3>3. RemoveFirst(Append(c.chain[k], g), g) = c.chain[k]
      <4>1. c.chain[k] \in Seq(Foreign) /\ IsInjective(c.chain[k])
        BY <1>1, <1>3 DEF FLists
      <4>. QED  BY <3>2, <4>1, RemoveAppended
    <3>4. b.chain[k] = Append(c.chain[k], g)
      BY <1>1, <1>3, <3>2 DEF Joined
    <3>5. y.chain = [b.chain EXCEPT ![k] = c.chain[k]]
      BY <3>2, <3>3, <3>4 DEF Left
    <3>. QED  BY <1>1, <1>3, <3>2, <3>5 DEF Joined
  <2>. QED  BY <2>1, <2>2
<1>9. Grown(c.heap, y.heap)
  <2>. DEFINE h == c.heap
              h2 == y.heap
              m == b.heap
  <2>1. FHeap(h, c.chain, u) /\ FHeap(h2, c.chain, u) /\ Carried(m, h2) /\ Grown(h, m)
    BY <1>1, <1>3, <1>6, <1>8 DEF FData
  <2>2. Carried(h, h2)
    BY <2>1, GrownCarried
  <2>3. Grown(h, h2)
    BY <2>1, <2>2, SameCounts
  <2>. QED  BY <2>3
<1>. QED  BY <1>6, <1>7, <1>8, <1>9
(* What is left when instrumentor_foreign_get_data fails. *)
LEMMA ForeignGetFailsIs ==
  ASSUME NEW c, NEW u, FData(c, u), NEW g \in Foreign, NEW a, Known(c.heap, a),
         NEW y \in ForeignGetFails(c, g, a)
  PROVE  /\ FData(y, u) /\ Grown(c.heap, y.heap)
         /\ y.chain = c.chain /\ y.refs = c.refs
<1>1. /\ FShape(c) /\ FHeap(c.heap, c.chain, u) /\ u \in [Key -> Nat]
      /\ FLists(c.chain, c.refs)
  BY DEF FData, FHeap
<1>2. CASE y = c
  BY <1>2 DEF Grown
<1>3. ASSUME NEW d \in GetData(c.heap, Bound, a),
             y = [c EXCEPT !.heap = Unref(d.heap, Bound, d.key)]
      PROVE  /\ FData(y, u) /\ Grown(c.heap, y.heap)
             /\ y.chain = c.chain /\ y.refs = c.refs
  <2>. DEFINE k == d.key
              h == d.heap
              h2 == Unref(h, Bound, k)
              u2 == More(u, k)
              ch == c.chain
  <2>1. FHeap(h, ch, u2) /\ k \in Key /\ Grown(c.heap, h)
    BY <1>1, BoundGet
  <2>2. u2[k] > 0 /\ Less(u2, k) = u
    <3>1. u[k] \in Nat /\ u2[k] = u[k] + 1 /\ (u[k] + 1) - 1 = u[k]
      BY <1>1, <2>1 DEF More
    <3>2. [u2 EXCEPT ![k] = u[k]] = u
      BY <1>1, <2>1 DEF More
    <3>. QED  BY <3>1, <3>2 DEF Less
  <2>3. y = [heap |-> h2, chain |-> c.chain, refs |-> c.refs]
    BY <1>1, <1>3 DEF FShape
  <2>4. h2 = Unref(h, Bound, k)
    OBVIOUS
  <2>. HIDE DEF h2, u2, k, h, ch
  <2>5. FHeap(h2, ch, Less(u2, k)) /\ Carried(h, h2)
    BY <2>1, <2>2, <2>4, BoundUnref
  <2>6. Carried(c.heap, h2)
    BY <2>1, <2>5, GrownCarried
  <2>7. FHeap(h2, ch, u) /\ FHeap(c.heap, ch, u)
    BY <1>1, <2>2, <2>5 DEF ch
  <2>8. Grown(c.heap, h2)
    BY <2>6, <2>7, SameCounts
  <2>9. y.heap = h2 /\ y.chain = c.chain /\ y.refs = c.refs
    BY <2>3
  <2>. QED  BY <1>1, <2>3, <2>7, <2>8, <2>9 DEF FData, FShape, ch
<1>. QED  BY <1>2, <1>3 DEF ForeignGetFails

-----------------------------------------------------------------------------
(* The watches that are counted. *)

(* How many of those that partial function w watches are watched with data k,
   for each k. *)
Count(w) == [k \in Key |-> Cardinality(Users(w, k))]

LEMMA CountIsNat ==
  ASSUME NEW S, IsFiniteSet(S), NEW w, IsPartial(w, S, Key)
  PROVE  /\ Count(w) \in [Key -> Nat]
         /\ \A k \in Key : /\ IsFiniteSet(Users(w, k))
                           /\ Count(w)[k] = Cardinality(Users(w, k))
                           /\ Cardinality(Users(w, k)) \in Nat
<1>1. ASSUME NEW k
      PROVE  IsFiniteSet(Users(w, k)) /\ Cardinality(Users(w, k)) \in Nat
  <2>1. Users(w, k) \subseteq S
    BY DEF Users, IsPartial
  <2>. QED  BY <2>1, FS_Subset, FS_CardinalityType
<1>. QED  BY <1>1 DEF Count

LEMMA CountPut ==
  ASSUME NEW S, IsFiniteSet(S), NEW w, IsPartial(w, S, Key), NEW x \in S,
         x \notin DOMAIN w, NEW k \in Key
  PROVE  Count(Put(w, x, k)) = More(Count(w), k)
<1>. DEFINE w2 == Put(w, x, k)
<1>1. Users(w2, k) = Users(w, k) \cup {x} /\ x \notin Users(w, k)
  BY DEF Users, Put
<1>2. ASSUME NEW l \in Key, l # k
      PROVE  Users(w2, l) = Users(w, l)
  BY <1>2 DEF Users, Put
<1>. HIDE DEF w2
<1>3. Cardinality(Users(w2, k)) = Cardinality(Users(w, k)) + 1
  <2>1. IsFiniteSet(Users(w, k))
    BY CountIsNat
  <2>. QED  BY <1>1, <2>1, FS_AddElement
<1>4. \A l \in Key : Count(w2)[l] = More(Count(w), k)[l]
  BY <1>2, <1>3 DEF Count, More
<1>5. Count(w2) = More(Count(w), k)
  BY <1>4 DEF Count, More
<1>. QED  BY <1>5 DEF w2

LEMMA CountDrop ==
  ASSUME NEW S, IsFiniteSet(S), NEW w, IsPartial(w, S, Key), NEW x \in DOMAIN w,
         NEW k, k = w[x]
  PROVE  /\ k \in Key /\ Count(w)[k] > 0
         /\ Count(Drop(w, {x})) = Less(Count(w), k)
         /\ IsPartial(Drop(w, {x}), S, Key)
<1>. DEFINE w2 == Drop(w, {x})
<1>1. k \in Key /\ IsPartial(w2, S, Key)
  BY DropType DEF IsPartial
<1>2. Users(w, k) = Users(w2, k) \cup {x} /\ x \notin Users(w2, k)
  BY DEF Users, Drop
<1>3. ASSUME NEW l \in Key, l # k
      PROVE  Users(w2, l) = Users(w, l)
  BY <1>3 DEF Users, Drop
<1>. HIDE DEF w2
<1>4. /\ Cardinality(Users(w, k)) = Cardinality(Users(w2, k)) + 1
      /\ Cardinality(Users(w2, k)) \in Nat
  <2>1. IsFiniteSet(Users(w2, k)) /\ Cardinality(Users(w2, k)) \in Nat
    BY <1>1, CountIsNat
  <2>. QED  BY <1>2, <2>1, FS_AddElement
<1>5. \A l \in Key : Count(w2)[l] = Less(Count(w), k)[l]
  BY <1>3, <1>4 DEF Count, Less
<1>6. Count(w2) = Less(Count(w), k)
  BY <1>5 DEF Count, Less
<1>7. Count(w)[k] > 0
  BY <1>1, <1>4 DEF Count
<1>. QED  BY <1>1, <1>6, <1>7 DEF w2

(* A watch is moved: one more for its new data, one less for the old. *)
LEMMA CountMove ==
  ASSUME NEW S, IsFiniteSet(S), NEW w, IsPartial(w, S, Key), NEW x \in DOMAIN w,
         NEW old, old = w[x], NEW k \in Key
  PROVE  /\ Count(Put(w, x, k)) = Less(More(Count(w), k), old)
         /\ old \in Key /\ More(Count(w), k)[old] > 0
<1>. DEFINE v == Drop(w, {x})
            u == Count(w)
<1>1. /\ old \in Key /\ u[old] > 0 /\ Count(v) = Less(u, old)
      /\ IsPartial(v, S, Key) /\ u \in [Key -> Nat]
  BY CountDrop, CountIsNat
<1>2. Put(w, x, k) = Put(v, x, k) /\ x \notin DOMAIN v /\ x \in S
  BY DEF Put, Drop, IsPartial
<1>. HIDE DEF v, u
<1>3. Count(Put(v, x, k)) = More(Less(u, old), k)
  BY <1>1, <1>2, CountPut
<1>4. More(Less(u, old), k) = Less(More(u, k), old) /\ More(u, k)[old] > 0
  <2>. DEFINE a == More(Less(u, old), k)
              b == Less(More(u, k), old)
  <2>1. \A l \in Key : u[l] \in Nat
    BY <1>1
  <2>2. \A l \in Key : a[l] = b[l]
    BY <1>1, <2>1 DEF More, Less
  <2>3. a = [l \in Key |-> a[l]] /\ b = [l \in Key |-> b[l]]
    BY <1>1 DEF More, Less
  <2>. HIDE DEF a, b
  <2>4. a = b
    BY <2>2, <2>3
  <2>5. More(u, k)[old] > 0
    BY <1>1, <2>1 DEF More
  <2>. QED  BY <2>4, <2>5 DEF a, b
<1>. QED  BY <1>1, <1>2, <1>3, <1>4 DEF u

LEMMA CountNothing ==
  ASSUME NEW w, DOMAIN w = {}
  PROVE  Count(w) = [k \in Key |-> 0]
<1>1. \A k : Users(w, k) = {}
  BY DEF Users
<1>2. Cardinality({}) = 0
  BY FS_EmptySet
<1>. QED  BY <1>1, <1>2 DEF Count

(* The data of the watches of a foreign instrumentor, and what they count. *)
DataOf(v) == [id \in DOMAIN v |-> v[id].data]
Refs(fw)  == [g \in Foreign |-> Count(DataOf(fw[g]))]

WatchData == [data : Key, tie : Tie, ops_p : Object]

FTables(fw) ==
  /\ fw = [g \in Foreign |-> fw[g]]
  /\ \A g \in Foreign : IsPartial(fw[g], Id, WatchData)

LEMMA IdFinite == IsFiniteSet(Id) /\ IsFiniteSet(Foreign \X Id)
<1>1. IsFiniteSet(Watching) /\ IsFiniteSet(Foreign)
  BY BoundAssumption
<1>. DEFINE f == [w \in Watching |-> w.id]
<1>2. f \in Surjection(Watching, Id)
  BY DEF Id, Surjection
<1>3. IsFiniteSet(Id)
  BY <1>1, <1>2, FS_Surjection
<1>. QED  BY <1>1, <1>3, FS_Product

LEMMA DataOfType ==
  ASSUME NEW fw, FTables(fw), NEW g \in Foreign
  PROVE  IsPartial(DataOf(fw[g]), Id, Key) /\ DOMAIN DataOf(fw[g]) = DOMAIN fw[g]
BY DEF FTables, IsPartial, DataOf, WatchData

(* The watches fw with one more, and with other data for one of them. *)
NewWatch(fw, g, id, v)   == [fw EXCEPT ![g] = Put(@, id, v)]
MovedWatch(fw, g, id, k) == [fw EXCEPT ![g][id].data = k]

LEMMA RefsNew ==
  ASSUME NEW fw, FTables(fw), NEW g \in Foreign, NEW id \in Id, id \notin DOMAIN fw[g],
         NEW v \in WatchData, NEW fw2, fw2 = NewWatch(fw, g, id, v)
  PROVE  FTables(fw2) /\ Refs(fw2) = Plus(Refs(fw), g, v.data, 1)
<1>. DEFINE d == DataOf(fw[g])
            k == v.data
<1>1. fw2[g] = Put(fw[g], id, v) /\ \A j \in Foreign \ {g} : fw2[j] = fw[j]
  BY DEF FTables, NewWatch
<1>2. FTables(fw2)
  BY <1>1, PutType DEF FTables, NewWatch
<1>3. DataOf(fw2[g]) = Put(d, id, k) /\ IsPartial(d, Id, Key) /\ id \notin DOMAIN d
      /\ k \in Key
  BY <1>1, DataOfType DEF DataOf, Put, WatchData
<1>. HIDE DEF d, k
<1>4. Count(Put(d, id, k)) = More(Count(d), k)
  BY <1>3, CountPut, IdFinite
<1>5. Refs(fw2) = [Refs(fw) EXCEPT ![g] = More(Count(d), k)]
  <2>. DEFINE r == Refs(fw)
              r2 == Refs(fw2)
  <2>1. r2[g] = More(Count(d), k) /\ \A j \in Foreign : j # g => r2[j] = r[j]
    BY <1>1, <1>3, <1>4 DEF Refs
  <2>2. DOMAIN r = Foreign /\ r2 = [j \in Foreign |-> r2[j]]
    BY DEF Refs
  <2>. HIDE DEF r, r2
  <2>3. r2 = [r EXCEPT ![g] = More(Count(d), k)]
    BY <2>1, <2>2
  <2>. QED  BY <2>3 DEF r, r2
<1>6. Refs(fw)[g] = Count(d)
  BY DEF Refs, d
<1>. QED  BY <1>2, <1>5, <1>6 DEF Plus, More, k

LEMMA RefsDropped ==
  ASSUME NEW fw, FTables(fw), NEW g \in Foreign, NEW id \in DOMAIN fw[g],
         NEW k, k = fw[g][id].data, NEW fw2, fw2 = [fw EXCEPT ![g] = Drop(@, {id})]
  PROVE  /\ FTables(fw2) /\ Refs(fw2) = Minus(Refs(fw), g, k, 1)
         /\ k \in Key /\ Refs(fw)[g][k] > 0
<1>. DEFINE d == DataOf(fw[g])
<1>1. fw2[g] = Drop(fw[g], {id}) /\ \A j \in Foreign \ {g} : fw2[j] = fw[j]
  BY DEF FTables
<1>2. FTables(fw2)
  BY <1>1, DropType DEF FTables
<1>3. /\ DataOf(fw2[g]) = Drop(d, {id}) /\ IsPartial(d, Id, Key) /\ id \in DOMAIN d
      /\ d[id] = k
  BY <1>1, DataOfType DEF DataOf, Drop
<1>. HIDE DEF d
<1>4. Count(Drop(d, {id})) = Less(Count(d), k) /\ k \in Key /\ Count(d)[k] > 0
  BY <1>3, CountDrop, IdFinite
<1>5. Refs(fw2) = [Refs(fw) EXCEPT ![g] = Less(Count(d), k)]
  <2>. DEFINE r == Refs(fw)
              r2 == Refs(fw2)
  <2>1. r2[g] = Less(Count(d), k) /\ \A j \in Foreign : j # g => r2[j] = r[j]
    BY <1>1, <1>3, <1>4 DEF Refs
  <2>2. DOMAIN r = Foreign /\ r2 = [j \in Foreign |-> r2[j]]
    BY DEF Refs
  <2>. HIDE DEF r, r2
  <2>3. r2 = [r EXCEPT ![g] = Less(Count(d), k)]
    BY <2>1, <2>2
  <2>. QED  BY <2>3 DEF r, r2
<1>6. Refs(fw)[g] = Count(d)
  BY DEF Refs, d
<1>. QED  BY <1>2, <1>4, <1>5, <1>6 DEF Minus, Less

LEMMA RefsMoved ==
  ASSUME NEW fw, FTables(fw), NEW g \in Foreign, NEW id \in DOMAIN fw[g],
         NEW old, old = fw[g][id].data, NEW k \in Key,
         NEW fw2, fw2 = MovedWatch(fw, g, id, k)
  PROVE  /\ FTables(fw2) /\ Refs(fw2) = Minus(Plus(Refs(fw), g, k, 1), g, old, 1)
         /\ old \in Key /\ Plus(Refs(fw), g, k, 1)[g][old] > 0
<1>. DEFINE d == DataOf(fw[g])
<1>0. fw2 = [j \in Foreign |-> fw2[j]]
  BY DEF FTables, MovedWatch
<1>1. /\ \A j \in Foreign \ {g} : fw2[j] = fw[j]
      /\ DOMAIN fw2[g] = DOMAIN fw[g]
      /\ \A j \in DOMAIN fw[g] \ {id} : fw2[g][j] = fw[g][j]
      /\ fw2[g][id] = [fw[g][id] EXCEPT !.data = k]
      /\ fw2[g] = [j \in DOMAIN fw[g] |-> fw2[g][j]]
      /\ fw[g] \in [DOMAIN fw[g] -> WatchData] /\ DOMAIN fw[g] \subseteq Id
  BY DEF FTables, IsPartial, MovedWatch
<1>2. fw2[g][id] \in WatchData /\ fw2[g][id].data = k
  BY <1>1 DEF WatchData
<1>3. FTables(fw2)
  <2>1. IsPartial(fw2[g], Id, WatchData)
    BY <1>1, <1>2 DEF IsPartial
  <2>. QED  BY <1>0, <1>1, <2>1 DEF FTables
<1>4. /\ DataOf(fw2[g]) = Put(d, id, k) /\ IsPartial(d, Id, Key) /\ id \in DOMAIN d
      /\ d[id] = old
  BY <1>1, <1>2, DataOfType DEF DataOf, Put, MovedWatch
<1>. HIDE DEF d
<1>5. /\ Count(Put(d, id, k)) = Less(More(Count(d), k), old)
      /\ old \in Key /\ More(Count(d), k)[old] > 0
  BY <1>4, CountMove, IdFinite
<1>6. Refs(fw2) = [Refs(fw) EXCEPT ![g] = Less(More(Count(d), k), old)]
  <2>. DEFINE r == Refs(fw)
              r2 == Refs(fw2)
  <2>1. /\ r2[g] = Less(More(Count(d), k), old)
        /\ \A j \in Foreign : j # g => r2[j] = r[j]
    BY <1>1, <1>4, <1>5 DEF Refs
  <2>2. DOMAIN r = Foreign /\ r2 = [j \in Foreign |-> r2[j]]
    BY DEF Refs
  <2>. HIDE DEF r, r2
  <2>3. r2 = [r EXCEPT ![g] = Less(More(Count(d), k), old)]
    BY <2>1, <2>2
  <2>. QED  BY <2>3 DEF r, r2
<1>7. Refs(fw)[g] = Count(d) /\ DOMAIN Refs(fw) = Foreign
  BY DEF Refs, d
<1>8. Plus(Refs(fw), g, k, 1) = [Refs(fw) EXCEPT ![g] = More(Count(d), k)]
  BY <1>7 DEF Plus, More
<1>. QED  BY <1>3, <1>5, <1>6, <1>7, <1>8 DEF Minus, Less

LEMMA RefsNothing ==
  ASSUME NEW fw, \A g \in Foreign : DOMAIN fw[g] = {}
  PROVE  Refs(fw) = [g \in Foreign |-> [k \in Key |-> 0]]
<1>1. \A g \in Foreign : Count(DataOf(fw[g])) = [k \in Key |-> 0]
  BY CountNothing DEF DataOf
<1>. QED  BY <1>1 DEF Refs

-----------------------------------------------------------------------------
(* All foreign data are dropped. *)

LEMMA SetToSeqIs ==
  ASSUME NEW S, IsFiniteSet(S)
  PROVE  /\ SetToSeq(S) \in Seq(S) /\ Len(SetToSeq(S)) \in Nat
         /\ DOMAIN SetToSeq(S) = 1 .. Len(SetToSeq(S))
         /\ IsInjective(SetToSeq(S))
         /\ \A x \in S : \E n \in 1 .. Len(SetToSeq(S)) : SetToSeq(S)[n] = x
<1>. DEFINE n == Cardinality(S)
            s == SetToSeq(S)
<1>1. n \in Nat /\ ExistsBijection(1 .. n, S)
  BY FS_CardinalityType
<1>2. \E f \in [1 .. n -> S] : IsInjective(f)
  BY <1>1 DEF ExistsBijection, Bijection, Injection
<1>3. s \in [1 .. n -> S] /\ IsInjective(s)
  BY <1>2 DEF SetToSeq
<1>. HIDE DEF s
<1>4. s \in Seq(S) /\ Len(s) = n
  BY <1>1, <1>3, LenProperties, SeqDef
<1>. DEFINE T == {s[m] : m \in 1 .. n}
<1>5. T = S
  <2>1. s \in Bijection(1 .. n, T)
    BY <1>3 DEF Bijection, Injection, Surjection
  <2>2. IsFiniteSet(1 .. n) /\ Cardinality(1 .. n) = n
    BY <1>1, FS_Interval
  <2>3. ExistsBijection(1 .. n, T)
    BY <2>1 DEF ExistsBijection
  <2>4. IsFiniteSet(T) /\ Cardinality(T) = n
    BY <2>2, <2>3, FS_Bijection
  <2>5. T \subseteq S
    BY <1>3
  <2>. HIDE DEF T
  <2>. QED  BY <2>4, <2>5, FS_Subset
<1>6. \A x \in S : \E m \in 1 .. n : s[m] = x
  BY <1>5
<1>. QED  BY <1>1, <1>3, <1>4, <1>6 DEF s

(* The data after each of the first n watches of list all is dropped. *)
Drops(c, all, f, n) ==
  f = [m \in 0 .. n |->
         IF m = 0 THEN c
         ELSE ForeignUnref(f[m - 1], all[m][1], fwatch[all[m][1]][all[m][2]].data)]

LEMMA DropsExists ==
  ASSUME NEW c, NEW all, NEW n \in Nat
  PROVE  \E f : Drops(c, all, f, n)
<1>. DEFINE N == {k \in Nat : \E f : Drops(c, all, f, k)}
            of(a, m) == ForeignUnref(a, all[m][1], fwatch[all[m][1]][all[m][2]].data)
<1>1. 0 \in N
  <2>. DEFINE f == [m \in 0 .. 0 |-> c]
  <2>1. Drops(c, all, f, 0)
    BY DEF Drops
  <2>. QED  BY <2>1
<1>2. ASSUME NEW k \in Nat, k \in N PROVE k + 1 \in N
  <2>1. PICK f : Drops(c, all, f, k)
    BY <1>2
  <2>. DEFINE h == [m \in 0 .. k + 1 |-> IF m = k + 1 THEN of(f[k], k + 1) ELSE f[m]]
  <2>. HIDE DEF of
  <2>2. ASSUME NEW m \in 0 .. k + 1
        PROVE  h[m] = IF m = 0 THEN c ELSE of(h[m - 1], m)
    <3>1. CASE m = k + 1
      <4>1. m # 0 /\ m - 1 \in 0 .. k + 1 /\ m - 1 # k + 1 /\ m - 1 = k
        BY <3>1
      <4>2. h[m - 1] = f[k] /\ h[m] = of(f[k], m)
        BY <3>1, <4>1
      <4>. HIDE DEF h
      <4>. QED  BY <4>1, <4>2
    <3>2. CASE m # k + 1
      <4>1. m \in 0 .. k /\ (m # 0 => m - 1 \in 0 .. k /\ m - 1 # k + 1)
        BY <3>2
      <4>2. f[m] = IF m = 0 THEN c ELSE of(f[m - 1], m)
        BY <2>1, <4>1 DEF Drops, of
      <4>3. h[m] = f[m] /\ (m # 0 => h[m - 1] = f[m - 1])
        BY <3>2, <4>1
      <4>. HIDE DEF h
      <4>. QED  BY <4>2, <4>3
    <3>. QED  BY <3>1, <3>2
  <2>3. h = [m \in 0 .. k + 1 |-> h[m]]
    OBVIOUS
  <2>. HIDE DEF h
  <2>4. Drops(c, all, h, k + 1)
    BY <2>2, <2>3 DEF Drops, of
  <2>. QED  BY <2>4
<1>. HIDE DEF N
<1>3. n \in N
  BY <1>1, <1>2, NumbersByInduction
<1>. QED  BY <1>3 DEF N

(* The watches which are left after the first n. *)
LeftWatches(all, n) ==
  [g \in Foreign |-> Drop(fwatch[g], {id \in Id : \E m \in 1 .. n : all[m] = <<g, id>>})]

(* kedr_coi_instrumentor_destroy leaves no foreign data. *)
LEMMA DestroyForeignAllIs ==
  ASSUME NEW u, FData(Data, u), FTables(fwatch), frefs = Refs(fwatch),
         NEW c, c = DestroyForeignAll(Data)
  PROVE  FData(c, u) /\ c.refs = [g \in Foreign |-> [k \in Key |-> 0]]
<1>. DEFINE S == {gi \in Foreign \X Id : IsWatched(gi[1], gi[2])}
            all == SetToSeq(S)
            f == CHOOSE F : F = [m \in 0 .. Len(all) |->
                   IF m = 0 THEN Data
                   ELSE ForeignUnref(F[m - 1], all[m][1], fwatch[all[m][1]][all[m][2]].data)]
<1>1. c = f[Len(all)]
  BY DEF DestroyForeignAll
<1>2. IsFiniteSet(S)
  <2>1. S \subseteq Foreign \X Id
    OBVIOUS
  <2>. HIDE DEF S
  <2>. QED  BY <2>1, IdFinite, FS_Subset
<1>3. \A x \in S : x = <<x[1], x[2]>> /\ x[1] \in Foreign /\ x[2] \in DOMAIN fwatch[x[1]]
  BY DEF IsWatched
<1>4. \A g \in Foreign : \A id \in DOMAIN fwatch[g] : <<g, id>> \in S /\ id \in Id
  BY DEF IsWatched, FTables, IsPartial
<1>. HIDE DEF S
<1>5. /\ Len(all) \in Nat /\ \A n \in 1 .. Len(all) : all[n] \in S
      /\ \A n, m \in 1 .. Len(all) : all[n] = all[m] => n = m
      /\ \A x \in S : \E n \in 1 .. Len(all) : all[n] = x
  <2>1. /\ all \in Seq(S) /\ Len(all) \in Nat /\ IsInjective(all)
        /\ DOMAIN all = 1 .. Len(all)
        /\ \A x \in S : \E n \in 1 .. Len(all) : all[n] = x
    BY <1>2, SetToSeqIs
  <2>. HIDE DEF all
  <2>. QED  BY <2>1, LenProperties DEF IsInjective
<1>. HIDE DEF all
<1>6. Drops(Data, all, f, Len(all))
  <2>1. \E F : Drops(Data, all, F, Len(all))
    BY <1>5, DropsExists
  <2>. QED  BY <2>1 DEF Drops
<1>. HIDE DEF f
<1>. DEFINE Done(n) == /\ FData(f[n], u) /\ FTables(LeftWatches(all, n))
                       /\ f[n].refs = Refs(LeftWatches(all, n))
            N == {n \in Nat : n <= Len(all) => Done(n)}
<1>7. 0 \in N
  <2>1. f[0] = Data
    BY <1>5, <1>6 DEF Drops
  <2>2. \A g \in Foreign : Drop(fwatch[g], {}) = fwatch[g]
    <3>1. \A g \in Foreign : fwatch[g] = [y \in DOMAIN fwatch[g] |-> fwatch[g][y]]
      BY DEF FTables, IsPartial
    <3>. QED  BY <3>1 DEF Drop
  <2>3. \A g \in Foreign : {id \in Id : \E m \in 1 .. 0 : all[m] = <<g, id>>} = {}
    OBVIOUS
  <2>4. \A g \in Foreign : LeftWatches(all, 0)[g] = fwatch[g]
    BY <2>2, <2>3 DEF LeftWatches
  <2>5. LeftWatches(all, 0) = fwatch
    BY <2>4 DEF LeftWatches, FTables
  <2>6. Data.refs = frefs
    BY DEF Data
  <2>. QED  BY <2>1, <2>5, <2>6
<1>8. ASSUME NEW n \in Nat, n \in N PROVE n + 1 \in N
  <2>. SUFFICES ASSUME n + 1 <= Len(all)
                PROVE  Done(n + 1)
    OBVIOUS
  <2>. DEFINE p == n + 1
              g == all[p][1]
              id == all[p][2]
              k == fwatch[g][id].data
              fw == LeftWatches(all, n)
  <2>1. p \in 1 .. Len(all) /\ p \in 0 .. Len(all) /\ p # 0 /\ p - 1 = n /\ Done(n)
    BY <1>5, <1>8
  <2>2. g \in Foreign /\ id \in DOMAIN fwatch[g] /\ id \in Id /\ all[p] = <<g, id>>
    BY <1>3, <1>4, <1>5, <2>1
  <2>3. f[p] = ForeignUnref(f[n], g, k)
    BY <1>6, <2>1 DEF Drops
  <2>4. id \in DOMAIN fw[g] /\ fw[g][id].data = k
    <3>1. ~\E m \in 1 .. n : all[m] = <<g, id>>
      <4>1. \A m \in 1 .. n : m \in 1 .. Len(all) /\ m # p
        BY <1>5, <2>1
      <4>. HIDE DEF p
      <4>. QED  BY <1>5, <2>1, <2>2, <4>1
    <3>. QED  BY <2>2, <3>1 DEF LeftWatches, Drop
  <2>5. LeftWatches(all, p) = [fw EXCEPT ![g] = Drop(@, {id})]
    <3>. DEFINE gone(j, q) == {i \in Id : \E m \in 1 .. q : all[m] = <<j, i>>}
    <3>1. gone(g, p) = gone(g, n) \cup {id}
      BY <2>1, <2>2
    <3>2. \A j \in Foreign : j # g => gone(j, p) = gone(j, n)
      BY <2>1, <2>2
    <3>. HIDE DEF gone
    <3>3. Drop(fwatch[g], gone(g, p)) = Drop(Drop(fwatch[g], gone(g, n)), {id})
      BY <3>1 DEF Drop
    <3>. DEFINE v == LeftWatches(all, p)
    <3>4. v[g] = Drop(fw[g], {id}) /\ \A j \in Foreign : j # g => v[j] = fw[j]
      BY <2>2, <3>2, <3>3 DEF LeftWatches, gone
    <3>5. v = [j \in Foreign |-> v[j]] /\ DOMAIN fw = Foreign
      BY DEF LeftWatches
    <3>. HIDE DEF v, fw
    <3>6. v = [fw EXCEPT ![g] = Drop(@, {id})]
      BY <3>4, <3>5
    <3>. QED  BY <3>6 DEF v
  <2>. DEFINE fw2 == LeftWatches(all, p)
              b == f[n]
              b2 == f[p]
  <2>6. fw2 = [fw EXCEPT ![g] = Drop(@, {id})] /\ b2 = ForeignUnref(b, g, k)
    BY <2>3, <2>5
  <2>7. FData(b, u) /\ FTables(fw) /\ b.refs = Refs(fw)
    BY <2>1
  <2>8. k = fw[g][id].data
    BY <2>4
  <2>. HIDE DEF k, fw, fw2, b, b2, g, id
  <2>9. /\ FTables(fw2) /\ Refs(fw2) = Minus(Refs(fw), g, k, 1)
        /\ k \in Key /\ Refs(fw)[g][k] > 0
    <3>1. /\ FTables(fw) /\ g \in Foreign /\ id \in DOMAIN fw[g]
          /\ k = fw[g][id].data /\ fw2 = [fw EXCEPT ![g] = Drop(@, {id})]
      BY <2>2, <2>4, <2>6, <2>7, <2>8
    <3>. QED  BY <3>1, RefsDropped
  <2>10. b.refs[g][k] > 0
    BY <2>7, <2>9
  <2>11. FData(b2, u) /\ b2.refs = Minus(b.refs, g, k, 1)
    BY <2>2, <2>6, <2>7, <2>9, <2>10, ForeignUnrefIs
  <2>. QED  BY <2>7, <2>9, <2>11 DEF fw2, b2
<1>. HIDE DEF N
<1>9. Len(all) \in N
  BY <1>5, <1>7, <1>8, NumbersByInduction
<1>10. Done(Len(all))
  BY <1>5, <1>9 DEF N
<1>11. \A g \in Foreign : DOMAIN LeftWatches(all, Len(all))[g] = {}
  BY <1>4, <1>5 DEF LeftWatches, Drop
<1>12. Refs(LeftWatches(all, Len(all))) = [g \in Foreign |-> [k \in Key |-> 0]]
  BY <1>11, RefsNothing
<1>. QED  BY <1>1, <1>10, <1>12

-----------------------------------------------------------------------------
(* The invariant. *)

FTyped ==
  /\ DOMAIN watch = Interceptor /\ IsPartial(watch[Bound], Object, Key)
  /\ FTables(fwatch)
  /\ field \in [Object -> Ops \cup Copy \cup {NULL}]
  /\ prog \in [Object -> Ops \cup {NULL}]
  /\ lost \subseteq Object /\ dangling \subseteq Object
  /\ origin \in [Object -> Factory \cup {NULL}]
  /\ call \in CallRecord \cup {NULL}
  /\ oops \in {"none", "update", "null", "freed"}

(* Normal data are used by the objects watched, foreign data by the watches. *)
FCounted == FData(Data, Count(watch[Bound])) /\ frefs = Refs(fwatch)

(* What is known of an operations pointer wherever it came from: it is that of
   the program or the one made for it, unless the program was told so. *)
FOwned(o) ==
  /\ \/ o \in lost \cup dangling \/ field[o] = prog[o]
     \/ prog[o] \in DOMAIN heap.idata[Bound] /\ field[o] = Repl(heap, prog[o])
  /\ field[o] \in Copy /\ o \notin dangling => field[o] \in DOMAIN heap.mem
  /\ o \in dangling => field[o] \in Copy
  /\ o \in dangling /\ o \in DOMAIN watch[Bound] =>
       field[o] # Repl(heap, watch[Bound][o])

FPointers == \A o \in Object : FOwned(o)

(* A call wants what the program gave its object. *)
CallWants == call # NULL => call.want = Wanted(call.obj)[call.field]

(* A call that should bind its object and has not done so yet comes to an
   instrumentor at or above one that watches the tie. *)
Binding(k) ==
  \E m \in 1 .. Len(chain[k]) :
    /\ call.op = Intermediate(chain[k][m], call.field)
    /\ \E n \in 1 .. m : /\ TieWatches(chain[k][n], call.tie) # {}
                         /\ Always(chain[k][n], call.field)

CallBinds ==
  call # NULL /\ call.tied /\ ~Watched(Bound, call.obj) =>
    \E k \in DOMAIN heap.idata[Bound] :
      MyOperations(heap, Bound, k, field[call.obj]) /\ Binding(k)

FInv ==
  /\ FTyped /\ FCounted /\ FPointers
  /\ CallWants /\ CallReaches /\ CallBinds

(* A watch of object o, or one of o as a factory, keeps data k. *)
Keeps(o, k) ==
  \/ o \in DOMAIN watch[Bound] /\ watch[Bound][o] = k
  \/ \E g \in Foreign : \E id \in DOMAIN fwatch[g] :
       fwatch[g][id].ops_p = o /\ fwatch[g][id].data = k

LEMMA FInvParts ==
  ASSUME FInv
  PROVE  /\ Base(heap, {}) /\ HeapOK(heap) /\ Tables(heap) /\ Foreignless(heap)
         /\ Data.heap = heap /\ Data.chain = chain /\ Data.refs = frefs
         /\ FData(Data, Count(watch[Bound]))
         /\ FHeap(heap, chain, Count(watch[Bound])) /\ FLists(chain, frefs)
         /\ chain \in [Key -> Seq(Foreign)] /\ frefs \in [Foreign -> [Key -> Nat]]
         /\ Count(watch[Bound]) \in [Key -> Nat]
<1>1. Data.heap = heap /\ Data.chain = chain /\ Data.refs = frefs
  BY DEF Data
<1>2. FData(Data, Count(watch[Bound]))
  BY DEF FInv, FCounted
<1>. QED  BY <1>1, <1>2 DEF FData, FShape, FHeap, Base

LEMMA BoundIn ==
  ASSUME NEW h, Base(h, {}), NEW k \in DOMAIN h.idata[Bound]
  PROVE  /\ k \in Ops \cup {NULL} /\ k \in Key /\ k \notin Copy
         /\ Repl(h, k) \in Ops \cup Copy
         /\ \A a : MyOperations(h, Bound, k, a) <=> a = k \/ a = Repl(h, k)
<1>1. k \in Ops \cup {NULL} /\ (Repl(h, k) \in Struct => Repl(h, k) = k)
  BY ReplThere
<1>2. Repl(h, k) \in Struct \cup Copy
  BY BoundData DEF Base
<1>. QED  BY <1>1, <1>2, AddressAssumption DEF Key, Struct, MyOperations, Repl

(* Who has a pointer found in the tables. *)
LEMMA InTable ==
  ASSUME NEW h, Base(h, {}), Foreignless(h), NEW a
  PROVE  /\ a \in DOMAIN h.table[Bound] <=> a \in h.global
         /\ a \in DOMAIN h.table[Bound] =>
              /\ h.table[Bound][a] \in DOMAIN h.idata[Bound]
              /\ MyOperations(h, Bound, h.table[Bound][a], a)
         /\ \A k \in DOMAIN h.idata[Bound] :
              MyOperations(h, Bound, k, a) =>
                a \in DOMAIN h.table[Bound] /\ h.table[Bound][a] = k
<1>1. Tables(h)
  BY DEF Base
<1>2. \A g \in Foreign : DOMAIN h.table[g] = {}
  BY <1>1, BoundIs DEF Tables, Foreignless
<1>3. a \in h.global => a \in DOMAIN h.table[Bound]
  BY <1>1, <1>2, BoundIs DEF Tables
<1>4. ASSUME NEW k \in DOMAIN h.idata[Bound], MyOperations(h, Bound, k, a)
      PROVE  a \in DOMAIN h.table[Bound] /\ h.table[Bound][a] = k
  BY <1>1, <1>4, ReplThere DEF MyOperations, Repl
<1>. QED  BY <1>1, <1>3, <1>4, BoundIs DEF Tables

(* The pointer of an object that is not left to freed memory may be used. *)
LEMMA UsableKnown ==
  ASSUME FInv, NEW o \in Object \ dangling
  PROVE  /\ Known(heap, field[o])
         /\ field[o] \in Copy => field[o] \in DOMAIN heap.table[Bound]
<1>1. /\ Base(heap, {}) /\ Foreignless(heap)
  BY FInvParts
<1>2. field[o] \in Copy => field[o] \in heap.global
  BY <1>1, AddressAssumption DEF FInv, FPointers, FOwned, Base, Held
<1>3. field[o] \in Ops \cup Copy \cup {NULL}
  BY DEF FInv, FTyped
<1>. QED  BY <1>1, <1>2, <1>3, InTable DEF Known

(* The operations by which an object may be known are those it has from the
   program. *)
LEMMA ProgramKnows ==
  ASSUME FInv, NEW o \in Object \ (lost \cup dangling),
         NEW h, Base(h, {}), Grown(heap, h),
         NEW k \in DOMAIN h.idata[Bound], MyOperations(h, Bound, k, field[o])
  PROVE  prog[o] = k
<1>1. Base(h, {}) /\ k \in Ops \cup {NULL} /\ prog[o] \in Ops \cup {NULL}
  BY BoundIn DEF FInv, FTyped
<1>2. CASE field[o] = prog[o]
  BY <1>1, <1>2, KeyOf, BoundIs
<1>3. CASE prog[o] \in DOMAIN heap.idata[Bound] /\ field[o] = Repl(heap, prog[o])
  <2>1. prog[o] \in DOMAIN h.idata[Bound] /\ MyOperations(h, Bound, prog[o], field[o])
    BY <1>3 DEF Grown, MyOperations, Repl
  <2>. QED  BY <2>1, OneOwner, BoundIs
<1>. QED  BY <1>2, <1>3 DEF FInv, FPointers, FOwned

-----------------------------------------------------------------------------
(* What every call leaves of the data, the pointers and the running call. *)

DataKept ==
  /\ FCounted'
  /\ DOMAIN watch' = Interceptor /\ IsPartial(watch'[Bound], Object, Key)
  /\ FTables(fwatch') /\ Carried(heap, heap')

(* Object o gets an operations pointer of data that are known by its own. *)
Led(o) ==
  \E h : /\ Base(h, {}) /\ Grown(heap, h) /\ Carried(h, heap')
         /\ \E k \in DOMAIN h.idata[Bound] :
              MyOperations(h, Bound, k, field[o]) /\ field'[o] \in {k, Repl(h, k)}

(* Only the pointer of object x is set, and a pointer that is not known is not
   lost silently. *)
Handled(x) ==
  /\ \A o \in Object \ {x} : field'[o] = field[o]
  /\ field' \in [Object -> Ops \cup Copy \cup {NULL}]
  /\ prog' = prog /\ lost \subseteq lost' /\ lost' \subseteq Object
  /\ field'[x] = field[x] \/ x \in lost' \/ (x \notin dangling /\ Led(x))

(* An object gets a pointer to a structure of the program, or to that of data
   which a watch of its own keeps from now on. *)
Touched(o) ==
  \/ field'[o] \notin Copy
  \/ /\ o \notin dangling
     /\ \E h : /\ Carried(h, heap')
               /\ \E k \in DOMAIN h.idata[Bound] : Keeps(o, k)' /\ field'[o] = Repl(h, k)

(* An object keeps its pointer, and the data the pointer is of. *)
Aside(o) ==
  /\ field'[o] = field[o] /\ (o \in live' => o \in live)
  /\ \A k : Keeps(o, k)' => Keeps(o, k)
  /\ o \in live' => \A k :
       field[o] \in Copy /\ Keeps(o, k) /\ field[o] = Repl(heap, k) => Keeps(o, k)'

Fit == \A o \in Object : Aside(o) \/ Touched(o)

(* The watch of the object itself is not touched. *)
Stays(o) ==
  /\ o \in DOMAIN watch'[Bound] <=> o \in DOMAIN watch[Bound]
  /\ o \in DOMAIN watch[Bound] => watch'[Bound][o] = watch[Bound][o]

LEMMA StaysAside ==
  ASSUME fwatch' = fwatch, NEW o, Stays(o), field'[o] = field[o], o \in live' => o \in live
  PROVE  Aside(o)
<1>1. \A k : Keeps(o, k)' <=> Keeps(o, k)
  BY DEF Keeps, Stays
<1>. QED  BY <1>1 DEF Aside

(* No object is watched anew with a pointer to freed memory. *)
WatchedFresh ==
  \A o \in DOMAIN watch'[Bound] :
    o \notin dangling \/ (o \in DOMAIN watch[Bound] /\ watch'[Bound][o] = watch[Bound][o])

LEMMA FreedIs ==
  ASSUME FreedCopies, NEW o \in Object
  PROVE  /\ o \in dangling' => field'[o] \in Copy
         /\ field'[o] \in Copy /\ o \notin dangling' => field'[o] \in DOMAIN heap'.mem
         /\ field'[o] \in Copy /\ field'[o] \notin DOMAIN heap'.mem => o \in dangling'
         /\ o \in dangling /\ field'[o] \in Copy /\ field'[o] = field[o] => o \in dangling'
         /\ o \in dangling' /\ field'[o] \in DOMAIN heap'.mem
              => o \in dangling /\ field'[o] = field[o]
         /\ dangling' \subseteq Object
BY DEF FreedCopies

LEMMA NextBase ==
  ASSUME DataKept
  PROVE  /\ Base(heap', {}) /\ Foreignless(heap') /\ FHeap(heap', chain', Count(watch'[Bound]))
         /\ FLists(chain', frefs')
BY DEF DataKept, FCounted, FData, FHeap, Data

(* An object or a field is watched with data that exist. *)
LEMMA WatchedIn ==
  ASSUME NEW h, NEW ch, NEW w, IsPartial(w, Object, Key), FHeap(h, ch, Count(w)),
         NEW o \in DOMAIN w
  PROVE  w[o] \in Key /\ w[o] \in DOMAIN h.idata[Bound] /\ Count(w)[w[o]] > 0
<1>. DEFINE k == w[o]
            u == Count(w)
<1>1. k \in Key /\ o \in Users(w, k)
  BY DEF IsPartial, Users
<1>2. IsFiniteSet(Object)
  BY FiniteAssumption, FS_Subset
<1>3. /\ IsFiniteSet(Users(w, k)) /\ u[k] = Cardinality(Users(w, k)) /\ u[k] \in Nat
  BY <1>1, <1>2, CountIsNat
<1>4. u[k] > 0
  BY <1>1, <1>3, FS_EmptySet
<1>. HIDE DEF u, k
<1>5. CountIs(h, ch, u)
  BY DEF FHeap, u
<1>6. k \in DOMAIN h.idata[Bound]
  BY <1>1, <1>3, <1>4, <1>5 DEF CountIs
<1>. QED  BY <1>1, <1>4, <1>6 DEF k, u

LEMMA ForeignWatchedIn ==
  ASSUME FInv, NEW g \in Foreign, NEW id \in DOMAIN fwatch[g],
         NEW k, k = fwatch[g][id].data
  PROVE  /\ k \in Key /\ k \in DOMAIN heap.idata[Bound] /\ frefs[g][k] > 0
         /\ g \in ToSet(chain[k]) /\ fwatch[g][id] \in WatchData /\ id \in Id
<1>. DEFINE fw2 == [fwatch EXCEPT ![g] = Drop(@, {id})]
<1>1. FTables(fwatch) /\ frefs = Refs(fwatch)
  BY DEF FInv, FTyped, FCounted
<1>2. k \in Key /\ Refs(fwatch)[g][k] > 0
  BY <1>1, RefsDropped
<1>3. frefs[g][k] > 0 /\ g \in ToSet(chain[k])
  BY <1>1, <1>2, FInvParts DEF FLists
<1>4. k \in DOMAIN heap.idata[Bound]
  BY <1>2, <1>3, FInvParts, ListedData
<1>. QED  BY <1>1, <1>2, <1>3, <1>4 DEF FTables, IsPartial

(* An object keeps what is known of its pointer, or it is lost. *)
LEMMA PointerNext ==
  ASSUME FInv, DataKept, FreedCopies, WatchedFresh, NEW o \in Object,
         prog'[o] = prog[o], o \in lost => o \in lost',
         \/ field'[o] = field[o] \/ o \in lost'
         \/ o \notin dangling /\ Led(o)
  PROVE  FOwned(o)'
<1>0. Base(heap, {}) /\ Base(heap', {})
  BY FInvParts, NextBase
<1>1. o \in dangling' /\ o \in DOMAIN watch'[Bound] =>
        field'[o] # Repl(heap', watch'[Bound][o])
  <2>. SUFFICES ASSUME o \in dangling', o \in DOMAIN watch'[Bound],
                       field'[o] = Repl(heap', watch'[Bound][o])
                PROVE  FALSE
    OBVIOUS
  <2>. DEFINE k == watch'[Bound][o]
  <2>1. k \in DOMAIN heap'.idata[Bound]
    BY NextBase, WatchedIn DEF DataKept
  <2>2. field'[o] \in DOMAIN heap'.mem
    BY <1>0, <2>1, ReplThere
  <2>3. o \in dangling /\ field'[o] = field[o]
    BY <2>2, FreedIs
  <2>4. o \in DOMAIN watch[Bound] /\ k = watch[Bound][o]
    BY <2>3 DEF WatchedFresh
  <2>5. field[o] # Repl(heap, k)
    BY <2>3, <2>4 DEF FInv, FPointers, FOwned
  <2>6. k \in DOMAIN heap.idata[Bound]
    BY <2>4, FInvParts, WatchedIn DEF FInv, FTyped
  <2>. QED  BY <2>1, <2>3, <2>5, <2>6 DEF DataKept, Carried
<1>2. \/ o \in lost' \cup dangling' \/ field'[o] = prog'[o]
      \/ prog'[o] \in DOMAIN heap'.idata[Bound] /\ field'[o] = Repl(heap', prog'[o])
  <2>. SUFFICES ASSUME o \notin lost', o \notin dangling'
                PROVE  \/ field'[o] = prog'[o]
                       \/ /\ prog'[o] \in DOMAIN heap'.idata[Bound]
                          /\ field'[o] = Repl(heap', prog'[o])
    OBVIOUS
  <2>0. o \notin lost
    OBVIOUS
  <2>1. ASSUME NEW h, Base(h, {}), Carried(h, heap'), NEW k \in DOMAIN h.idata[Bound],
               field'[o] = Repl(h, k), prog[o] = k
        PROVE  \/ field'[o] = prog'[o]
               \/ /\ prog'[o] \in DOMAIN heap'.idata[Bound]
                  /\ field'[o] = Repl(heap', prog'[o])
    <3>1. CASE k \in DOMAIN heap'.idata[Bound]
      BY <2>1, <3>1 DEF Carried
    <3>2. CASE k \notin DOMAIN heap'.idata[Bound]
      <4>1. Repl(h, k) \notin Copy
        BY <2>1, <3>2, FreedIs DEF Carried
      <4>2. Repl(h, k) = k
        BY <2>1, <4>1, BoundIn, ReplThere DEF Struct
      <4>. QED  BY <2>1, <4>2
    <3>. QED  BY <3>1, <3>2
  <2>2. CASE field'[o] = field[o]
    <3>1. o \notin dangling
      BY <2>2, FreedIs DEF FInv, FPointers, FOwned
    <3>2. CASE field[o] = prog[o]
      BY <2>2, <3>2
    <3>3. CASE prog[o] \in DOMAIN heap.idata[Bound] /\ field[o] = Repl(heap, prog[o])
      BY <1>0, <2>1, <2>2, <3>3 DEF DataKept
    <3>. QED  BY <2>0, <3>1, <3>2, <3>3 DEF FInv, FPointers, FOwned
  <2>3. CASE o \notin dangling /\ Led(o)
    <3>1. PICK h : /\ Base(h, {}) /\ Grown(heap, h) /\ Carried(h, heap')
                   /\ \E k \in DOMAIN h.idata[Bound] :
                        MyOperations(h, Bound, k, field[o]) /\ field'[o] \in {k, Repl(h, k)}
      BY <2>3 DEF Led
    <3>2. PICK k \in DOMAIN h.idata[Bound] :
            MyOperations(h, Bound, k, field[o]) /\ field'[o] \in {k, Repl(h, k)}
      BY <3>1
    <3>3. prog[o] = k
      BY <2>0, <2>3, <3>1, <3>2, ProgramKnows
    <3>. QED  BY <2>1, <3>1, <3>2, <3>3
  <2>. QED  BY <2>2, <2>3
<1>. QED  BY <1>1, <1>2, FreedIs DEF FOwned

LEMMA HandledPointers ==
  ASSUME FInv, DataKept, FreedCopies, WatchedFresh, NEW x, Handled(x)
  PROVE  FPointers'
<1>1. ASSUME NEW o \in Object
      PROVE  FOwned(o)'
  BY PointerNext DEF Handled
<1>. QED  BY <1>1 DEF FPointers

-----------------------------------------------------------------------------
(* The call which is under way while others call the library. *)

CallsKept == CallWants' /\ CallReaches' /\ CallBinds' /\ call' \in CallRecord \cup {NULL}

(* The object of the call keeps its operations, or it is known not to. *)
ObjectKept ==
  call # NULL => prog'[call.obj] = prog[call.obj] /\ (call.obj \in lost => call.obj \in lost')

LEMMA CallIs ==
  ASSUME FInv, call # NULL
  PROVE  /\ call \in CallRecord /\ call.obj \in Object /\ call.field \in Field
         /\ call.op \in Function \cup {NULL} \cup Intermediates
         /\ call.want = ContentAt(prog[call.obj])[call.field]
BY DEF FInv, FTyped, CallRecord, CallWants, Wanted

LEMMA CallUntied ==
  ASSUME FInv, Untie, ObjectKept
  PROVE  CallsKept
<1>1. CASE call = NULL
  BY <1>1 DEF Untie, CallsKept, CallWants, CallReaches, CallBinds
<1>2. CASE call # NULL
  <2>1. /\ call' \in CallRecord /\ call'.obj = call.obj /\ call'.field = call.field
        /\ call'.want = call.want /\ call'.op = call.op /\ call'.same = call.same
        /\ ~call'.tied
    BY <1>2, CallIs DEF Untie, CallRecord
  <2>2. CallWants'
    BY <1>2, <2>1, CallIs DEF CallWants, Wanted, ObjectKept
  <2>3. CallReaches'
    BY <1>2, <2>1 DEF CallReaches, ObjectKept, FInv
  <2>4. CallBinds'
    BY <2>1 DEF CallBinds
  <2>. QED  BY <2>1, <2>2, <2>3, <2>4 DEF CallsKept
<1>. QED  BY <1>1, <1>2

(* Watches and lists only grow, no object is forgotten, and the pointer of the
   object of the call is set only by who knows it. *)
TiesGrow ==
  /\ Grown(heap, heap') /\ Longer(chain, chain')
  /\ \A g \in Foreign : \A id \in DOMAIN fwatch[g] :
       id \in DOMAIN fwatch'[g] /\ fwatch'[g][id].tie = fwatch[g][id].tie
  /\ DOMAIN watch[Bound] \subseteq DOMAIN watch'[Bound]
  /\ call # NULL =>
       \/ field'[call.obj] = field[call.obj]
       \/ \E k \in DOMAIN heap'.idata[Bound] :
            /\ MyOperations(heap', Bound, k, field[call.obj])
            /\ field'[call.obj] = Repl(heap', k)

LEMMA CallSame ==
  ASSUME FInv, DataKept, call' = call, ObjectKept, call = NULL \/ TiesGrow
  PROVE  CallsKept
<1>1. call' \in CallRecord \cup {NULL}
  BY DEF FInv, FTyped
<1>2. CallWants'
  BY CallIs DEF CallWants, Wanted, ObjectKept
<1>3. CallReaches'
  BY DEF CallReaches, ObjectKept, FInv
<1>4. CallBinds'
  <2>. SUFFICES ASSUME call # NULL, call.tied, ~Watched(Bound, call.obj)'
                PROVE  \E k \in DOMAIN heap'.idata[Bound] :
                         MyOperations(heap', Bound, k, field'[call.obj]) /\ Binding(k)'
    BY DEF CallBinds
  <2>1. TiesGrow /\ ~Watched(Bound, call.obj)
    BY DEF TiesGrow, Watched
  <2>2. PICK k \in DOMAIN heap.idata[Bound] :
          MyOperations(heap, Bound, k, field[call.obj]) /\ Binding(k)
    BY <2>1 DEF FInv, CallBinds
  <2>3. /\ k \in DOMAIN heap'.idata[Bound] /\ Repl(heap', k) = Repl(heap, k)
        /\ MyOperations(heap', Bound, k, field[call.obj])
    BY <2>1, <2>2 DEF TiesGrow, Grown, MyOperations, Repl
  <2>4. MyOperations(heap', Bound, k, field'[call.obj])
    <3>1. CASE field'[call.obj] = field[call.obj]
      BY <2>3, <3>1
    <3>2. ASSUME NEW l \in DOMAIN heap'.idata[Bound],
                 MyOperations(heap', Bound, l, field[call.obj]),
                 field'[call.obj] = Repl(heap', l)
          PROVE  MyOperations(heap', Bound, k, field'[call.obj])
      <4>1. l = k
        BY <2>3, <3>2, NextBase, OneOwner, BoundIs
      <4>. QED  BY <3>2, <4>1 DEF MyOperations, Repl
    <3>. QED  BY <2>1, <3>1, <3>2 DEF TiesGrow
  <2>5. Binding(k)'
    <3>. DEFINE s == chain[k]
                s2 == chain'[k]
    <3>1. k \in Key /\ s \in Seq(Foreign) /\ s2 \in Seq(Foreign)
      BY <2>2, FInvParts, BoundIn, NextBase DEF FHeap
    <3>2. PICK m \in 1 .. Len(s) :
            /\ call.op = Intermediate(s[m], call.field)
            /\ \E n \in 1 .. m : /\ TieWatches(s[n], call.tie) # {}
                                 /\ Always(s[n], call.field)
      BY <2>2 DEF Binding
    <3>3. PICK n \in 1 .. m : TieWatches(s[n], call.tie) # {} /\ Always(s[n], call.field)
      BY <3>2
    <3>4. Len(s) \in Nat /\ Len(s2) \in Nat /\ s[n] \in Foreign
      <4>1. Len(s) \in Nat /\ Len(s2) \in Nat
        BY <3>1, ListIs
      <4>2. n \in 1 .. Len(s)
        BY <4>1
      <4>. QED  BY <3>1, <4>1, <4>2, ListIs
    <3>5. Len(s) <= Len(s2) /\ \A q \in 1 .. Len(s) : s2[q] = s[q]
      BY <2>1, <3>1 DEF TiesGrow, Longer
    <3>6. m \in 1 .. Len(s2) /\ s2[m] = s[m] /\ s2[n] = s[n]
      BY <3>4, <3>5
    <3>7. \E g \in Foreign : g = s[n] /\ g = s2[n]
      BY <3>4, <3>6
    <3>8. PICK g \in Foreign : g = s[n] /\ g = s2[n]
      BY <3>7
    <3>9. \E id \in DOMAIN fwatch'[g] : fwatch'[g][id].tie = call.tie
      BY <2>1, <3>3, <3>8 DEF TiesGrow, TieWatches
    <3>10. TieWatches(chain[k][n], call.tie)' # {}
      BY <3>8, <3>9 DEF TieWatches
    <3>11. (call.op = Intermediate(chain[k][m], call.field) /\ Always(chain[k][n], call.field))'
      BY <3>2, <3>3, <3>6 DEF Always
    <3>12. m \in 1 .. Len(chain'[k])
      BY <3>6
    <3>. QED  BY <3>10, <3>11, <3>12 DEF Binding
  <2>. QED  BY <2>3, <2>4, <2>5
<1>. QED  BY <1>1, <1>2, <1>3, <1>4 DEF CallsKept

-----------------------------------------------------------------------------
(* The steps. *)

OopsOK == oops' \in {"none", "update", "null", "freed"}

LEMMA NextParts ==
  ASSUME DataKept, FreedCopies, FPointers', CallsKept, OopsOK,
         field' \in [Object -> Ops \cup Copy \cup {NULL}],
         prog' \in [Object -> Ops \cup {NULL}], lost' \subseteq Object,
         origin' \in [Object -> Factory \cup {NULL}]
  PROVE  FInv'
<1>1. dangling' \subseteq Object
  BY DEF FreedCopies
<1>2. FTyped'
  BY <1>1 DEF FTyped, DataKept, CallsKept, OopsOK
<1>. QED  BY <1>2 DEF FInv, DataKept, CallsKept

LEMMA LibraryStep ==
  ASSUME FInv, DataKept, FreedCopies, WatchedFresh, NEW x, Handled(x), CallsKept,
         UNCHANGED origin, OopsOK
  PROVE  FInv'
<1>1. FPointers'
  BY HandledPointers
<1>2. FTyped
  BY DEF FInv
<1>. QED  BY <1>1, <1>2, NextParts DEF Handled, FTyped

LEMMA DataSame ==
  ASSUME FInv, UNCHANGED <<heap, watch, foreignVars>>
  PROVE  /\ DataKept /\ WatchedFresh
         /\ Grown(heap, heap') /\ Longer(chain, chain')
<1>1. UNCHANGED <<heap, watch, chain, frefs, fwatch>>
  BY DEF foreignVars
<1>2. FCounted'
  BY <1>1 DEF FInv, FCounted, Data
<1>3. Grown(heap, heap)
  BY DEF Grown
<1>4. Longer(chain, chain)
  BY FInvParts, LongerSame
<1>. QED  BY <1>1, <1>2, <1>3, <1>4, GrownOnly DEF DataKept, WatchedFresh, FInv, FTyped

(* The effect of SetPointer. *)
LEMMA PointerSet ==
  ASSUME FInv, NEW x \in Object, NEW a \in Ops \cup Copy \cup {NULL}, SetPointer(x, a)
  PROVE  /\ field' \in [Object -> Ops \cup Copy \cup {NULL}] /\ field'[x] = a
         /\ \A o \in Object \ {x} : field'[o] = field[o]
BY DEF SetPointer, FInv, FTyped

LEMMA DataSet ==
  ASSUME NEW c, NEW u, FData(c, u), SetData(c), u = Count(watch'[Bound]),
         c.refs = Refs(fwatch')
  PROVE  FCounted'
<1>1. c = [heap |-> heap', chain |-> chain', refs |-> frefs']
  BY DEF SetData, FData, FShape
<1>. QED  BY <1>1 DEF FCounted, Data, SetData

LEMMA ForeignWatchUpdateInv ==
  ASSUME FInv, NEW g \in Foreign, NEW w \in Watching, Usable(w.ops_p),
         ForeignWatchUpdate(g, w), FreedCopies
  PROVE  FInv'
<1>. DEFINE p == w.ops_p
            k == fwatch[g][w.id].data
<1>1. /\ UNCHANGED <<heap, watch, foreignVars>> /\ UNCHANGED <<prog, lost, origin, call, oops>>
      /\ w.id \in DOMAIN fwatch[g] /\ MyOperations(heap, Bound, k, field[p])
      /\ SetPointer(p, Repl(heap, k))
  BY DEF ForeignWatchUpdate, IsWatched, Repl
<1>2. p \in Object \ dangling
  BY BoundAssumption DEF Usable
<1>3. k \in DOMAIN heap.idata[Bound]
  BY <1>1, ForeignWatchedIn
<1>. HIDE DEF p, k
<1>4. /\ DataKept /\ WatchedFresh /\ Grown(heap, heap') /\ Longer(chain, chain')
  BY <1>1, DataSame
<1>5. /\ field' \in [Object -> Ops \cup Copy \cup {NULL}] /\ field'[p] = Repl(heap, k)
      /\ \A o \in Object \ {p} : field'[o] = field[o]
  <2>1. Repl(heap, k) \in Ops \cup Copy \cup {NULL}
    BY <1>3, FInvParts, BoundIn
  <2>. QED  BY <1>1, <1>2, <2>1, PointerSet
<1>6. Led(p)
  <2>1. Base(heap, {}) /\ Grown(heap, heap) /\ Carried(heap, heap')
    BY <1>4, FInvParts DEF Grown, DataKept
  <2>. QED  BY <1>1, <1>3, <1>5, <2>1 DEF Led
<1>7. Handled(p)
  BY <1>1, <1>2, <1>5, <1>6 DEF Handled, FInv, FTyped
<1>8. TiesGrow
  <2>1. \/ field'[call.obj] = field[call.obj] \/ call = NULL \/ call.obj = p
    BY <1>5, CallIs
  <2>2. heap' = heap /\ watch' = watch /\ fwatch' = fwatch
    BY <1>1 DEF foreignVars
  <2>. QED  BY <1>1, <1>3, <1>4, <1>5, <2>1, <2>2 DEF TiesGrow
<1>9. ObjectKept
  BY <1>1 DEF ObjectKept
<1>10. CallsKept /\ OopsOK
  BY <1>1, <1>4, <1>8, <1>9, CallSame DEF OopsOK, FInv, FTyped
<1>. QED  BY <1>1, <1>4, <1>7, <1>10, LibraryStep

(* The field of a watch is given the structure of the data obtained. *)
LEMMA PointerLed ==
  ASSUME FInv, NEW p \in Object \ dangling, NEW h, Base(h, {}), Grown(heap, h),
         Carried(h, heap'), NEW k \in DOMAIN h.idata[Bound],
         MyOperations(h, Bound, k, field[p]), NEW a \in {k, Repl(h, k)}, SetPointer(p, a),
         prog' = prog, lost \subseteq lost', lost' \subseteq Object
  PROVE  Handled(p) /\ field'[p] = a /\ \A o \in Object \ {p} : field'[o] = field[o]
<1>1. a \in Ops \cup Copy \cup {NULL}
  BY BoundIn
<1>2. /\ field' \in [Object -> Ops \cup Copy \cup {NULL}] /\ field'[p] = a
      /\ \A o \in Object \ {p} : field'[o] = field[o]
  BY <1>1, PointerSet
<1>3. Led(p)
  BY <1>2 DEF Led
<1>. QED  BY <1>2, <1>3 DEF Handled

LEMMA ForeignWatchMovedInv ==
  ASSUME FInv, NEW g \in Foreign, NEW w \in Watching, Usable(w.ops_p),
         ForeignWatchMoved(g, w), FreedCopies
  PROVE  /\ FInv' /\ DataKept
         /\ \A o \in Object \ {w.ops_p} : field'[o] = field[o]
         /\ \E h : /\ Carried(h, heap')
                   /\ \E k \in DOMAIN h.idata[Bound] :
                        /\ field'[w.ops_p] = Repl(h, k)
                        /\ fwatch' = MovedWatch(fwatch, g, w.id, k)
<1>. DEFINE p == w.ops_p
            id == w.id
            old == fwatch[g][id].data
            u == Count(watch[Bound])
<1>1. /\ UNCHANGED <<watch, prog, lost, origin, oops>> /\ Untie /\ id \in DOMAIN fwatch[g]
      /\ \E d \in ForeignGet(Data, g, field[p]) :
           /\ SetData(ForeignUnref(d.data, g, old))
           /\ fwatch' = MovedWatch(fwatch, g, id, d.key)
           /\ SetPointer(p, Repl(d.data.heap, d.key))
  BY DEF ForeignWatchMoved, IsWatched, Repl, MovedWatch
<1>2. PICK d \in ForeignGet(Data, g, field[p]) :
           /\ SetData(ForeignUnref(d.data, g, old))
           /\ fwatch' = MovedWatch(fwatch, g, id, d.key)
           /\ SetPointer(p, Repl(d.data.heap, d.key))
  BY <1>1
<1>3. p \in Object \ dangling
  BY BoundAssumption DEF Usable
<1>4. old = fwatch[g][id].data /\ u = Count(watch[Bound])
  OBVIOUS
<1>. HIDE DEF p, old, id, u
<1>5. /\ FData(Data, u) /\ FTables(fwatch) /\ frefs = Refs(fwatch)
      /\ Data.heap = heap /\ Data.chain = chain /\ Data.refs = frefs
  BY <1>4, FInvParts DEF FInv, FTyped, FCounted
<1>6. Known(Data.heap, field[p])
  BY <1>3, <1>5, UsableKnown
<1>. DEFINE k == d.key
            x == d.data
            c == ForeignUnref(x, g, old)
<1>7. /\ FData(x, u) /\ k \in Key /\ k \in DOMAIN x.heap.idata[Bound]
      /\ MyOperations(x.heap, Bound, k, field[p])
      /\ x.refs = Plus(frefs, g, k, 1) /\ Grown(heap, x.heap)
  BY <1>5, <1>6, ForeignGetIs
<1>8. /\ SetData(c) /\ fwatch' = MovedWatch(fwatch, g, id, k)
      /\ SetPointer(p, Repl(x.heap, k)) /\ c = ForeignUnref(x, g, old)
  BY <1>2
<1>. HIDE DEF k, x, c
<1>9. /\ FTables(fwatch') /\ Refs(fwatch') = Minus(Plus(Refs(fwatch), g, k, 1), g, old, 1)
      /\ old \in Key /\ Plus(Refs(fwatch), g, k, 1)[g][old] > 0
  BY <1>1, <1>4, <1>5, <1>7, <1>8, RefsMoved
<1>10. x.refs[g][old] > 0
  BY <1>5, <1>7, <1>9
<1>11. FData(c, u) /\ Carried(x.heap, c.heap) /\ c.refs = Refs(fwatch')
  BY <1>5, <1>7, <1>8, <1>9, <1>10, ForeignUnrefIs
<1>12. heap' = c.heap /\ u = Count(watch'[Bound])
  BY <1>1, <1>4, <1>8 DEF SetData
<1>13. FCounted'
  BY <1>8, <1>11, <1>12, DataSet
<1>14. DataKept
  BY <1>1, <1>7, <1>9, <1>11, <1>12, <1>13, GrownCarried DEF DataKept, FInv, FTyped
<1>15. Base(x.heap, {})
  BY <1>7 DEF FData, FHeap
<1>16. /\ Handled(p) /\ field'[p] = Repl(x.heap, k)
       /\ \A o \in Object \ {p} : field'[o] = field[o]
  <2>1. Repl(x.heap, k) \in {k, Repl(x.heap, k)} /\ prog' = prog /\ lost' = lost
    BY <1>1
  <2>2. lost' \subseteq Object
    BY <1>1 DEF FInv, FTyped
  <2>. QED  BY <1>3, <1>7, <1>8, <1>11, <1>12, <1>15, <2>1, <2>2, PointerLed
<1>17. WatchedFresh
  BY <1>1 DEF WatchedFresh
<1>18. CallsKept
  BY <1>1, CallUntied DEF ObjectKept
<1>19. OopsOK
  BY <1>1 DEF OopsOK, FInv, FTyped
<1>20. FInv'
  BY <1>1, <1>14, <1>16, <1>17, <1>18, <1>19, LibraryStep
<1>21. Carried(x.heap, heap')
  BY <1>11, <1>12
<1>. QED  BY <1>7, <1>8, <1>14, <1>16, <1>20, <1>21 DEF p, id

(* A call of the library fails and leaves the data as they were, but for those
   of operations which it could not register. *)
LEMMA NothingGained ==
  ASSUME FInv, NEW c, FData(c, Count(watch[Bound])), Grown(heap, c.heap),
         c.chain = chain, c.refs = frefs, SetData(c), FreedCopies,
         UNCHANGED <<watch, field, prog, lost, fwatch, origin, call>>, OopsOK
  PROVE  FInv'
<1>1. heap' = c.heap /\ chain' = c.chain
  BY DEF SetData
<1>2. FCounted'
  BY DataSet DEF FInv, FCounted
<1>3. Grown(heap, heap') /\ Carried(heap, heap')
  BY <1>1, GrownOnly
<1>4. DataKept /\ WatchedFresh
  BY <1>2, <1>3 DEF DataKept, FInv, FTyped, WatchedFresh
<1>5. FPointers'
  <2>1. ASSUME NEW o \in Object
        PROVE  FOwned(o)'
    BY <1>4, PointerNext
  <2>. QED  BY <2>1 DEF FPointers
<1>6. TiesGrow
  <2>1. Longer(chain, chain')
    BY <1>1, FInvParts, LongerSame
  <2>. QED  BY <1>3, <2>1 DEF TiesGrow
<1>7. CallsKept
  BY <1>4, <1>6, CallSame DEF ObjectKept
<1>. QED  BY <1>4, <1>5, <1>7, NextParts DEF FInv, FTyped

LEMMA ForeignWatchMovedFailsInv ==
  ASSUME FInv, NEW g \in Foreign, NEW w \in Watching, Usable(w.ops_p),
         ForeignWatchMovedFails(g, w), FreedCopies
  PROVE  FInv'
<1>1. PICK c \in ForeignGetFails(Data, g, field[w.ops_p]) : SetData(c)
  BY DEF ForeignWatchMovedFails
<1>2. w.ops_p \in Object \ dangling
  BY BoundAssumption DEF Usable
<1>3. Known(Data.heap, field[w.ops_p])
  BY <1>2, FInvParts, UsableKnown
<1>4. /\ FData(c, Count(watch[Bound])) /\ Grown(Data.heap, c.heap)
      /\ c.chain = Data.chain /\ c.refs = Data.refs
  BY <1>1, <1>3, FInvParts, ForeignGetFailsIs
<1>5. /\ UNCHANGED <<watch, field, prog, lost, fwatch, origin, call>> /\ OopsOK
  BY DEF ForeignWatchMovedFails, OopsOK
<1>. QED  BY <1>1, <1>4, <1>5, FInvParts, NothingGained

LEMMA ForeignWatchNewFailsInv ==
  ASSUME FInv, NEW g \in Foreign, NEW w \in Watching, Usable(w.ops_p),
         ForeignWatchNewFails(g, w), FreedCopies
  PROVE  FInv'
<1>. DEFINE a == field[w.ops_p]
            u == Count(watch[Bound])
<1>1. PICK c \in ForeignGetFails(Data, g, a) \cup
                   {ForeignUnref(d.data, g, d.key) : d \in ForeignGet(Data, g, a)} : SetData(c)
  BY DEF ForeignWatchNewFails
<1>2. w.ops_p \in Object \ dangling
  BY BoundAssumption DEF Usable
<1>3. Known(Data.heap, a) /\ FData(Data, u)
  BY <1>2, FInvParts, UsableKnown
<1>4. /\ FData(c, u) /\ Grown(Data.heap, c.heap)
      /\ c.chain = Data.chain /\ c.refs = Data.refs
  <2>. HIDE DEF a, u
  <2>1. CASE c \in ForeignGetFails(Data, g, a)
    BY <1>3, <2>1, ForeignGetFailsIs
  <2>2. CASE c \in {ForeignUnref(d.data, g, d.key) : d \in ForeignGet(Data, g, a)}
    <3>1. PICK d \in ForeignGet(Data, g, a) : c = ForeignUnref(d.data, g, d.key)
      BY <2>2
    <3>. QED  BY <1>3, <3>1, GetDropIs
  <2>. QED  BY <1>1, <2>1, <2>2
<1>5. /\ UNCHANGED <<watch, field, prog, lost, fwatch, origin, call>> /\ OopsOK
  BY DEF ForeignWatchNewFails, OopsOK, FInv, FTyped
<1>. QED  BY <1>1, <1>4, <1>5, FInvParts, NothingGained

LEMMA ForeignWatchNewInv ==
  ASSUME FInv, NEW g \in Foreign, NEW w \in Watching, Usable(w.ops_p),
         ForeignWatchNew(g, w), FreedCopies
  PROVE  /\ FInv' /\ DataKept
         /\ \A o \in Object \ {w.ops_p} : field'[o] = field[o]
         /\ \E h : /\ Carried(h, heap')
                   /\ \E k \in DOMAIN h.idata[Bound] :
                        /\ field'[w.ops_p] = Repl(h, k)
                        /\ SetForeignWatch(g, w, k)
<1>. DEFINE p == w.ops_p
            id == w.id
            u == Count(watch[Bound])
<1>1. /\ UNCHANGED <<watch, prog, lost, origin, call, oops>>
      /\ id \notin DOMAIN fwatch[g]
      /\ \E d \in ForeignGet(Data, g, field[p]) :
           /\ SetData(d.data) /\ SetForeignWatch(g, w, d.key)
           /\ SetPointer(p, Repl(d.data.heap, d.key))
  BY DEF ForeignWatchNew, IsWatched, Repl
<1>2. PICK d \in ForeignGet(Data, g, field[p]) :
           /\ SetData(d.data) /\ SetForeignWatch(g, w, d.key)
           /\ SetPointer(p, Repl(d.data.heap, d.key))
  BY <1>1
<1>. DEFINE k == d.key
            c == d.data
            v == [data |-> k, tie |-> w.tie, ops_p |-> p]
<1>3. fwatch' = NewWatch(fwatch, g, id, v)
  BY <1>2 DEF SetForeignWatch, NewWatch
<1>s. SetForeignWatch(g, w, k)
  BY <1>2
<1>4. /\ p \in Object \ dangling /\ u = Count(watch[Bound])
      /\ id \in Id /\ w.tie \in Tie /\ w.ops_p \in Object
  BY BoundAssumption DEF Usable, Id, Tie
<1>5. k \in Key => v \in WatchData /\ v.data = k
  BY <1>4 DEF WatchData
<1>. HIDE DEF p, id, u
<1>6. /\ FData(Data, u) /\ FTables(fwatch) /\ frefs = Refs(fwatch)
      /\ Data.heap = heap /\ Data.chain = chain /\ Data.refs = frefs
  BY <1>4, FInvParts DEF FInv, FTyped, FCounted
<1>7. Known(Data.heap, field[p])
  BY <1>4, <1>6, UsableKnown
<1>8. /\ FData(c, u) /\ k \in Key /\ k \in DOMAIN c.heap.idata[Bound]
      /\ MyOperations(c.heap, Bound, k, field[p]) /\ Longer(chain, c.chain)
      /\ c.refs = Plus(frefs, g, k, 1) /\ Grown(heap, c.heap)
  BY <1>6, <1>7, ForeignGetIs
<1>9. SetData(c) /\ SetPointer(p, Repl(c.heap, k))
  BY <1>2
<1>10. \A j \in Foreign : \A i \in DOMAIN fwatch[j] :
         i \in DOMAIN fwatch'[j] /\ fwatch'[j][i].tie = fwatch[j][i].tie
  BY <1>1, <1>3, <1>6 DEF Put, FTables, NewWatch
<1>. HIDE DEF k, c, v
<1>11. FTables(fwatch') /\ Refs(fwatch') = Plus(Refs(fwatch), g, v.data, 1)
  BY <1>1, <1>3, <1>4, <1>5, <1>6, <1>8, RefsNew
<1>12. c.refs = Refs(fwatch') /\ heap' = c.heap /\ chain' = c.chain
       /\ u = Count(watch'[Bound])
  BY <1>1, <1>4, <1>5, <1>6, <1>8, <1>9, <1>11 DEF SetData
<1>13. FCounted'
  BY <1>8, <1>9, <1>12, DataSet
<1>14. Carried(c.heap, heap') /\ Carried(heap, heap')
  BY <1>8, <1>12, GrownOnly DEF Carried
<1>15. DataKept
  BY <1>1, <1>11, <1>13, <1>14 DEF DataKept, FInv, FTyped
<1>16. Base(c.heap, {})
  BY <1>8 DEF FData, FHeap
<1>17. /\ Handled(p) /\ field'[p] = Repl(c.heap, k)
       /\ \A o \in Object \ {p} : field'[o] = field[o]
  <2>1. Repl(c.heap, k) \in {k, Repl(c.heap, k)} /\ prog' = prog /\ lost' = lost
    BY <1>1
  <2>2. lost' \subseteq Object
    BY <1>1 DEF FInv, FTyped
  <2>. QED  BY <1>4, <1>8, <1>9, <1>14, <1>16, <2>1, <2>2, PointerLed
<1>18. WatchedFresh
  BY <1>1 DEF WatchedFresh
<1>19. TiesGrow
  <2>1. call # NULL => field'[call.obj] = field[call.obj] \/ call.obj = p
    BY <1>17, CallIs
  <2>. QED  BY <1>1, <1>8, <1>10, <1>12, <1>17, <2>1 DEF TiesGrow
<1>20. CallsKept
  BY <1>1, <1>15, <1>19, CallSame DEF ObjectKept
<1>21. OopsOK
  BY <1>1 DEF OopsOK, FInv, FTyped
<1>22. FInv'
  BY <1>1, <1>15, <1>17, <1>18, <1>20, <1>21, LibraryStep
<1>. QED  BY <1>8, <1>s, <1>14, <1>15, <1>17, <1>22 DEF p

(* A watch of a foreign instrumentor is dropped, and its foreign data with the
   last one. *)
LEMMA ForeignDropped ==
  ASSUME FInv, NEW g \in Foreign, NEW id \in DOMAIN fwatch[g],
         SetData(ForeignUnref(Data, g, fwatch[g][id].data)),
         DropForeignWatch(g, id), UNCHANGED watch
  PROVE  DataKept /\ WatchedFresh
<1>. DEFINE k == fwatch[g][id].data
            u == Count(watch[Bound])
            c == ForeignUnref(Data, g, k)
<1>1. /\ FData(Data, u) /\ FTables(fwatch) /\ frefs = Refs(fwatch)
      /\ Data.heap = heap /\ Data.refs = frefs
  BY FInvParts DEF FInv, FTyped, FCounted
<1>2. /\ fwatch' = [fwatch EXCEPT ![g] = Drop(@, {id})] /\ k = fwatch[g][id].data
      /\ SetData(c) /\ c = ForeignUnref(Data, g, k)
  BY DEF DropForeignWatch
<1>3. u = Count(watch'[Bound])
  OBVIOUS
<1>. HIDE DEF k, u, c
<1>4. /\ FTables(fwatch') /\ Refs(fwatch') = Minus(Refs(fwatch), g, k, 1)
      /\ k \in Key /\ Refs(fwatch)[g][k] > 0
  BY <1>1, <1>2, RefsDropped
<1>5. Data.refs[g][k] > 0
  BY <1>1, <1>4
<1>6. FData(c, u) /\ Carried(Data.heap, c.heap) /\ c.refs = Minus(Data.refs, g, k, 1)
  BY <1>1, <1>2, <1>4, <1>5, ForeignUnrefIs
<1>7. heap' = c.heap
  BY <1>2 DEF SetData
<1>8. FCounted'
  BY <1>1, <1>2, <1>3, <1>4, <1>6, DataSet
<1>. QED  BY <1>1, <1>4, <1>6, <1>7, <1>8 DEF DataKept, WatchedFresh, FInv, FTyped

LEMMA ForeignForgetInv ==
  ASSUME FInv, NEW g \in Foreign, NEW id \in Id, ForeignForget(g, id), FreedCopies
  PROVE  FInv'
<1>. DEFINE p == fwatch[g][id].ops_p
            k == fwatch[g][id].data
<1>1. /\ id \in DOMAIN fwatch[g] /\ p \in Object \ dangling /\ SetPointer(p, k)
      /\ lost' = IF MyOperations(heap, Bound, k, field[p]) THEN lost ELSE lost \cup {p}
      /\ UNCHANGED <<watch, prog, origin, oops>> /\ Untie
      /\ DataKept /\ WatchedFresh
  <2>1. /\ id \in DOMAIN fwatch[g] /\ Usable(p) /\ SetPointer(p, k)
        /\ lost' = IF MyOperations(heap, Bound, k, field[p]) THEN lost ELSE lost \cup {p}
        /\ UNCHANGED <<watch, prog, origin, oops>> /\ Untie
        /\ SetData(ForeignUnref(Data, g, k)) /\ DropForeignWatch(g, id)
    BY DEF ForeignForget, IsWatched
  <2>2. p \in Object
    BY <2>1 DEF FInv, FTyped, FTables, IsPartial, WatchData
  <2>. QED  BY <2>1, <2>2, ForeignDropped DEF Usable
<1>2. k \in DOMAIN heap.idata[Bound]
  BY <1>1, ForeignWatchedIn
<1>. HIDE DEF p, k
<1>3. Base(heap, {}) /\ k \in Ops \cup {NULL}
  BY <1>2, FInvParts, BoundIn
<1>4. /\ field' \in [Object -> Ops \cup Copy \cup {NULL}] /\ field'[p] = k
      /\ \A o \in Object \ {p} : field'[o] = field[o]
  BY <1>1, <1>3, PointerSet
<1>5. MyOperations(heap, Bound, k, field[p]) => Led(p)
  <2>1. Grown(heap, heap) /\ Carried(heap, heap')
    BY <1>1 DEF Grown, DataKept
  <2>. QED  BY <1>2, <1>3, <1>4, <2>1 DEF Led
<1>6. Handled(p)
  BY <1>1, <1>4, <1>5 DEF Handled, FInv, FTyped
<1>7. CallsKept
  BY <1>1, CallUntied DEF ObjectKept
<1>8. OopsOK
  BY <1>1 DEF OopsOK, FInv, FTyped
<1>. QED  BY <1>1, <1>6, <1>7, <1>8, LibraryStep

LEMMA ForeignForgetNorestoreInv ==
  ASSUME FInv, NEW g \in Foreign, NEW id \in Id, ForeignForgetNorestore(g, id), FreedCopies
  PROVE  FInv'
<1>1. /\ id \in DOMAIN fwatch[g] /\ SetData(ForeignUnref(Data, g, fwatch[g][id].data))
      /\ DropForeignWatch(g, id) /\ Untie
      /\ UNCHANGED <<watch, field, prog, lost, origin, oops>>
  BY DEF ForeignForgetNorestore, IsWatched
<1>2. DataKept /\ WatchedFresh
  BY <1>1, ForeignDropped
<1>3. Handled(NULL)
  BY <1>1 DEF Handled, FInv, FTyped
<1>4. CallsKept
  BY <1>1, CallUntied DEF ObjectKept
<1>5. OopsOK
  BY <1>1 DEF OopsOK, FInv, FTyped
<1>. QED  BY <1>1, <1>2, <1>3, <1>4, <1>5, LibraryStep

(* What a call of the normal instrumentor leaves of the data. *)
LEMMA NormalData ==
  ASSUME FInv, UNCHANGED foreignVars, NEW w, IsPartial(w, Object, Key),
         DOMAIN watch' = Interceptor, watch'[Bound] = w, FHeap(heap', chain, Count(w)),
         Carried(heap, heap')
  PROVE  DataKept
<1>1. UNCHANGED <<chain, frefs, fwatch>>
  BY DEF foreignVars
<1>. DEFINE c == [heap |-> heap', chain |-> chain, refs |-> frefs]
<1>2. FData(c, Count(w)) /\ c.refs = frefs /\ SetData(c)
  BY <1>1, FInvParts DEF FData, FShape, SetData
<1>. HIDE DEF c
<1>3. FCounted'
  BY <1>1, <1>2, DataSet DEF FInv, FCounted
<1>. QED  BY <1>1, <1>3 DEF DataKept, FInv, FTyped

LEMMA ObjectFinite == IsFiniteSet(Object)
BY FiniteAssumption, FS_Subset

LEMMA WatchMovedIs ==
  ASSUME FInv, UNCHANGED foreignVars, NEW x \in Object \ dangling, WatchMoved(Bound, x)
  PROVE  DataKept /\ WatchedFresh /\ Handled(x) /\ Fit
<1>. DEFINE w == watch[Bound]
            old == w[x]
            u == Count(w)
            a == field[x]
<1>1. PICK d \in GetData(heap, Bound, a) :
        /\ heap' = Unref(d.heap, Bound, old) /\ SetWatch(Bound, x, d.key)
        /\ SetPointer(x, Repl(d.heap, d.key))
  BY DEF WatchMoved, Pointer, Repl
<1>2. x \in DOMAIN w /\ IsPartial(w, Object, Key) /\ prog' = prog /\ lost' = lost
      /\ lost' \subseteq Object
  BY DEF WatchMoved, Watched, FInv, FTyped
<1>3. FHeap(heap, chain, u) /\ Known(heap, a) /\ old = w[x] /\ u = Count(w)
      /\ a = field[x]
  BY FInvParts, UsableKnown
<1>. DEFINE k == d.key
            h == d.heap
            w2 == Put(w, x, k)
<1>. HIDE DEF u, a, old
<1>4. /\ FHeap(h, chain, More(u, k)) /\ k \in DOMAIN h.idata[Bound] /\ k \in Key
      /\ MyOperations(h, Bound, k, a) /\ Grown(heap, h)
  BY <1>3, BoundGet
<1>5. /\ heap' = Unref(h, Bound, old) /\ SetPointer(x, Repl(h, k))
      /\ watch'[Bound] = w2 /\ DOMAIN watch' = Interceptor
  BY <1>1, BoundIs DEF SetWatch, FInv, FTyped
<1>6. IsPartial(w2, Object, Key)
  BY <1>2, <1>4, PutType
<1>7. /\ \A o \in DOMAIN w2 : o = x \/ (o \in DOMAIN w /\ w2[o] = w[o])
      /\ x \in DOMAIN w2 /\ w2[x] = k /\ (\A o : o # x /\ o \in DOMAIN w => o \in DOMAIN w2)
  BY DEF Put
<1>. HIDE DEF k, h
<1>8. Count(w2) = Less(More(u, k), old) /\ old \in Key /\ More(u, k)[old] > 0
  <2>. HIDE DEF w
  <2>. QED  BY <1>2, <1>3, <1>4, ObjectFinite, CountMove
<1>. HIDE DEF w2
<1>9. FHeap(heap', chain, Count(w2)) /\ Carried(h, heap')
  BY <1>4, <1>5, <1>8, BoundUnref
<1>10. Carried(heap, heap')
  BY <1>4, <1>9, GrownCarried
<1>11. DataKept
  BY <1>5, <1>6, <1>9, <1>10, NormalData
<1>12. WatchedFresh
  BY <1>5, <1>7 DEF WatchedFresh
<1>13. Base(h, {}) /\ Repl(h, k) \in {k, Repl(h, k)}
  BY <1>4 DEF FHeap
<1>14. Handled(x)
  BY <1>2, <1>3, <1>4, <1>5, <1>9, <1>13, PointerLed
<1>f. Fit
  <2>1. live' = live /\ fwatch' = fwatch /\ x \in Object \ dangling
    BY DEF WatchMoved, foreignVars
  <2>2. Keeps(x, k)'
    BY <1>5, <1>7 DEF Keeps
  <2>3. field'[x] = Repl(h, k) /\ \A o \in Object \ {x} : field'[o] = field[o]
    BY <1>2, <1>3, <1>4, <1>5, <1>9, <1>13, PointerLed
  <2>4. Touched(x)
    BY <1>4, <1>9, <2>1, <2>2, <2>3 DEF Touched
  <2>5. ASSUME NEW o \in Object \ {x} PROVE Aside(o)
    <3>1. Stays(o)
      BY <1>5, <1>7 DEF Stays
    <3>. QED  BY <2>1, <2>3, <3>1, StaysAside
  <2>. QED  BY <2>4, <2>5 DEF Fit
<1>. QED  BY <1>11, <1>12, <1>14, <1>f

LEMMA WatchNewIs ==
  ASSUME FInv, UNCHANGED foreignVars, NEW x \in Object \ dangling, WatchNew(Bound, x)
  PROVE  DataKept /\ WatchedFresh /\ Handled(x) /\ Fit
<1>. DEFINE w == watch[Bound]
            u == Count(w)
            a == field[x]
<1>1. PICK d \in GetData(heap, Bound, a) :
        /\ heap' = d.heap /\ SetWatch(Bound, x, d.key)
        /\ SetPointer(x, Repl(d.heap, d.key))
  BY DEF WatchNew, Pointer, Repl
<1>2. x \notin DOMAIN w /\ IsPartial(w, Object, Key) /\ prog' = prog /\ lost' = lost
      /\ lost' \subseteq Object
  BY DEF WatchNew, Watched, FInv, FTyped
<1>3. FHeap(heap, chain, u) /\ Known(heap, a) /\ u = Count(w) /\ a = field[x]
  BY FInvParts, UsableKnown
<1>. DEFINE k == d.key
            h == d.heap
            w2 == Put(w, x, k)
<1>. HIDE DEF u, a
<1>4. /\ FHeap(h, chain, More(u, k)) /\ k \in DOMAIN h.idata[Bound] /\ k \in Key
      /\ MyOperations(h, Bound, k, a) /\ Grown(heap, h)
  BY <1>3, BoundGet
<1>5. /\ heap' = h /\ SetPointer(x, Repl(h, k))
      /\ watch'[Bound] = w2 /\ DOMAIN watch' = Interceptor
  BY <1>1, BoundIs DEF SetWatch, FInv, FTyped
<1>6. IsPartial(w2, Object, Key)
  BY <1>2, <1>4, PutType
<1>7. /\ \A o \in DOMAIN w2 : o = x \/ (o \in DOMAIN w /\ w2[o] = w[o])
      /\ x \in DOMAIN w2 /\ w2[x] = k /\ (\A o : o # x /\ o \in DOMAIN w => o \in DOMAIN w2)
  BY DEF Put
<1>. HIDE DEF k, h
<1>8. Count(w2) = More(u, k)
  <2>. HIDE DEF w
  <2>. QED  BY <1>2, <1>3, <1>4, ObjectFinite, CountPut
<1>. HIDE DEF w2
<1>9. FHeap(heap', chain, Count(w2)) /\ Carried(heap, heap') /\ Carried(h, heap')
  BY <1>4, <1>5, <1>8, GrownOnly DEF Carried
<1>10. DataKept
  BY <1>5, <1>6, <1>9, NormalData
<1>11. WatchedFresh
  BY <1>5, <1>7 DEF WatchedFresh
<1>12. Base(h, {}) /\ Repl(h, k) \in {k, Repl(h, k)}
  BY <1>4 DEF FHeap
<1>13. Handled(x)
  BY <1>2, <1>3, <1>4, <1>5, <1>9, <1>12, PointerLed
<1>f. Fit
  <2>1. live' = live /\ fwatch' = fwatch /\ x \in Object \ dangling
    BY DEF WatchNew, foreignVars
  <2>2. Keeps(x, k)'
    BY <1>5, <1>7 DEF Keeps
  <2>3. field'[x] = Repl(h, k) /\ \A o \in Object \ {x} : field'[o] = field[o]
    BY <1>2, <1>3, <1>4, <1>5, <1>9, <1>12, PointerLed
  <2>4. Touched(x)
    BY <1>4, <1>9, <2>1, <2>2, <2>3 DEF Touched
  <2>5. ASSUME NEW o \in Object \ {x} PROVE Aside(o)
    <3>1. Stays(o)
      BY <1>5, <1>7 DEF Stays
    <3>. QED  BY <2>1, <2>3, <3>1, StaysAside
  <2>. QED  BY <2>4, <2>5 DEF Fit
<1>. QED  BY <1>10, <1>11, <1>13, <1>f

(* A watch of the normal instrumentor is dropped. *)
LEMMA NormalDropped ==
  ASSUME FInv, UNCHANGED foreignVars, NEW x \in DOMAIN watch[Bound],
         heap' = Unref(heap, Bound, watch[Bound][x]), DropWatch(Bound, x)
  PROVE  DataKept /\ WatchedFresh /\ \A o \in Object \ {x} : Stays(o)
<1>. DEFINE w == watch[Bound]
            k == w[x]
            u == Count(w)
            w2 == Drop(w, {x})
<1>1. /\ IsPartial(w, Object, Key) /\ FHeap(heap, chain, u) /\ k = w[x] /\ u = Count(w)
      /\ heap' = Unref(heap, Bound, k)
      /\ watch'[Bound] = w2 /\ DOMAIN watch' = Interceptor
  BY FInvParts, BoundIs DEF FInv, FTyped, DropWatch
<1>2. /\ \A o \in DOMAIN w2 : o \in DOMAIN w /\ w2[o] = w[o]
      /\ \A o : o # x /\ o \in DOMAIN w => o \in DOMAIN w2
  BY DEF Drop
<1>. HIDE DEF u, k
<1>3. /\ k \in Key /\ u[k] > 0 /\ Count(w2) = Less(u, k) /\ IsPartial(w2, Object, Key)
  <2>. HIDE DEF w
  <2>. QED  BY <1>1, ObjectFinite, CountDrop DEF w
<1>. HIDE DEF w2
<1>4. FHeap(heap', chain, Count(w2)) /\ Carried(heap, heap')
  BY <1>1, <1>3, BoundUnref
<1>5. DataKept
  BY <1>1, <1>3, <1>4, NormalData
<1>. QED  BY <1>1, <1>2, <1>5 DEF WatchedFresh, Stays

LEMMA WatchNewFailsIs ==
  ASSUME FInv, UNCHANGED foreignVars, NEW x \in Object \ dangling, WatchNewFails(Bound, x)
  PROVE  DataKept /\ WatchedFresh /\ Handled(x) /\ Fit /\ Grown(heap, heap')
<1>. DEFINE u == Count(watch[Bound])
            a == field[x]
<1>1. PICK d \in GetData(heap, Bound, a) : heap' = Unref(d.heap, Bound, d.key)
  BY DEF WatchNewFails, Pointer
<1>2. UNCHANGED <<watch, field, prog, lost>> /\ IsPartial(watch[Bound], Object, Key)
  BY DEF WatchNewFails, FInv, FTyped
<1>3. FHeap(heap, chain, u) /\ Known(heap, a) /\ u = Count(watch[Bound])
      /\ u \in [Key -> Nat]
  BY FInvParts, UsableKnown
<1>. DEFINE k == d.key
            h == d.heap
<1>. HIDE DEF u, a
<1>4. FHeap(h, chain, More(u, k)) /\ k \in Key /\ Grown(heap, h)
  BY <1>3, BoundGet
<1>5. heap' = Unref(h, Bound, k)
  BY <1>1
<1>. HIDE DEF k, h
<1>6. More(u, k)[k] > 0 /\ Less(More(u, k), k) = u
  <2>. DEFINE v == More(u, k)
              v2 == Less(v, k)
  <2>1. u[k] \in Nat /\ v[k] = u[k] + 1 /\ v \in [Key -> Nat]
    BY <1>3, <1>4 DEF More
  <2>2. v2[k] = u[k] /\ \A l \in Key : l # k => v2[l] = u[l]
    BY <1>3, <1>4, <2>1 DEF More, Less
  <2>3. v2 = [l \in Key |-> v2[l]] /\ u = [l \in Key |-> u[l]]
    BY <1>3 DEF More, Less
  <2>. HIDE DEF v, v2
  <2>4. v2 = u
    BY <2>2, <2>3
  <2>. QED  BY <2>1, <2>4 DEF v, v2
<1>7. FHeap(heap', chain, u) /\ Carried(h, heap')
  BY <1>4, <1>5, <1>6, BoundUnref
<1>8. Carried(heap, heap') /\ Grown(heap, heap')
  BY <1>3, <1>4, <1>7, GrownCarried, SameCounts
<1>9. DOMAIN watch' = Interceptor /\ watch'[Bound] = watch[Bound]
  BY <1>2 DEF FInv, FTyped
<1>10. DataKept
  BY <1>2, <1>3, <1>7, <1>8, <1>9, NormalData
<1>11. Fit
  <2>1. live' = live /\ fwatch' = fwatch
    BY DEF WatchNewFails, foreignVars
  <2>. QED  BY <1>2, <2>1, StaysAside DEF Stays, Fit
<1>. QED  BY <1>2, <1>8, <1>10, <1>11 DEF WatchedFresh, Handled, FInv, FTyped

LEMMA NormalWatchIs ==
  ASSUME FInv, UNCHANGED foreignVars, NEW x \in Object \ dangling, Watch(Bound, x)
  PROVE  DataKept /\ WatchedFresh /\ Handled(x) /\ Fit
<1>1. CASE WatchUpdate(Bound, x)
  <2>. DEFINE k == watch[Bound][x]
  <2>1. /\ x \in DOMAIN watch[Bound] /\ MyOperations(heap, Bound, k, field[x])
        /\ SetPointer(x, Repl(heap, k)) /\ UNCHANGED <<heap, watch, prog, lost>>
    BY <1>1 DEF WatchUpdate, Watched, Pointer, Repl
  <2>2. k \in DOMAIN heap.idata[Bound]
    BY <2>1, FInvParts, WatchedIn DEF FInv, FTyped
  <2>. HIDE DEF k
  <2>3. DataKept /\ WatchedFresh /\ Grown(heap, heap)
    BY <2>1, DataSame
  <2>4. Base(heap, {}) /\ Carried(heap, heap') /\ Repl(heap, k) \in {k, Repl(heap, k)}
    BY <2>3, FInvParts DEF DataKept
  <2>5. prog' = prog /\ lost \subseteq lost' /\ lost' \subseteq Object
    BY <2>1 DEF FInv, FTyped
  <2>6. Handled(x)
    BY <2>1, <2>2, <2>3, <2>4, <2>5, PointerLed
  <2>7. Fit
    <3>1. live' = live /\ fwatch' = fwatch /\ watch' = watch /\ k = watch[Bound][x]
      BY <1>1 DEF WatchUpdate, foreignVars, k
    <3>2. field'[x] = Repl(heap, k) /\ \A o \in Object \ {x} : field'[o] = field[o]
      BY <2>1, <2>2, <2>3, <2>4, <2>5, PointerLed
    <3>3. PICK l : l = k
      OBVIOUS
    <3>4. Keeps(x, l)'
      BY <2>1, <3>1, <3>3 DEF Keeps
    <3>5. Touched(x)
      BY <2>2, <2>4, <3>2, <3>3, <3>4 DEF Touched
    <3>6. ASSUME NEW o \in Object \ {x} PROVE Aside(o)
      BY <3>1, <3>2, StaysAside DEF Stays
    <3>. QED  BY <3>5, <3>6 DEF Fit
  <2>. QED  BY <2>3, <2>6, <2>7
<1>2. CASE WatchMovedFails(Bound, x)
  <2>. DEFINE k == watch[Bound][x]
  <2>1. /\ x \in DOMAIN watch[Bound] /\ heap' = Unref(heap, Bound, k) /\ DropWatch(Bound, x)
        /\ SetPointer(x, k) /\ lost' = lost \cup {x} /\ prog' = prog
    BY <1>2 DEF WatchMovedFails, Watched
  <2>2. k \in DOMAIN heap.idata[Bound]
    BY <2>1, FInvParts, WatchedIn DEF FInv, FTyped
  <2>3. DataKept /\ WatchedFresh /\ \A o \in Object \ {x} : Stays(o)
    BY <2>1, NormalDropped
  <2>. HIDE DEF k
  <2>4. k \in Ops \cup Copy \cup {NULL} /\ k \notin Copy
    BY <2>2, FInvParts, BoundIn
  <2>5. /\ field' \in [Object -> Ops \cup Copy \cup {NULL}] /\ field'[x] = k
        /\ \A o \in Object \ {x} : field'[o] = field[o]
    BY <2>1, <2>4, PointerSet
  <2>6. Fit
    <3>1. live' = live /\ fwatch' = fwatch
      BY <1>2 DEF WatchMovedFails, foreignVars
    <3>. QED  BY <2>3, <2>4, <2>5, <3>1, StaysAside DEF Fit, Touched
  <2>. QED  BY <2>1, <2>3, <2>5, <2>6 DEF Handled, FInv, FTyped
<1>. QED  BY <1>1, <1>2, WatchMovedIs, WatchNewIs, WatchNewFailsIs DEF Watch

LEMMA NormalForgetIs ==
  ASSUME FInv, UNCHANGED foreignVars, NEW x \in Object \ dangling, Forget(Bound, x)
  PROVE  DataKept /\ WatchedFresh /\ Handled(x) /\ Fit
<1>. DEFINE k == watch[Bound][x]
            a == IF MyOperations(heap, Bound, k, field[x]) THEN k ELSE field[x]
<1>1. /\ x \in DOMAIN watch[Bound] /\ heap' = Unref(heap, Bound, k) /\ DropWatch(Bound, x)
      /\ SetPointer(x, a) /\ UNCHANGED <<prog, lost>>
  BY DEF Forget, Watched, Pointer
<1>2. k \in DOMAIN heap.idata[Bound]
  BY <1>1, FInvParts, WatchedIn DEF FInv, FTyped
<1>3. DataKept /\ WatchedFresh /\ \A o \in Object \ {x} : Stays(o)
  BY <1>1, NormalDropped
<1>k. k = watch[Bound][x] /\ live' = live /\ fwatch' = fwatch
  BY DEF Forget, foreignVars
<1>. HIDE DEF k
<1>4. Base(heap, {}) /\ Grown(heap, heap) /\ Carried(heap, heap')
  BY <1>3, FInvParts DEF DataKept, Grown
<1>5. prog' = prog /\ lost \subseteq lost' /\ lost' \subseteq Object
  BY <1>1 DEF FInv, FTyped
<1>6. Handled(x)
  <2>1. CASE MyOperations(heap, Bound, k, field[x])
    BY <1>1, <1>2, <1>4, <1>5, <2>1, PointerLed
  <2>2. CASE ~MyOperations(heap, Bound, k, field[x])
    <3>1. a = field[x] /\ a \in Ops \cup Copy \cup {NULL}
      BY <2>2 DEF FInv, FTyped
    <3>2. /\ field' \in [Object -> Ops \cup Copy \cup {NULL}] /\ field'[x] = a
          /\ \A o \in Object \ {x} : field'[o] = field[o]
      BY <1>1, <3>1, PointerSet
    <3>. QED  BY <1>5, <3>1, <3>2 DEF Handled
  <2>. QED  BY <2>1, <2>2
<1>7. Fit
  <2>1. k \notin Copy /\ k \in Ops \cup Copy \cup {NULL} /\ a \in Ops \cup Copy \cup {NULL}
    BY <1>2, <1>4, BoundIn DEF FInv, FTyped
  <2>2. field'[x] = a /\ \A o \in Object \ {x} : field'[o] = field[o]
    BY <1>1, <2>1, PointerSet
  <2>3. ASSUME NEW o \in Object \ {x} PROVE Aside(o)
    BY <1>3, <1>k, <2>2, StaysAside
  <2>4. CASE MyOperations(heap, Bound, k, field[x])
    BY <2>1, <2>2, <2>3, <2>4 DEF Fit, Touched
  <2>5. CASE ~MyOperations(heap, Bound, k, field[x])
    <3>1. field[x] # Repl(heap, k) /\ field'[x] = field[x]
      BY <2>2, <2>5 DEF MyOperations, Repl
    <3>2. x \notin DOMAIN watch'[Bound]
      BY <1>1, BoundIs DEF DropWatch, Drop, FInv, FTyped
    <3>3. Aside(x)
      BY <1>k, <3>1, <3>2 DEF Aside, Keeps
    <3>. QED  BY <2>3, <3>3 DEF Fit
  <2>. QED  BY <2>4, <2>5
<1>. QED  BY <1>3, <1>6, <1>7

LEMMA NormalCallInv ==
  ASSUME FInv, NormalCall, FreedCopies
  PROVE  FInv'
<1>1. Untie /\ UNCHANGED foreignVars /\ UNCHANGED <<origin, oops>>
  BY DEF NormalCall
<1>2. \E x : DataKept /\ WatchedFresh /\ Handled(x)
  <2>1. PICK x \in Object : \/ Usable(x) /\ (Watch(Bound, x) \/ Forget(Bound, x))
                            \/ ForgetNorestore(Bound, x)
    BY DEF NormalCall
  <2>2. CASE Usable(x) /\ (Watch(Bound, x) \/ Forget(Bound, x))
    BY <1>1, <2>2, NormalWatchIs, NormalForgetIs DEF Usable
  <2>3. CASE ForgetNorestore(Bound, x)
    <3>1. /\ x \in DOMAIN watch[Bound] /\ heap' = Unref(heap, Bound, watch[Bound][x])
          /\ DropWatch(Bound, x) /\ UNCHANGED <<field, prog, lost>>
      BY <2>3, BoundIs DEF ForgetNorestore, Watched
    <3>2. DataKept /\ WatchedFresh
      BY <1>1, <3>1, NormalDropped
    <3>. QED  BY <3>1, <3>2 DEF Handled, FInv, FTyped
  <2>. QED  BY <2>1, <2>2, <2>3
<1>3. PICK x : DataKept /\ WatchedFresh /\ Handled(x)
  BY <1>2
<1>4. CallsKept
  BY <1>1, <1>3, CallUntied, CallIs DEF ObjectKept, Handled
<1>5. OopsOK
  BY <1>1 DEF OopsOK, FInv, FTyped
<1>. QED  BY <1>1, <1>3, <1>4, <1>5, LibraryStep

(* The program does something to object o, which no call is under way for. *)
LEMMA ProgramStep ==
  ASSUME FInv, NEW o \in Object, Idle(o), FreedCopies, FOwned(o)',
         UNCHANGED <<heap, watch, foreignVars, call, oops>>,
         field' \in [Object -> Ops \cup Copy \cup {NULL}],
         prog' \in [Object -> Ops \cup {NULL}], lost' \subseteq Object,
         origin' \in [Object -> Factory \cup {NULL}],
         \A q \in Object \ {o} : field'[q] = field[q] /\ prog'[q] = prog[q],
         lost \subseteq lost' \cup {o}
  PROVE  FInv'
<1>1. DataKept /\ WatchedFresh /\ Grown(heap, heap') /\ Longer(chain, chain')
  BY DataSame
<1>2. FPointers'
  <2>1. ASSUME NEW q \in Object, q # o
        PROVE  FOwned(q)'
    BY <1>1, <2>1, PointerNext
  <2>. QED  BY <2>1 DEF FPointers
<1>3. call # NULL => call.obj \in Object \ {o}
  BY CallIs DEF Idle
<1>4. TiesGrow
  <2>1. watch' = watch /\ fwatch' = fwatch
    BY DEF foreignVars
  <2>. QED  BY <1>1, <1>3, <2>1 DEF TiesGrow
<1>5. ObjectKept
  BY <1>3 DEF ObjectKept
<1>6. CallsKept /\ OopsOK
  BY <1>1, <1>4, <1>5, CallSame DEF OopsOK, FInv, FTyped
<1>. QED  BY <1>1, <1>2, <1>6, NextParts

LEMMA ForeignProgramInv ==
  ASSUME FInv, ForeignProgram, FreedCopies
  PROVE  FInv'
<1>0. /\ field \in [Object -> Ops \cup Copy \cup {NULL}] /\ lost \subseteq Object
      /\ prog \in [Object -> Ops \cup {NULL}] /\ origin \in [Object -> Factory \cup {NULL}]
      /\ FPointers
  BY DEF FInv, FTyped
<1>1. ASSUME NEW o \in Object, NEW p \in Factory, ProgramCreate(o, p)
      PROVE  FInv'
  <2>1. /\ p \in Object \ dangling /\ Idle(o) /\ SetPointer(o, field[p])
        /\ prog' = [prog EXCEPT ![o] = prog[p]] /\ origin' = [origin EXCEPT ![o] = p]
        /\ lost' = IF p \in lost THEN lost \cup {o} ELSE lost \ {o}
        /\ UNCHANGED <<heap, watch, foreignVars, call, oops>>
    BY <1>1, BoundAssumption DEF ProgramCreate, Usable
  <2>2. /\ field' \in [Object -> Ops \cup Copy \cup {NULL}] /\ field'[o] = field[p]
        /\ \A q \in Object \ {o} : field'[q] = field[q]
    BY <1>0, <2>1, PointerSet
  <2>3. prog'[o] = prog[p] /\ \A q \in Object \ {o} : prog'[q] = prog[q]
    BY <1>0, <2>1
  <2>4. FOwned(p) /\ FOwned(o)
    BY <1>0, <2>1 DEF FPointers
  <2>5. heap' = heap /\ watch' = watch
    BY <2>1
  <2>6. FOwned(o)'
    <3>1. \/ o \in lost' \cup dangling' \/ field'[o] = prog'[o]
          \/ prog'[o] \in DOMAIN heap'.idata[Bound] /\ field'[o] = Repl(heap', prog'[o])
      BY <2>1, <2>2, <2>3, <2>4, <2>5 DEF FOwned
    <3>2. o \in dangling' => o \in dangling /\ field'[o] = field[o]
      BY <2>1, <2>2, <2>4, <2>5, FreedIs DEF FOwned
    <3>3. o \in dangling' /\ o \in DOMAIN watch'[Bound] =>
            field'[o] # Repl(heap', watch'[Bound][o])
      BY <2>4, <2>5, <3>2 DEF FOwned
    <3>. QED  BY <3>1, <3>3, FreedIs DEF FOwned
  <2>7. /\ prog' \in [Object -> Ops \cup {NULL}] /\ lost' \subseteq Object
        /\ origin' \in [Object -> Factory \cup {NULL}] /\ lost \subseteq lost' \cup {o}
    BY <1>0, <2>1
  <2>. QED  BY <2>1, <2>2, <2>3, <2>6, <2>7, ProgramStep
<1>2. ASSUME NEW o \in Object, NEW a \in Given, Idle(o), ProgramSetOps(o, a),
             origin' = [origin EXCEPT ![o] = NULL], UNCHANGED <<foreignVars, call, oops>>
      PROVE  FInv'
  <2>1. /\ SetPointer(o, a) /\ prog' = [prog EXCEPT ![o] = a] /\ lost' = lost \ {o}
        /\ UNCHANGED <<heap, watch, foreignVars, call, oops>> /\ a \in Ops \cup {NULL}
        /\ a \notin Copy
    BY <1>2, ContentAssumption, AddressAssumption DEF ProgramSetOps, Struct
  <2>2. /\ field' \in [Object -> Ops \cup Copy \cup {NULL}] /\ field'[o] = a
        /\ \A q \in Object \ {o} : field'[q] = field[q]
    BY <2>1, PointerSet
  <2>3. prog'[o] = a /\ \A q \in Object \ {o} : prog'[q] = prog[q]
    BY <1>0, <2>1
  <2>4. FOwned(o)'
    BY <2>1, <2>2, <2>3, FreedIs DEF FOwned
  <2>5. /\ prog' \in [Object -> Ops \cup {NULL}] /\ lost' \subseteq Object
        /\ origin' \in [Object -> Factory \cup {NULL}] /\ lost \subseteq lost' \cup {o}
    BY <1>0, <1>2, <2>1
  <2>. QED  BY <1>2, <2>1, <2>2, <2>3, <2>4, <2>5, ProgramStep
<1>3. ASSUME NEW o \in Object, Idle(o), ProgramFree(o),
             UNCHANGED <<foreignVars, origin, call, oops>>
      PROVE  FInv'
  <2>1. UNCHANGED <<heap, watch, field, prog, lost, foreignVars, origin, call, oops>>
    BY <1>3 DEF ProgramFree
  <2>2. DataKept /\ WatchedFresh
    BY <2>1, DataSame
  <2>3. FOwned(o)'
    BY <2>1, <2>2, PointerNext
  <2>. QED  BY <1>0, <1>3, <2>1, <2>3, ProgramStep
<1>. QED  BY <1>1, <1>2, <1>3 DEF ForeignProgram

(* Stopping leaves no data at all. *)
LEMMA StopData ==
  ASSUME FInv, Stop
  PROVE  DataKept /\ WatchedFresh
<1>. DEFINE u == Count(watch[Bound])
            c0 == DestroyForeignAll(Data)
            h == c0.heap
            h2 == DestroyAll(h, Bound)
            c == [c0 EXCEPT !.heap = h2]
            none == [k \in Key |-> 0]
<1>1. /\ SetData(c) /\ watch' = [watch EXCEPT ![Bound] = Nothing]
      /\ fwatch' = [g \in Foreign |-> Nothing]
  BY DEF Stop
<1>2. /\ FData(Data, u) /\ FTables(fwatch) /\ frefs = Refs(fwatch)
  BY FInvParts DEF FInv, FTyped, FCounted
<1>. HIDE DEF u
<1>3. FData(c0, u) /\ c0.refs = [g \in Foreign |-> none]
  BY <1>2, DestroyForeignAllIs
<1>. HIDE DEF c0
<1>4. /\ c = [heap |-> h2, chain |-> c0.chain, refs |-> c0.refs]
      /\ c.heap = h2 /\ c.chain = c0.chain /\ c.refs = c0.refs
      /\ c0.refs \in [Foreign -> [Key -> Nat]]
  BY <1>3 DEF FData, FShape
<1>. HIDE DEF c
<1>5. \A k \in Key : c0.chain[k] = <<>>
  <2>. SUFFICES ASSUME NEW k \in Key, c0.chain[k] # <<>>
                PROVE  FALSE
    OBVIOUS
  <2>. DEFINE s == c0.chain[k]
  <2>1. s \in Seq(Foreign) /\ s # <<>>
    BY <1>3 DEF FData, FHeap
  <2>2. \A g \in Foreign : g \notin ToSet(s)
    BY <1>3 DEF FData, FLists
  <2>. HIDE DEF s
  <2>3. s[1] \in Foreign /\ 1 \in DOMAIN s
    BY <2>1, EmptySeq, LenProperties
  <2>. QED  BY <2>2, <2>3 DEF ToSet
<1>6. HeapInv(h, {}) /\ Foreignless(h)
  BY <1>3, <1>5, FHeapInv DEF FData, FHeap
<1>. HIDE DEF h
<1>7. h2 = DestroyAll(h, Bound)
  OBVIOUS
<1>. HIDE DEF h2
<1>8. /\ HeapInv(h2, {}) /\ DOMAIN h2.idata[Bound] = {}
      /\ \A j \in Interceptor \ {Bound} : h2.idata[j] = h.idata[j]
  BY <1>6, <1>7, BoundIs, DestroyAllInv
<1>9. Base(h2, {}) /\ Foreignless(h2)
  BY <1>6, <1>8, BoundIs DEF HeapInv, Foreignless
<1>10. DOMAIN watch' = Interceptor /\ watch'[Bound] = Nothing /\ DOMAIN Nothing = {}
  BY <1>1, BoundIs DEF FInv, FTyped, Nothing
<1>11. Count(watch'[Bound]) = none /\ Refs(fwatch') = [g \in Foreign |-> none]
  <2>1. \A g \in Foreign : DOMAIN fwatch'[g] = {}
    BY <1>1, <1>10
  <2>. QED  BY <1>10, <2>1, CountNothing, RefsNothing
<1>12. FData(c, none)
  <2>1. none \in [Key -> Nat]
    OBVIOUS
  <2>2. Tops(h2, c.chain) /\ CountIs(h2, c.chain, none)
    BY <1>4, <1>5, <1>8 DEF Tops, CountIs
  <2>. HIDE DEF none
  <2>3. c.chain \in [Key -> Seq(Foreign)] /\ FLists(c.chain, c.refs)
    BY <1>3, <1>4 DEF FData, FHeap
  <2>. QED  BY <1>4, <1>9, <2>1, <2>2, <2>3 DEF FData, FShape, FHeap
<1>13. FCounted'
  BY <1>1, <1>3, <1>4, <1>11, <1>12, DataSet
<1>14. Carried(heap, heap')
  <2>1. heap' = h2
    BY <1>1, <1>4 DEF SetData
  <2>2. \A a : a \notin h2.global
    BY <1>8, <1>9, InTable
  <2>3. DOMAIN h2.mem = Struct
    BY <1>9, <2>2 DEF Base, Held
  <2>. QED  BY <1>8, <2>1, <2>3, AddressAssumption DEF Carried
<1>15. IsPartial(Nothing, Object, Key) /\ FTables(fwatch')
  BY <1>1 DEF IsPartial, Nothing, FTables
<1>. QED  BY <1>10, <1>13, <1>14, <1>15 DEF DataKept, WatchedFresh

LEMMA StopInv ==
  ASSUME FInv, Stop, FreedCopies
  PROVE  FInv'
<1>1. call' = NULL /\ UNCHANGED <<field, prog, lost, origin, oops>>
  BY DEF Stop
<1>2. Handled(NULL)
  BY <1>1 DEF Handled, FInv, FTyped
<1>3. CallsKept
  BY <1>1 DEF CallsKept, CallWants, CallReaches, CallBinds
<1>4. OopsOK
  BY <1>1 DEF OopsOK, FInv, FTyped
<1>. QED  BY <1>1, <1>2, <1>3, <1>4, StopData, LibraryStep

-----------------------------------------------------------------------------
(* The steps of the call. *)

(* What is read in a structure of data k: the original operation, or the
   replacement of an instrumentor in the list, or that of the normal one. *)
LEMMA ReadIs ==
  ASSUME FInv, NEW k \in DOMAIN heap.idata[Bound], NEW f \in Field,
         NEW a, a # NULL, MyOperations(heap, Bound, k, a), NEW op, op = heap.mem[a][f]
  PROVE  /\ op \in Function \cup {NULL} \cup Intermediates
         /\ op \notin Intermediates => op = ContentAt(k)[f]
         /\ \A g \in Foreign : op = Intermediate(g, f) => g \in ToSet(chain[k])
         /\ op \in Intermediates => /\ a = Repl(heap, k)
                                    /\ TopIs(chain[k], f, Patch(Bound, ContentAt(k))[f], op)
<1>. DEFINE s == chain[k]
            none == Patch(Bound, ContentAt(k))[f]
<1>1. /\ Base(heap, {}) /\ FHeap(heap, chain, Count(watch[Bound])) /\ k \in Key
      /\ s \in Seq(Foreign) /\ Repl(heap, k) \in Struct \cup Copy
  BY FInvParts, BoundIn, BoundData
<1>2. /\ ContentAt(k)[f] \in Function \cup {NULL} /\ ContentAt(k)[f] \notin Intermediates
      /\ none \in {ContentAt(k)[f], Intermediate(Bound, f)}
  BY <1>1, OriginalIs
<1>3. TopIs(s, f, none, heap.mem[Repl(heap, k)][f])
  BY <1>1 DEF FHeap, Tops, Ordered
<1>4. \A g \in Foreign : Intermediate(g, f) \in Intermediates /\ g # Bound
  BY BoundIs, IntermediateIn
<1>5. Intermediate(Bound, f) \in Intermediates
  BY BoundIs, IntermediateIn
<1>6. CASE a = Repl(heap, k)
  <2>1. TopIs(s, f, none, op)
    BY <1>3, <1>6
  <2>2. op = none \/ \E n \in 1 .. Len(s) : op = Intermediate(s[n], f)
    BY <2>1 DEF TopIs, TopOf
  <2>3. CASE op = none
    <3>1. \A g \in Foreign : op # Intermediate(g, f)
      BY <1>2, <1>4, <2>3, SameIntermediate
    <3>. QED  BY <1>2, <1>5, <1>6, <2>1, <2>3, <3>1
  <2>4. ASSUME NEW n \in 1 .. Len(s), op = Intermediate(s[n], f)
        PROVE  /\ op \in Intermediates
               /\ \A g \in Foreign : op = Intermediate(g, f) => g \in ToSet(s)
    <3>1. n \in DOMAIN s /\ s[n] \in Foreign
      BY <1>1, ListIs
    <3>2. \A g \in Foreign : op = Intermediate(g, f) => g = s[n]
      BY <2>4, SameIntermediate
    <3>. QED  BY <1>4, <2>4, <3>1, <3>2 DEF ToSet
  <2>. QED  BY <1>6, <2>1, <2>2, <2>3, <2>4
<1>7. CASE a # Repl(heap, k)
  <2>1. a = k
    BY <1>1, <1>7, BoundIn
  <2>2. heap.idata[Bound][k].kind = "use_copy"
    BY <1>1, <1>7, <2>1, BoundIs, BoundData DEF Base, Mechanism, Repl
  <2>3. heap.mem[a] = ContentAt(k)
    BY <1>1, <2>1, <2>2 DEF FHeap, Tops, OpsAt
  <2>4. op = ContentAt(k)[f]
    BY <2>3
  <2>. QED  BY <1>2, <1>4, <2>4
<1>. QED  BY <1>6, <1>7

(* A structure of the program that no data are of. *)
LEMMA PlainRead ==
  ASSUME FInv, NEW a \in Ops, a \notin heap.global, NEW f \in Field
  PROVE  /\ heap.mem[a][f] = ContentAt(a)[f] /\ heap.mem[a][f] \notin Intermediates
         /\ heap.mem[a][f] \in Function \cup {NULL}
<1>1. heap.mem[a] = Content[a] /\ a # NULL /\ a \in Struct
  BY FInvParts, AddressAssumption DEF Base, Plain, Struct
<1>2. Content[a] \in ProgramOps
  BY <1>1, ContentType
<1>. QED  BY <1>1, <1>2, FunctionAssumption DEF ContentAt, ProgramOps

(* The operation the call wants is the original one of the data it finds. *)
LEMMA WantIs ==
  ASSUME FInv, call # NULL, call.obj \notin lost \cup dangling,
         NEW k \in DOMAIN heap.idata[Bound],
         MyOperations(heap, Bound, k, field[call.obj])
  PROVE  call.want = ContentAt(k)[call.field]
<1>1. Base(heap, {}) /\ Grown(heap, heap)
  BY FInvParts DEF Grown
<1>2. prog[call.obj] = k
  BY <1>1, CallIs, ProgramKnows
<1>. QED  BY <1>2, CallIs

(* The call goes on with operation op. *)
GoesOn(op, same, tied) ==
  /\ call' \in CallRecord
  /\ call'.obj = call.obj /\ call'.tie = call.tie /\ call'.field = call.field
  /\ call'.want = call.want
  /\ call'.op = op /\ call'.same = same /\ call'.tied = tied

LEMMA CallGoesOn ==
  ASSUME FInv, call # NULL, NEW op, NEW same, NEW tied, GoesOn(op, same, tied),
         prog' = prog,
         same /\ call.obj \notin lost' /\ op \notin Intermediates => op = call.want,
         tied /\ ~Watched(Bound, call.obj)' =>
           \E k \in DOMAIN heap'.idata[Bound] :
             MyOperations(heap', Bound, k, field'[call.obj]) /\ Binding(k)'
  PROVE  CallsKept
<1>1. CallWants'
  BY CallIs DEF CallWants, Wanted, GoesOn
<1>2. CallReaches'
  BY DEF CallReaches, GoesOn
<1>3. CallBinds'
  BY DEF CallBinds, GoesOn, Watched
<1>. QED  BY <1>1, <1>2, <1>3 DEF CallsKept, GoesOn

(* Only the call is changed by a step. *)
LEMMA OnlyCall ==
  ASSUME FInv, UNCHANGED <<vars, foreignVars, origin>>, FreedCopies, CallsKept, OopsOK
  PROVE  FInv'
<1>1. UNCHANGED <<heap, watch, field, prog, lost, foreignVars, origin>>
  BY DEF vars
<1>2. DataKept /\ WatchedFresh
  BY <1>1, DataSame
<1>3. Handled(NULL)
  BY <1>1 DEF Handled, FInv, FTyped
<1>. QED  BY <1>1, <1>2, <1>3, LibraryStep

LEMMA CallStays ==
  ASSUME FInv, UNCHANGED <<vars, foreignVars, call>>
  PROVE  CallsKept
<1>1. UNCHANGED <<heap, watch, field, prog, lost, chain, frefs, fwatch>>
  BY DEF vars, foreignVars
<1>2. DataKept /\ Grown(heap, heap') /\ Longer(chain, chain')
  BY <1>1, DataSame DEF foreignVars
<1>3. TiesGrow
  BY <1>1, <1>2 DEF TiesGrow
<1>. QED  BY <1>1, <1>2, <1>3, CallSame DEF ObjectKept

LEMMA CrashInv ==
  ASSUME FInv, NEW why \in {"null", "freed"}, Crash(why), FreedCopies
  PROVE  FInv'
<1>1. UNCHANGED <<vars, foreignVars, origin, call>> /\ OopsOK
  BY DEF Crash, OopsOK
<1>. QED  BY <1>1, CallStays, OnlyCall

LEMMA EndCallInv ==
  ASSUME FInv, EndCall, FreedCopies
  PROVE  FInv'
<1>1. call' = NULL /\ UNCHANGED <<vars, foreignVars, origin, oops>>
  BY DEF EndCall
<1>2. CallsKept
  BY <1>1 DEF CallsKept, CallWants, CallReaches, CallBinds
<1>3. OopsOK
  BY <1>1 DEF OopsOK, FInv, FTyped
<1>. QED  BY <1>1, <1>2, <1>3, OnlyCall

LEMMA BeginCallInv ==
  ASSUME FInv, NEW o \in Object, NEW f \in Field, BeginCall(o, f), FreedCopies
  PROVE  FInv'
<1>1. PICK w \in Watching :
        call' = [obj |-> o, tie |-> w.tie, field |-> f, op |-> Called(o, f),
                 want |-> Wanted(o)[f], same |-> o \notin lost,
                 tied |-> Tied(field[o], f, w.tie)]
  BY DEF BeginCall
<1>2. /\ call = NULL /\ Called(o, f) \in Intermediates /\ o \notin dangling
      /\ UNCHANGED <<vars, foreignVars, origin, oops>>
  BY DEF BeginCall, Usable
<1>. DEFINE t == w.tie
            a == field[o]
            op == Called(o, f)
<1>3. call' \in CallRecord /\ call' # NULL => CallWants'
  <2>1. UNCHANGED <<prog>>
    BY <1>2 DEF vars
  <2>. QED  BY <1>1, <2>1 DEF CallWants, Wanted
<1>4. call' \in CallRecord
  <2>1. t \in Tie
    BY DEF Tie
  <2>2. ContentAt(prog[o]) \in ProgramOps
    BY ContentType DEF FInv, FTyped, Struct
  <2>3. Wanted(o)[f] \in Function \cup {NULL}
    BY <2>2 DEF Wanted, ProgramOps
  <2>4. (o \notin lost) \in BOOLEAN
    OBVIOUS
  <2>5. Tied(a, f, t) \in BOOLEAN
    BY Zenon DEF Tied
  <2>. QED  BY <1>1, <1>2, <2>1, <2>3, <2>4, <2>5 DEF CallRecord
<1>5. /\ call'.obj = o /\ call'.tie = t /\ call'.field = f /\ call'.op = op
      /\ (call'.tied <=> Tied(a, f, t))
  BY <1>1
<1>6. CallReaches'
  BY <1>2, <1>5 DEF CallReaches
<1>7. UNCHANGED <<heap, watch, field, chain, fwatch>>
  BY <1>2 DEF vars, foreignVars
<1>8. CallBinds'
  <2>. SUFFICES ASSUME Tied(a, f, t)
                PROVE  \E k \in DOMAIN heap.idata[Bound] :
                         MyOperations(heap, Bound, k, a) /\ Binding(k)'
    BY <1>5, <1>7 DEF CallBinds
  <2>1. PICK g \in Foreign : /\ HasForeign(Data, g, a) /\ TieWatches(g, t) # {}
                             /\ Always(g, f)
    BY DEF Tied, Always
  <2>2. \E k \in DOMAIN heap.idata[Bound] :
          MyOperations(heap, Bound, k, a) /\ k \in Key /\ g \in ToSet(chain[k])
    <3>. DEFINE k == heap.table[Bound][a]
    <3>1. a \in DOMAIN heap.table[Bound] /\ g \in ToSet(chain[k])
      BY <2>1, FInvParts DEF HasForeign
    <3>2. k \in DOMAIN heap.idata[Bound] /\ MyOperations(heap, Bound, k, a)
      BY <3>1, FInvParts, InTable
    <3>. HIDE DEF k
    <3>. QED  BY <3>1, <3>2, FInvParts, BoundIn
  <2>3. PICK k \in DOMAIN heap.idata[Bound] :
          MyOperations(heap, Bound, k, a) /\ k \in Key /\ g \in ToSet(chain[k])
    BY <2>2
  <2>. DEFINE s == chain[k]
  <2>4. s \in Seq(Foreign)
    BY <2>3, FInvParts
  <2>5. a # NULL /\ op = heap.mem[a][f]
    <3>1. NULL \notin Intermediates
      BY FunctionAssumption
    <3>. QED  BY <1>2, <3>1 DEF Called, Pointer, OpsAt, NoOps
  <2>. DEFINE none == Patch(Bound, ContentAt(k))[f]
  <2>6. TopIs(s, f, none, op)
    BY <1>2, <2>3, <2>5, ReadIs
  <2>. HIDE DEF s, none, op
  <2>7. PICK n \in 1 .. Len(s) : s[n] = g
    BY <2>3, <2>4, ListIs DEF ToSet, s
  <2>8. PICK m \in 1 .. Len(s) : LastOf(s, Len(s), f, m) /\ op = Intermediate(s[m], f)
    BY <2>1, <2>6, <2>7 DEF TopIs, TopOf
  <2>9. n \in 1 .. m
    <3>1. Len(s) \in Nat
      BY <2>4, ListIs
    <3>. QED  BY <2>1, <2>7, <2>8, <3>1 DEF LastOf
  <2>10. TieWatches(g, t)' # {}
    BY <1>7, <2>1 DEF TieWatches
  <2>11. TieWatches(chain[k][n], call.tie)' # {} /\ Always(chain[k][n], call.field)'
    BY <1>5, <1>7, <2>1, <2>7, <2>10 DEF s, Always, TieWatches
  <2>12. (call.op = Intermediate(chain[k][m], call.field))' /\ m \in 1 .. Len(chain'[k])
    BY <1>5, <1>7, <2>8 DEF s
  <2>13. Binding(k)'
    BY <2>9, <2>11, <2>12 DEF Binding
  <2>. QED  BY <2>3, <2>13
<1>9. CallsKept /\ OopsOK
  BY <1>2, <1>3, <1>4, <1>6, <1>8 DEF CallsKept, CallWants, OopsOK, FInv, FTyped
<1>. QED  BY <1>2, <1>9, OnlyCall

(* The operation of data k with the normal replacement. *)
LEMMA NormalIs ==
  ASSUME FInv, NEW k \in DOMAIN heap.idata[Bound], NEW f \in Field,
         NEW op, op = NormalOperation(Data, k, f)
  PROVE  /\ op \in Function \cup {NULL} \cup Intermediates
         /\ op \notin Intermediates => op = ContentAt(k)[f]
         /\ \A g \in Foreign : op # Intermediate(g, f)
<1>1. /\ OrigOperation(heap, Bound, k, f) = ContentAt(k)[f]
      /\ ContentAt(k)[f] \in Function \cup {NULL} /\ ContentAt(k)[f] \notin Intermediates
  BY FInvParts, OriginalIs
<1>2. op \in {ContentAt(k)[f], Intermediate(Bound, f)}
  BY <1>1, FInvParts DEF NormalOperation, Replaced
<1>3. Intermediate(Bound, f) \in Intermediates
  BY BoundIs, IntermediateIn
<1>4. \A g \in Foreign : /\ Intermediate(g, f) \in Intermediates
                         /\ Intermediate(g, f) # Intermediate(Bound, f)
  BY BoundIs, IntermediateIn, SameIntermediate
<1>. QED  BY <1>1, <1>2, <1>3, <1>4

LEMMA BindTiedInv ==
  ASSUME FInv, call # NULL, NEW g \in Foreign, call.obj \notin dangling, BindTied(g),
         FreedCopies
  PROVE  FInv'
<1>. DEFINE o == call.obj
            f == call.field
<1>1. PICK id \in TieWatches(g, call.tie) :
        /\ Watch(Bound, o) \/ WatchRefused(o)
        /\ call' = [call EXCEPT
                      !.op = NormalOperation(Data, fwatch[g][id].data, f),
                      !.same = @ /\ MyOperations(heap, Bound, fwatch[g][id].data, field[o]),
                      !.tied = @ /\ o \in DOMAIN watch'[Bound]]
  BY DEF BindTied
<1>2. UNCHANGED <<foreignVars, origin, oops>>
  BY DEF BindTied
<1>. DEFINE k == fwatch[g][id].data
            op == NormalOperation(Data, k, f)
            mine == MyOperations(heap, Bound, k, field[o])
            bound == o \in DOMAIN watch'[Bound]
<1>3. o \in Object \ dangling /\ f \in Field
  BY CallIs
<1>4. k \in DOMAIN heap.idata[Bound]
  <2>1. id \in DOMAIN fwatch[g]
    BY DEF TieWatches
  <2>. QED  BY <2>1, ForeignWatchedIn
<1>. HIDE DEF k, op, mine, bound
<1>5. DataKept /\ WatchedFresh /\ Handled(o)
  <2>1. CASE Watch(Bound, o)
    BY <1>2, <1>3, <2>1, NormalWatchIs
  <2>2. CASE WatchRefused(o)
    <3>1. UNCHANGED <<heap, watch, field, prog, lost>>
      BY <2>2 DEF WatchRefused, vars
    <3>2. DataKept /\ WatchedFresh
      BY <1>2, <3>1, DataSame
    <3>. QED  BY <3>1, <3>2 DEF Handled, FInv, FTyped
  <2>. QED  BY <1>1, <2>1, <2>2
<1>6. /\ op \in Function \cup {NULL} \cup Intermediates
      /\ op \notin Intermediates => op = ContentAt(k)[f]
  BY <1>3, <1>4, NormalIs DEF op
<1>7. mine \in BOOLEAN /\ bound \in BOOLEAN
  <2>1. (o \in DOMAIN watch'[Bound]) \in BOOLEAN
    OBVIOUS
  <2>2. (field[o] \in {k, heap.idata[Bound][k].repl}) \in BOOLEAN
    OBVIOUS
  <2>. QED  BY <2>1, <2>2 DEF mine, bound, MyOperations
<1>8. /\ call' = [call EXCEPT !.op = op, !.same = @ /\ mine, !.tied = @ /\ bound]
  BY <1>1 DEF op, mine, bound, k
<1>9. call \in CallRecord
  BY CallIs
<1>10. GoesOn(op, call.same /\ mine, call.tied /\ bound)
  <2>1. (call.same /\ mine) \in BOOLEAN /\ (call.tied /\ bound) \in BOOLEAN
    BY <1>7, <1>9 DEF CallRecord
  <2>. QED  BY <1>6, <1>8, <1>9, <2>1 DEF GoesOn, CallRecord
<1>11. mine /\ o \notin lost' /\ op \notin Intermediates => op = call.want
  <2>. SUFFICES ASSUME mine, o \notin lost', op \notin Intermediates
                PROVE  op = call.want
    OBVIOUS
  <2>1. o \notin lost \cup dangling /\ MyOperations(heap, Bound, k, field[o])
    BY <1>3, <1>5 DEF Handled, mine
  <2>. QED  BY <1>4, <1>6, <2>1, WantIs
<1>12. bound => Watched(Bound, call.obj)'
  <2>1. call'.obj = o
    BY <1>10 DEF GoesOn
  <2>. QED  BY <2>1 DEF Watched, bound
<1>13. CallsKept
  BY <1>5, <1>10, <1>11, <1>12, CallGoesOn DEF Handled
<1>14. OopsOK
  BY <1>2 DEF OopsOK, FInv, FTyped
<1>. QED  BY <1>2, <1>5, <1>13, <1>14, LibraryStep

(* An intermediate operation of g is not its own predecessor: neither in the
   structure nor in the list. *)
LEMMA BindWatchedInv ==
  ASSUME FInv, call # NULL, NEW g \in Foreign, call.obj \notin dangling, BindWatched(g),
         FreedCopies
  PROVE  FInv'
<1>. DEFINE o == call.obj
            f == call.field
            k == watch[Bound][o]
            repl == Repl(heap, k)
            op == IF HasForeign(Data, g, repl) THEN NormalOperation(Data, k, f)
                  ELSE heap.mem[repl][f]
            mine == MyOperations(heap, Bound, k, field[o])
<1>1. /\ o \in DOMAIN watch[Bound] /\ SetPointer(o, repl)
      /\ lost' = IF mine THEN lost ELSE lost \cup {o}
      /\ call' = [call EXCEPT !.op = op, !.same = @ /\ mine]
      /\ oops' = IF op = Intermediate(g, f) THEN "bug" ELSE oops
      /\ UNCHANGED <<heap, watch, prog, foreignVars, origin>>
  BY DEF BindWatched, Watched, Repl
<1>2. o \in Object \ dangling /\ f \in Field /\ call \in CallRecord
  BY CallIs
<1>3. k \in DOMAIN heap.idata[Bound]
  BY <1>1, FInvParts, WatchedIn DEF FInv, FTyped
<1>. HIDE DEF k
<1>4. /\ repl \in DOMAIN heap.table[Bound] /\ heap.table[Bound][repl] = k
      /\ repl # NULL /\ MyOperations(heap, Bound, k, repl)
  <2>1. repl \in Struct \cup Copy
    BY <1>3, FInvParts, BoundData
  <2>. QED  BY <1>3, <2>1, FInvParts, ReplThere, AddressAssumption DEF MyOperations, Repl
<1>5. /\ op \in Function \cup {NULL} \cup Intermediates
      /\ op \notin Intermediates => op = ContentAt(k)[f]
      /\ op # Intermediate(g, f)
  <2>. HIDE DEF repl
  <2>1. CASE HasForeign(Data, g, repl)
    <3>. DEFINE op2 == NormalOperation(Data, k, f)
    <3>1. op = op2
      BY <2>1
    <3>. HIDE DEF op, op2
    <3>2. /\ op2 \in Function \cup {NULL} \cup Intermediates
          /\ op2 \notin Intermediates => op2 = ContentAt(k)[f]
          /\ op2 # Intermediate(g, f)
      BY <1>2, <1>3, NormalIs DEF op2
    <3>. QED  BY <3>1, <3>2
  <2>2. CASE ~HasForeign(Data, g, repl)
    <3>. DEFINE op2 == heap.mem[repl][f]
    <3>1. op = op2
      BY <2>2
    <3>2. g \notin ToSet(chain[k])
      BY <1>4, <2>2, FInvParts DEF HasForeign
    <3>. HIDE DEF op
    <3>3. op2 = heap.mem[repl][f]
      OBVIOUS
    <3>. HIDE DEF op2
    <3>4. /\ op2 \in Function \cup {NULL} \cup Intermediates
          /\ op2 \notin Intermediates => op2 = ContentAt(k)[f]
          /\ op2 = Intermediate(g, f) => g \in ToSet(chain[k])
      BY <1>2, <1>3, <1>4, <3>3, ReadIs
    <3>. QED  BY <3>1, <3>2, <3>4
  <2>. QED  BY <2>1, <2>2
<1>6. mine \in BOOLEAN
  <2>1. (field[o] \in {k, heap.idata[Bound][k].repl}) \in BOOLEAN
    OBVIOUS
  <2>. QED  BY <2>1 DEF MyOperations
<1>7. mine = MyOperations(heap, Bound, k, field[o])
  OBVIOUS
<1>. HIDE DEF op, repl, mine
<1>8. DataKept /\ WatchedFresh /\ Base(heap, {}) /\ Grown(heap, heap) /\ Carried(heap, heap')
  BY <1>1, DataSame, FInvParts DEF DataKept, Grown
<1>9. Handled(o)
  <2>1. lost \subseteq lost' /\ lost' \subseteq Object
    BY <1>1, <1>2 DEF FInv, FTyped
  <2>2. CASE mine
    BY <1>1, <1>2, <1>3, <1>7, <1>8, <2>1, <2>2, PointerLed DEF repl
  <2>3. CASE ~mine
    <3>1. repl \in Ops \cup Copy \cup {NULL}
      BY <1>3, <1>8, BoundIn DEF repl
    <3>2. /\ field' \in [Object -> Ops \cup Copy \cup {NULL}]
          /\ \A q \in Object \ {o} : field'[q] = field[q]
      BY <1>1, <1>2, <3>1, PointerSet
    <3>. QED  BY <1>1, <2>1, <2>3, <3>2 DEF Handled
  <2>. QED  BY <2>2, <2>3
<1>10. GoesOn(op, call.same /\ mine, call.tied)
  <2>1. (call.same /\ mine) \in BOOLEAN
    BY <1>2, <1>6 DEF CallRecord
  <2>. QED  BY <1>1, <1>2, <1>5, <2>1 DEF GoesOn, CallRecord
<1>11. mine /\ o \notin lost' /\ op \notin Intermediates => op = call.want
  <2>. SUFFICES ASSUME mine, o \notin lost', op \notin Intermediates
                PROVE  op = call.want
    OBVIOUS
  <2>1. o \notin lost \cup dangling /\ MyOperations(heap, Bound, k, field[o])
    BY <1>1, <1>2, <1>7
  <2>. QED  BY <1>3, <1>5, <2>1, WantIs
<1>12. Watched(Bound, call.obj)'
  <2>1. call'.obj = o /\ watch' = watch
    BY <1>1, <1>10 DEF GoesOn
  <2>. QED  BY <1>1, <2>1 DEF Watched
<1>13. CallsKept
  BY <1>1, <1>10, <1>11, <1>12, CallGoesOn
<1>14. OopsOK
  BY <1>1, <1>5 DEF OopsOK, FInv, FTyped
<1>. QED  BY <1>1, <1>8, <1>9, <1>13, <1>14, LibraryStep

LEMMA BindChainInv ==
  ASSUME FInv, call # NULL, NEW g \in Foreign, call.op = Intermediate(g, call.field),
         call.obj \notin dangling, BindChain(g), FreedCopies
  PROVE  FInv'
<1>. DEFINE o == call.obj
            f == call.field
            a == field[o]
<1>1. /\ TieWatches(g, call.tie) = {} /\ ~Watched(Bound, o) /\ HasForeign(Data, g, a)
      /\ call' = [call EXCEPT !.op = ChainOperation(Data, g, heap.table[Bound][a], f)]
      /\ UNCHANGED <<vars, foreignVars, origin, oops>>
  BY DEF BindChain
<1>2. o \in Object /\ f \in Field /\ call \in CallRecord
  BY CallIs
<1>3. \E k \in DOMAIN heap.idata[Bound] :
        /\ k = heap.table[Bound][a] /\ g \in ToSet(chain[k])
        /\ MyOperations(heap, Bound, k, a) /\ k \in Key
  <2>1. /\ Base(heap, {}) /\ Foreignless(heap) /\ Data.heap = heap /\ Data.chain = chain
        /\ \A k \in DOMAIN heap.idata[Bound] : k \in Key
    BY FInvParts, BoundIn
  <2>2. a \in DOMAIN heap.table[Bound] /\ g \in ToSet(chain[heap.table[Bound][a]])
    BY <1>1, <2>1 DEF HasForeign
  <2>. QED  BY <2>1, <2>2, InTable
<1>4. PICK k \in DOMAIN heap.idata[Bound] :
        /\ k = heap.table[Bound][a] /\ g \in ToSet(chain[k])
        /\ MyOperations(heap, Bound, k, a) /\ k \in Key
  BY <1>3
<1>. DEFINE s == chain[k]
            op == ChainOperation(Data, g, k, f)
            orig == ContentAt(k)[f]
<1>5. /\ s \in Seq(Foreign) /\ IsInjective(s) /\ Len(s) \in Nat /\ DOMAIN s = 1 .. Len(s)
  BY <1>4, FInvParts, ListIs DEF FLists
<1>6. PICK p \in 1 .. Len(s) : s[p] = g
  BY <1>4, <1>5 DEF ToSet
<1>7. TopOf(s, p - 1, f, orig, op)
  <2>1. OrigOperation(heap, Bound, k, f) = orig
    BY <1>2, <1>4, FInvParts, OriginalIs
  <2>2. op = Previous(Data, g, k, f, orig)
    BY <2>1, FInvParts DEF ChainOperation
  <2>. HIDE DEF op, orig
  <2>3. Data.chain[k] = s
    BY FInvParts
  <2>4. TopOf(Data.chain[k], p - 1, f, orig, Previous(Data, g, k, f, orig))
    BY <1>2, <1>5, <1>6, <2>3, PreviousIs
  <2>. QED  BY <2>2, <2>3, <2>4
<1>8. orig \in Function \cup {NULL}
  BY <1>2, <1>4, FInvParts, OriginalIs
<1>. HIDE DEF op, orig
<1>9. op \in Function \cup {NULL} \cup Intermediates
  <2>1. p - 1 \in 0 .. Len(s) /\ orig \in Function \cup {NULL} \cup Intermediates
    BY <1>5, <1>6, <1>8
  <2>. HIDE DEF s
  <2>. QED  BY <1>2, <1>5, <1>7, <2>1, TopType
<1>10. GoesOn(op, call.same, call.tied)
  <2>1. call' = [call EXCEPT !.op = op]
    BY <1>1, <1>4 DEF op
  <2>. QED  BY <1>2, <1>9, <2>1 DEF GoesOn, CallRecord
<1>11. op \notin Intermediates => op = orig
  <2>1. ASSUME NEW n \in 1 .. (p - 1)
        PROVE  Intermediate(s[n], f) \in Intermediates
    <3>1. s[n] \in Foreign
      BY <1>5, <1>6, ListIs
    <3>. QED  BY <1>2, <3>1, BoundIs, IntermediateIn
  <2>. QED  BY <1>7, <2>1 DEF TopOf
<1>12. call.same /\ o \notin lost' /\ op \notin Intermediates => op = call.want
  <2>1. lost' = lost
    BY <1>1 DEF vars
  <2>. QED  BY <1>4, <1>11, <2>1, WantIs DEF orig
<1>13. UNCHANGED <<heap, watch, field, prog, chain, fwatch>>
  BY <1>1 DEF vars, foreignVars
<1>14. ASSUME call.tied
       PROVE  Binding(k)'
  <2>1. PICK l \in DOMAIN heap.idata[Bound] : MyOperations(heap, Bound, l, a) /\ Binding(l)
    BY <1>1, <1>14 DEF FInv, CallBinds
  <2>2. l = k
    BY <1>4, <2>1, FInvParts, OneOwner, BoundIs
  <2>3. PICK m \in 1 .. Len(s) :
          /\ call.op = Intermediate(s[m], f)
          /\ \E n \in 1 .. m : TieWatches(s[n], call.tie) # {} /\ Always(s[n], f)
    BY <2>1, <2>2 DEF Binding
  <2>4. m = p
    <3>1. s[m] = s[p]
      BY <1>6, <2>3, SameIntermediate
    <3>. HIDE DEF s
    <3>. QED  BY <1>5, <3>1 DEF IsInjective
  <2>5. PICK n \in 1 .. m : TieWatches(s[n], call.tie) # {} /\ Always(s[n], f)
    BY <2>3
  <2>6. n \in 1 .. (p - 1)
    <3>1. s[n] # g
      BY <1>1, <2>5
    <3>. HIDE DEF s
    <3>. QED  BY <1>5, <1>6, <2>4, <3>1
  <2>. HIDE DEF s
  <2>7. PICK q \in 1 .. (p - 1) : LastOf(s, p - 1, f, q) /\ op = Intermediate(s[q], f)
    BY <1>7, <2>5, <2>6 DEF TopOf
  <2>8. n \in 1 .. q /\ q \in 1 .. Len(s)
    BY <1>5, <2>5, <2>6, <2>7 DEF LastOf
  <2>9. TieWatches(chain[k][n], call.tie)' # {} /\ Always(chain[k][n], call.field)'
    BY <1>10, <1>13, <2>5 DEF s, Always, TieWatches, GoesOn
  <2>10. (call.op = Intermediate(chain[k][q], call.field))' /\ q \in 1 .. Len(chain'[k])
    BY <1>10, <1>13, <2>7, <2>8 DEF s, GoesOn
  <2>. QED  BY <2>8, <2>9, <2>10 DEF Binding
<1>15. CallsKept
  <2>1. call.tied /\ ~Watched(Bound, call.obj)' =>
          \E l \in DOMAIN heap'.idata[Bound] :
            MyOperations(heap', Bound, l, field'[call.obj]) /\ Binding(l)'
    BY <1>4, <1>13, <1>14
  <2>. QED  BY <1>10, <1>12, <1>13, <2>1, CallGoesOn
<1>16. OopsOK
  BY <1>1 DEF OopsOK, FInv, FTyped
<1>. QED  BY <1>1, <1>15, <1>16, OnlyCall

(* The operations of the object are found in the structure at a, which is the
   original of data k that g has no part in, or one that has no data. *)
ChainedTo(g, op) ==
  /\ op \in Function \cup {NULL} \cup Intermediates /\ op # Intermediate(g, call.field)
  /\ call.obj \notin lost /\ op \notin Intermediates => op = call.want

LEMMA ChainToIs ==
  ASSUME FInv, call # NULL, NEW g \in Foreign, ~call.tied, NEW a, ChainTo(g, a),
         prog' = prog, lost' = lost,
         a # NULL => ChainedTo(g, heap.mem[a][call.field])
  PROVE  CallsKept /\ OopsOK
<1>1. oops \in {"none", "update", "null", "freed"} /\ call \in CallRecord
  BY CallIs DEF FInv, FTyped
<1>2. CASE a = NULL
  <2>1. call' = call /\ oops' = "null"
    BY <1>2 DEF ChainTo
  <2>2. GoesOn(call.op, call.same, call.tied)
    BY <1>1, <2>1 DEF GoesOn
  <2>3. call.same /\ call.obj \notin lost /\ call.op \notin Intermediates =>
          call.op = call.want
    BY DEF FInv, CallReaches
  <2>. QED  BY <2>1, <2>2, <2>3, CallGoesOn DEF OopsOK
<1>3. CASE a # NULL
  <2>. DEFINE op == heap.mem[a][call.field]
  <2>1. /\ call' = [call EXCEPT !.op = op] /\ oops' = oops
        /\ op \in Function \cup {NULL} \cup Intermediates
    BY <1>3 DEF ChainTo, ChainedTo
  <2>2. call.same /\ call.obj \notin lost /\ op \notin Intermediates => op = call.want
    BY <1>3 DEF ChainedTo
  <2>. HIDE DEF op
  <2>3. GoesOn(op, call.same, call.tied)
    BY <1>1, <2>1 DEF GoesOn, CallRecord
  <2>. QED  BY <1>1, <2>1, <2>2, <2>3, CallGoesOn DEF OopsOK
<1>. QED  BY <1>2, <1>3

(* A call that is to bind its object does not come to an instrumentor that is
   not in the list any more. *)
LEMMA NotTied ==
  ASSUME FInv, call # NULL, NEW g \in Foreign, call.op = Intermediate(g, call.field),
         ~Watched(Bound, call.obj), ~HasForeign(Data, g, field[call.obj])
  PROVE  ~call.tied
<1>. SUFFICES ASSUME call.tied
              PROVE  FALSE
  OBVIOUS
<1>1. PICK k \in DOMAIN heap.idata[Bound] :
        MyOperations(heap, Bound, k, field[call.obj]) /\ Binding(k)
  BY DEF FInv, CallBinds
<1>2. PICK m \in 1 .. Len(chain[k]) : call.op = Intermediate(chain[k][m], call.field)
  BY <1>1 DEF Binding
<1>3. chain[k] \in Seq(Foreign)
  BY FInvParts, BoundIn
<1>4. g = chain[k][m]
  BY <1>2, SameIntermediate
<1>5. g \in ToSet(chain[k])
  BY <1>2, <1>3, <1>4, ListIs DEF ToSet
<1>6. Base(heap, {}) /\ Foreignless(heap) /\ Data.heap = heap /\ Data.chain = chain
  BY FInvParts
<1>7. field[call.obj] \in DOMAIN heap.table[Bound] /\ heap.table[Bound][field[call.obj]] = k
  BY <1>1, <1>6, InTable
<1>. QED  BY <1>5, <1>6, <1>7 DEF HasForeign

LEMMA BindRestoreInv ==
  ASSUME FInv, call # NULL, NEW g \in Foreign, call.op = Intermediate(g, call.field),
         call.obj \notin dangling, BindRestore(g), FreedCopies
  PROVE  FInv'
<1>. DEFINE o == call.obj
            f == call.field
<1>1. /\ ~Watched(Bound, o) /\ ~HasForeign(Data, g, field[o])
      /\ field[o] \in DOMAIN heap.table[Bound]
      /\ SetPointer(o, heap.table[Bound][field[o]]) /\ ChainTo(g, heap.table[Bound][field[o]])
      /\ UNCHANGED <<heap, watch, prog, lost, foreignVars, origin>>
  BY DEF BindRestore
<1>2. o \in Object \ dangling /\ f \in Field
  BY CallIs
<1>3. PICK k \in DOMAIN heap.idata[Bound] :
        k = heap.table[Bound][field[o]] /\ MyOperations(heap, Bound, k, field[o])
  BY <1>1, FInvParts, InTable
<1>4. g \notin ToSet(chain[k])
  BY <1>1, <1>3, FInvParts DEF HasForeign
<1>5. ~call.tied
  BY <1>1, NotTied
<1>6. k # NULL => /\ heap.mem[k][f] \in Function \cup {NULL} \cup Intermediates
                  /\ heap.mem[k][f] # Intermediate(g, f)
                  /\ heap.mem[k][f] \notin Intermediates => heap.mem[k][f] = ContentAt(k)[f]
  <2>1. MyOperations(heap, Bound, k, k)
    BY DEF MyOperations
  <2>. DEFINE op == heap.mem[k][f]
  <2>2. op = heap.mem[k][f]
    OBVIOUS
  <2>. HIDE DEF op
  <2>3. k # NULL => /\ op \in Function \cup {NULL} \cup Intermediates
                    /\ op \notin Intermediates => op = ContentAt(k)[f]
                    /\ op = Intermediate(g, f) => g \in ToSet(chain[k])
    BY <1>2, <2>1, <2>2, ReadIs
  <2>. QED  BY <1>4, <2>2, <2>3
<1>7. o \notin lost => call.want = ContentAt(k)[f]
  BY <1>2, <1>3, WantIs
<1>8. CallsKept /\ OopsOK
  <2>1. k # NULL => ChainedTo(g, heap.mem[k][call.field])
    BY <1>6, <1>7 DEF ChainedTo
  <2>2. ChainTo(g, k)
    BY <1>1, <1>3
  <2>. QED  BY <1>1, <1>5, <2>1, <2>2, ChainToIs
<1>9. DataKept /\ WatchedFresh /\ Base(heap, {}) /\ Grown(heap, heap) /\ Carried(heap, heap')
  BY <1>1, DataSame, FInvParts DEF DataKept, Grown
<1>10. Handled(o)
  <2>1. k \in {k, Repl(heap, k)} /\ lost' = lost /\ prog' = prog /\ lost' \subseteq Object
        /\ SetPointer(o, k)
    BY <1>1, <1>3 DEF FInv, FTyped
  <2>. QED  BY <1>2, <1>3, <1>9, <2>1, PointerLed
<1>. QED  BY <1>1, <1>8, <1>9, <1>10, LibraryStep

(* An object whose operations are not instrumented has those of the program. *)
LEMMA UnknownIs ==
  ASSUME FInv, NEW o \in Object \ dangling, field[o] \notin DOMAIN heap.table[Bound],
         field[o] # NULL, NEW f \in Field, NEW op, op = heap.mem[field[o]][f]
  PROVE  /\ op \in Function \cup {NULL} /\ op \notin Intermediates
         /\ o \notin lost => op = ContentAt(prog[o])[f]
<1>1. field[o] \notin heap.global /\ field[o] \in Ops
  BY FInvParts, InTable, UsableKnown DEF Known
<1>2. op = ContentAt(field[o])[f] /\ op \notin Intermediates /\ op \in Function \cup {NULL}
  BY <1>1, PlainRead
<1>3. o \notin lost => field[o] = prog[o]
  <2>1. prog[o] \in DOMAIN heap.idata[Bound] =>
          Repl(heap, prog[o]) \in DOMAIN heap.table[Bound]
    BY FInvParts, ReplThere
  <2>. QED  BY <2>1 DEF FInv, FPointers, FOwned
<1>. QED  BY <1>2, <1>3

LEMMA BindUnknownInv ==
  ASSUME FInv, call # NULL, NEW g \in Foreign, call.op = Intermediate(g, call.field),
         call.obj \notin dangling, BindUnknown(g), FreedCopies
  PROVE  FInv'
<1>. DEFINE o == call.obj
            f == call.field
            a == field[o]
            op == heap.mem[a][f]
<1>1. /\ ~Watched(Bound, o) /\ a \notin DOMAIN heap.table[Bound] /\ ChainTo(g, a)
      /\ UNCHANGED <<vars, foreignVars, origin>> /\ ~HasForeign(Data, g, a)
  BY FInvParts DEF BindUnknown, HasForeign
<1>2. o \in Object \ dangling /\ f \in Field /\ call.want = ContentAt(prog[o])[f]
  BY CallIs
<1>3. ~call.tied
  BY <1>1, NotTied
<1>4. op = heap.mem[a][f]
  OBVIOUS
<1>. HIDE DEF op
<1>5. a # NULL => /\ op \in Function \cup {NULL} /\ op \notin Intermediates
                  /\ o \notin lost => op = ContentAt(prog[o])[f]
  BY <1>1, <1>2, <1>4, UnknownIs
<1>6. Intermediate(g, f) \in Intermediates
  BY <1>2, BoundIs, IntermediateIn
<1>7. a # NULL => /\ op \in Function \cup {NULL} \cup Intermediates
                  /\ op # Intermediate(g, f)
                  /\ o \notin lost /\ op \notin Intermediates => op = call.want
  BY <1>2, <1>5, <1>6
<1>8. lost' = lost /\ prog' = prog
  BY <1>1 DEF vars
<1>9. CallsKept /\ OopsOK
  <2>1. a # NULL => ChainedTo(g, heap.mem[a][call.field])
    BY <1>4, <1>7 DEF ChainedTo
  <2>. QED  BY <1>1, <1>3, <1>8, <2>1, ChainToIs
<1>. QED  BY <1>1, <1>9, OnlyCall

LEMMA BindInv ==
  ASSUME FInv, NEW g \in Foreign, Bind(g), FreedCopies
  PROVE  FInv'
<1>1. call # NULL /\ call.op = Intermediate(g, call.field)
  BY DEF Bind
<1>2. CASE call.obj \in dangling
  BY <1>1, <1>2, CrashInv DEF Bind
<1>3. CASE call.obj \notin dangling
  BY <1>1, <1>3, BindTiedInv, BindWatchedInv, BindChainInv, BindRestoreInv, BindUnknownInv
     DEF Bind
<1>. QED  BY <1>2, <1>3

(* What the normal interceptor finds for the object of the call. *)
LEMMA OrigIs ==
  ASSUME FInv, call # NULL, NEW f, f = call.field, NEW o, o = call.obj,
         ~Watched(Bound, o) => o \notin dangling,
         ~Watched(Bound, o) /\ field[o] = NULL => NULL \in DOMAIN heap.table[Bound],
         NEW op, op = GetOrigOperation(Bound, o, field[o], f)
  PROVE  /\ op \in Function \cup {NULL} \cup Intermediates
         /\ o \notin lost /\ ~Stale(Bound, o) /\ op \notin Intermediates => op = call.want
<1>1. o \in Object /\ f \in Field /\ call.want = ContentAt(prog[o])[f]
  BY CallIs
<1>2. ASSUME NEW k \in DOMAIN heap.idata[Bound], op = OrigOperation(heap, Bound, k, f),
             o \notin lost \cup dangling => MyOperations(heap, Bound, k, field[o])
      PROVE  /\ op \in Function \cup {NULL}
             /\ o \notin lost \cup dangling => op = call.want
  <2>1. op = ContentAt(k)[f] /\ op \in Function \cup {NULL}
    BY <1>1, <1>2, FInvParts, OriginalIs
  <2>. QED  BY <1>2, <2>1, WantIs
<1>3. CASE Watched(Bound, o)
  <2>1. PICK k \in DOMAIN heap.idata[Bound] : k = watch[Bound][o]
    BY <1>3, FInvParts, WatchedIn DEF FInv, FTyped, Watched
  <2>2. op = OrigOperation(heap, Bound, k, f)
    BY <1>3, <2>1 DEF GetOrigOperation
  <2>3. ~Stale(Bound, o) => MyOperations(heap, Bound, k, field[o])
    BY <1>1, <1>3, <2>1 DEF Stale, Pointer
  <2>4. o \in dangling => ~MyOperations(heap, Bound, k, field[o])
    <3>1. k \notin Copy
      BY FInvParts, BoundIn
    <3>2. FOwned(o)
      BY <1>1 DEF FInv, FPointers
    <3>. QED  BY <1>3, <2>1, <3>1, <3>2, FInvParts, BoundIn DEF FOwned, Watched
  <2>5. op \in Function \cup {NULL}
    BY <1>1, <2>2, FInvParts, OriginalIs
  <2>6. CASE MyOperations(heap, Bound, k, field[o])
    BY <1>2, <2>2, <2>4, <2>6
  <2>. QED  BY <2>3, <2>5, <2>6
<1>4. CASE ~Watched(Bound, o) /\ field[o] \in DOMAIN heap.table[Bound]
  <2>1. PICK k \in DOMAIN heap.idata[Bound] :
          k = heap.table[Bound][field[o]] /\ MyOperations(heap, Bound, k, field[o])
    BY <1>4, FInvParts, InTable
  <2>2. op = OrigOperation(heap, Bound, k, f)
    BY <1>4, <2>1 DEF GetOrigOperation
  <2>3. o \notin dangling
    BY <1>4
  <2>. QED  BY <1>2, <2>1, <2>2, <2>3
<1>5. CASE ~Watched(Bound, o) /\ field[o] \notin DOMAIN heap.table[Bound]
  <2>. DEFINE op2 == heap.mem[field[o]][f]
  <2>1. field[o] # NULL /\ o \in Object \ dangling /\ op2 = heap.mem[field[o]][f]
    BY <1>1, <1>5
  <2>2. op \in {op2, Intermediate(Bound, f)}
    BY <1>5 DEF GetOrigOperation
  <2>3. Intermediate(Bound, f) \in Intermediates
    BY <1>1, BoundIs, IntermediateIn
  <2>. HIDE DEF op2
  <2>4. /\ op2 \in Function \cup {NULL} /\ op2 \notin Intermediates
        /\ o \notin lost => op2 = ContentAt(prog[o])[f]
    BY <1>1, <1>5, <2>1, UnknownIs
  <2>. QED  BY <1>1, <2>2, <2>3, <2>4
<1>. QED  BY <1>3, <1>4, <1>5

LEMMA CallNormalInv ==
  ASSUME FInv, CallNormal, FreedCopies
  PROVE  FInv'
<1>. DEFINE o == call.obj
            f == call.field
            op == GetOrigOperation(Bound, o, field[o], f)
            found == ~Stale(Bound, o)
<1>1. call # NULL /\ call.op = Intermediate(Bound, f)
  BY DEF CallNormal
<1>2. CASE ~Watched(Bound, o) /\ o \in dangling
  BY <1>2, CrashInv DEF CallNormal
<1>3. CASE /\ ~(~Watched(Bound, o) /\ o \in dangling)
           /\ ~Watched(Bound, o) /\ field[o] = NULL /\ NULL \notin DOMAIN heap.table[Bound]
  BY <1>3, CrashInv DEF CallNormal
<1>4. CASE /\ ~(~Watched(Bound, o) /\ o \in dangling)
           /\ ~(~Watched(Bound, o) /\ field[o] = NULL /\ NULL \notin DOMAIN heap.table[Bound])
  <2>1. /\ call' = [call EXCEPT !.op = op, !.same = @ /\ found]
        /\ UNCHANGED <<vars, foreignVars, origin, oops>>
    BY <1>4 DEF CallNormal
  <2>2. /\ op \in Function \cup {NULL} \cup Intermediates
        /\ o \notin lost /\ found /\ op \notin Intermediates => op = call.want
    <3>1. op = GetOrigOperation(Bound, o, field[o], f)
      OBVIOUS
    <3>. HIDE DEF op
    <3>. QED  BY <1>1, <1>4, <3>1, OrigIs
  <2>3. call \in CallRecord /\ found \in BOOLEAN
    BY <1>1, CallIs
  <2>. HIDE DEF op, found
  <2>4. GoesOn(op, call.same /\ found, call.tied)
    <3>1. (call.same /\ found) \in BOOLEAN
      BY <2>3 DEF CallRecord
    <3>. QED  BY <2>1, <2>2, <2>3, <3>1 DEF GoesOn, CallRecord
  <2>5. UNCHANGED <<heap, watch, field, prog, lost>>
    BY <2>1 DEF vars
  <2>6. call.tied => Watched(Bound, o)
    <3>. SUFFICES ASSUME call.tied, ~Watched(Bound, o)
                  PROVE  FALSE
      OBVIOUS
    <3>1. PICK k \in DOMAIN heap.idata[Bound] : Binding(k)
      BY <1>1 DEF FInv, CallBinds
    <3>2. PICK m \in 1 .. Len(chain[k]) : call.op = Intermediate(chain[k][m], f)
      BY <3>1 DEF Binding
    <3>3. chain[k][m] \in Foreign
      <4>1. chain[k] \in Seq(Foreign)
        BY FInvParts, BoundIn
      <4>. QED  BY <3>2, <4>1, ListIs
    <3>4. chain[k][m] = Bound
      BY <1>1, <3>2, SameIntermediate
    <3>. QED  BY <3>3, <3>4, BoundIs
  <2>7. call.tied => Watched(Bound, call.obj)'
    BY <2>4, <2>5, <2>6 DEF GoesOn, Watched
  <2>8. CallsKept
    BY <1>1, <2>2, <2>4, <2>5, <2>7, CallGoesOn
  <2>9. OopsOK
    BY <2>1 DEF OopsOK, FInv, FTyped
  <2>. QED  BY <2>1, <2>8, <2>9, OnlyCall
<1>. QED  BY <1>2, <1>3, <1>4

-----------------------------------------------------------------------------
(* The invariant holds in every reachable state. *)

LEMMA ForeignInitInv == ForeignInit => FInv
<1>. SUFFICES ASSUME ForeignInit
              PROVE  FInv
  OBVIOUS
<1>. DEFINE none == [k \in Key |-> 0]
<1>1. /\ Init /\ chain = [k \in Key |-> <<>>] /\ frefs = [g \in Foreign |-> none]
      /\ fwatch = [g \in Foreign |-> Nothing] /\ origin = [o \in Object |-> NULL]
      /\ dangling = {} /\ call = NULL /\ oops = "none"
  BY DEF ForeignInit
<1>2. /\ watch = [i \in Interceptor |-> Nothing] /\ field \in [Object -> Given]
      /\ prog = field /\ lost = {} /\ heap.idata = [i \in Interceptor |-> Nothing]
  BY <1>1 DEF Init
<1>3. /\ watch[Bound] = Nothing /\ DOMAIN Nothing = {} /\ IsPartial(Nothing, Object, Key)
      /\ \A i \in Interceptor : heap.idata[i] = Nothing
  BY <1>2, BoundIs DEF Nothing, IsPartial
<1>4. FTyped
  <2>1. Given \subseteq Ops \cup {NULL}
    BY ContentAssumption
  <2>2. FTables(fwatch)
    BY <1>1 DEF FTables, IsPartial, Nothing
  <2>3. /\ field \in [Object -> Ops \cup Copy \cup {NULL}]
        /\ prog \in [Object -> Ops \cup {NULL}]
    BY <1>2, <2>1
  <2>. QED  BY <1>1, <1>2, <1>3, <2>2, <2>3 DEF FTyped
<1>5. Base(heap, {})
  <2>1. HeapInv(heap, live)
    BY <1>1, InitInv DEF IInv
  <2>. QED  BY <2>1, SmallerL DEF HeapInv
<1>6. Count(watch[Bound]) = none /\ Refs(fwatch) = [g \in Foreign |-> none]
  <2>1. \A g \in Foreign : DOMAIN fwatch[g] = {}
    BY <1>1, <1>3
  <2>. QED  BY <1>3, <2>1, CountNothing, RefsNothing
<1>7. FHeap(heap, chain, none)
  <2>1. none \in [Key -> Nat] /\ chain \in [Key -> Seq(Foreign)]
    BY <1>1, EmptySeq
  <2>2. Foreignless(heap) /\ Tops(heap, chain)
    BY <1>3, BoundIs DEF Foreignless, Tops
  <2>3. CountIs(heap, chain, none)
    BY <1>1, <1>3, BoundIs DEF CountIs
  <2>. HIDE DEF none
  <2>. QED  BY <1>5, <2>1, <2>2, <2>3 DEF FHeap
<1>8. FLists(chain, frefs)
  <2>1. IsInjective(<<>>) /\ ToSet(<<>>) = {}
    BY DEF IsInjective, ToSet
  <2>. QED  BY <1>1, <2>1 DEF FLists
<1>9. FCounted
  <2>1. frefs \in [Foreign -> [Key -> Nat]]
    BY <1>1
  <2>2. FShape(Data)
    BY <2>1 DEF FShape, Data
  <2>. HIDE DEF none
  <2>. QED  BY <1>1, <1>6, <1>7, <1>8, <2>2 DEF FCounted, FData, Data
<1>10. FPointers
  <2>1. ASSUME NEW o \in Object
        PROVE  FOwned(o)
    <3>1. field[o] \notin Copy /\ field[o] = prog[o]
      BY <1>2, ContentAssumption, AddressAssumption DEF Struct
    <3>. QED  BY <1>1, <3>1 DEF FOwned
  <2>. QED  BY <2>1 DEF FPointers
<1>11. CallWants /\ CallReaches /\ CallBinds
  BY <1>1 DEF CallWants, CallReaches, CallBinds
<1>. QED  BY <1>4, <1>9, <1>10, <1>11 DEF FInv

(* A step that changes nothing. *)
LEMMA ForeignStutter ==
  ASSUME FInv, UNCHANGED fvars
  PROVE  FInv'
<1>1. UNCHANGED <<heap, watch, field, prog, live, lost, chain, frefs, fwatch, origin,
                  dangling, call, oops>>
  BY DEF fvars, vars, foreignVars
<1>2. FTyped' /\ FCounted'
  BY <1>1 DEF FInv, FTyped, FCounted, Data
<1>3. FPointers'
  <2>1. ASSUME NEW o \in Object
        PROVE  FOwned(o)'
    BY <1>1 DEF FInv, FPointers, FOwned
  <2>. QED  BY <2>1 DEF FPointers
<1>4. CallsKept
  BY <1>1, CallStays DEF vars, foreignVars
<1>. QED  BY <1>2, <1>3, <1>4 DEF FInv, CallsKept

LEMMA ForeignStepInv ==
  ASSUME FInv, [ForeignNext]_fvars
  PROVE  FInv'
<1>1. CASE UNCHANGED fvars
  BY <1>1, ForeignStutter
<1>. SUFFICES ASSUME ForeignNext
              PROVE  FInv'
  BY <1>1
<1>2. FreedCopies
  BY DEF ForeignNext
<1>3. ASSUME NEW g \in Foreign, NEW w \in Watching, ForeignWatch(g, w) PROVE FInv'
  BY <1>2, <1>3, ForeignWatchUpdateInv, ForeignWatchMovedInv, ForeignWatchMovedFailsInv,
     ForeignWatchNewInv, ForeignWatchNewFailsInv DEF ForeignWatch
<1>4. ASSUME NEW g \in Foreign, NEW id \in Id,
             ForeignForget(g, id) \/ ForeignForgetNorestore(g, id)
      PROVE  FInv'
  BY <1>2, <1>4, ForeignForgetInv, ForeignForgetNorestoreInv
<1>5. ASSUME NEW g \in Foreign, Bind(g) PROVE FInv'
  BY <1>2, <1>5, BindInv
<1>6. CASE Stop
  BY <1>2, <1>6, StopInv
<1>7. CASE CallNormal
  BY <1>2, <1>7, CallNormalInv
<1>8. CASE EndCall
  BY <1>2, <1>8, EndCallInv
<1>9. ASSUME NEW o \in Object, NEW f \in Field, BeginCall(o, f) PROVE FInv'
  BY <1>2, <1>9, BeginCallInv
<1>10. CASE NormalCall
  BY <1>2, <1>10, NormalCallInv
<1>11. CASE ForeignProgram
  BY <1>2, <1>11, ForeignProgramInv
<1>. QED  BY <1>3, <1>4, <1>5, <1>6, <1>7, <1>8, <1>9, <1>10, <1>11 DEF ForeignNext

(* The inductive invariant: the data of the normal instrumentor, the lists of
   foreign ones and the watches fit together, every operations pointer has an
   owner, and a call knows where it goes. *)
THEOREM ForeignInvariant == ForeignSpec => []FInv
BY ForeignInitInv, ForeignStepInv, PTL DEF ForeignSpec
-----------------------------------------------------------------------------
(* What follows in every reachable state. *)

(* Foreign data, watches and the call keep their types. *)
THEOREM ForeignTypes == ForeignSpec => []ForeignTypeOK
<1>1. ASSUME FInv PROVE ForeignTypeOK
  <2>1. /\ HeapOK(heap) /\ chain \in [Key -> Seq(Foreign)]
        /\ frefs \in [Foreign -> [Key -> Nat]]
    BY <1>1, FInvParts
  <2>2. ASSUME NEW g \in Foreign, NEW id \in DOMAIN fwatch[g]
        PROVE  /\ id \in Id
               /\ fwatch[g][id] \in [data : DOMAIN heap.idata[Bound], tie : Tie, ops_p : Object]
    <3>1. /\ fwatch[g][id].data \in DOMAIN heap.idata[Bound]
          /\ fwatch[g][id] \in WatchData /\ id \in Id
      BY <1>1, ForeignWatchedIn
    <3>. QED  BY <3>1 DEF WatchData
  <2>. QED  BY <1>1, <2>1, <2>2 DEF ForeignTypeOK, FInv, FTyped
<1>. QED  BY <1>1, ForeignInvariant, PTL

(* Foreign data have as many references as watches of their instrumentor use
   them, they are in the list as long as there are any, and normal data have
   those of the objects watched and of the list. *)
THEOREM ForeignCountsAreExact == ForeignSpec => []ForeignRefsExact
<1>1. ASSUME FInv PROVE ForeignRefsExact
  <2>. DEFINE w == watch[Bound]
              u == Count(w)
  <2>0. /\ frefs = Refs(fwatch) /\ FTables(fwatch) /\ FHeap(heap, chain, u)
        /\ FLists(chain, frefs) /\ IsPartial(w, Object, Key) /\ u \in [Key -> Nat]
        /\ \A k \in DOMAIN heap.idata[Bound] : k \in Key
    BY <1>1, FInvParts, BoundIn DEF FInv, FTyped, FCounted
  <2>1. ASSUME NEW g \in Foreign, NEW k \in Key
        PROVE  /\ frefs[g][k] = Cardinality({id \in DOMAIN fwatch[g] : fwatch[g][id].data = k})
               /\ Cardinality({n \in DOMAIN chain[k] : chain[k][n] = g}) =
                    IF frefs[g][k] > 0 THEN 1 ELSE 0
    <3>1. frefs[g][k] = Cardinality(Users(DataOf(fwatch[g]), k))
      BY <2>0 DEF Refs, Count
    <3>2. Users(DataOf(fwatch[g]), k) = {id \in DOMAIN fwatch[g] : fwatch[g][id].data = k}
      BY DEF Users, DataOf
    <3>. DEFINE s == chain[k]
                S == {n \in DOMAIN s : s[n] = g}
    <3>3. IsInjective(s) /\ (g \in ToSet(s) <=> frefs[g][k] > 0)
      BY <2>0 DEF FLists
    <3>. HIDE DEF s
    <3>4. CASE frefs[g][k] > 0
      <4>1. PICK n \in DOMAIN s : s[n] = g
        BY <3>3, <3>4 DEF ToSet
      <4>2. S = {n}
        BY <3>3, <4>1 DEF IsInjective
      <4>3. Cardinality({n}) = 1
        BY FS_Singleton
      <4>. QED  BY <3>1, <3>2, <3>4, <4>2, <4>3 DEF s
    <3>5. CASE ~(frefs[g][k] > 0)
      <4>1. S = {}
        BY <3>3, <3>5 DEF ToSet
      <4>. QED  BY <3>1, <3>2, <3>5, <4>1, FS_EmptySet DEF s
    <3>. QED  BY <3>4, <3>5
  <2>2. ASSUME NEW k \in Key
        PROVE  LET users == Cardinality({x \in DOMAIN watch[Bound] : watch[Bound][x] = k})
               IN  IF k \in DOMAIN heap.idata[Bound]
                   THEN heap.idata[Bound][k].refs = users + Len(chain[k])
                   ELSE users + Len(chain[k]) = 0
    <3>1. u[k] = Cardinality(Users(w, k))
      BY DEF Count
    <3>2. IF k \in DOMAIN heap.idata[Bound]
          THEN heap.idata[Bound][k].refs = u[k] + Len(chain[k])
          ELSE u[k] = 0 /\ chain[k] = <<>>
      BY <2>0 DEF FHeap, CountIs
    <3>3. Len(<<>>) = 0
      OBVIOUS
    <3>. QED  BY <3>1, <3>2, <3>3 DEF Users
  <2>. QED  BY <2>1, <2>2 DEF ForeignRefsExact
<1>. QED  BY <1>1, ForeignInvariant, PTL

(* The last foreign instrumentor in the list that replaces an operation is on
   top, in whatever order they came and left, and a structure that nobody uses
   is as the program left it. *)
THEOREM LastLiesOnTop == ForeignSpec => []LastOnTop
<1>1. ASSUME FInv PROVE LastOnTop
  <2>1. ASSUME NEW k \in DOMAIN heap.idata[Bound], NEW f \in Field
        PROVE  LET orig == ContentAt(k)[f]
                   on   == {n \in DOMAIN chain[k] : Replaces(chain[k][n], f, orig)}
               IN  /\ OrigOperation(heap, Bound, k, f) = orig
                   /\ heap.mem[heap.idata[Bound][k].repl][f] =
                        IF on # {} THEN Intermediate(chain[k][Max(on)], f)
                        ELSE Replaced(Bound, f, orig, orig)
    <3>. DEFINE orig == ContentAt(k)[f]
                s == chain[k]
                on == {n \in DOMAIN s : Replaces(s[n], f, orig)}
                op == heap.mem[Repl(heap, k)][f]
    <3>1. /\ FHeap(heap, chain, Count(watch[Bound])) /\ k \in Key /\ s \in Seq(Foreign)
      BY <1>1, FInvParts, BoundIn
    <3>2. /\ OrigOperation(heap, Bound, k, f) = orig
          /\ Patch(Bound, ContentAt(k))[f] = Replaced(Bound, f, orig, orig)
      BY <3>1, OriginalIs
    <3>3. TopIs(s, f, Replaced(Bound, f, orig, orig), op)
      BY <3>1, <3>2 DEF FHeap, Tops, Ordered
    <3>. HIDE DEF s, op, orig
    <3>4. on = {n \in 1 .. Len(s) : Always(s[n], f)} /\ Len(s) \in Nat
      BY <3>1, ListIs, ForeignReplaces
    <3>. HIDE DEF on
    <3>5. CASE on # {}
      <4>1. Max(on) \in on /\ \A x \in on : x <= Max(on)
        <5>1. on \in SUBSET (0 .. Len(s)) /\ Len(s) \in Nat
          BY <3>4
        <5>. QED  BY <5>1, <3>5, MaxIs
      <4>2. PICK n \in 1 .. Len(s) : LastOf(s, Len(s), f, n) /\ op = Intermediate(s[n], f)
        BY <3>3, <3>4, <3>5 DEF TopIs, TopOf
      <4>3. n = Max(on)
        BY <3>4, <4>1, <4>2 DEF LastOf
      <4>. QED  BY <3>2, <3>5, <4>2, <4>3 DEF op, on, orig, s, Repl
    <3>6. CASE on = {}
      <4>1. op = Replaced(Bound, f, orig, orig)
        BY <3>3, <3>4, <3>6 DEF TopIs, TopOf, LastOf
      <4>. QED  BY <3>2, <3>6, <4>1 DEF op, on, orig, s, Repl
    <3>. QED  BY <3>5, <3>6
  <2>2. \A s \in Ops \ heap.global : heap.mem[s] = Content[s]
    BY <1>1, FInvParts DEF Base, Plain, Struct
  <2>. QED  BY <2>1, <2>2 DEF LastOnTop
<1>. QED  BY <1>1, ForeignInvariant, PTL

(* A call ends in the operation the program gave the object, whatever others
   watch, forget or stop while it goes from one instrumentor to the next. *)
THEOREM CallsReach == ForeignSpec => []CallReaches
<1>1. FInv => CallReaches
  BY DEF FInv
<1>. QED  BY <1>1, ForeignInvariant, PTL

(* The object is watched before its own operation runs, if a foreign
   instrumentor that the call comes through watches its tie. *)
THEOREM ObjectsBoundInTime == ForeignSpec => []BoundInTime
<1>1. ASSUME FInv PROVE BoundInTime
  <2>. SUFFICES ASSUME call # NULL, call.tied, ~Watched(Bound, call.obj)
                PROVE  call.op \in Foreign \X Field
    BY DEF BoundInTime
  <2>1. PICK k \in DOMAIN heap.idata[Bound] : Binding(k)
    BY <1>1 DEF FInv, CallBinds
  <2>2. PICK m \in 1 .. Len(chain[k]) : call.op = Intermediate(chain[k][m], call.field)
    BY <2>1 DEF Binding
  <2>3. chain[k] \in Seq(Foreign)
    BY <1>1, FInvParts, BoundIn
  <2>4. chain[k][m] \in Foreign
    BY <2>2, <2>3, ListIs
  <2>. QED  BY <1>1, <2>2, <2>4, CallIs DEF Intermediate
<1>. QED  BY <1>1, ForeignInvariant, PTL

-----------------------------------------------------------------------------
(* Whose pointers the objects have. *)

(* A watch is that of a field the program asked for under its id. *)
FAimed ==
  \A g \in Foreign : \A id \in DOMAIN fwatch[g] :
    \E w \in Watching : w.id = id /\ w.ops_p = fwatch[g][id].ops_p

FHolds(o) ==
  /\ o \in live /\ field[o] \in Copy => origin[o] # NULL \/ OwnPointer(o)
  /\ OwnPointer(o) => o \notin dangling

FHeld == FAimed /\ \A o \in Object : FHolds(o)

LEMMA KeptIn ==
  FInv => \A o \in Object : \A k : Keeps(o, k) => k \in DOMAIN heap.idata[Bound]
<1>. SUFFICES ASSUME FInv, NEW o \in Object, NEW k, Keeps(o, k)
              PROVE  k \in DOMAIN heap.idata[Bound]
  OBVIOUS
<1>1. CASE o \in DOMAIN watch[Bound] /\ watch[Bound][o] = k
  BY <1>1, FInvParts, WatchedIn DEF FInv, FTyped
<1>2. ASSUME NEW g \in Foreign, NEW id \in DOMAIN fwatch[g], fwatch[g][id].data = k
      PROVE  k \in DOMAIN heap.idata[Bound]
  BY <1>2, ForeignWatchedIn
<1>. QED  BY <1>1, <1>2 DEF Keeps

LEMMA OwnIs ==
  FInv => \A o \in Object :
    OwnPointer(o) <=> field[o] \in Copy /\ \E k : Keeps(o, k) /\ field[o] = Repl(heap, k)
<1>. SUFFICES ASSUME FInv, NEW o \in Object, NEW k
              PROVE  k \in KeptFor(o) <=> Keeps(o, k)
  BY DEF OwnPointer, Repl
<1>. DEFINE Two == {hi \in Foreign \X Id : IsWatched(hi[1], hi[2]) /\ fwatch[hi[1]][hi[2]].ops_p = o}
<1>1. \A g \in Foreign : \A id \in DOMAIN fwatch[g] : id \in Id
  BY ForeignWatchedIn
<1>2. (\E gi \in Two : k = fwatch[gi[1]][gi[2]].data) <=>
        \E g \in Foreign : \E id \in DOMAIN fwatch[g] :
          fwatch[g][id].ops_p = o /\ fwatch[g][id].data = k
  <2>1. ASSUME NEW gi \in Two, k = fwatch[gi[1]][gi[2]].data
        PROVE  \E g \in Foreign : \E id \in DOMAIN fwatch[g] :
                 fwatch[g][id].ops_p = o /\ fwatch[g][id].data = k
    BY <2>1 DEF IsWatched
  <2>2. ASSUME NEW g \in Foreign, NEW id \in DOMAIN fwatch[g],
               fwatch[g][id].ops_p = o, fwatch[g][id].data = k
        PROVE  \E gi \in Two : k = fwatch[gi[1]][gi[2]].data
    <3>1. <<g, id>> \in Two
      BY <1>1, <2>2 DEF IsWatched
    <3>. QED  BY <2>2, <3>1
  <2>. QED  BY <2>1, <2>2
<1>. QED  BY <1>2 DEF KeptFor, Keeps

LEMMA KeptInNext ==
  FInv' => \A o \in Object : \A k : Keeps(o, k)' => k \in DOMAIN heap'.idata[Bound]
<1>1. (FInv => \A o \in Object : \A k : Keeps(o, k) => k \in DOMAIN heap.idata[Bound])'
  BY KeptIn, PTL
<1>. QED  BY <1>1

LEMMA OwnIsNext ==
  FInv' => \A o \in Object :
    OwnPointer(o)' <=> field'[o] \in Copy /\ \E k : Keeps(o, k)' /\ field'[o] = Repl(heap', k)
<1>1. (FInv => \A o \in Object :
        OwnPointer(o) <=> field[o] \in Copy /\ \E k : Keeps(o, k) /\ field[o] = Repl(heap, k))'
  BY OwnIs, PTL
<1>. QED  BY <1>1 DEF Repl

(* A copy that a watch of the object keeps is there. *)
LEMMA OwnThere ==
  ASSUME FInv', Base(heap', {}), NEW o \in Object, OwnPointer(o)'
  PROVE  field'[o] \in Copy /\ field'[o] \in DOMAIN heap'.mem
<1>1. PICK k : Keeps(o, k)' /\ field'[o] = Repl(heap', k) /\ field'[o] \in Copy
  BY OwnIsNext
<1>2. k \in DOMAIN heap'.idata[Bound]
  BY <1>1, KeptInNext
<1>. QED  BY <1>1, <1>2, ReplThere

LEMMA HoldsNext ==
  ASSUME FInv, FInv', DataKept, FreedCopies, NEW o \in Object, FHolds(o),
         Aside(o) \/ Touched(o), origin'[o] = origin[o] \/ field'[o] \notin Copy
  PROVE  FHolds(o)'
<1>0. Base(heap', {}) /\ Carried(heap, heap')
  BY NextBase DEF DataKept
<1>1. CASE field'[o] \notin Copy
  BY <1>1, OwnIsNext DEF FHolds
<1>2. CASE field'[o] \in Copy /\ Aside(o)
  <2>1. OwnPointer(o)' => OwnPointer(o)
    <3>. SUFFICES ASSUME OwnPointer(o)'
                  PROVE  OwnPointer(o)
      OBVIOUS
    <3>1. PICK k : Keeps(o, k)' /\ field'[o] = Repl(heap', k)
      BY OwnIsNext
    <3>2. Keeps(o, k) /\ k \in DOMAIN heap'.idata[Bound]
      BY <1>2, <3>1, KeptInNext DEF Aside
    <3>3. Repl(heap, k) = Repl(heap', k)
      BY <1>0, <3>2, KeptIn DEF Carried
    <3>. QED  BY <1>2, <3>1, <3>2, <3>3, OwnIs DEF Aside
  <2>2. o \in live' /\ OwnPointer(o) => OwnPointer(o)'
    <3>. SUFFICES ASSUME o \in live', OwnPointer(o)
                  PROVE  OwnPointer(o)'
      OBVIOUS
    <3>1. PICK k : Keeps(o, k) /\ field[o] = Repl(heap, k) /\ field[o] \in Copy
      BY OwnIs
    <3>2. Keeps(o, k)'
      BY <1>2, <3>1 DEF Aside
    <3>3. k \in DOMAIN heap.idata[Bound] /\ k \in DOMAIN heap'.idata[Bound]
      BY <3>1, <3>2, KeptIn, KeptInNext
    <3>4. Repl(heap', k) = Repl(heap, k)
      BY <1>0, <3>3 DEF Carried
    <3>. QED  BY <1>2, <3>1, <3>2, <3>4, OwnIsNext DEF Aside
  <2>3. OwnPointer(o)' => o \notin dangling'
    BY <1>0, <2>1, OwnThere, FreedIs DEF FHolds
  <2>. QED  BY <1>2, <2>2, <2>3 DEF Aside, FHolds
<1>3. CASE field'[o] \in Copy /\ Touched(o)
  <2>1. PICK h, k : /\ Carried(h, heap') /\ k \in DOMAIN h.idata[Bound]
                    /\ Keeps(o, k)' /\ field'[o] = Repl(h, k) /\ o \notin dangling
    BY <1>3 DEF Touched
  <2>2. Repl(heap', k) = Repl(h, k)
    BY <2>1, KeptInNext DEF Carried
  <2>3. OwnPointer(o)'
    BY <1>3, <2>1, <2>2, OwnIsNext
  <2>4. o \notin dangling'
    BY <1>0, <2>1, <2>3, OwnThere, FreedIs
  <2>. QED  BY <2>3, <2>4 DEF FHolds
<1>. QED  BY <1>1, <1>2, <1>3

LEMMA HeldNext ==
  ASSUME FInv, FInv', DataKept, FreedCopies, FHeld, FAimed', Fit, origin' = origin
  PROVE  FHeld'
<1>1. \A o \in Object : FHolds(o)'
  BY HoldsNext DEF FHeld, Fit
<1>. QED  BY <1>1 DEF FHeld

(* Nothing but the heap, the call or what is lost changes. *)
LEMMA HeldSame ==
  ASSUME FInv, FInv', DataKept, FreedCopies, FHeld, UNCHANGED <<watch, fwatch, field, origin>>,
         live' \subseteq live
  PROVE  FHeld'
<1>1. Fit
  BY StaysAside DEF Stays, Fit
<1>2. FAimed'
  BY DEF FHeld, FAimed
<1>. QED  BY <1>1, <1>2, HeldNext

LEMMA HeldStays ==
  ASSUME FInv, FInv', FreedCopies, FHeld, UNCHANGED <<vars, foreignVars, origin>>
  PROVE  FHeld'
<1>1. UNCHANGED <<heap, watch, foreignVars, fwatch, field, live>>
  BY DEF vars, foreignVars
<1>. QED  BY <1>1, DataSame, HeldSame

LEMMA ForeignWatchHeld ==
  ASSUME FInv, FInv', FHeld, FreedCopies, NEW g \in Foreign, NEW w \in Watching,
         ForeignWatch(g, w)
  PROVE  FHeld'
<1>. DEFINE p == w.ops_p
<1>1. p \in Object \ dangling /\ Usable(p)
  BY BoundAssumption DEF ForeignWatch, Usable
<1>2. w.id \in DOMAIN fwatch[g] => fwatch[g][w.id].ops_p = p
  BY BoundAssumption DEF FHeld, FAimed
<1>3. FTables(fwatch) /\ fwatch = [j \in Foreign |-> fwatch[j]]
  BY DEF FInv, FTyped, FTables
<1>4. CASE ForeignWatchUpdate(g, w)
  <2>. DEFINE k == fwatch[g][w.id].data
  <2>1. /\ UNCHANGED <<heap, watch, foreignVars, live, origin, fwatch>>
        /\ w.id \in DOMAIN fwatch[g] /\ SetPointer(p, Repl(heap, k))
    BY <1>4 DEF ForeignWatchUpdate, IsWatched, Repl, foreignVars
  <2>2. k \in DOMAIN heap.idata[Bound]
    BY <2>1, ForeignWatchedIn
  <2>3. PICK l : l = k
    OBVIOUS
  <2>4. Keeps(p, l)'
    BY <1>2, <2>1, <2>3 DEF Keeps
  <2>. HIDE DEF k
  <2>5. DataKept /\ Carried(heap, heap')
    BY <2>1, DataSame DEF DataKept
  <2>6. Repl(heap, k) \in Ops \cup Copy \cup {NULL}
    BY <2>2, FInvParts, BoundIn
  <2>7. field'[p] = Repl(heap, k) /\ \A o \in Object \ {p} : field'[o] = field[o]
    BY <1>1, <2>1, <2>6, PointerSet
  <2>8. Touched(p)
    BY <1>1, <2>2, <2>3, <2>4, <2>5, <2>7 DEF Touched
  <2>9. Fit
    BY <2>1, <2>7, <2>8, StaysAside DEF Fit, Stays
  <2>10. FAimed'
    BY <2>1 DEF FHeld, FAimed
  <2>. QED  BY <2>1, <2>5, <2>9, <2>10, HeldNext
<1>5. CASE ForeignWatchMoved(g, w)
  <2>1. PICK h, k : /\ Carried(h, heap') /\ k \in DOMAIN h.idata[Bound]
                    /\ field'[p] = Repl(h, k) /\ fwatch' = MovedWatch(fwatch, g, w.id, k)
                    /\ \A o \in Object \ {p} : field'[o] = field[o]
                    /\ DataKept
    BY <1>1, <1>5, ForeignWatchMovedInv
  <2>2. w.id \in DOMAIN fwatch[g] /\ UNCHANGED <<watch, live, origin>>
    BY <1>5 DEF ForeignWatchMoved, IsWatched
  <2>3. \A j \in Foreign : \A id \in DOMAIN fwatch[j] : fwatch[j][id] \in WatchData
    BY <1>3 DEF FTables, IsPartial
  <2>4. \A j \in Foreign :
          /\ DOMAIN fwatch'[j] = DOMAIN fwatch[j]
          /\ \A id \in DOMAIN fwatch[j] :
               /\ fwatch'[j][id].ops_p = fwatch[j][id].ops_p
               /\ <<j, id>> # <<g, w.id>> => fwatch'[j][id].data = fwatch[j][id].data
    BY <1>3, <2>1, <2>2, <2>3 DEF MovedWatch, WatchData
  <2>5. fwatch'[g][w.id].data = k
    BY <1>3, <2>1, <2>2, <2>3 DEF MovedWatch, WatchData
  <2>6. Touched(p)
    <3>1. Keeps(p, k)'
      BY <1>2, <2>2, <2>4, <2>5 DEF Keeps
    <3>. QED  BY <1>1, <2>1, <3>1 DEF Touched
  <2>7. ASSUME NEW o \in Object \ {p} PROVE Aside(o)
    <3>1. ASSUME NEW l
          PROVE  Keeps(o, l)' <=> Keeps(o, l)
      <4>1. (\E j \in Foreign : \E id \in DOMAIN fwatch'[j] :
               fwatch'[j][id].ops_p = o /\ fwatch'[j][id].data = l) <=>
            \E j \in Foreign : \E id \in DOMAIN fwatch[j] :
               fwatch[j][id].ops_p = o /\ fwatch[j][id].data = l
        BY <1>2, <2>2, <2>4
      <4>. QED  BY <2>2, <4>1 DEF Keeps
    <3>. QED  BY <2>1, <2>2, <3>1 DEF Aside
  <2>8. Fit
    BY <2>6, <2>7 DEF Fit
  <2>9. FAimed'
    BY <2>4 DEF FHeld, FAimed
  <2>. QED  BY <2>1, <2>2, <2>8, <2>9, HeldNext
<1>6. CASE ForeignWatchNew(g, w)
  <2>1. PICK h, k : /\ Carried(h, heap') /\ k \in DOMAIN h.idata[Bound]
                    /\ field'[p] = Repl(h, k) /\ SetForeignWatch(g, w, k)
                    /\ \A o \in Object \ {p} : field'[o] = field[o]
                    /\ DataKept
    BY <1>1, <1>6, ForeignWatchNewInv
  <2>2. w.id \notin DOMAIN fwatch[g] /\ UNCHANGED <<watch, live, origin>>
    BY <1>6 DEF ForeignWatchNew, IsWatched
  <2>. DEFINE v == [data |-> k, tie |-> w.tie, ops_p |-> p]
  <2>3. /\ fwatch'[g] = Put(fwatch[g], w.id, v)
        /\ \A j \in Foreign : j # g => fwatch'[j] = fwatch[j]
    BY <1>3, <2>1 DEF SetForeignWatch
  <2>4. /\ DOMAIN fwatch'[g] = DOMAIN fwatch[g] \cup {w.id}
        /\ fwatch'[g][w.id].data = k /\ fwatch'[g][w.id].ops_p = p
        /\ \A id \in DOMAIN fwatch[g] : fwatch'[g][id] = fwatch[g][id]
    BY <2>2, <2>3 DEF Put
  <2>. HIDE DEF v
  <2>5. Touched(p)
    <3>1. Keeps(p, k)'
      BY <2>4 DEF Keeps
    <3>. QED  BY <1>1, <2>1, <3>1 DEF Touched
  <2>6. ASSUME NEW o \in Object \ {p} PROVE Aside(o)
    <3>1. ASSUME NEW l
          PROVE  Keeps(o, l)' <=> Keeps(o, l)
      <4>1. ASSUME NEW j \in Foreign
            PROVE  (\E id \in DOMAIN fwatch'[j] :
                      fwatch'[j][id].ops_p = o /\ fwatch'[j][id].data = l) <=>
                   \E id \in DOMAIN fwatch[j] :
                      fwatch[j][id].ops_p = o /\ fwatch[j][id].data = l
        <5>1. CASE j = g
          BY <2>4, <5>1
        <5>2. CASE j # g
          BY <2>3, <5>2
        <5>. QED  BY <5>1, <5>2
      <4>. QED  BY <2>2, <4>1 DEF Keeps
    <3>. QED  BY <2>1, <2>2, <3>1 DEF Aside
  <2>7. Fit
    BY <2>5, <2>6 DEF Fit
  <2>8. FAimed'
    <3>1. ASSUME NEW j \in Foreign, NEW id \in DOMAIN fwatch'[j]
          PROVE  \E x \in Watching : x.id = id /\ x.ops_p = fwatch'[j][id].ops_p
      <4>1. CASE j = g /\ id = w.id
        BY <2>4, <4>1
      <4>2. CASE ~(j = g /\ id = w.id)
        <5>1. id \in DOMAIN fwatch[j] /\ fwatch'[j][id] = fwatch[j][id]
          BY <2>3, <2>4, <4>2
        <5>. QED  BY <5>1 DEF FHeld, FAimed
      <4>. QED  BY <4>1, <4>2
    <3>. QED  BY <3>1 DEF FAimed
  <2>. QED  BY <2>1, <2>2, <2>7, <2>8, HeldNext
<1>7. ASSUME UNCHANGED <<watch, field, live, fwatch, origin>>,
             NEW c, SetData(c), FData(c, Count(watch[Bound])),
             Grown(heap, c.heap), c.refs = frefs
      PROVE  FHeld'
  <2>1. heap' = c.heap /\ Carried(heap, heap')
    BY <1>7, GrownOnly DEF SetData
  <2>2. FCounted'
    BY <1>7, DataSet DEF FInv, FCounted
  <2>3. DataKept
    BY <1>7, <2>1, <2>2 DEF DataKept, FInv, FTyped
  <2>. QED  BY <1>7, <2>3, HeldSame
<1>8. Known(Data.heap, field[p])
  BY <1>1, FInvParts, UsableKnown
<1>9. CASE ForeignWatchMovedFails(g, w)
  <2>1. PICK c \in ForeignGetFails(Data, g, field[p]) : SetData(c)
    BY <1>9 DEF ForeignWatchMovedFails
  <2>2. UNCHANGED <<watch, field, live, fwatch, origin>>
    BY <1>9 DEF ForeignWatchMovedFails
  <2>. HIDE DEF p
  <2>3. FData(c, Count(watch[Bound])) /\ Grown(heap, c.heap) /\ c.refs = frefs
    BY <1>8, <2>1, FInvParts, ForeignGetFailsIs
  <2>. QED  BY <1>7, <2>1, <2>2, <2>3
<1>10. CASE ForeignWatchNewFails(g, w)
  <2>. DEFINE a == field[p]
              u == Count(watch[Bound])
  <2>1. PICK c \in ForeignGetFails(Data, g, a) \cup
                   {ForeignUnref(d.data, g, d.key) : d \in ForeignGet(Data, g, a)} : SetData(c)
    BY <1>10 DEF ForeignWatchNewFails
  <2>2. UNCHANGED <<watch, field, live, fwatch, origin>>
    BY <1>10 DEF ForeignWatchNewFails
  <2>3. Known(Data.heap, a) /\ FData(Data, u)
    BY <1>8, FInvParts
  <2>. HIDE DEF a, u
  <2>4. FData(c, u) /\ Grown(Data.heap, c.heap) /\ c.refs = Data.refs
    <3>1. CASE c \in ForeignGetFails(Data, g, a)
      BY <2>3, <3>1, ForeignGetFailsIs
    <3>2. CASE c \in {ForeignUnref(d.data, g, d.key) : d \in ForeignGet(Data, g, a)}
      <4>1. PICK d \in ForeignGet(Data, g, a) : c = ForeignUnref(d.data, g, d.key)
        BY <3>2
      <4>. QED  BY <2>3, <4>1, GetDropIs
    <3>. QED  BY <2>1, <3>1, <3>2
  <2>5. FData(c, Count(watch[Bound])) /\ Grown(heap, c.heap) /\ c.refs = frefs
    BY <2>4, FInvParts DEF u
  <2>. QED  BY <1>7, <2>1, <2>2, <2>5
<1>. QED  BY <1>4, <1>5, <1>6, <1>9, <1>10 DEF ForeignWatch

(* The watches that are left when one is dropped. *)
LEMMA DroppedKeeps ==
  ASSUME FInv, FHeld, NEW g \in Foreign, NEW id \in DOMAIN fwatch[g],
         DropForeignWatch(g, id), watch' = watch
  PROVE  /\ FAimed'
         /\ \A o : \A k : Keeps(o, k)' => Keeps(o, k)
         /\ \A o : o # fwatch[g][id].ops_p => \A k : Keeps(o, k) => Keeps(o, k)'
<1>1. fwatch = [j \in Foreign |-> fwatch[j]]
  BY DEF FInv, FTyped, FTables
<1>2. /\ fwatch'[g] = Drop(fwatch[g], {id})
      /\ \A j \in Foreign : j # g => fwatch'[j] = fwatch[j]
  BY <1>1 DEF DropForeignWatch
<1>3. \A j \in Foreign : \A i \in DOMAIN fwatch'[j] :
        i \in DOMAIN fwatch[j] /\ fwatch'[j][i] = fwatch[j][i]
  BY <1>2 DEF Drop
<1>4. \A j \in Foreign : \A i \in DOMAIN fwatch[j] :
        <<j, i>> # <<g, id>> => i \in DOMAIN fwatch'[j] /\ fwatch'[j][i] = fwatch[j][i]
  BY <1>2 DEF Drop
<1>5. FAimed'
  BY <1>3 DEF FHeld, FAimed
<1>6. \A o : \A k : Keeps(o, k)' => Keeps(o, k)
  BY <1>3 DEF Keeps
<1>7. ASSUME NEW o, o # fwatch[g][id].ops_p, NEW k, Keeps(o, k)
      PROVE  Keeps(o, k)'
  <2>1. CASE o \in DOMAIN watch[Bound] /\ watch[Bound][o] = k
    BY <2>1 DEF Keeps
  <2>2. ASSUME NEW j \in Foreign, NEW i \in DOMAIN fwatch[j],
               fwatch[j][i].ops_p = o, fwatch[j][i].data = k
        PROVE  Keeps(o, k)'
    BY <1>4, <1>7, <2>2 DEF Keeps
  <2>. QED  BY <1>7, <2>1, <2>2 DEF Keeps
<1>. QED  BY <1>5, <1>6, <1>7

LEMMA ForeignForgetHeld ==
  ASSUME FInv, FInv', FHeld, FreedCopies, NEW g \in Foreign, NEW id \in Id,
         ForeignForget(g, id)
  PROVE  FHeld'
<1>. DEFINE p == fwatch[g][id].ops_p
            k == fwatch[g][id].data
<1>1. /\ id \in DOMAIN fwatch[g] /\ SetPointer(p, k) /\ DropForeignWatch(g, id)
      /\ SetData(ForeignUnref(Data, g, k)) /\ UNCHANGED <<watch, live, origin>>
  BY DEF ForeignForget, IsWatched
<1>2. DataKept /\ p \in Object /\ k \in DOMAIN heap.idata[Bound]
  BY <1>1, ForeignDropped, ForeignWatchedIn DEF WatchData
<1>3. /\ FAimed'
      /\ \A o : \A l : Keeps(o, l)' => Keeps(o, l)
      /\ \A o : o # p => \A l : Keeps(o, l) => Keeps(o, l)'
  BY <1>1, DroppedKeeps
<1>. HIDE DEF p, k
<1>4. k \in Ops \cup Copy \cup {NULL} /\ k \notin Copy
  BY <1>2, FInvParts, BoundIn
<1>5. field'[p] = k /\ \A o \in Object \ {p} : field'[o] = field[o]
  BY <1>1, <1>2, <1>4, PointerSet
<1>6. Fit
  BY <1>1, <1>3, <1>4, <1>5 DEF Fit, Aside, Touched
<1>. QED  BY <1>1, <1>2, <1>3, <1>6, HeldNext

LEMMA ForeignForgetNorestoreHeld ==
  ASSUME FInv, FInv', FHeld, FreedCopies, NEW g \in Foreign, NEW id \in Id,
         ForeignForgetNorestore(g, id)
  PROVE  FHeld'
<1>. DEFINE p == fwatch[g][id].ops_p
<1>1. /\ id \in DOMAIN fwatch[g] /\ DropForeignWatch(g, id) /\ live' = live \ {p}
      /\ SetData(ForeignUnref(Data, g, fwatch[g][id].data))
      /\ UNCHANGED <<watch, field, origin>>
  BY DEF ForeignForgetNorestore, IsWatched
<1>2. DataKept
  BY <1>1, ForeignDropped
<1>3. /\ FAimed'
      /\ \A o : \A l : Keeps(o, l)' => Keeps(o, l)
      /\ \A o : o # p => \A l : Keeps(o, l) => Keeps(o, l)'
  BY <1>1, DroppedKeeps
<1>. HIDE DEF p
<1>4. Fit
  BY <1>1, <1>3 DEF Fit, Aside
<1>. QED  BY <1>1, <1>2, <1>3, <1>4, HeldNext

LEMMA StopHeld ==
  ASSUME FInv, FInv', FHeld, FreedCopies, Stop
  PROVE  FHeld'
<1>1. /\ watch' = [watch EXCEPT ![Bound] = Nothing] /\ fwatch' = [g \in Foreign |-> Nothing]
      /\ live' = {x \in live : x \in Object => ~OwnPointer(x)}
      /\ UNCHANGED <<field, origin>>
  BY DEF Stop
<1>2. DOMAIN watch'[Bound] = {} /\ \A g \in Foreign : DOMAIN fwatch'[g] = {}
  BY <1>1, BoundIs DEF FInv, FTyped, Nothing
<1>3. \A o : \A k : ~Keeps(o, k)'
  BY <1>2 DEF Keeps
<1>4. Fit
  <2>1. ASSUME NEW o \in Object PROVE Aside(o)
    BY <1>1, <1>3, OwnIs DEF Aside
  <2>. QED  BY <2>1 DEF Fit
<1>5. FAimed'
  BY <1>2 DEF FAimed
<1>. QED  BY <1>1, <1>4, <1>5, StopData, HeldNext

LEMMA NormalCallHeld ==
  ASSUME FInv, FInv', FHeld, FreedCopies, NormalCall
  PROVE  FHeld'
<1>1. UNCHANGED foreignVars /\ origin' = origin /\ fwatch' = fwatch
  BY DEF NormalCall, foreignVars
<1>2. DataKept /\ Fit
  <2>1. PICK x \in Object : \/ Usable(x) /\ (Watch(Bound, x) \/ Forget(Bound, x))
                            \/ ForgetNorestore(Bound, x)
    BY DEF NormalCall
  <2>2. CASE Usable(x) /\ (Watch(Bound, x) \/ Forget(Bound, x))
    BY <1>1, <2>2, NormalWatchIs, NormalForgetIs DEF Usable
  <2>3. CASE ForgetNorestore(Bound, x)
    <3>1. /\ x \in DOMAIN watch[Bound] /\ heap' = Unref(heap, Bound, watch[Bound][x])
          /\ DropWatch(Bound, x) /\ field' = field /\ live' = live \ {x}
      BY <2>3, BoundIs DEF ForgetNorestore, Watched
    <3>2. DataKept /\ \A o \in Object \ {x} : Stays(o)
      BY <1>1, <3>1, NormalDropped
    <3>3. x \notin DOMAIN watch'[Bound] /\ x \notin live'
      BY <3>1, BoundIs DEF DropWatch, Drop, FInv, FTyped
    <3>4. Aside(x)
      BY <1>1, <3>1, <3>3 DEF Aside, Keeps
    <3>5. \A o \in Object \ {x} : Aside(o)
      BY <1>1, <3>1, <3>2, StaysAside
    <3>. QED  BY <3>2, <3>4, <3>5 DEF Fit
  <2>. QED  BY <2>1, <2>2, <2>3
<1>3. FAimed'
  BY <1>1 DEF FHeld, FAimed
<1>. QED  BY <1>1, <1>2, <1>3, HeldNext

LEMMA BindHeld ==
  ASSUME FInv, FInv', FHeld, FreedCopies, NEW g \in Foreign, Bind(g)
  PROVE  FHeld'
<1>. DEFINE o == call.obj
<1>0. call # NULL
  BY DEF Bind
<1>1. CASE o \in dangling
  BY <1>1, HeldStays DEF Bind, Crash
<1>. SUFFICES ASSUME o \notin dangling
              PROVE  FHeld'
  BY <1>1
<1>2. o \in Object \ dangling
  BY <1>0, CallIs
<1>3. CASE BindTied(g)
  <2>1. UNCHANGED <<foreignVars, origin>> /\ (Watch(Bound, o) \/ WatchRefused(o))
    BY <1>3 DEF BindTied
  <2>2. CASE Watch(Bound, o)
    <3>1. fwatch' = fwatch
      BY <2>1 DEF foreignVars
    <3>2. DataKept /\ Fit
      BY <1>2, <2>1, <2>2, NormalWatchIs
    <3>3. FAimed'
      BY <3>1 DEF FHeld, FAimed
    <3>. QED  BY <2>1, <3>2, <3>3, HeldNext
  <2>3. CASE WatchRefused(o)
    BY <2>1, <2>3, HeldStays DEF WatchRefused
  <2>. QED  BY <2>1, <2>2, <2>3
<1>4. CASE BindWatched(g)
  <2>. DEFINE k == watch[Bound][o]
  <2>1. /\ o \in DOMAIN watch[Bound] /\ SetPointer(o, Repl(heap, k))
        /\ UNCHANGED <<heap, watch, live, foreignVars, origin, fwatch>>
    BY <1>4 DEF BindWatched, Watched, Repl, foreignVars
  <2>2. k \in DOMAIN heap.idata[Bound]
    BY <2>1, FInvParts, WatchedIn DEF FInv, FTyped
  <2>3. PICK l, q : l = k /\ q = o
    OBVIOUS
  <2>4. Keeps(q, l)'
    BY <2>1, <2>3 DEF Keeps
  <2>. HIDE DEF k, o
  <2>5. DataKept /\ Carried(heap, heap')
    BY <2>1, DataSame DEF DataKept
  <2>6. Repl(heap, k) \in Ops \cup Copy \cup {NULL}
    BY <2>2, FInvParts, BoundIn
  <2>7. field'[q] = Repl(heap, l) /\ \A x \in Object \ {q} : field'[x] = field[x]
    BY <1>2, <2>1, <2>3, <2>6, PointerSet
  <2>8. Touched(q)
    BY <1>2, <2>2, <2>3, <2>4, <2>5, <2>7 DEF Touched
  <2>9. Fit
    BY <2>1, <2>7, <2>8, StaysAside DEF Fit, Stays
  <2>10. FAimed'
    BY <2>1 DEF FHeld, FAimed
  <2>. QED  BY <2>1, <2>5, <2>9, <2>10, HeldNext
<1>5. CASE BindChain(g) \/ BindUnknown(g)
  BY <1>5, HeldStays DEF BindChain, BindUnknown
<1>6. CASE BindRestore(g)
  <2>1. /\ field[o] \in DOMAIN heap.table[Bound]
        /\ SetPointer(o, heap.table[Bound][field[o]])
        /\ UNCHANGED <<heap, watch, live, foreignVars, origin, fwatch>>
    BY <1>6 DEF BindRestore, foreignVars
  <2>2. PICK k \in DOMAIN heap.idata[Bound] : k = heap.table[Bound][field[o]]
    BY <2>1, FInvParts, InTable
  <2>3. k \notin Copy /\ k \in Ops \cup Copy \cup {NULL}
    BY <2>2, FInvParts, BoundIn
  <2>4. PICK q : q = o
    OBVIOUS
  <2>5. field'[q] = k /\ \A x \in Object \ {q} : field'[x] = field[x]
    BY <1>2, <2>1, <2>2, <2>3, <2>4, PointerSet
  <2>6. Fit
    BY <2>1, <2>3, <2>5, StaysAside DEF Fit, Stays, Touched
  <2>7. FAimed'
    BY <2>1 DEF FHeld, FAimed
  <2>. QED  BY <2>1, <2>6, <2>7, DataSame, HeldNext
<1>. QED  BY <1>3, <1>4, <1>5, <1>6 DEF Bind

LEMMA ForeignProgramHeld ==
  ASSUME FInv, FInv', FHeld, FreedCopies, ForeignProgram
  PROVE  FHeld'
<1>1. /\ UNCHANGED <<heap, watch, foreignVars, fwatch>> /\ DataKept
  <2>1. UNCHANGED <<heap, watch, foreignVars>>
    BY DEF ForeignProgram, ProgramCreate, ProgramSetOps, ProgramFree
  <2>. QED  BY <2>1, DataSame DEF foreignVars
<1>2. FAimed' /\ Base(heap', {})
  BY <1>1, NextBase DEF FHeld, FAimed
<1>3. \A x : \A k : Keeps(x, k)' <=> Keeps(x, k)
  BY <1>1 DEF Keeps
<1>4. ASSUME NEW o \in Object, NEW p \in Factory, ProgramCreate(o, p)
      PROVE  FHeld'
  <2>1. /\ p \in Object \ dangling /\ SetPointer(o, field[p])
        /\ origin' = [origin EXCEPT ![o] = p] /\ live' = live \cup {o}
    BY <1>4, BoundAssumption DEF ProgramCreate, Usable
  <2>2. origin'[o] # NULL /\ \A q \in Object \ {o} : origin'[q] = origin[q]
    BY <2>1, BoundAssumption, AddressAssumption DEF FInv, FTyped
  <2>3. field'[o] = field[p] /\ \A q \in Object \ {o} : field'[q] = field[q]
    BY <2>1, PointerSet DEF FInv, FTyped
  <2>4. FHolds(o)'
    <3>. SUFFICES ASSUME OwnPointer(o)', o \in dangling'
                  PROVE  FALSE
      BY <2>2 DEF FHolds
    <3>1. field'[o] \in Copy /\ field'[o] \in DOMAIN heap'.mem
      BY <1>2, OwnThere
    <3>2. o \in dangling /\ field'[o] = field[o]
      BY <3>1, FreedIs
    <3>3. OwnPointer(o)
      BY <1>1, <1>3, <3>2, OwnIs, OwnIsNext
    <3>. QED  BY <3>2, <3>3 DEF FHeld, FHolds
  <2>5. ASSUME NEW q \in Object \ {o} PROVE FHolds(q)'
    <3>1. Aside(q)
      BY <1>3, <2>1, <2>3 DEF Aside
    <3>. QED  BY <1>1, <2>2, <3>1, HoldsNext DEF FHeld
  <2>. QED  BY <1>2, <2>4, <2>5 DEF FHeld
<1>5. ASSUME NEW o \in Object, NEW a \in Given, ProgramSetOps(o, a),
             origin' = [origin EXCEPT ![o] = NULL]
      PROVE  FHeld'
  <2>1. /\ SetPointer(o, a) /\ live' = live \cup {o} /\ a \in Ops \cup {NULL} /\ a \notin Copy
    BY <1>5, ContentAssumption, AddressAssumption DEF ProgramSetOps, Struct
  <2>2. \A q \in Object \ {o} : origin'[q] = origin[q]
    BY <1>5 DEF FInv, FTyped
  <2>3. field'[o] = a /\ \A q \in Object \ {o} : field'[q] = field[q]
    BY <2>1, PointerSet
  <2>4. FHolds(o)'
    BY <1>1, <2>1, <2>3, HoldsNext DEF Touched, FHeld
  <2>5. ASSUME NEW q \in Object \ {o} PROVE FHolds(q)'
    <3>1. Aside(q)
      BY <1>3, <2>1, <2>3 DEF Aside
    <3>. QED  BY <1>1, <2>2, <3>1, HoldsNext DEF FHeld
  <2>. QED  BY <1>2, <2>4, <2>5 DEF FHeld
<1>6. ASSUME NEW o \in Object, ProgramFree(o), origin' = origin
      PROVE  FHeld'
  <2>1. UNCHANGED <<watch, fwatch, field, origin>> /\ live' \subseteq live
    BY <1>1, <1>6 DEF ProgramFree
  <2>. QED  BY <1>1, <2>1, HeldSame
<1>. QED  BY <1>4, <1>5, <1>6 DEF ForeignProgram

LEMMA ForeignInitHeld == ForeignInit => FHeld
<1>. SUFFICES ASSUME ForeignInit
              PROVE  FHeld
  OBVIOUS
<1>1. /\ fwatch = [g \in Foreign |-> Nothing] /\ field \in [Object -> Given]
  BY DEF ForeignInit, Init
<1>2. FAimed
  BY <1>1 DEF FAimed, Nothing
<1>3. \A o \in Object : field[o] \notin Copy
  BY <1>1, ContentAssumption, AddressAssumption DEF Struct
<1>. QED  BY <1>2, <1>3 DEF FHeld, FHolds, OwnPointer

LEMMA ForeignStepHeld ==
  ASSUME FInv, FInv', FHeld, [ForeignNext]_fvars
  PROVE  FHeld'
<1>1. CASE UNCHANGED fvars
  <2>1. UNCHANGED <<heap, watch, field, live, fwatch, origin, dangling>>
    BY <1>1 DEF fvars, vars, foreignVars
  <2>. QED  BY <2>1 DEF FHeld, FAimed, FHolds, OwnPointer, KeptFor, IsWatched
<1>. SUFFICES ASSUME ForeignNext
              PROVE  FHeld'
  BY <1>1
<1>2. FreedCopies
  BY DEF ForeignNext
<1>3. ASSUME NEW g \in Foreign, NEW w \in Watching, ForeignWatch(g, w) PROVE FHeld'
  BY <1>2, <1>3, ForeignWatchHeld
<1>4. ASSUME NEW g \in Foreign, NEW id \in Id,
             ForeignForget(g, id) \/ ForeignForgetNorestore(g, id)
      PROVE  FHeld'
  BY <1>2, <1>4, ForeignForgetHeld, ForeignForgetNorestoreHeld
<1>5. ASSUME NEW g \in Foreign, Bind(g) PROVE FHeld'
  BY <1>2, <1>5, BindHeld
<1>6. CASE Stop
  BY <1>2, <1>6, StopHeld
<1>7. CASE CallNormal \/ EndCall \/ \E o \in Object, f \in Field : BeginCall(o, f)
  BY <1>2, <1>7, HeldStays DEF CallNormal, EndCall, BeginCall, Crash
<1>8. CASE NormalCall
  BY <1>2, <1>8, NormalCallHeld
<1>9. CASE ForeignProgram
  BY <1>2, <1>9, ForeignProgramHeld
<1>. QED  BY <1>3, <1>4, <1>5, <1>6, <1>7, <1>8, <1>9 DEF ForeignNext

(* A pointer of the library is in a live object only while a watch of this
   object keeps the data it is of, unless the object was created with it; then
   alone may it be left to freed memory. *)
THEOREM PointersAreHeld == ForeignSpec => []PointersHeld
<1>1. ForeignInit => FHeld
  BY ForeignInitHeld
<1>2. FInv /\ FInv' /\ FHeld /\ [ForeignNext]_fvars => FHeld'
  BY ForeignStepHeld
<1>3. ASSUME FInv, FHeld PROVE PointersHeld
  <2>. SUFFICES ASSUME NEW o \in Object \cap live, field[o] \in Copy,
                       ~(o \notin dangling /\ OwnPointer(o)),
                       ~(origin[o] # NULL /\ o \in dangling)
                PROVE  /\ origin[o] # NULL
                       /\ \E k \in DOMAIN heap.idata[Bound] :
                            field[o] = heap.idata[Bound][k].repl /\ (k = prog[o] \/ o \in lost)
    BY DEF PointersHeld
  <2>0. FOwned(o) /\ FHolds(o) /\ Base(heap, {})
    BY <1>3, FInvParts DEF FInv, FPointers, FHeld
  <2>1. origin[o] # NULL /\ o \notin dangling
    BY <2>0 DEF FHolds
  <2>2. field[o] \in DOMAIN heap.table[Bound]
    BY <1>3, <2>1, UsableKnown
  <2>3. PICK k \in DOMAIN heap.idata[Bound] : MyOperations(heap, Bound, k, field[o])
    BY <1>3, <2>2, FInvParts, InTable
  <2>4. field[o] = Repl(heap, k)
    BY <2>0, <2>3, BoundIn
  <2>5. o \in lost \/ prog[o] = k
    <3>1. Grown(heap, heap)
      BY DEF Grown
    <3>. QED  BY <1>3, <2>0, <2>1, <2>3, <3>1, ProgramKnows
  <2>. QED  BY <2>1, <2>4, <2>5 DEF Repl
<1>. QED  BY <1>1, <1>2, <1>3, ForeignInvariant, PTL DEF ForeignSpec

(* The assertions in bind are never violated. *)
THEOREM NoBugIsReached == ForeignSpec => []NoBug
<1>1. FInv => NoBug
  BY DEF FInv, FTyped, NoBug
<1>. QED  BY <1>1, ForeignInvariant, PTL
=============================================================================
