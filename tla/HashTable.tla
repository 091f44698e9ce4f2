------------------------------ MODULE HashTable ------------------------------
(***************************************************************************)
(* The hash table in which instrumentors find watched objects, instrument  *)
(* data, and watches by id and by tie: an array of lists.                  *)
(***************************************************************************)
EXTENDS Integers, Sequences, SequencesExt, FiniteSets

CONSTANTS
  Key,      \* pointers
  Elem,     \* elements, each embedded in a record of the user of the table
  None,     \* NULL
  BitsMax,  \* the most bits that are asked for
  hash_ptr  \* hash_ptr[k][bits]: hash of a pointer in so many bits

BITS_DEFAULT == 4
BITS_MIN     == 1

(* An index in an array of 2^bits heads. *)
Heads(bits) == 0 .. 2^bits - 1

ASSUME BitsAssumption == BitsMax \in Nat /\ BitsMax >= BITS_DEFAULT
ASSUME HashAssumption ==
  \A k \in Key, bits \in BITS_MIN .. BitsMax : hash_ptr[k][bits] \in Heads(bits)

(* A table of the size which it has when it is created. *)
Table == [heads : [Heads(BITS_DEFAULT) -> Seq(Elem)], bits : {BITS_DEFAULT}, n_elems : Int]

ASSUME NoneAssumption == None \notin Elem /\ None \notin Table

VARIABLES
  table,  \* heads, bits and n_elems, or None: it does not exist
  key,    \* the key in each element
  found   \* what the last search has returned

vars == <<table, key, found>>
-----------------------------------------------------------------------------
hash_function(k, bits) == hash_ptr[k][bits]
Bucket(t, k) == hash_function(k, t.bits)

Elements(t) == UNION {ToSet(t.heads[h]) : h \in DOMAIN t.heads}
Content     == IF table = None THEN {} ELSE Elements(table)

Empty(bits) == [heads |-> [h \in Heads(bits) |-> <<>>], bits |-> bits, n_elems |-> 0]

(* The elements of list s that are in P, in their order: a walk along it. *)
Only(s, P) ==
  LET walk[n \in 0 .. Len(s)] ==
        IF n = 0 THEN <<>>
        ELSE IF s[n] \in P THEN Append(walk[n - 1], s[n]) ELSE walk[n - 1]
  IN  walk[Len(s)]

(* The elements of all old lists, from the first to the last, are put at
   the head of their new list one by one.
   Mistake: they are put where the old size would have them. *)
InOrder(t) == FlattenSeq([n \in 1 .. 2^t.bits |-> t.heads[n - 1]])
FillFromOldHash(bits, t) ==
  [t EXCEPT !.bits = bits,
            !.heads = [h \in Heads(bits) |->
               Reverse(Only(InOrder(t), {e \in Elem : hash_function(key[e], t.bits) = h}))]]
FillFrom(bits, t) ==
  [t EXCEPT !.bits = bits,
            !.heads = [h \in Heads(bits) |->
               Reverse(Only(InOrder(t), {e \in Elem : hash_function(key[e], bits) = h}))]]

(* Without memory for a smaller array the table is narrowed to the minimum
   first, and the old array freed, to make room. *)
Slowpath(t, bits, ok) ==
  IF ~ok.minimum THEN t
  ELSE IF ok.again THEN FillFrom(bits, FillFrom(BITS_MIN, t)) ELSE FillFrom(BITS_MIN, t)

Allocations == [new : BOOLEAN, minimum : BOOLEAN, again : BOOLEAN]
Realloc(t, bits, ok) ==
  IF ok.new THEN FillFrom(bits, t)
  ELSE IF t.bits > bits /\ bits # BITS_MIN THEN Slowpath(t, bits, ok) ELSE t

(* "Not implemented yet": the table never changes its size. *)
IsNeedExpand(t) == FALSE
IsNeedNarrow(t) == FALSE
-----------------------------------------------------------------------------
Create ==
  /\ table = None /\ table' = Empty(BITS_DEFAULT)
  /\ UNCHANGED <<key, found>>

(* Mistake: the element is put into the list of the key it had before. *)
AddElemOldKey(e, k) ==
  /\ table # None /\ e \notin Content
  /\ key' = [key EXCEPT ![e] = k]
  /\ \E ok \in Allocations :
       LET t == IF IsNeedExpand(table) THEN Realloc(table, table.bits + 1, ok) ELSE table
       IN  table' = [t EXCEPT !.heads[Bucket(t, key[e])] = <<e>> \o @, !.n_elems = @ + 1]
  /\ UNCHANGED found

(* The user gives the element its key and adds it. *)
AddElem(e, k) ==
  /\ table # None /\ e \notin Content
  /\ key' = [key EXCEPT ![e] = k]
  /\ \E ok \in Allocations :
       LET t == IF IsNeedExpand(table) THEN Realloc(table, table.bits + 1, ok) ELSE table
       IN  table' = [t EXCEPT !.heads[Bucket(t, k)] = <<e>> \o @, !.n_elems = @ + 1]
  /\ UNCHANGED found

(* The first element in the list with the key: two different keys may
   share the list. *)
FindElem(k) ==
  /\ table # None
  /\ LET s == table.heads[Bucket(table, k)]
     IN  \/ \E n \in DOMAIN s : /\ key[s[n]] = k
                                /\ \A m \in 1 .. n - 1 : key[s[m]] # k
                                /\ found' = s[n]
         \/ (\A n \in DOMAIN s : key[s[n]] # k) /\ found' = None
  /\ UNCHANGED <<table, key>>

(* The element is unlinked from the list it is in. *)
RemoveElem(e) ==
  /\ \E h \in Heads(table.bits) : \E n \in DOMAIN table.heads[h] :
       /\ table.heads[h][n] = e
       /\ \E ok \in Allocations :
            LET t == [table EXCEPT !.heads[h] = RemoveAt(@, n), !.n_elems = @ - 1]
            IN  table' = IF IsNeedNarrow(t) THEN Realloc(t, t.bits - 1, ok) ELSE t
  /\ UNCHANGED <<key, found>>

(* Mistake: the new element keeps its key. *)
TransmitElemKeyless(e, new) ==
  /\ new \notin Content
  /\ \E h \in Heads(table.bits) : \E n \in DOMAIN table.heads[h] :
       table.heads[h][n] = e /\ table' = [table EXCEPT !.heads[h] = [@ EXCEPT ![n] = new]]
  /\ UNCHANGED <<key, found>>

(* Element new gets the key of e, its place in the list, and e is out. *)
TransmitElem(e, new) ==
  /\ new \notin Content
  /\ key' = [key EXCEPT ![new] = key[e]]
  /\ \E h \in Heads(table.bits) : \E n \in DOMAIN table.heads[h] :
       table.heads[h][n] = e /\ table' = [table EXCEPT !.heads[h] = [@ EXCEPT ![n] = new]]
  /\ UNCHANGED found

(* Elements that are left are unlinked and given to a callback of the user.
   Without a callback they are only warned of. *)
Destroy ==
  /\ table # None /\ table' = None
  /\ UNCHANGED <<key, found>>

Init == table = None /\ key \in [Elem -> Key] /\ found = None

Next ==
  \/ Create \/ Destroy
  \/ \E k \in Key : FindElem(k) \/ \E e \in Elem : AddElem(e, k)
  \/ \E e \in Content : RemoveElem(e) \/ \E new \in Elem : TransmitElem(e, new)

Spec == Init /\ [][Next]_vars
-----------------------------------------------------------------------------
(* Every element is in one place, in the list of the hash of its key. *)
Placed(t) ==
  /\ t.heads \in [Heads(t.bits) -> Seq(Elem)]
  /\ \A h \in Heads(t.bits) : \A n \in DOMAIN t.heads[h] : Bucket(t, key[t.heads[h][n]]) = h
  /\ \A h \in Heads(t.bits) : IsInjective(t.heads[h])

(* A search returns an element of the table with the key if there is one,
   and nothing if there is none: a watched object is not taken for one that
   is not, nor the watch of another object for its own. *)
FindsIt ==
  [][\A k \in Key : FindElem(k) =>
       IF \E e \in Content : key[e] = k
       THEN found' \in Content /\ key[found'] = k
       ELSE found' = None]_vars

(* Whatever new size is asked for and whatever memory there is, no element
   is lost or listed twice, and each is where a search looks for it. *)
ReallocKeeps ==
  table # None =>
    \A bits \in BITS_MIN .. BitsMax, ok \in Allocations :
      LET t == Realloc(table, bits, ok)
      IN  /\ Placed(t) /\ t.n_elems = Cardinality(Elements(t))
          /\ Elements(t) = Content

(* The elements in the table with each key, the latest first. *)
Listed == [k \in Key |-> IF table = None THEN <<>>
                         ELSE Only(table.heads[Bucket(table, k)],
                                   {e \in Elem : key[e] = k})]

(* Lists, hashes and collisions do not show: this is the lookup table that
   the instrumentors are modelled with. *)
Promise == INSTANCE LookupTable WITH entries <- Listed
Implements == Promise!Spec
=============================================================================
