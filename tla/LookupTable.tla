---------------------------- MODULE LookupTable ----------------------------
(***************************************************************************)
(* What a table of elements with keys promises to the instrumentors: an    *)
(* element is found by its key until it is removed, the one added last     *)
(* first.                                                                  *)
(***************************************************************************)
EXTENDS Sequences, SequencesExt

CONSTANTS
  Key,    \* addresses of objects, operations structures, ids, ties
  Elem,   \* elements, each embedded in a record of the user of the table
  None    \* NULL

VARIABLES
  entries,  \* entries[k]: elements with key k, the latest first
  found     \* the answer to the last search

vars == <<entries, found>>

Content == UNION {ToSet(entries[k]) : k \in Key}

Init == entries = [k \in Key |-> <<>>] /\ found = None

(* An element is added even if there is one with the same key. *)
Add(e, k) ==
  /\ e \notin Content
  /\ entries' = [entries EXCEPT ![k] = <<e>> \o @]
  /\ UNCHANGED found

Find(k) ==
  /\ found' = IF entries[k] = <<>> THEN None ELSE Head(entries[k])
  /\ UNCHANGED entries

Delete(e) ==
  /\ e \in Content
  /\ entries' = [k \in Key |-> RemoveFirst(entries[k], e)]
  /\ UNCHANGED found

(* Element n takes the place of e. *)
Transmit(e, n) ==
  /\ e \in Content /\ n \notin Content
  /\ entries' = [k \in Key |-> [j \in DOMAIN entries[k] |->
                                  IF entries[k][j] = e THEN n ELSE entries[k][j]]]
  /\ UNCHANGED found

Clear == entries' = [k \in Key |-> <<>>] /\ UNCHANGED found

Next ==
  \/ \E k \in Key : Find(k) \/ \E e \in Elem : Add(e, k)
  \/ \E e \in Elem : Delete(e) \/ \E n \in Elem : Transmit(e, n)
  \/ Clear

Spec == Init /\ [][Next]_vars
=============================================================================
