------------------------ MODULE OpsTableGlobal_proofs ------------------------
(***************************************************************************)
(* Proofs that, for any interceptors, structures, operations and threads,  *)
(* a structure is used by one interceptor at a time and the data of a      *)
(* structure instrumented at place keep its original operations.           *)
(***************************************************************************)
EXTENDS OpsTableGlobal, TLAPS

(* The structures in ops_table_global are those in some idata_table, and in
   one only. *)
Tables ==
  /\ \A i \in Interceptor : table[i] \subseteq global
  /\ \A i, j \in Interceptor : i # j => table[i] \cap table[j] = {}

(* Where a call of interceptor i is tells whether its structure is registered
   and by which mechanism it is instrumented; saving starts with all fields. *)
Control ==
  \A i \in Interceptor :
    /\ pc[i] \in {"ap_copy", "ap_patch", "ap_restore", "ap_remove", "uc_remove"}
         => arg[i] \in table[i]
    /\ pc[i] \in {"ap_add", "uc_copy", "uc_add"} => arg[i] \notin table[i]
    /\ pc[i] \in {"ap_add", "ap_copy", "ap_patch", "ap_restore", "ap_remove"}
         => arg[i] \in AtPlace[i]
    /\ pc[i] \in {"uc_copy", "uc_add", "uc_remove"} => arg[i] \notin AtPlace[i]
    /\ pc[i] = "ap_add" => todo[i] = Field

(* Field f of structure s is not replaced by i yet, or is restored by it. *)
Unpatched(i, s, f) ==
  /\ arg[i] = s
  /\ \/ pc[i] \in {"ap_copy", "ap_remove"}
     \/ pc[i] = "ap_patch" /\ f \in todo[i]
     \/ pc[i] = "ap_restore" /\ f \notin todo[i]

(* Structure s is registered and instrumented at place by i, and field f of it
   may be replaced. *)
Patched(i, s, f) ==
  /\ s \in table[i] /\ s \in AtPlace[i] /\ ~Unpatched(i, s, f)
  /\ Mode[i][f] # "no_replacement"

Memory ==
  \A s \in Struct : \A f \in Field :
    \/ mem[s][f] = Content[s][f]
    \/ \E i \in Interceptor : Patched(i, s, f) /\ mem[s][f] = Intermediate(i, f)

Saved ==
  \A i \in Interceptor : \A s \in Struct : \A f \in Field :
    (/\ s \in table[i] /\ s \in AtPlace[i]
     /\ ~(pc[i] = "ap_copy" /\ arg[i] = s /\ f \in todo[i]))
    => buf[i][s][f] = Content[s][f]

IInv == TypeOK /\ Tables /\ Control /\ Memory /\ Saved
-----------------------------------------------------------------------------
(* A visit of the loop over the fields leaves the call at its label with one
   field less to do, or starts what follows with all the fields. *)
LEMMA VisitType ==
  ASSUME TypeOK, NEW i \in Interceptor, NEW f \in Field,
         NEW at \in Labels, NEW to \in Labels, Visit(i, f, at, to)
  PROVE  /\ pc' \in [Interceptor -> Labels]
         /\ todo' \in [Interceptor -> SUBSET Field]
         /\ arg' \in [Interceptor -> Struct]
  BY DEF TypeOK, Visit

(* No operation of the program is an intermediate operation, and intermediate
   operations of different interceptors differ. *)
LEMMA ProgramOperation ==
  ASSUME NEW s \in Struct, NEW f \in Field
  PROVE  /\ Content[s][f] \in Function \cup {NULL}
         /\ Content[s][f] \notin Intermediates
         /\ \A i \in Interceptor : Content[s][f] # Intermediate(i, f)
<1>1. Content[s][f] \in Function \cup {NULL}
  BY StructAssumption DEF ProgramOps
<1>2. Content[s][f] \notin Intermediates
  BY <1>1, FunctionAssumption
<1>3. ASSUME NEW i \in Interceptor PROVE Intermediate(i, f) \in Intermediates
  BY DEF Intermediate, Intermediates
<1>4. QED
  BY <1>1, <1>2, <1>3

LEMMA ProgramOpsType == ProgramOps \subseteq AnyOps
  BY DEF ProgramOps, AnyOps

LEMMA PatchType ==
  ASSUME NEW i \in Interceptor, NEW ops \in AnyOps
  PROVE  Patch(i, ops) \in AnyOps
<1>1. ASSUME NEW f \in Field PROVE Intermediate(i, f) \in Intermediates
  BY DEF Intermediate, Intermediates
<1>2. QED
  BY <1>1 DEF Patch, AnyOps

LEMMA RestoreType ==
  ASSUME NEW i \in Interceptor, NEW ops \in AnyOps, NEW orig \in AnyOps
  PROVE  Restore(i, ops, orig) \in AnyOps
  BY DEF Restore, AnyOps

(* One field of a structure is replaced by that of another structure. *)
LEMMA FieldType ==
  ASSUME NEW ops \in AnyOps, NEW new \in AnyOps, NEW f \in Field
  PROVE  [ops EXCEPT ![f] = new[f]] \in AnyOps
  BY DEF AnyOps

LEMMA ArgTypes ==
  ASSUME TypeOK, NEW i \in Interceptor
  PROVE  arg[i] \in Struct /\ mem[arg[i]] \in AnyOps /\ buf[i][arg[i]] \in AnyOps
  BY DEF TypeOK

LEMMA AddDataSearchType ==
  ASSUME TypeOK, NEW i \in Interceptor, NEW at \in Labels, NEW next \in Labels,
         AddDataSearch(i, at, next)
  PROVE  /\ global' \subseteq Struct
         /\ table' \in [Interceptor -> SUBSET Struct]
         /\ pc' \in [Interceptor -> Labels]
         /\ UNCHANGED <<mem, arg, todo, call>>
<1>1. CASE arg[i] \in global
  BY <1>1 DEF TypeOK, AddDataSearch, Goto, Labels
<1>2. CASE arg[i] \notin global
  <2>1. /\ pc' = [pc EXCEPT ![i] = next]
        /\ global' = global \cup {arg[i]}
        /\ table' = [table EXCEPT ![i] = @ \cup {arg[i]}]
        /\ UNCHANGED <<mem, arg, todo, call>>
    BY <1>2 DEF AddDataSearch, Goto
  <2>2. arg[i] \in Struct /\ table[i] \cup {arg[i]} \in SUBSET Struct
    BY DEF TypeOK
  <2>3. QED
    BY <2>1, <2>2 DEF TypeOK
<1>3. QED
  BY <1>1, <1>2

LEMMA TypeInit == Init => TypeOK
<1> SUFFICES ASSUME Init PROVE TypeOK
  OBVIOUS
<1>1. mem \in [Struct -> AnyOps]
  BY StructAssumption, ProgramOpsType DEF Init
<1>2. NoOps \in AnyOps
  BY DEF NoOps, AnyOps
<1>3. buf \in [Interceptor -> [Struct -> AnyOps]]
  BY <1>2 DEF Init
<1>4. QED
  BY <1>1, <1>3 DEF Init, TypeOK, Labels

LEMMA TypeStep == TypeOK /\ [Next]_vars => TypeOK'
<1> SUFFICES ASSUME TypeOK, [Next]_vars PROVE TypeOK'
  OBVIOUS
<1>1. ASSUME NEW i \in Interceptor, NEW s \in Struct, Watch(i, s) PROVE TypeOK'
  BY <1>1 DEF TypeOK, Watch, Enter, Goto, Labels
<1>2. ASSUME NEW i \in Interceptor, NEW s \in Struct, Forget(i, s) PROVE TypeOK'
  BY <1>2 DEF TypeOK, Forget, Enter, Goto, Labels
<1>3. ASSUME NEW i \in Interceptor, ApAdd(i) PROVE TypeOK'
  BY <1>3, AddDataSearchType DEF TypeOK, ApAdd, Labels
<1>4. ASSUME NEW i \in Interceptor, UcAdd(i) PROVE TypeOK'
  <2>1. Patch(i, buf[i][arg[i]]) \in AnyOps
    BY PatchType, ArgTypes
  <2>2. buf' \in [Interceptor -> [Struct -> AnyOps]]
    BY <1>4, <2>1 DEF TypeOK, UcAdd
  <2>3. QED
    BY <1>4, <2>2, AddDataSearchType DEF TypeOK, UcAdd, Labels
<1>5. ASSUME NEW i \in Interceptor, ApRemove(i) \/ UcRemove(i) PROVE TypeOK'
  <2>1. PICK at : RemoveDataSearch(i, at)
    BY <1>5 DEF ApRemove, UcRemove
  <2>2. pc' = [pc EXCEPT ![i] = "idle"] /\ table' = [table EXCEPT ![i] = @ \ {arg[i]}]
        /\ global' = global \ {arg[i]} /\ UNCHANGED <<mem, buf, arg, todo, call>>
    BY <2>1 DEF RemoveDataSearch, Goto
  <2>3. QED
    BY <2>2 DEF TypeOK, Labels
<1>6. ASSUME NEW i \in Interceptor, NEW f \in Field, ApCopy(i, f) \/ UcCopy(i, f)
      PROVE  TypeOK'
  <2>1. [buf[i][arg[i]] EXCEPT ![f] = mem[arg[i]][f]] \in AnyOps
    BY FieldType, ArgTypes
  <2>2. buf' = [buf EXCEPT ![i] = [@ EXCEPT ![arg[i]] =
                  [buf[i][arg[i]] EXCEPT ![f] = mem[arg[i]][f]]]]
    BY <1>6 DEF ApCopy, UcCopy, CopyField
  <2>4. buf' \in [Interceptor -> [Struct -> AnyOps]]
    BY <2>1, <2>2, ArgTypes DEF TypeOK
  <2>3. /\ pc' \in [Interceptor -> Labels]
        /\ todo' \in [Interceptor -> SUBSET Field]
        /\ arg' \in [Interceptor -> Struct]
    BY <1>6, VisitType DEF ApCopy, UcCopy, CopyField, Labels
  <2>5. QED
    BY <1>6, <2>3, <2>4 DEF TypeOK, ApCopy, UcCopy, CopyField
<1>7. ASSUME NEW i \in Interceptor, NEW f \in Field, ApPatch(i, f) PROVE TypeOK'
  <2>1. [mem[arg[i]] EXCEPT ![f] = Patch(i, mem[arg[i]])[f]] \in AnyOps
    BY FieldType, PatchType, ArgTypes
  <2>2. mem' \in [Struct -> AnyOps]
    BY <1>7, <2>1 DEF TypeOK, ApPatch
  <2>3. /\ pc' \in [Interceptor -> Labels]
        /\ todo' \in [Interceptor -> SUBSET Field]
        /\ arg' \in [Interceptor -> Struct]
    BY <1>7, VisitType DEF ApPatch, Labels
  <2>4. QED
    BY <1>7, <2>2, <2>3 DEF TypeOK, ApPatch
<1>8. ASSUME NEW i \in Interceptor, NEW f \in Field, ApRestore(i, f) PROVE TypeOK'
  <2>1. [mem[arg[i]] EXCEPT ![f] = Restore(i, mem[arg[i]], buf[i][arg[i]])[f]] \in AnyOps
    BY FieldType, RestoreType, ArgTypes
  <2>2. mem' \in [Struct -> AnyOps]
    BY <1>8, <2>1 DEF TypeOK, ApRestore
  <2>3. /\ pc' \in [Interceptor -> Labels]
        /\ todo' \in [Interceptor -> SUBSET Field]
        /\ arg' \in [Interceptor -> Struct]
    BY <1>8, VisitType DEF ApRestore, Labels
  <2>4. QED
    BY <1>8, <2>2, <2>3 DEF TypeOK, ApRestore
<1>9. ASSUME NEW t \in Thread, Execute(t) PROVE TypeOK'
  <2>1. UNCHANGED <<mem, global, table, buf, pc, arg, todo>>
    BY <1>9 DEF Execute, CallOperation, Intermediary, Return
  <2>2. call' \in [Thread -> Calls \cup {NoCall}]
    <3>1. ASSUME NEW s \in Struct, NEW via \in Interceptor \cup {NULL}, NEW f \in Field,
                 CallOperation(t, s, via, f)
          PROVE  call' \in [Thread -> Calls \cup {NoCall}]
      <4>1. mem[s][f] \in Function \cup {NULL} \cup Intermediates
        BY DEF TypeOK, AnyOps
      <4>2. via # NULL => buf[via][s][f] \in Function \cup {NULL} \cup Intermediates
        BY DEF TypeOK, AnyOps
      <4>3. QED
        BY <3>1, <4>1, <4>2 DEF TypeOK, CallOperation, Calls
    <3>2. ASSUME NEW i \in Interceptor, Intermediary(t, i)
          PROVE  call' \in [Thread -> Calls \cup {NoCall}]
      <4> DEFINE c == call[t]
      <4>1. c \in Calls
        BY <3>2 DEF Intermediary, TypeOK
      <4>2. OrigOperation(i, c) \in Function \cup {NULL} \cup Intermediates
        BY <4>1 DEF OrigOperation, Calls, TypeOK, AnyOps
      <4>3. [c EXCEPT !.op = OrigOperation(i, c)] \in Calls
        BY <4>1, <4>2 DEF Calls
      <4>4. call' = [call EXCEPT ![t] = [c EXCEPT !.op = OrigOperation(i, c)]]
        BY <3>2 DEF Intermediary
      <4>5. QED
        BY <4>3, <4>4 DEF TypeOK
    <3>3. CASE Return(t)
      BY <3>3 DEF Return, TypeOK
    <3>4. QED
      BY <1>9, <3>1, <3>2, <3>3 DEF Execute
  <2>3. QED
    BY <2>1, <2>2 DEF TypeOK
<1>10. CASE UNCHANGED vars
  BY <1>10 DEF TypeOK, vars
<1>11. QED
  BY <1>1, <1>2, <1>3, <1>4, <1>5, <1>6, <1>7, <1>8, <1>9, <1>10
  DEF Next, Instrument
-----------------------------------------------------------------------------
(* A call of interceptor i changes nothing of the other interceptors. *)
LEMMA OthersUnchanged ==
  ASSUME TypeOK, NEW i \in Interceptor, Instrument(i),
         NEW j \in Interceptor, j # i
  PROVE  /\ pc'[j] = pc[j] /\ arg'[j] = arg[j] /\ todo'[j] = todo[j]
         /\ table'[j] = table[j] /\ buf'[j] = buf[j]
<1>1. ASSUME NEW s \in Struct, Watch(i, s) \/ Forget(i, s)
      PROVE  /\ pc'[j] = pc[j] /\ arg'[j] = arg[j] /\ todo'[j] = todo[j]
             /\ table'[j] = table[j] /\ buf'[j] = buf[j]
  BY <1>1 DEF TypeOK, Watch, Forget, Enter, Goto
<1>2. ASSUME NEW f \in Field, ApCopy(i, f) \/ UcCopy(i, f)
      PROVE  /\ pc'[j] = pc[j] /\ arg'[j] = arg[j] /\ todo'[j] = todo[j]
             /\ table'[j] = table[j] /\ buf'[j] = buf[j]
  BY <1>2 DEF TypeOK, ApCopy, UcCopy, CopyField, Visit
<1>3. ASSUME NEW f \in Field, ApPatch(i, f) \/ ApRestore(i, f)
      PROVE  /\ pc'[j] = pc[j] /\ arg'[j] = arg[j] /\ todo'[j] = todo[j]
             /\ table'[j] = table[j] /\ buf'[j] = buf[j]
  BY <1>3 DEF TypeOK, ApPatch, ApRestore, Visit
<1>4. ASSUME ApAdd(i) \/ UcAdd(i)
      PROVE  /\ pc'[j] = pc[j] /\ arg'[j] = arg[j] /\ todo'[j] = todo[j]
             /\ table'[j] = table[j] /\ buf'[j] = buf[j]
  BY <1>4 DEF TypeOK, ApAdd, UcAdd, AddDataSearch, Goto
<1>5. ASSUME ApRemove(i) \/ UcRemove(i)
      PROVE  /\ pc'[j] = pc[j] /\ arg'[j] = arg[j] /\ todo'[j] = todo[j]
             /\ table'[j] = table[j] /\ buf'[j] = buf[j]
  BY <1>5 DEF TypeOK, ApRemove, UcRemove, RemoveDataSearch, Goto
<1>6. QED
  BY <1>1, <1>2, <1>3, <1>4, <1>5 DEF Instrument

(* Adding search data to the tables and removing them keeps them consistent. *)
LEMMA TablesStep ==
  ASSUME IInv, NEW i \in Interceptor, Instrument(i)
  PROVE  Tables'
<1>1. CASE UNCHANGED <<global, table>>
  BY <1>1 DEF IInv, Tables
<1>2. CASE arg[i] \notin global /\ global' = global \cup {arg[i]}
           /\ table' = [table EXCEPT ![i] = @ \cup {arg[i]}]
  BY <1>2 DEF IInv, Tables, TypeOK
<1>3. CASE arg[i] \in table[i] /\ global' = global \ {arg[i]}
           /\ table' = [table EXCEPT ![i] = @ \ {arg[i]}]
  BY <1>3 DEF IInv, Tables, TypeOK
<1>4. ASSUME ApAdd(i) \/ UcAdd(i) PROVE Tables'
  BY <1>1, <1>2, <1>4 DEF ApAdd, UcAdd, AddDataSearch
<1>5. ASSUME ApRemove(i) \/ UcRemove(i) PROVE Tables'
  <2>1. arg[i] \in table[i]
    BY <1>5 DEF IInv, Control, ApRemove, UcRemove, RemoveDataSearch, Goto
  <2>2. QED
    BY <1>3, <1>5, <2>1 DEF ApRemove, UcRemove, RemoveDataSearch
<1>6. QED
  BY <1>1, <1>4, <1>5
  DEF Instrument, Watch, Forget, ApCopy, UcCopy, CopyField, ApPatch, ApRestore

LEMMA ControlStep ==
  ASSUME IInv, NEW i \in Interceptor, Instrument(i)
  PROVE  Control'
<1> DEFINE Ok(j) ==
      /\ pc[j] \in {"ap_copy", "ap_patch", "ap_restore", "ap_remove", "uc_remove"}
           => arg[j] \in table[j]
      /\ pc[j] \in {"ap_add", "uc_copy", "uc_add"} => arg[j] \notin table[j]
      /\ pc[j] \in {"ap_add", "ap_copy", "ap_patch", "ap_restore", "ap_remove"}
           => arg[j] \in AtPlace[j]
      /\ pc[j] \in {"uc_copy", "uc_add", "uc_remove"} => arg[j] \notin AtPlace[j]
      /\ pc[j] = "ap_add" => todo[j] = Field
<1>1. ASSUME NEW j \in Interceptor PROVE Ok(j)
  BY DEF IInv, Control
<1>2. ASSUME NEW j \in Interceptor, j # i PROVE Ok(j)'
  BY <1>1, <1>2, OthersUnchanged DEF IInv
<1>3. Ok(i)'
  <2>1. ASSUME NEW s \in Struct, Watch(i, s) \/ Forget(i, s) PROVE Ok(i)'
    BY <2>1 DEF IInv, TypeOK, Watch, Forget, Enter, Goto
  <2>2. ASSUME NEW f \in Field, ApCopy(i, f) \/ UcCopy(i, f) PROVE Ok(i)'
    BY <2>2, <1>1 DEF IInv, TypeOK, ApCopy, UcCopy, CopyField, Visit
  <2>3. ASSUME NEW f \in Field, ApPatch(i, f) \/ ApRestore(i, f) PROVE Ok(i)'
    BY <2>3, <1>1 DEF IInv, TypeOK, ApPatch, ApRestore, Visit
  <2>4. ASSUME ApAdd(i) \/ UcAdd(i) PROVE Ok(i)'
    BY <2>4, <1>1 DEF IInv, TypeOK, ApAdd, UcAdd, AddDataSearch, Goto
  <2>5. ASSUME ApRemove(i) \/ UcRemove(i) PROVE Ok(i)'
    BY <2>5 DEF IInv, TypeOK, ApRemove, UcRemove, RemoveDataSearch, Goto
  <2>6. QED
    BY <2>1, <2>2, <2>3, <2>4, <2>5 DEF Instrument
<1>4. QED
  BY <1>2, <1>3 DEF Control

(* What a replacement puts in a field that holds the operation of the program,
   and what restoring puts in a field that holds a replacement or not. *)
LEMMA PatchedField ==
  ASSUME NEW i \in Interceptor, NEW ops \in AnyOps, NEW f \in Field
  PROVE  \/ Patch(i, ops)[f] = ops[f]
         \/ /\ Patch(i, ops)[f] = Intermediate(i, f)
            /\ Mode[i][f] # "no_replacement"
  BY DEF Patch, Replaces

LEMMA RestoredField ==
  ASSUME NEW i \in Interceptor, NEW ops, NEW orig, NEW f \in Field
  PROVE  /\ ops[f] # Intermediate(i, f) => Restore(i, ops, orig)[f] = ops[f]
         /\ ops[f] = Intermediate(i, f) /\ Mode[i][f] # "no_replacement"
              => Restore(i, ops, orig)[f] = orig[f]
  BY DEF Restore

(* The structure is unpatched in every field while it is saved, and the one
   field which a restore visits is replaced or holds the original. *)
LEMMA FieldOwner ==
  ASSUME IInv, NEW i \in Interceptor, arg[i] \in table[i], NEW f \in Field
  PROVE  \/ mem[arg[i]][f] = Content[arg[i]][f]
         \/ Patched(i, arg[i], f) /\ mem[arg[i]][f] = Intermediate(i, f)
<1>1. arg[i] \in Struct
  BY DEF IInv, TypeOK
<1>2. ASSUME NEW j \in Interceptor, Patched(j, arg[i], f) PROVE j = i
  BY <1>2 DEF IInv, Tables, Patched
<1>3. QED
  BY <1>1, <1>2 DEF IInv, Memory

LEMMA SavedStep ==
  ASSUME IInv, NEW i \in Interceptor, Instrument(i)
  PROVE  Saved'
<1> DEFINE Ok(j, s, f) ==
      (/\ s \in table[j] /\ s \in AtPlace[j]
       /\ ~(pc[j] = "ap_copy" /\ arg[j] = s /\ f \in todo[j]))
      => buf[j][s][f] = Content[s][f]
<1>1. ASSUME NEW j \in Interceptor, NEW s \in Struct, NEW f \in Field PROVE Ok(j, s, f)
  BY DEF IInv, Saved
<1>2. ASSUME NEW j \in Interceptor, j # i, NEW s \in Struct, NEW f \in Field
      PROVE  Ok(j, s, f)'
  BY <1>1, <1>2, OthersUnchanged DEF IInv
<1>3. ASSUME NEW s \in Struct, NEW f \in Field PROVE Ok(i, s, f)'
  <2> USE <1>1
  <2>1. ASSUME NEW r \in Struct, Watch(i, r) \/ Forget(i, r) PROVE Ok(i, s, f)'
    BY <2>1 DEF IInv, TypeOK, Watch, Forget, Enter, Goto
  <2>2. ASSUME NEW g \in Field, ApCopy(i, g) PROVE Ok(i, s, f)'
    <3>1. mem[arg[i]][g] = Content[arg[i]][g]
      BY <2>2, FieldOwner DEF IInv, Control, ApCopy, CopyField, Visit, Patched, Unpatched
    <3>2. CASE s = arg[i] /\ f = g
      <4>1. buf'[i][s][f] = mem[s][f]
        BY <2>2, <3>2 DEF IInv, TypeOK, AnyOps, ApCopy, CopyField
      <4>2. QED
        BY <3>1, <3>2, <4>1
    <3>3. CASE ~(s = arg[i] /\ f = g)
      <4>1. buf'[i][s][f] = buf[i][s][f]
        BY <2>2, <3>3 DEF IInv, TypeOK, AnyOps, ApCopy, CopyField
      <4>2. QED
        BY <2>2, <3>3, <4>1 DEF IInv, TypeOK, ApCopy, CopyField, Visit
    <3>4. QED
      BY <3>2, <3>3
  <2>3. ASSUME NEW g \in Field, UcCopy(i, g) PROVE Ok(i, s, f)'
    <3>1. s = arg[i] => s \notin table'[i]
      BY <2>3 DEF IInv, Control, UcCopy, CopyField, Visit
    <3>2. s # arg[i] => buf'[i][s][f] = buf[i][s][f]
      BY <2>3 DEF IInv, TypeOK, AnyOps, UcCopy, CopyField
    <3>3. QED
      BY <2>3, <3>1, <3>2 DEF IInv, TypeOK, UcCopy, CopyField, Visit
  <2>4. ASSUME NEW g \in Field, ApPatch(i, g) \/ ApRestore(i, g) PROVE Ok(i, s, f)'
    BY <2>4 DEF IInv, TypeOK, ApPatch, ApRestore, Visit
  <2>5. ASSUME ApAdd(i) PROVE Ok(i, s, f)'
    BY <2>5 DEF IInv, TypeOK, Control, ApAdd, AddDataSearch, Goto
  <2>6. ASSUME UcAdd(i) PROVE Ok(i, s, f)'
    <3>1. s = arg[i] => s \notin AtPlace[i]
      BY <2>6 DEF IInv, Control, UcAdd, AddDataSearch, Goto
    <3>2. s # arg[i] => buf'[i][s][f] = buf[i][s][f]
      BY <2>6 DEF IInv, TypeOK, UcAdd
    <3>3. QED
      BY <2>6, <3>1, <3>2 DEF IInv, TypeOK, UcAdd, AddDataSearch, Goto
  <2>7. ASSUME ApRemove(i) \/ UcRemove(i) PROVE Ok(i, s, f)'
    BY <2>7 DEF IInv, TypeOK, ApRemove, UcRemove, RemoveDataSearch, Goto
  <2>8. QED
    BY <2>1, <2>2, <2>3, <2>4, <2>5, <2>6, <2>7 DEF Instrument
<1>4. QED
  BY <1>2, <1>3 DEF Saved

LEMMA MemoryStep ==
  ASSUME IInv, NEW i \in Interceptor, Instrument(i)
  PROVE  Memory'
<1> SUFFICES ASSUME NEW s \in Struct, NEW f \in Field
    PROVE  \/ mem'[s][f] = Content[s][f]
           \/ \E j \in Interceptor : Patched(j, s, f)' /\ mem'[s][f] = Intermediate(j, f)
  BY DEF Memory
<1>1. ASSUME NEW j \in Interceptor, j # i, Patched(j, s, f) PROVE Patched(j, s, f)'
  BY <1>1, OthersUnchanged DEF IInv, Patched, Unpatched
<1>2. ASSUME mem'[s][f] = mem[s][f], Patched(i, s, f) => Patched(i, s, f)'
      PROVE  \/ mem'[s][f] = Content[s][f]
             \/ \E j \in Interceptor : Patched(j, s, f)' /\ mem'[s][f] = Intermediate(j, f)
  BY <1>1, <1>2 DEF IInv, Memory
<1>3. ASSUME NEW r \in Struct, Watch(i, r) \/ Forget(i, r)
      PROVE  mem' = mem /\ (Patched(i, s, f) => Patched(i, s, f)')
  BY <1>3 DEF IInv, TypeOK, Watch, Forget, Enter, Goto, Patched, Unpatched
<1>4. ASSUME NEW g \in Field, ApCopy(i, g) \/ UcCopy(i, g)
      PROVE  mem' = mem /\ (Patched(i, s, f) => Patched(i, s, f)')
  BY <1>4 DEF IInv, TypeOK, Control, ApCopy, UcCopy, CopyField, Visit, Patched, Unpatched
<1>5. ASSUME ApAdd(i) \/ UcAdd(i)
      PROVE  mem' = mem /\ (Patched(i, s, f) => Patched(i, s, f)')
  BY <1>5 DEF IInv, TypeOK, Control, ApAdd, UcAdd, AddDataSearch, Goto, Patched, Unpatched
<1>6. ASSUME ApRemove(i) \/ UcRemove(i)
      PROVE  mem' = mem /\ (Patched(i, s, f) => Patched(i, s, f)')
  BY <1>6 DEF IInv, TypeOK, Control, ApRemove, UcRemove, RemoveDataSearch, Goto,
              Patched, Unpatched
<1>7. ASSUME NEW g \in Field, ApPatch(i, g)
      PROVE  \/ mem'[s][f] = Content[s][f]
             \/ \E j \in Interceptor : Patched(j, s, f)' /\ mem'[s][f] = Intermediate(j, f)
  <2>1. CASE s = arg[i] /\ f = g
    <3>1. mem[s][f] = Content[s][f]
      BY <1>7, <2>1, FieldOwner DEF IInv, Control, ApPatch, Visit, Patched, Unpatched
    <3>2. mem'[s][f] = Patch(i, mem[s])[f]
      BY <1>7, <2>1 DEF IInv, TypeOK, AnyOps, ApPatch
    <3>3. s \in table'[i] /\ s \in AtPlace[i] /\ ~Unpatched(i, s, f)'
      BY <1>7, <2>1 DEF IInv, TypeOK, Control, ApPatch, Visit, Unpatched
    <3>4. mem[s] \in AnyOps
      BY DEF IInv, TypeOK
    <3>5. QED
      BY <3>1, <3>2, <3>3, <3>4, PatchedField DEF Patched
  <2>2. CASE ~(s = arg[i] /\ f = g)
    <3>1. mem'[s][f] = mem[s][f]
      BY <1>7, <2>2 DEF IInv, TypeOK, AnyOps, ApPatch
    <3>2. Patched(i, s, f) => Patched(i, s, f)'
      BY <1>7, <2>2 DEF IInv, TypeOK, ApPatch, Visit, Patched, Unpatched
    <3>3. QED
      BY <1>2, <3>1, <3>2
  <2>3. QED
    BY <2>1, <2>2
<1>8. ASSUME NEW g \in Field, ApRestore(i, g)
      PROVE  \/ mem'[s][f] = Content[s][f]
             \/ \E j \in Interceptor : Patched(j, s, f)' /\ mem'[s][f] = Intermediate(j, f)
  <2>1. CASE s = arg[i] /\ f = g
    <3>1. mem'[s][f] = Restore(i, mem[s], buf[i][s])[f]
      BY <1>8, <2>1 DEF IInv, TypeOK, AnyOps, ApRestore
    <3>2. s \in table[i] /\ s \in AtPlace[i] /\ pc[i] = "ap_restore"
      BY <1>8, <2>1 DEF IInv, Control, ApRestore, Visit
    <3>3. buf[i][s][f] = Content[s][f]
      BY <3>2 DEF IInv, Saved
    <3>4. \/ mem[s][f] = Content[s][f]
          \/ Patched(i, s, f) /\ mem[s][f] = Intermediate(i, f)
      BY <2>1, <3>2, FieldOwner
    <3>5. Content[s][f] # Intermediate(i, f)
      BY ProgramOperation
    <3>6. QED
      BY <3>1, <3>3, <3>4, <3>5, RestoredField DEF Patched
  <2>2. CASE ~(s = arg[i] /\ f = g)
    <3>1. mem'[s][f] = mem[s][f]
      BY <1>8, <2>2 DEF IInv, TypeOK, AnyOps, ApRestore
    <3>2. Patched(i, s, f) => Patched(i, s, f)'
      BY <1>8, <2>2 DEF IInv, TypeOK, ApRestore, Visit, Patched, Unpatched
    <3>3. QED
      BY <1>2, <3>1, <3>2
  <2>3. QED
    BY <2>1, <2>2
<1>9. QED
  BY <1>2, <1>3, <1>4, <1>5, <1>6, <1>7, <1>8 DEF Instrument

LEMMA IInvInit == Init => IInv
<1> SUFFICES ASSUME Init PROVE IInv
  OBVIOUS
<1>1. TypeOK
  BY TypeInit
<1>2. Tables /\ Control /\ Memory /\ Saved
  BY DEF Init, Tables, Control, Memory, Saved
<1>3. QED
  BY <1>1, <1>2 DEF IInv

LEMMA IInvStep == IInv /\ [Next]_vars => IInv'
<1> SUFFICES ASSUME IInv, [Next]_vars PROVE IInv'
  OBVIOUS
<1>1. TypeOK'
  BY TypeStep DEF IInv
<1>2. ASSUME NEW i \in Interceptor, Instrument(i) PROVE IInv'
  BY <1>1, <1>2, TablesStep, ControlStep, MemoryStep, SavedStep DEF IInv
<1>3. ASSUME UNCHANGED <<mem, global, table, buf, pc, arg, todo>> PROVE IInv'
  BY <1>1, <1>3 DEF IInv, Tables, Control, Memory, Saved, Patched, Unpatched
<1>4. ASSUME NEW t \in Thread, Execute(t) PROVE IInv'
  BY <1>3, <1>4 DEF Execute, CallOperation, Intermediary, Return
<1>5. QED
  BY <1>2, <1>3, <1>4 DEF Next, vars

THEOREM Invariance == Spec => []IInv
  BY IInvInit, IInvStep, PTL DEF Spec

(* The variables keep their types. *)
THEOREM TypeCorrect == Spec => []TypeOK
<1>1. IInv => TypeOK
  BY DEF IInv
<1>2. QED
  BY <1>1, Invariance, PTL

(* A structure holds the replacements of no interceptor but the one that has
   registered it, at any step of any watch or forget. *)
THEOREM Exclusive == Spec => []ExclusiveUse
<1>1. IInv => ExclusiveUse
  BY DEF IInv, Memory, ExclusiveUse, Patched
<1>2. QED
  BY <1>1, Invariance, PTL

(* Wherever a structure instrumented at place holds a replacement, the data of
   its interceptor hold the operation of the program. *)
THEOREM Recoverable == Spec => []SavedOriginal
<1>1. IInv => SavedOriginal
  <2> SUFFICES ASSUME IInv, NEW i \in Interceptor, NEW s \in AtPlace[i], NEW f \in Field,
                      mem[s][f] = Intermediate(i, f)
      PROVE  buf[i][s][f] = Content[s][f]
    BY DEF SavedOriginal
  <2>1. s \in Struct
    BY StructAssumption
  <2>2. PICK j \in Interceptor : Patched(j, s, f) /\ mem[s][f] = Intermediate(j, f)
    BY <2>1, ProgramOperation DEF IInv, Memory
  <2>3. j = i
    BY <2>2 DEF Intermediate
  <2>4. QED
    BY <2>1, <2>2, <2>3 DEF IInv, Saved, Patched, Unpatched
<1>2. QED
  BY <1>1, Invariance, PTL
-----------------------------------------------------------------------------
(***************************************************************************)
(* Calls of operations end with the operation of the program when all      *)
(* interceptors choose the mechanism alike, as the default selector does.  *)
(***************************************************************************)

(* The default selector decides by the address of the structure alone. *)
SameSelector == \A i, j \in Interceptor : AtPlace[i] = AtPlace[j]

(* Field f of structure s has been copied by i, and not patched yet. *)
Copied(i, s, f) ==
  /\ arg[i] = s
  /\ pc[i] = "uc_add" \/ (pc[i] = "uc_copy" /\ f \notin todo[i])

(* A copy is made of the operations of the program, and is complete before the
   structure is registered. *)
Copies ==
  \A i \in Interceptor : \A s \in Struct \ AtPlace[i] : \A f \in Field :
    /\ Copied(i, s, f) => buf[i][s][f] = Content[s][f]
    /\ s \in table[i] => buf[i][s][f] = Patch(i, Content[s])[f]

(* A thread runs the operation of the program, or an intermediate one of the
   interceptor through whose copy it came; data of that copy stay. *)
CallOK(c) ==
  /\ c.via # NULL => HasData(c.via, c.s) /\ c.s \notin AtPlace[c.via]
  /\ \/ c.op = Content[c.s][c.f]
     \/ \E i \in Interceptor : c.via \in {NULL, i} /\ c.op = Intermediate(i, c.f)

Calling == \A t \in Thread : call[t] # NoCall => CallOK(call[t])

CInv == IInv /\ Copies /\ Calling
-----------------------------------------------------------------------------
(* What a patch does to a field does not depend on the other fields. *)
LEMMA PatchPointwise ==
  ASSUME NEW i \in Interceptor, NEW a, NEW b, NEW f \in Field, a[f] = b[f]
  PROVE  Patch(i, a)[f] = Patch(i, b)[f]
  BY DEF Patch, Replaces

(* A structure that is copied is never patched. *)
LEMMA CopiedUntouched ==
  ASSUME SameSelector, IInv, NEW i \in Interceptor, NEW s \in Struct \ AtPlace[i],
         NEW f \in Field
  PROVE  mem[s][f] = Content[s][f]
  BY DEF SameSelector, IInv, Memory, Patched

LEMMA CopiesStep ==
  ASSUME SameSelector, CInv, NEW i \in Interceptor, Instrument(i)
  PROVE  Copies'
<1> DEFINE Ok(j, s, f) ==
      /\ Copied(j, s, f) => buf[j][s][f] = Content[s][f]
      /\ s \in table[j] => buf[j][s][f] = Patch(j, Content[s])[f]
<1>1. ASSUME NEW j \in Interceptor, NEW s \in Struct \ AtPlace[j], NEW f \in Field
      PROVE  Ok(j, s, f)
  BY DEF CInv, Copies
<1>2. ASSUME NEW j \in Interceptor, j # i, NEW s \in Struct \ AtPlace[j], NEW f \in Field
      PROVE  Ok(j, s, f)'
  BY <1>1, <1>2, OthersUnchanged DEF CInv, IInv, Copied
<1>3. ASSUME NEW s \in Struct \ AtPlace[i], NEW f \in Field
      PROVE  Ok(i, s, f)'
  <2> USE <1>1
  <2>1. ASSUME NEW r \in Struct, Watch(i, r) \/ Forget(i, r) PROVE Ok(i, s, f)'
    BY <2>1 DEF CInv, IInv, TypeOK, Watch, Forget, Enter, Goto, Copied
  <2>2. ASSUME NEW g \in Field, ApCopy(i, g) PROVE Ok(i, s, f)'
    <3>1. arg[i] # s
      BY <2>2 DEF CInv, IInv, Control, ApCopy, CopyField, Visit
    <3>2. buf'[i][s][f] = buf[i][s][f]
      BY <2>2, <3>1 DEF CInv, IInv, TypeOK, AnyOps, ApCopy, CopyField
    <3>3. QED
      BY <2>2, <3>1, <3>2 DEF ApCopy, CopyField, Visit, Copied
  <2>3. ASSUME NEW g \in Field, UcCopy(i, g) PROVE Ok(i, s, f)'
    <3>1. arg[i] \notin table[i] /\ arg[i] \notin AtPlace[i] /\ arg[i] \in Struct
      BY <2>3 DEF CInv, IInv, TypeOK, Control, UcCopy, CopyField, Visit
    <3>2. CASE arg[i] = s /\ f = g
      <4>1. buf'[i][s][f] = mem[s][f]
        BY <2>3, <3>2 DEF CInv, IInv, TypeOK, AnyOps, UcCopy, CopyField
      <4>2. mem[s][f] = Content[s][f]
        BY CopiedUntouched DEF CInv
      <4>3. QED
        BY <2>3, <3>1, <3>2, <4>1, <4>2 DEF UcCopy, CopyField
    <3>3. CASE ~(arg[i] = s /\ f = g)
      <4>1. buf'[i][s][f] = buf[i][s][f]
        BY <2>3, <3>3 DEF CInv, IInv, TypeOK, AnyOps, UcCopy, CopyField
      <4>2. Copied(i, s, f)' => Copied(i, s, f)
        BY <2>3, <3>3 DEF CInv, IInv, TypeOK, UcCopy, CopyField, Visit, Copied
      <4>3. QED
        BY <2>3, <4>1, <4>2 DEF UcCopy, CopyField
    <3>4. QED
      BY <3>2, <3>3
  <2>4. ASSUME NEW g \in Field, ApPatch(i, g) \/ ApRestore(i, g) PROVE Ok(i, s, f)'
    BY <2>4 DEF CInv, IInv, TypeOK, ApPatch, ApRestore, Visit, Copied
  <2>5. ASSUME ApAdd(i) PROVE Ok(i, s, f)'
    BY <2>5 DEF CInv, IInv, TypeOK, Control, ApAdd, AddDataSearch, Goto, Copied
  <2>6. ASSUME UcAdd(i) PROVE Ok(i, s, f)'
    <3>1. pc[i] = "uc_add" /\ pc'[i] = "idle" /\ arg' = arg
      BY <2>6 DEF CInv, IInv, TypeOK, UcAdd, AddDataSearch, Goto
    <3>2. CASE arg[i] = s /\ s \notin global
      <4>1. buf'[i][s] = Patch(i, buf[i][s])
        BY <2>6, <3>2 DEF CInv, IInv, TypeOK, UcAdd
      <4>2. buf[i][s][f] = Content[s][f]
        BY <3>1, <3>2 DEF Copied
      <4>3. QED
        BY <3>1, <4>1, <4>2, PatchPointwise DEF Copied
    <3>3. CASE ~(arg[i] = s /\ s \notin global)
      <4>1. buf'[i][s] = buf[i][s]
        BY <2>6, <3>3 DEF CInv, IInv, TypeOK, UcAdd
      <4>2. s \in table'[i] => s \in table[i]
        BY <2>6, <3>3 DEF CInv, IInv, TypeOK, UcAdd, AddDataSearch
      <4>3. QED
        BY <3>1, <4>1, <4>2 DEF Copied
    <3>4. QED
      BY <3>2, <3>3
  <2>7. ASSUME ApRemove(i) \/ UcRemove(i) PROVE Ok(i, s, f)'
    BY <2>7 DEF CInv, IInv, TypeOK, ApRemove, UcRemove, RemoveDataSearch, Goto, Copied
  <2>8. QED
    BY <2>1, <2>2, <2>3, <2>4, <2>5, <2>6, <2>7 DEF Instrument
<1>4. QED
  BY <1>2, <1>3 DEF Copies

(* The program does not forget an object while it runs an operation of it. *)
LEMMA CallingStep ==
  ASSUME CInv, NEW i \in Interceptor, Instrument(i)
  PROVE  Calling'
<1>1. call' = call
  BY DEF Instrument, Watch, Forget, ApAdd, ApCopy, ApPatch, ApRestore, ApRemove,
         UcCopy, UcAdd, UcRemove, CopyField, AddDataSearch, RemoveDataSearch
<1> SUFFICES ASSUME NEW t \in Thread, call[t] # NoCall, CallOK(call[t]),
                    call[t].via # NULL
             PROVE  HasData(call[t].via, call[t].s)'
  BY <1>1 DEF CInv, Calling, CallOK
<1> DEFINE via == call[t].via
           s == call[t].s
<1>2. via \in Interceptor /\ s \in Struct /\ HasData(via, s) /\ s \notin AtPlace[via]
  BY DEF CInv, IInv, TypeOK, Calls, CallOK
<1>3. CASE via # i
  BY <1>1, <1>2, <1>3, OthersUnchanged DEF CInv, IInv, HasData
<1>4. CASE via = i
  <2> USE <1>1, <1>2, <1>4
  <2>1. ASSUME NEW r \in Struct, Watch(i, r) PROVE HasData(via, s)'
    BY <2>1 DEF CInv, IInv, TypeOK, HasData, Watch, Enter, Goto
  <2>2. ASSUME NEW r \in Struct, Forget(i, r) PROVE HasData(via, s)'
    <3>1. r # s
      BY <2>2 DEF Forget, InCallThroughCopy
    <3>2. QED
      BY <2>2, <3>1 DEF CInv, IInv, TypeOK, HasData, Forget, Enter, Goto
  <2>3. ASSUME NEW f \in Field, ApCopy(i, f) \/ ApPatch(i, f) \/ ApRestore(i, f) \/ UcCopy(i, f)
        PROVE  HasData(via, s)'
    BY <2>3 DEF CInv, IInv, TypeOK, HasData, ApCopy, UcCopy, CopyField, ApPatch,
                ApRestore, Visit
  <2>4. ASSUME ApAdd(i) \/ UcAdd(i) PROVE HasData(via, s)'
    BY <2>4 DEF CInv, IInv, TypeOK, HasData, ApAdd, UcAdd, AddDataSearch, Goto
  <2>5. ASSUME ApRemove(i) \/ UcRemove(i) PROVE HasData(via, s)'
    BY <2>5 DEF CInv, IInv, TypeOK, HasData, ApRemove, UcRemove, RemoveDataSearch, Goto
  <2>6. QED
    BY <2>1, <2>2, <2>3, <2>4, <2>5 DEF Instrument
<1>5. QED
  BY <1>3, <1>4

(* What is found in a structure: the program's operation or a replacement of
   the interceptor that has registered it. *)
LEMMA FoundInStruct ==
  ASSUME IInv, NEW s \in Struct, NEW f \in Field
  PROVE  \/ mem[s][f] = Content[s][f]
         \/ \E j \in Interceptor : s \in table[j] /\ mem[s][f] = Intermediate(j, f)
  BY DEF IInv, Memory, Patched

(* What an intermediate operation of i finds for a call that has reached it. *)
LEMMA FoundByIntermediate ==
  ASSUME SameSelector, CInv, NEW t \in Thread, call[t] # NoCall,
         NEW i \in Interceptor, call[t].op = Intermediate(i, call[t].f), pc[i] = "idle"
  PROVE  \/ OrigOperation(i, call[t]) = Content[call[t].s][call[t].f]
         \/ /\ call[t].via = NULL
            /\ \E j \in Interceptor \ {i} :
                 OrigOperation(i, call[t]) = Intermediate(j, call[t].f)
<1> DEFINE c == call[t]
<1>1. c.s \in Struct /\ c.f \in Field /\ CallOK(c)
  BY DEF CInv, IInv, TypeOK, Calls, Calling
<1>2. c.via \in {NULL, i}
  BY <1>1, ProgramOperation DEF CallOK, Intermediate, Intermediates
<1>3. CASE c.s \in table[i]
  <2>1. CASE c.s \in AtPlace[i]
    BY <1>1, <1>2, <1>3, <2>1 DEF CInv, IInv, Saved, OrigOperation
  <2>2. CASE c.s \notin AtPlace[i]
    BY <1>1, <1>2, <1>3, <2>2, CopiedUntouched DEF CInv, OrigOperation
  <2>3. QED
    BY <2>1, <2>2
<1>4. CASE c.s \notin table[i]
  <2>1. c.via = NULL
    BY <1>1, <1>2, <1>4 DEF CallOK, HasData
  <2>2. OrigOperation(i, c) = mem[c.s][c.f]
    BY <1>4, <2>1 DEF OrigOperation
  <2>3. QED
    BY <1>1, <1>4, <2>1, <2>2, FoundInStruct DEF CInv
<1>5. QED
  BY <1>3, <1>4

LEMMA ExecuteStep ==
  ASSUME SameSelector, CInv, NEW t \in Thread, Execute(t)
  PROVE  Copies' /\ Calling'
<1>1. UNCHANGED <<mem, global, table, buf, pc, arg, todo>>
  BY DEF Execute, CallOperation, Intermediary, Return
<1>2. Copies'
  BY <1>1 DEF CInv, Copies, Copied
<1>3. ASSUME NEW u \in Thread, u # t, call'[u] # NoCall PROVE CallOK(call[u])'
  <2>1. call'[u] = call[u]
    BY <1>3 DEF CInv, IInv, TypeOK, Execute, CallOperation, Intermediary, Return
  <2>2. QED
    BY <1>1, <1>3, <2>1 DEF CInv, Calling, CallOK, HasData
<1>4. ASSUME call'[t] # NoCall PROVE CallOK(call[t])'
  <2>1. ASSUME NEW s \in Struct, NEW via \in Interceptor \cup {NULL}, NEW f \in Field,
               CallOperation(t, s, via, f)
        PROVE  CallOK(call[t])'
    <3>1. call'[t] = [s |-> s, via |-> via, f |-> f,
                      op |-> IF via = NULL THEN mem[s][f] ELSE buf[via][s][f]]
      BY <2>1 DEF CInv, IInv, TypeOK, CallOperation
    <3>2. CASE via = NULL
      BY <1>1, <3>1, <3>2, FoundInStruct DEF CInv, CallOK
    <3>3. CASE via # NULL
      <4>1. via \in Interceptor /\ HasData(via, s) /\ s \notin AtPlace[via]
        BY <2>1, <3>3 DEF CallOperation
      <4>2. buf[via][s][f] = Patch(via, Content[s])[f]
        BY <4>1 DEF CInv, Copies, HasData
      <4>3. buf[via][s][f] \in {Content[s][f], Intermediate(via, f)}
        BY <4>1, <4>2 DEF Patch
      <4>4. HasData(via, s)'
        BY <1>1, <4>1 DEF HasData
      <4>5. QED
        BY <3>1, <3>3, <4>1, <4>3, <4>4 DEF CallOK
    <3>4. QED
      BY <3>2, <3>3
  <2>2. ASSUME NEW i \in Interceptor, Intermediary(t, i) PROVE CallOK(call[t])'
    <3>1. /\ call'[t] = [call[t] EXCEPT !.op = OrigOperation(i, call[t])]
          /\ call[t] # NoCall /\ call[t] \in Calls
      BY <2>2 DEF CInv, IInv, TypeOK, Intermediary
    <3>2. /\ call'[t].s = call[t].s /\ call'[t].via = call[t].via
          /\ call'[t].f = call[t].f /\ call'[t].op = OrigOperation(i, call[t])
      BY <3>1 DEF Calls
    <3>3. \/ OrigOperation(i, call[t]) = Content[call[t].s][call[t].f]
          \/ /\ call[t].via = NULL
             /\ \E j \in Interceptor \ {i} :
                  OrigOperation(i, call[t]) = Intermediate(j, call[t].f)
      BY <2>2, FoundByIntermediate DEF Intermediary
    <3>4. call[t].via # NULL =>
            HasData(call[t].via, call[t].s)' /\ call[t].s \notin AtPlace[call[t].via]
      BY <1>1, <3>1 DEF CInv, Calling, CallOK, HasData
    <3>5. QED
      BY <3>2, <3>3, <3>4 DEF CallOK, HasData
  <2>3. ASSUME Return(t) PROVE CallOK(call[t])'
    BY <1>4, <2>3 DEF CInv, IInv, TypeOK, Return
  <2>4. QED
    BY <2>1, <2>2, <2>3 DEF Execute
<1>5. QED
  BY <1>2, <1>3, <1>4 DEF Calling

LEMMA CInvInit == Init => CInv
<1> SUFFICES ASSUME Init PROVE CInv
  OBVIOUS
<1>1. Copies /\ Calling
  BY DEF Init, Copies, Copied, Calling
<1>2. QED
  BY <1>1, IInvInit DEF CInv

LEMMA CInvStep ==
  ASSUME SameSelector
  PROVE  CInv /\ [Next]_vars => CInv'
<1> SUFFICES ASSUME CInv, [Next]_vars PROVE CInv'
  OBVIOUS
<1>1. IInv'
  BY IInvStep DEF CInv
<1>2. ASSUME NEW i \in Interceptor, Instrument(i) PROVE CInv'
  BY <1>1, <1>2, CopiesStep, CallingStep DEF CInv
<1>3. ASSUME NEW t \in Thread, Execute(t) PROVE CInv'
  BY <1>1, <1>3, ExecuteStep DEF CInv
<1>4. CASE UNCHANGED vars
  BY <1>1, <1>4 DEF CInv, Copies, Copied, Calling, CallOK, HasData, vars
<1>5. QED
  BY <1>2, <1>3, <1>4 DEF Next

(* With one selector for all interceptors, the calls of operations end with
   the operation of the program, and no intermediate operation finds itself
   instead of the original. *)
THEOREM ReachOriginal ==
  ASSUME SameSelector
  PROVE  Spec => []CallsReachOriginal
<1>1. CInv => CallsReachOriginal
  <2> SUFFICES ASSUME CInv, NEW t \in Thread, call[t] # NoCall
               PROVE  /\ call[t].op \notin Intermediates
                           => call[t].op = Content[call[t].s][call[t].f]
                      /\ \A i \in Interceptor :
                           call[t].op = Intermediate(i, call[t].f) /\ pc[i] = "idle"
                             => OrigOperation(i, call[t]) # call[t].op
    BY DEF CallsReachOriginal
  <2>1. call[t].s \in Struct /\ call[t].f \in Field /\ CallOK(call[t])
    BY DEF CInv, IInv, TypeOK, Calls, Calling
  <2>2. call[t].op \notin Intermediates => call[t].op = Content[call[t].s][call[t].f]
    BY <2>1 DEF CallOK, Intermediate, Intermediates
  <2>3. ASSUME NEW i \in Interceptor,
               call[t].op = Intermediate(i, call[t].f), pc[i] = "idle"
        PROVE  OrigOperation(i, call[t]) # call[t].op
    <3>1. Content[call[t].s][call[t].f] # Intermediate(i, call[t].f)
      BY <2>1, ProgramOperation DEF Intermediate, Intermediates
    <3>2. \A j \in Interceptor \ {i} :
            Intermediate(j, call[t].f) # Intermediate(i, call[t].f)
      BY DEF Intermediate
    <3>3. QED
      BY <2>3, <3>1, <3>2, FoundByIntermediate
  <2>4. QED
    BY <2>2, <2>3
<1>2. QED
  BY <1>1, CInvInit, CInvStep, PTL DEF Spec
=============================================================================
