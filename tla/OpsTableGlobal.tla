--------------------------- MODULE OpsTableGlobal ---------------------------
(***************************************************************************)
(* How several instrumentors share one operations structure.               *)
(*                                                                         *)
(* Each instrumentor works under its own spinlock, which excludes only     *)
(* itself; ops_table_global, under a lock of its own, is all that keeps    *)
(* two of them from instrumenting the same structure.  This module takes   *)
(* the creation and the destruction of instrument data apart into the      *)
(* steps that other instrumentors, and threads that call the operations,   *)
(* may see.  Reference counts and objects are the subject of Instrumentor: *)
(* here every watch is the first for its structure and every forget the    *)
(* last.                                                                   *)
(***************************************************************************)
EXTENDS Operations

CONSTANTS
  Struct,   \* operations structures of the program
  AtPlace,  \* AtPlace[i]: the structures for which replace_at_place is true
  Content,  \* Content[s]: what the program stored in structure s
  Thread    \* threads that call operations

ASSUME StructAssumption ==
  /\ AtPlace \in [Interceptor -> SUBSET Struct]
  /\ Content \in [Struct -> ProgramOps]

ASSUME NullAssumption == NULL \notin Struct \cup Interceptor

VARIABLES
  mem,     \* mem[s]: the contents of structure s
  global,  \* ops_table_global: the structures in use by any instrumentor
  table,   \* table[i]: idata_table of i, the structures with data of i
  buf,     \* buf[i][s]: ops_orig (at_place) or ops_repl (use_copy) of the data
  pc,      \* pc[i]: where the call that holds the lock of i is
  arg,     \* arg[i]: the structure of that call
  todo,    \* todo[i]: fields that call has still to copy, patch or restore
  call     \* call[t]: the call of an operation that thread t is in

vars == <<mem, global, table, buf, pc, arg, todo, call>>

Labels == {"idle", "ap_add", "ap_copy", "ap_patch", "ap_restore", "ap_remove",
           "uc_copy", "uc_add", "uc_remove"}

(* Thread t calls field f through structure s, with via = NULL, or through the
   copy of s made by interceptor via; op is the operation it is about to run. *)
Calls == [s : Struct, via : Interceptor \cup {NULL}, f : Field,
          op : Function \cup {NULL} \cup Intermediates]
NoCall == [s |-> NULL, via |-> NULL, f |-> NULL, op |-> NULL]

Goto(i, from, to) == pc[i] = from /\ pc' = [pc EXCEPT ![i] = to]
Enter(i, to, s) ==
  /\ Goto(i, "idle", to)
  /\ arg' = [arg EXCEPT ![i] = s]
  /\ todo' = [todo EXCEPT ![i] = Field]

(* The loop over the fields takes field f; when none is left it starts the
   next loop over them, or what follows, at label "to". *)
Visit(i, f, at, to) ==
  /\ pc[i] = at /\ f \in todo[i]
  /\ IF todo[i] = {f}
     THEN pc' = [pc EXCEPT ![i] = to] /\ todo' = [todo EXCEPT ![i] = Field]
     ELSE pc' = pc /\ todo' = [todo EXCEPT ![i] = @ \ {f}]
  /\ UNCHANGED arg
-----------------------------------------------------------------------------
(* instrumentor_get_data for structure s, of which i has no data yet. *)
Watch(i, s) ==
  /\ s \notin table[i]
  /\ Enter(i, IF s \in AtPlace[i] THEN "ap_add" ELSE "uc_copy", s)
  /\ UNCHANGED <<mem, global, table, buf, call>>

(* Mistake: the structure is registered whoever uses it. *)
AddDataSearchUnchecked(i, at, next) ==
  /\ Goto(i, at, next)
  /\ global' = global \cup {arg[i]}
  /\ table' = [table EXCEPT ![i] = @ \cup {arg[i]}]
  /\ UNCHANGED <<mem, arg, todo, call>>

(* instrumentor_add_data_search, under the lock of ops_table_global; -EBUSY
   ends the call.  "next" is what follows when the search data are added. *)
AddDataSearch(i, at, next) ==
  /\ IF arg[i] \in global
     THEN Goto(i, at, "idle") /\ UNCHANGED <<global, table>>
     ELSE /\ Goto(i, at, next)
          /\ global' = global \cup {arg[i]}
          /\ table' = [table EXCEPT ![i] = @ \cup {arg[i]}]
  /\ UNCHANGED <<mem, arg, todo, call>>

(* instrumentor_remove_data_search, under the same lock. *)
RemoveDataSearch(i, at) ==
  /\ Goto(i, at, "idle")
  /\ global' = global \ {arg[i]}
  /\ table' = [table EXCEPT ![i] = @ \ {arg[i]}]
  /\ UNCHANGED <<mem, buf, arg, todo, call>>

CopyField(i, f, at, to) ==
  /\ Visit(i, f, at, to)
  /\ buf' = [buf EXCEPT ![i][arg[i]][f] = mem[arg[i]][f]]
  /\ UNCHANGED <<mem, global, table, call>>

(* Mistake: the structure is not saved. *)
ApAddNoCopy(i) == AddDataSearch(i, "ap_add", "ap_patch") /\ UNCHANGED buf

(* ap_idata_create: register, save the structure, then patch it. *)
ApAdd(i) == AddDataSearch(i, "ap_add", "ap_copy") /\ UNCHANGED buf
ApCopy(i, f) == CopyField(i, f, "ap_copy", "ap_patch")
ApPatch(i, f) ==
  /\ Visit(i, f, "ap_patch", "idle")
  /\ mem' = [mem EXCEPT ![arg[i]][f] = Patch(i, mem[arg[i]])[f]]
  /\ UNCHANGED <<global, table, buf, call>>

(* uc_idata_create: copy the structure, register, then patch the copy. *)
UcCopy(i, f) == CopyField(i, f, "uc_copy", "uc_add")
UcAdd(i) ==
  /\ AddDataSearch(i, "uc_add", "idle")
  /\ buf' = IF arg[i] \in global THEN buf
            ELSE [buf EXCEPT ![i][arg[i]] = Patch(i, @)]

(* A thread is in a call made through the copy of s that i has made. *)
InCallThroughCopy(i, s) == \E t \in Thread : call[t].via = i /\ call[t].s = s

(* Mistake: data are removed from the tables with no structure restored. *)
ForgetUnrestored(i, s) ==
  /\ s \in table[i]
  /\ s \in AtPlace[i] \/ ~InCallThroughCopy(i, s)
  /\ Enter(i, IF s \in AtPlace[i] THEN "ap_remove" ELSE "uc_remove", s)
  /\ UNCHANGED <<mem, global, table, buf, call>>

(* The last object watched with the structure is forgotten.  The program does
   not forget an object in the middle of an operation called for it. *)
Forget(i, s) ==
  /\ s \in table[i]
  /\ s \in AtPlace[i] \/ ~InCallThroughCopy(i, s)
  /\ Enter(i, IF s \in AtPlace[i] THEN "ap_restore" ELSE "uc_remove", s)
  /\ UNCHANGED <<mem, global, table, buf, call>>

(* ap_idata_destroy: restore the structure, then remove the search data. *)
ApRestore(i, f) ==
  /\ Visit(i, f, "ap_restore", "ap_remove")
  /\ mem' = [mem EXCEPT ![arg[i]][f] = Restore(i, mem[arg[i]], buf[i][arg[i]])[f]]
  /\ UNCHANGED <<global, table, buf, call>>
ApRemove(i) == RemoveDataSearch(i, "ap_remove")
UcRemove(i) == RemoveDataSearch(i, "uc_remove")
-----------------------------------------------------------------------------
(* Threads that call an operation of an object. *)

(* Interceptor i has data of s, which it is not about to create or destroy. *)
HasData(i, s) == s \in table[i] /\ ~(pc[i] # "idle" /\ arg[i] = s)

(* The object's operations are s itself, or the copy of an interceptor which
   watches the object. *)
CallOperation(t, s, via, f) ==
  /\ call[t] = NoCall
  /\ via # NULL => HasData(via, s) /\ s \notin AtPlace[via]
  /\ call' = [call EXCEPT ![t] =
       [s |-> s, via |-> via, f |-> f,
        op |-> IF via = NULL THEN mem[s][f] ELSE buf[via][s][f]]]
  /\ UNCHANGED <<mem, global, table, buf, pc, arg, todo>>

(* Mistake: the operations are returned, not the operation. *)
OrigOperations(i, c) == c.s

(* kedr_coi_instrumentor_get_orig_operation, under the lock of i, called by
   the intermediate operation of i; it finds its own replacement when it
   knows nothing of the structure, which is the error -EINVAL. *)
OrigOperation(i, c) ==
  LET op == IF c.via = NULL THEN mem[c.s][c.f] ELSE buf[c.via][c.s][c.f]
  IN  IF c.via \in {NULL, i} /\ c.s \in table[i]
      THEN IF c.s \in AtPlace[i] THEN buf[i][c.s][c.f] ELSE mem[c.s][c.f]
      ELSE op

Intermediary(t, i) ==
  /\ call[t] # NoCall /\ call[t].op = Intermediate(i, call[t].f)
  /\ pc[i] = "idle"
  /\ OrigOperation(i, call[t]) # call[t].op
  /\ call' = [call EXCEPT ![t].op = OrigOperation(i, call[t])]
  /\ UNCHANGED <<mem, global, table, buf, pc, arg, todo>>

Return(t) ==
  /\ call[t] # NoCall /\ call[t].op \notin Intermediates
  /\ call' = [call EXCEPT ![t] = NoCall]
  /\ UNCHANGED <<mem, global, table, buf, pc, arg, todo>>
-----------------------------------------------------------------------------
Init ==
  /\ mem = Content
  /\ global = {}
  /\ table = [i \in Interceptor |-> {}]
  /\ buf = [i \in Interceptor |-> [s \in Struct |-> NoOps]]
  /\ pc = [i \in Interceptor |-> "idle"]
  /\ arg \in [Interceptor -> Struct]
  /\ todo = [i \in Interceptor |-> Field]
  /\ call = [t \in Thread |-> NoCall]

Instrument(i) ==
  \/ \E s \in Struct : Watch(i, s) \/ Forget(i, s)
  \/ \E f \in Field : ApCopy(i, f) \/ ApPatch(i, f) \/ ApRestore(i, f) \/ UcCopy(i, f)
  \/ ApAdd(i) \/ ApRemove(i) \/ UcAdd(i) \/ UcRemove(i)

Execute(t) ==
  \/ \E s \in Struct, via \in Interceptor \cup {NULL}, f \in Field :
       CallOperation(t, s, via, f)
  \/ \E i \in Interceptor : Intermediary(t, i)
  \/ Return(t)

Next ==
  \/ \E i \in Interceptor : Instrument(i)
  \/ \E t \in Thread : Execute(t)

Spec == Init /\ [][Next]_vars
-----------------------------------------------------------------------------
(***************************************************************************)
(* Properties.                                                             *)
(***************************************************************************)

TypeOK ==
  /\ mem \in [Struct -> AnyOps]
  /\ global \subseteq Struct
  /\ table \in [Interceptor -> SUBSET Struct]
  /\ buf \in [Interceptor -> [Struct -> AnyOps]]
  /\ pc \in [Interceptor -> Labels]
  /\ arg \in [Interceptor -> Struct]
  /\ todo \in [Interceptor -> SUBSET Field]
  /\ call \in [Thread -> Calls \cup {NoCall}]

(* At any step of any watch or forget, the replacements found in a structure
   are those of the one interceptor that has registered it: the field is
   restored before the structure may be used by another one. *)
ExclusiveUse ==
  \A s \in Struct : \A f \in Field :
    \/ mem[s][f] = Content[s][f]
    \/ \E i \in Interceptor : s \in table[i] /\ mem[s][f] = Intermediate(i, f)

(* The data of a structure instrumented at place hold the original operations
   of the program in every field where the replacement may be found. *)
SavedOriginal ==
  \A i \in Interceptor : \A s \in AtPlace[i] : \A f \in Field :
    mem[s][f] = Intermediate(i, f) => buf[i][s][f] = Content[s][f]

(* A call ends with the operation of the program, whatever interceptors start
   and stop to use the structure in the meantime, and no intermediate
   operation ever finds its own replacement instead of the original. *)
CallsReachOriginal ==
  \A t \in Thread :
    LET c == call[t]
    IN  c # NoCall =>
          /\ c.op \notin Intermediates => c.op = Content[c.s][c.f]
          /\ \A i \in Interceptor :
               c.op = Intermediate(i, c.f) /\ pc[i] = "idle"
                 => OrigOperation(i, c) # c.op
=============================================================================
