---------------------------- MODULE Instrumentor ----------------------------
(***************************************************************************)
(* Normal instrumentors (kedr_coi_instrumentors.c and the at_place and     *)
(* use_copy mechanisms of kedr_coi_instrumentors_impl.c) together with the *)
(* program whose objects they watch.                                       *)
(*                                                                         *)
(* Every call runs under the spinlock of its instrumentor, so that a call  *)
(* is one action.  Several instrumentors share the table of all used       *)
(* operations, ops_table_global; the steps of that sharing inside a call   *)
(* are the subject of OpsTableGlobal.                                      *)
(*                                                                         *)
(* Indirect interceptors watch objects of Object, each with a pointer to   *)
(* its operations structure.  Direct ones watch objects of DirectObject,   *)
(* each an operations structure itself.                                    *)
(***************************************************************************)
EXTENDS Operations, Naturals, FiniteSets

CONSTANTS
  Object,        \* objects with a pointer to their operations
  DirectObject,  \* objects which contain their operations
  Ops,           \* addresses of the operations structures of the program
  Copy,          \* addresses kmalloc may return for a copy of a structure
  Direct,        \* interceptors created for objects of DirectObject
  AtPlace,       \* AtPlace[i]: the structures for which replace_at_place is true
  Content,       \* Content[s]: what the program stored in structure s
  Given          \* the pointers the program may store in an object

Struct  == Ops \cup DirectObject
Address == Struct \cup Copy \cup {NULL}

ASSUME AddressAssumption ==
  /\ NULL \notin Struct \cup Copy
  /\ Ops \cap DirectObject = {}
  /\ Struct \cap Copy = {}
  /\ Object \cap DirectObject = {}

ASSUME InterceptorAssumption ==
  /\ Direct \subseteq Interceptor
  /\ AtPlace \in [Interceptor -> SUBSET Struct]
  /\ \A i \in Direct : AtPlace[i] = Struct

ASSUME ContentAssumption ==
  Content \in [Struct -> ProgramOps] /\ Given \subseteq Ops \cup {NULL}

ASSUME FiniteAssumption == IsFiniteSet(Object \cup DirectObject)

(* The objects interceptor i may be asked to watch. *)
Watchable(i) == IF i \in Direct THEN DirectObject ELSE Object

VARIABLES
  heap,   \* instrument data, their tables and the memory of the structures
  watch,  \* watch[i]: objects_table of i, from object to the key of its data
  field,  \* field[o]: the pointer to operations stored in object o
  prog,   \* prog[o]: the structure the program last stored in o (history)
  live,   \* objects whose operations the program may use
  lost    \* objects whose pointer a failed update overwrote (history)

vars == <<heap, watch, field, prog, live, lost>>

(***************************************************************************)
(* The heap.  Instrument data of interceptor i are found by their key, the *)
(* original operations pointer; table[i] is idata_table, in which use_copy *)
(* data are entered twice; global is the key set of ops_table_global.      *)
(***************************************************************************)
Key == Struct \cup {NULL}

InstrumentData ==
  [kind : {"at_place"}, repl : Struct, saved : AnyOps, refs : Nat \ {0}]
    \cup
  [kind : {"use_copy"}, repl : Copy, refs : Nat \ {0}]

(* Partial functions, which is what the hash tables are. *)
Nothing == [y \in {} |-> y]
IsPartial(fun, S, T) ==
  DOMAIN fun \subseteq S /\ fun \in [DOMAIN fun -> T]
Put(fun, x, v) == [y \in DOMAIN fun \cup {x} |-> IF y = x THEN v ELSE fun[y]]
Drop(fun, S)   == [y \in DOMAIN fun \ S |-> fun[y]]

HeapOK(h) ==
  /\ h = [idata |-> h.idata, table |-> h.table, global |-> h.global, mem |-> h.mem]
  /\ h.idata = [i \in Interceptor |-> h.idata[i]]
  /\ h.table = [i \in Interceptor |-> h.table[i]]
  /\ \A i \in Interceptor : /\ IsPartial(h.idata[i], Key, InstrumentData)
                            /\ IsPartial(h.table[i], Address, Key)
  /\ h.global \subseteq Address
  /\ IsPartial(h.mem, Struct \cup Copy, AnyOps)

OpsAt(h, a) == IF a = NULL THEN NoOps ELSE h.mem[a]

(* instrument_data_my_operations: a is one of the two pointers of data k. *)
MyOperations(h, i, k, a) == a \in {k, h.idata[i][k].repl}

(* Mistake: the structure is read, not the copy saved before it was patched. *)
OrigOperationInPlace(h, i, k, f) == OpsAt(h, k)[f]

(* instrument_data_get_orig_operation: at_place data keep a copy of the
   original structure, use_copy data read the original structure itself. *)
OrigOperation(h, i, k, f) ==
  LET d == h.idata[i][k]
  IN  IF d.kind = "at_place" THEN d.saved[f] ELSE OpsAt(h, k)[f]

Ref(h, i, k) == [h EXCEPT !.idata[i][k].refs = @ + 1]

(* Mistake: the structure is saved after it was patched. *)
CreateAtPlaceLate(h, i, s) ==
  [idata  |-> [h.idata EXCEPT ![i] =
                 Put(@, s, [kind |-> "at_place", repl |-> s,
                            saved |-> Patch(i, h.mem[s]), refs |-> 1])],
   table  |-> [h.table EXCEPT ![i] = Put(@, s, s)],
   global |-> h.global \cup {s},
   mem    |-> [h.mem EXCEPT ![s] = Patch(i, @)]]

CreateAtPlace(h, i, s) ==
  [idata  |-> [h.idata EXCEPT ![i] =
                 Put(@, s, [kind |-> "at_place", repl |-> s,
                            saved |-> h.mem[s], refs |-> 1])],
   table  |-> [h.table EXCEPT ![i] = Put(@, s, s)],
   global |-> h.global \cup {s},
   mem    |-> [h.mem EXCEPT ![s] = Patch(i, @)]]

CreateCopy(h, i, k, c) ==
  [idata  |-> [h.idata EXCEPT ![i] =
                 Put(@, k, [kind |-> "use_copy", repl |-> c, refs |-> 1])],
   table  |-> [h.table EXCEPT ![i] = Put(Put(@, k, k), c, k)],
   global |-> h.global \cup {k, c},
   mem    |-> Put(h.mem, c, Patch(i, OpsAt(h, k)))]

(* Mistake: only the interceptor's own table is searched. *)
GetDataUnchecked(h, i, a) ==
  IF a \in DOMAIN h.table[i]
  THEN {[key |-> h.table[i][a], heap |-> Ref(h, i, h.table[i][a])]}
  ELSE IF a \in AtPlace[i]
  THEN {[key |-> a, heap |-> CreateAtPlace(h, i, a)]}
  ELSE {[key |-> a, heap |-> CreateCopy(h, i, a, c)] : c \in Copy \ DOMAIN h.mem}

(* What instrumentor_get_data(ops = a) may return, with the heap it leaves. *)
GetData(h, i, a) ==
  IF a \in DOMAIN h.table[i]
  THEN {[key |-> h.table[i][a], heap |-> Ref(h, i, h.table[i][a])]}
  ELSE IF a \in h.global THEN {}
  ELSE IF a \in AtPlace[i]
  THEN {[key |-> a, heap |-> CreateAtPlace(h, i, a)]}
  ELSE {[key |-> a, heap |-> CreateCopy(h, i, a, c)] : c \in Copy \ DOMAIN h.mem}

(* It fails for lack of memory or with -EBUSY: not when data exist already. *)
GetDataMayFail(h, i, a) == a \notin DOMAIN h.table[i]

(* Mistake: the copy is not freed. *)
DestroyLeaksCopy(h, i, k) ==
  LET addresses == {k, h.idata[i][k].repl}
  IN  [idata  |-> [h.idata EXCEPT ![i] = Drop(@, {k})],
       table  |-> [h.table EXCEPT ![i] = Drop(@, addresses)],
       global |-> h.global \ addresses,
       mem    |-> h.mem]

(* Data k are removed from the tables and freed, with their copy. *)
DestroyNorestore(h, i, k) ==
  LET addresses == {k, h.idata[i][k].repl}
  IN  [idata  |-> [h.idata EXCEPT ![i] = Drop(@, {k})],
       table  |-> [h.table EXCEPT ![i] = Drop(@, addresses)],
       global |-> h.global \ addresses,
       mem    |-> Drop(h.mem, addresses \cap Copy)]

(* Mistake: nothing is restored. *)
RestoreNothing(h, i, k) == h

RestoreStruct(h, i, k) ==
  IF h.idata[i][k].kind = "at_place"
  THEN [h EXCEPT !.mem[k] = Restore(i, @, h.idata[i][k].saved)]
  ELSE h

DestroyData(h, i, k) == DestroyNorestore(RestoreStruct(h, i, k), i, k)

Unref(h, i, k) ==
  IF h.idata[i][k].refs = 1
  THEN DestroyData(h, i, k)
  ELSE [h EXCEPT !.idata[i][k].refs = @ - 1]

UnrefNorestore(h, i, k) ==
  IF h.idata[i][k].refs = 1
  THEN DestroyNorestore(h, i, k)
  ELSE [h EXCEPT !.idata[i][k].refs = @ - 1]
-----------------------------------------------------------------------------
(* Calls of a normal instrumentor. *)

(* The operations pointer the call reads: that of the object, or the object. *)
Pointer(x) == IF x \in Object THEN field[x] ELSE x

(* *ops_p = a.  For a direct object the pointer is a local of the call. *)
SetPointer(x, a) ==
  field' = [o \in Object |-> IF o = x THEN a ELSE field[o]]

Watched(i, x) == x \in DOMAIN watch[i]
SetWatch(i, x, k) == watch' = [watch EXCEPT ![i] = Put(@, x, k)]
DropWatch(i, x)   == watch' = [watch EXCEPT ![i] = Drop(@, {x})]

(* A watch of an object which is watched already, with operations we know. *)
WatchUpdate(i, x) ==
  /\ x \in live /\ Watched(i, x)
  /\ MyOperations(heap, i, watch[i][x], Pointer(x))
  /\ SetPointer(x, heap.idata[i][watch[i][x]].repl)
  /\ UNCHANGED <<heap, watch, prog, live, lost>>

(* Mistake: the reference to the data used until now is kept. *)
WatchMovedLeaks(i, x) ==
  /\ x \in live /\ Watched(i, x)
  /\ ~MyOperations(heap, i, watch[i][x], Pointer(x))
  /\ \E d \in GetData(heap, i, Pointer(x)) :
       /\ heap' = d.heap
       /\ SetWatch(i, x, d.key)
       /\ SetPointer(x, d.heap.idata[i][d.key].repl)
  /\ UNCHANGED <<prog, live, lost>>

(* The same for an object to which the program gave other operations. *)
WatchMoved(i, x) ==
  /\ x \in live /\ Watched(i, x)
  /\ ~MyOperations(heap, i, watch[i][x], Pointer(x))
  /\ \E d \in GetData(heap, i, Pointer(x)) :
       /\ heap' = Unref(d.heap, i, watch[i][x])
       /\ SetWatch(i, x, d.key)
       /\ SetPointer(x, d.heap.idata[i][d.key].repl)
  /\ UNCHANGED <<prog, live, lost>>

(* The update fails: the watch is forgotten, and the object's pointer gets
   the original operations of the data it was watched with. *)
WatchMovedFails(i, x) ==
  /\ x \in live /\ Watched(i, x)
  /\ ~MyOperations(heap, i, watch[i][x], Pointer(x))
  /\ GetDataMayFail(heap, i, Pointer(x))
  /\ heap' = Unref(heap, i, watch[i][x])
  /\ DropWatch(i, x)
  /\ SetPointer(x, watch[i][x])
  /\ lost' = lost \cup {x}
  /\ UNCHANGED <<prog, live>>

WatchNew(i, x) ==
  /\ x \in live /\ ~Watched(i, x)
  /\ \E d \in GetData(heap, i, Pointer(x)) :
       /\ heap' = d.heap
       /\ SetWatch(i, x, d.key)
       /\ SetPointer(x, d.heap.idata[i][d.key].repl)
  /\ UNCHANGED <<prog, live, lost>>

(* No memory for the watch data: the reference just taken is dropped. *)
WatchNewFails(i, x) ==
  /\ x \in live /\ ~Watched(i, x)
  /\ \E d \in GetData(heap, i, Pointer(x)) : heap' = Unref(d.heap, i, d.key)
  /\ UNCHANGED <<watch, field, prog, live, lost>>

Watch(i, x) ==
  \/ WatchUpdate(i, x) \/ WatchMoved(i, x) \/ WatchMovedFails(i, x)
  \/ WatchNew(i, x) \/ WatchNewFails(i, x)

(* Mistake: a pointer which the program has changed is overwritten. *)
ForgetAlways(i, x) ==
  /\ x \in live /\ Watched(i, x)
  /\ SetPointer(x, watch[i][x])
  /\ heap' = Unref(heap, i, watch[i][x])
  /\ DropWatch(i, x)
  /\ UNCHANGED <<prog, live, lost>>

(* The object's pointer is restored unless the program has changed it. *)
Forget(i, x) ==
  /\ x \in live /\ Watched(i, x)
  /\ SetPointer(x, IF MyOperations(heap, i, watch[i][x], Pointer(x))
                   THEN watch[i][x] ELSE Pointer(x))
  /\ heap' = Unref(heap, i, watch[i][x])
  /\ DropWatch(i, x)
  /\ UNCHANGED <<prog, live, lost>>

(* The object, which may be freed already, is not accessed.  For a direct
   interceptor the object is the structure, so neither is the structure. *)
ForgetNorestore(i, x) ==
  /\ Watched(i, x)
  /\ heap' = IF i \in Direct THEN UnrefNorestore(heap, i, watch[i][x])
                             ELSE Unref(heap, i, watch[i][x])
  /\ DropWatch(i, x)
  /\ live' = live \ {x}
  /\ UNCHANGED <<field, prog, lost>>

(* kedr_coi_instrumentor_destroy drops every watch, in the order of the hash
   table, and with the last reference to them all data of i. *)
DestroyAll(h, i) ==
  LET copies == {h.idata[i][k].repl : k \in DOMAIN h.idata[i]} \cap Copy
      inPlace == {k \in DOMAIN h.idata[i] : h.idata[i][k].kind = "at_place"}
  IN  [idata  |-> [h.idata EXCEPT ![i] = Drop(@, DOMAIN @)],
       table  |-> [h.table EXCEPT ![i] = Drop(@, DOMAIN @)],
       global |-> h.global \ DOMAIN h.table[i],
       mem    |-> [a \in DOMAIN h.mem \ copies |->
                     IF a \in inPlace
                     THEN Restore(i, h.mem[a], h.idata[i][a].saved)
                     ELSE h.mem[a]]]

(* The program must not use the objects left with a pointer to a copy. *)
Destroy(i) ==
  /\ DOMAIN watch[i] # {}
  /\ heap' = DestroyAll(heap, i)
  /\ watch' = [watch EXCEPT ![i] = Drop(@, DOMAIN @)]
  /\ live' = live \ {o \in Object : field[o] \in Copy \ DOMAIN heap'.mem}
  /\ UNCHANGED <<field, prog, lost>>

(* kedr_coi_instrumentor_get_orig_operation: the operation to call instead
   of the intermediate one, when object x has operations a. *)
GetOrigOperation(i, x, a, f) ==
  IF Watched(i, x) THEN OrigOperation(heap, i, watch[i][x], f)
  ELSE IF a \in DOMAIN heap.table[i]
  THEN OrigOperation(heap, i, heap.table[i][a], f)
  ELSE IF OwnReplacement(i, heap.mem[a][f]) THEN Intermediate(i, f)
  ELSE heap.mem[a][f]
-----------------------------------------------------------------------------
(* Steps of the program. *)

(* An object is created, or its pointer to operations is set again. *)
ProgramSetOps(o, a) ==
  /\ SetPointer(o, a)
  /\ prog' = [prog EXCEPT ![o] = a]
  /\ live' = live \cup {o}
  /\ lost' = lost \ {o}
  /\ UNCHANGED <<heap, watch>>

(* A direct object is created at the address of one that was freed. *)
ProgramInit(s) ==
  /\ s \in DirectObject \ live
  /\ heap' = [heap EXCEPT !.mem[s] = Content[s]]
  /\ live' = live \cup {s}
  /\ UNCHANGED <<watch, field, prog, lost>>

(* An object is freed while it may still be watched. *)
ProgramFree(x) ==
  /\ x \in live
  /\ live' = live \ {x}
  /\ UNCHANGED <<heap, watch, field, prog, lost>>
-----------------------------------------------------------------------------
Init ==
  /\ heap = [idata  |-> [i \in Interceptor |-> Nothing],
             table  |-> [i \in Interceptor |-> Nothing],
             global |-> {},
             mem    |-> Content]
  /\ watch = [i \in Interceptor |-> Nothing]
  /\ field \in [Object -> Given]
  /\ prog = field
  /\ live = Object \cup DirectObject
  /\ lost = {}

Next ==
  \/ \E i \in Interceptor :
       \/ \E x \in Watchable(i) : Watch(i, x) \/ Forget(i, x) \/ ForgetNorestore(i, x)
       \/ Destroy(i)
  \/ \E o \in Object, a \in Given : ProgramSetOps(o, a)
  \/ \E s \in DirectObject : ProgramInit(s)
  \/ \E x \in Object \cup DirectObject : ProgramFree(x)

Spec == Init /\ [][Next]_vars
-----------------------------------------------------------------------------
(***************************************************************************)
(* Properties.                                                             *)
(***************************************************************************)

(* Data and their watches keep their types; a direct object is the key of
   its own data. *)
TypeOK ==
  /\ HeapOK(heap)
  /\ DOMAIN watch = Interceptor
  /\ \A i \in Interceptor : IsPartial(watch[i], Watchable(i), DOMAIN heap.idata[i])
  /\ field \in [Object -> Ops \cup Copy \cup {NULL}]
  /\ prog \in [Object -> Ops \cup {NULL}]
  /\ live \subseteq Object \cup DirectObject
  /\ lost \subseteq Object

(* The reference count of instrument data is the number of objects watched
   with them: no failed or repeated watch leaks data, and none frees data
   which an object still uses. *)
RefsExact ==
  \A i \in Interceptor : \A k \in DOMAIN heap.idata[i] :
    heap.idata[i][k].refs = Cardinality({x \in DOMAIN watch[i] : watch[i][x] = k})

(* What the program stored at a. *)
ContentAt(a) == IF a = NULL THEN NoOps ELSE Content[a]

(* A copy is allocated as long as data use it. *)
CopiesHeld ==
  DOMAIN heap.mem = Struct \cup
    UNION {{heap.idata[i][k].repl : k \in DOMAIN heap.idata[i]} : i \in Interceptor}

(* Structures which are not instrumented hold what the program stored there,
   so do those instrumented by a copy, and no structure, saved original or
   copy ever mixes the replacements of two interceptors.  A direct object
   created anew at the address of a watched one is not instrumented again. *)
NeverStacked ==
  /\ \A s \in Struct \ heap.global :
       s \in Ops \cup live => heap.mem[s] = Content[s]
  /\ \A i \in Interceptor : \A k \in DOMAIN heap.idata[i] :
       LET d == heap.idata[i][k]
       IN  IF d.kind = "at_place"
           THEN /\ d.repl = k /\ d.saved = Content[k]
                /\ \/ heap.mem[k] = Patch(i, Content[k])
                   \/ k \in DirectObject /\ heap.mem[k] = Content[k]
           ELSE /\ heap.mem[d.repl] = Patch(i, ContentAt(k))
                /\ OpsAt(heap, k) = ContentAt(k)

(* Interceptor i watches x with data of operations the program has replaced
   since: the program must call watch again. *)
Stale(i, x) ==
  Watched(i, x) /\ ~MyOperations(heap, i, watch[i][x], Pointer(x))

(* The operations x would have were there no interceptors. *)
Wanted(x) == IF x \in Object THEN ContentAt(prog[x]) ELSE Content[x]

Called(x, f) == OpsAt(heap, Pointer(x))[f]

(* Whatever watches, updates, failures and stops came before, the operation
   called for an object is the one the program gave it, or an intermediate
   one which finds it; the pointer never refers to a freed copy. *)
Transparent ==
  \A x \in live \ lost :
    /\ Pointer(x) \in DOMAIN heap.mem \cup {NULL}
    /\ \A f \in Field :
         /\ Called(x, f) \notin Intermediates => Called(x, f) = Wanted(x)[f]
         /\ \A i \in Interceptor :
              Called(x, f) = Intermediate(i, f) /\ ~Stale(i, x)
                => GetOrigOperation(i, x, Pointer(x), f) = Wanted(x)[f]

(* The calls for object o go through the intermediate operations of i. *)
Intercepts(i, o) ==
  /\ Watched(i, o) /\ watch[i][o] \in DOMAIN heap.idata[i]
  /\ field[o] = heap.idata[i][watch[i][o]].repl
  /\ heap.mem[field[o]] = Patch(i, ContentAt(watch[i][o]))

(* What the interceptors of objects with a pointer to operations promise to
   the program, whatever direct interceptors do beside them. *)
Promise == INSTANCE Interception WITH
  Interceptor <- Interceptor \ Direct,
  watched     <- [i \in Interceptor \ Direct |-> DOMAIN watch[i]],
  intercepted <- [i \in Interceptor \ Direct |-> {o \in Object : Intercepts(i, o)}],
  usable      <- live \cap Object

(* Each call does to its object what the API promises, and nothing to any
   other object: that they share operations structures, copies and reference
   counts, or are watched by several interceptors, never shows.  A watch
   that succeeds intercepts; one that fails keeps nothing. *)
Implements == Promise!Spec

(* A live object has an operations pointer of the library only as long as it
   is watched with the data that own this pointer; every other live object
   has the pointer the program gave it, whoever has forgotten it. *)
PointersOwned ==
  \A o \in Object \cap live :
    \/ o \in lost /\ field[o] \in Ops \cup {NULL}
    \/ field[o] = prog[o]
    \/ \E i \in Interceptor :
         /\ Watched(i, o)
         /\ field[o] = heap.idata[i][watch[i][o]].repl
         /\ o \in lost \/ watch[i][o] = prog[o]

(* Forgetting a direct object without restoring it does not write to it: it
   may be freed already. *)
NorestoreUntouched ==
  [][\A i \in Direct : \A s \in DirectObject :
       ForgetNorestore(i, s) => heap'.mem[s] = heap.mem[s]]_vars

=============================================================================
