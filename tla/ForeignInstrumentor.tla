------------------------- MODULE ForeignInstrumentor -------------------------
(***************************************************************************)
(* Foreign instrumentors (the second half of kedr_coi_instrumentors.c and  *)
(* the apf_ part of kedr_coi_instrumentors_impl.c), bound to a normal one. *)
(*                                                                         *)
(* A foreign instrumentor watches a field with an operations pointer, that *)
(* of a factory, from which the program copies the pointer to new objects. *)
(* Its replacements are put into the structure the normal instrumentor has *)
(* prepared, over those of other foreign instrumentors.  The first call of *)
(* an operation of the new object reaches one of them, which binds the     *)
(* object: the normal instrumentor watches it, and the call goes on with   *)
(* the operation this one would find.                                      *)
(*                                                                         *)
(* Every call runs under the spinlock of the normal instrumentor and is    *)
(* one action; an intermediate operation of the program's call is taken    *)
(* apart into one action for each operation it is chained to.              *)
(***************************************************************************)
EXTENDS Instrumentor, Sequences, SequencesExt

CONSTANTS
  Bound,    \* the normal interceptor
  Foreign,  \* interceptors of object creation bound to it
  Factory,  \* the fields of Object from which operations are copied
  Watching  \* the watches the program asks for: an id, a tie, a field

Id  == {w.id : w \in Watching}
Tie == {w.tie : w \in Watching}

ASSUME BoundAssumption ==
  /\ Interceptor = {Bound} \cup Foreign /\ Bound \notin Foreign
  /\ Direct = {}
  /\ Factory \subseteq Object /\ NULL \notin Factory
  /\ Watching \subseteq [id : Id, tie : Tie, ops_p : Object]
  /\ \A p \in Factory : \E w \in Watching : w.ops_p = p
  /\ \A v, w \in Watching : v.id = w.id => v.ops_p = w.ops_p
  /\ IsFiniteSet(Foreign) /\ IsFiniteSet(Watching)

(* Replacements of a foreign instrumentor do not depend on the original: its
   operations are all marked as intercepted, with the default, when its
   payloads are used, and those generated for factories have a default. *)
ASSUME ForeignModeAssumption ==
  \A g \in Foreign, f \in Field : Mode[g][f] \in {"replace_all", "no_replacement"}

VARIABLES
  chain,   \* chain[k]: foreign_data_list of data k, the instrumentors in it
  frefs,   \* frefs[g][k]: references to the foreign data of g for data k
  fwatch,  \* fwatch[g]: ids_table of g, from id to its watch data
  origin,  \* origin[o]: the factory from which o was created, or NULL
  dangling, \* objects whose pointer refers to a copy that was freed
  call,    \* the call of an operation which is under way, or NULL
  oops     \* what made the kernel stop, or "none"

foreignVars == <<chain, frefs, fwatch>>
fvars == <<vars, foreignVars, origin, dangling, call, oops>>
-----------------------------------------------------------------------------
(***************************************************************************)
(* Foreign data.  The heap, the lists and the reference counts are passed  *)
(* together: c.heap, c.chain, c.refs.                                      *)
(***************************************************************************)
Data == [heap |-> heap, chain |-> chain, refs |-> frefs]

SetData(c) == heap' = c.heap /\ chain' = c.chain /\ frefs' = c.refs

(* instrumentor_foreign_find_data *)
HasForeign(c, g, a) ==
  a \in DOMAIN c.heap.table[Bound] /\ g \in ToSet(c.chain[c.heap.table[Bound][a]])

(* What replace_operation_generic leaves of op when the original is orig. *)
Replaced(i, f, orig, op) == IF Replaces(i, f, orig) THEN Intermediate(i, f) ELSE op

(* The operation of data k with the replacement of the normal instrumentor. *)
NormalOperation(c, k, f) ==
  LET orig == OrigOperation(c.heap, Bound, k, f) IN Replaced(Bound, f, orig, orig)

(* The instrumentors before g in the list which replace the operation. *)
Earlier(c, g, k, f) ==
  {n \in DOMAIN c.chain[k] :
     /\ \E m \in DOMAIN c.chain[k] : n < m /\ c.chain[k][m] = g
     /\ Replaces(c.chain[k][n], f, OrigOperation(c.heap, Bound, k, f))}

(* The replacement of the nearest of them. *)
Previous(c, g, k, f, none) ==
  IF Earlier(c, g, k, f) = {} THEN none
  ELSE Intermediate(c.chain[k][Max(Earlier(c, g, k, f))], f)

(* Mistake: the chain ends in no operation. *)
ChainOperationNone(c, g, k, f) == Previous(c, g, k, f, NULL)

ChainOperation(c, g, k, f) ==
  Previous(c, g, k, f, OrigOperation(c.heap, Bound, k, f))

CreateForeign(c, g, k) ==
  [heap  |-> [c.heap EXCEPT !.mem[c.heap.idata[Bound][k].repl] =
                [f \in Field |-> Replaced(g, f, OrigOperation(c.heap, Bound, k, f), @[f])]],
   chain |-> [c.chain EXCEPT ![k] = Append(@, g)],
   refs  |-> [c.refs EXCEPT ![g][k] = 1]]

(* What instrumentor_foreign_get_data(ops = a) may return: the key of the
   data and c with a reference taken. *)
ForeignGet(c, g, a) ==
  IF HasForeign(c, g, a)
  THEN LET k == c.heap.table[Bound][a]
       IN  {[key |-> k, data |-> [c EXCEPT !.refs[g][k] = @ + 1]]}
  ELSE {[key |-> d.key, data |-> CreateForeign([c EXCEPT !.heap = d.heap], g, d.key)] :
          d \in GetData(c.heap, Bound, a)}

(* What it may leave when it fails: the data of the normal instrumentor may
   have been obtained, and are released. *)
ForeignGetFails(c, g, a) ==
  IF HasForeign(c, g, a) THEN {}
  ELSE {x \in {c} : GetDataMayFail(c.heap, Bound, a)}
         \cup {[c EXCEPT !.heap = Unref(d.heap, Bound, d.key)] :
                 d \in GetData(c.heap, Bound, a)}

(* Mistakes: our operations stay in the structure, or they become the
   original ones. *)
DestroyForeignUnrestored(c, g, k) ==
  [heap  |-> Unref(c.heap, Bound, k),
   chain |-> [c.chain EXCEPT ![k] = RemoveFirst(@, g)],
   refs  |-> [c.refs EXCEPT ![g][k] = 0]]
DestroyForeignBare(c, g, k) ==
  LET repl == c.heap.idata[Bound][k].repl
      h    == [c.heap EXCEPT !.mem[repl] =
                 [f \in Field |-> IF @[f] = Intermediate(g, f)
                                  THEN OrigOperation(c.heap, Bound, k, f) ELSE @[f]]]
  IN  [heap  |-> Unref(h, Bound, k),
       chain |-> [c.chain EXCEPT ![k] = RemoveFirst(@, g)],
       refs  |-> [c.refs EXCEPT ![g][k] = 0]]

(* apf_idata_foreign_ops_destroy: an operation which is still ours becomes
   that of the previous instrumentor in the list or the normal one. *)
DestroyForeign(c, g, k) ==
  LET repl == c.heap.idata[Bound][k].repl
      h    == [c.heap EXCEPT !.mem[repl] =
                 [f \in Field |-> IF @[f] = Intermediate(g, f)
                                  THEN Previous(c, g, k, f, NormalOperation(c, k, f))
                                  ELSE @[f]]]
  IN  [heap  |-> Unref(h, Bound, k),
       chain |-> [c.chain EXCEPT ![k] = RemoveFirst(@, g)],
       refs  |-> [c.refs EXCEPT ![g][k] = 0]]

ForeignUnref(c, g, k) ==
  IF c.refs[g][k] = 1 THEN DestroyForeign(c, g, k)
                      ELSE [c EXCEPT !.refs[g][k] = @ - 1]
-----------------------------------------------------------------------------
(* Calls of a foreign instrumentor. *)

IsWatched(g, id) == id \in DOMAIN fwatch[g]
FieldWatched(p)  == \E g \in Foreign : \E id \in DOMAIN fwatch[g] : fwatch[g][id].ops_p = p
TieWatches(g, t) == {id \in DOMAIN fwatch[g] : fwatch[g][id].tie = t}

SetForeignWatch(g, w, k) ==
  fwatch' = [fwatch EXCEPT ![g] = Put(@, w.id, [data |-> k, tie |-> w.tie, ops_p |-> w.ops_p])]
DropForeignWatch(g, id) == fwatch' = [fwatch EXCEPT ![g] = Drop(@, {id})]

Usable(x) == x \in live \ dangling

(* The data which watches of the field of o keep. *)
KeptFor(o) ==
  {watch[Bound][x] : x \in {o} \cap DOMAIN watch[Bound]} \cup
  {fwatch[gi[1]][gi[2]].data :
     gi \in {hi \in Foreign \X Id : IsWatched(hi[1], hi[2]) /\ fwatch[hi[1]][hi[2]].ops_p = o}}

(* The pointer in o is that of a copy such data have. *)
OwnPointer(o) == field[o] \in Copy /\ \E k \in KeptFor(o) : field[o] = heap.idata[Bound][k].repl

(* A call which was to bind its object may miss the watch from now on. *)
Untie == call' = IF call = NULL THEN NULL ELSE [call EXCEPT !.tied = FALSE]

(* An id watched already, with operations we know.  The tie and the field
   of the watch stay those of the first call. *)
ForeignWatchUpdate(g, w) ==
  /\ IsWatched(g, w.id)
  /\ LET k == fwatch[g][w.id].data
     IN  /\ MyOperations(heap, Bound, k, field[w.ops_p])
         /\ SetPointer(w.ops_p, heap.idata[Bound][k].repl)
  /\ UNCHANGED <<heap, watch, prog, live, lost, foreignVars, origin, call, oops>>

(* Mistake: the data used until now are not released. *)
ForeignWatchMovedLeaks(g, w) ==
  /\ IsWatched(g, w.id)
  /\ LET old == fwatch[g][w.id]
     IN  /\ ~MyOperations(heap, Bound, old.data, field[w.ops_p])
         /\ \E d \in ForeignGet(Data, g, field[w.ops_p]) :
              /\ SetData(d.data)
              /\ fwatch' = [fwatch EXCEPT ![g][w.id].data = d.key]
              /\ SetPointer(w.ops_p, d.data.heap.idata[Bound][d.key].repl)
  /\ Untie /\ UNCHANGED <<watch, prog, live, lost, origin, oops>>

(* The same for a field in which the program has stored another pointer. *)
ForeignWatchMoved(g, w) ==
  /\ IsWatched(g, w.id)
  /\ LET old == fwatch[g][w.id]
     IN  /\ ~MyOperations(heap, Bound, old.data, field[w.ops_p])
         /\ \E d \in ForeignGet(Data, g, field[w.ops_p]) :
              /\ SetData(ForeignUnref(d.data, g, old.data))
              /\ fwatch' = [fwatch EXCEPT ![g][w.id].data = d.key]
              /\ SetPointer(w.ops_p, d.data.heap.idata[Bound][d.key].repl)
  /\ Untie /\ UNCHANGED <<watch, prog, live, lost, origin, oops>>

(* The update fails: the pointer is restored from the data which were not
   obtained, that is through an error value. *)
ForeignWatchMovedFails(g, w) ==
  /\ IsWatched(g, w.id)
  /\ ~MyOperations(heap, Bound, fwatch[g][w.id].data, field[w.ops_p])
  /\ \E c \in ForeignGetFails(Data, g, field[w.ops_p]) : SetData(c)
  /\ oops' = "update"
  /\ UNCHANGED <<watch, field, prog, live, lost, fwatch, origin, call>>

ForeignWatchNew(g, w) ==
  /\ ~IsWatched(g, w.id) /\ ~FieldWatched(w.ops_p)
  /\ \E d \in ForeignGet(Data, g, field[w.ops_p]) :
       /\ SetData(d.data)
       /\ SetForeignWatch(g, w, d.key)
       /\ SetPointer(w.ops_p, d.data.heap.idata[Bound][d.key].repl)
  /\ UNCHANGED <<watch, prog, live, lost, origin, call, oops>>

(* There is no memory for the foreign data or for the watch data. *)
ForeignWatchNewFails(g, w) ==
  /\ ~IsWatched(g, w.id) /\ ~FieldWatched(w.ops_p)
  /\ \E c \in ForeignGetFails(Data, g, field[w.ops_p]) \cup
               {ForeignUnref(d.data, g, d.key) : d \in ForeignGet(Data, g, field[w.ops_p])} :
       SetData(c)
  /\ UNCHANGED <<watch, field, prog, live, lost, fwatch, origin, call, oops>>

ForeignWatch(g, w) ==
  /\ Usable(w.ops_p)
  /\ \/ ForeignWatchUpdate(g, w) \/ ForeignWatchMoved(g, w)
     \/ ForeignWatchMovedFails(g, w)
     \/ ForeignWatchNew(g, w) \/ ForeignWatchNewFails(g, w)

(* Mistake: the field keeps the pointer of the watch. *)
ForeignForgetUnrestored(g, id) ==
  /\ IsWatched(g, id)
  /\ LET w == fwatch[g][id]
     IN  /\ Usable(w.ops_p)
         /\ SetData(ForeignUnref(Data, g, w.data))
  /\ DropForeignWatch(g, id) /\ Untie
  /\ UNCHANGED <<watch, field, prog, live, lost, origin, oops>>

(* kedr_coi_foreign_instrumentor_forget: the field gets the original pointer
   even when the program has changed it. *)
ForeignForget(g, id) ==
  /\ IsWatched(g, id)
  /\ LET w == fwatch[g][id]
     IN  /\ Usable(w.ops_p)
         /\ SetPointer(w.ops_p, w.data)
         /\ lost' = IF MyOperations(heap, Bound, w.data, field[w.ops_p])
                    THEN lost ELSE lost \cup {w.ops_p}
         /\ SetData(ForeignUnref(Data, g, w.data))
  /\ DropForeignWatch(g, id) /\ Untie
  /\ UNCHANGED <<watch, prog, live, origin, oops>>

(* The same when the factory may be freed already. *)
ForeignForgetNorestore(g, id) ==
  /\ IsWatched(g, id)
  /\ SetData(ForeignUnref(Data, g, fwatch[g][id].data))
  /\ live' = live \ {fwatch[g][id].ops_p}
  /\ DropForeignWatch(g, id) /\ Untie
  /\ UNCHANGED <<watch, field, prog, lost, origin, oops>>

(* kedr_coi_interceptor_stop destroys the foreign instrumentors and then the
   normal one.  No call may be under way.  The watches are dropped one by one
   in the order of the hash tables.  The objects left watched keep pointers to
   copies that are freed; the program does not use them any more. *)
DestroyForeignAll(c) ==
  LET all == SetToSeq({gi \in Foreign \X Id : IsWatched(gi[1], gi[2])})
      after[n \in 0 .. Len(all)] ==
        IF n = 0 THEN c
        ELSE ForeignUnref(after[n - 1], all[n][1], fwatch[all[n][1]][all[n][2]].data)
  IN  after[Len(all)]

Stop ==
  /\ call = NULL
  /\ \/ DOMAIN watch[Bound] # {}
     \/ \E g \in Foreign : DOMAIN fwatch[g] # {}
  /\ LET c == DestroyForeignAll(Data)
     IN  SetData([c EXCEPT !.heap = DestroyAll(c.heap, Bound)])
  /\ watch'  = [watch EXCEPT ![Bound] = Nothing]
  /\ fwatch' = [g \in Foreign |-> Nothing]
  /\ live'   = {x \in live : x \in Object => ~OwnPointer(x)}
  /\ UNCHANGED <<field, prog, lost, origin, call, oops>>
-----------------------------------------------------------------------------
(***************************************************************************)
(* A call of an operation of a new object.  call.op is the operation to be *)
(* run next, call.want the one the program gave the object.  Two flags say *)
(* what the program may expect: call.same, that the watches which the      *)
(* call met were of the operations the object has; call.tied, that a       *)
(* foreign instrumentor the call comes through has watched the tie since   *)
(* it began, and none has moved or forgotten a watch.                      *)
(***************************************************************************)
(* The fields from which object o may have its operations. *)
Sources(o) == {o, origin[o]} \ {NULL}

CallRecord ==
  [obj : Object, tie : Tie, field : Field, op : Function \cup {NULL} \cup Intermediates,
   want : Function \cup {NULL}, same : BOOLEAN, tied : BOOLEAN]

(* An instrumentor of the list which replaces the operation watches the tie. *)
Tied(a, f, t) ==
  \E g \in Foreign : /\ HasForeign(Data, g, a) /\ TieWatches(g, t) # {}
                     /\ Mode[g][f] = "replace_all"

BeginCall(o, f) ==
  /\ call = NULL /\ Usable(o) /\ o \notin Factory
  /\ Called(o, f) \in Intermediates
  /\ \E w \in Watching :
       /\ w.ops_p \in Sources(o)
       /\ call' = [obj |-> o, tie |-> w.tie, field |-> f, op |-> Called(o, f),
                   want |-> Wanted(o)[f], same |-> o \notin lost,
                   tied |-> Tied(field[o], f, w.tie)]
  /\ UNCHANGED <<vars, foreignVars, origin, oops>>

Crash(why) == oops' = why /\ UNCHANGED <<vars, foreignVars, origin, call>>

(* No memory, or -EBUSY, for the watch of an object not watched before. *)
WatchRefused(o) ==
  /\ ~Watched(Bound, o) /\ GetDataMayFail(heap, Bound, field[o])
  /\ UNCHANGED vars

(* Mistake: the object is not watched. *)
BindTiedUnwatched(g) ==
  LET o == call.obj
  IN  /\ \E id \in TieWatches(g, call.tie) :
           LET k == fwatch[g][id].data
           IN  call' = [call EXCEPT !.op = NormalOperation(Data, k, call.field),
                                    !.same = @ /\ MyOperations(heap, Bound, k, field[o])]
      /\ UNCHANGED <<vars, foreignVars, origin, oops>>

(* foreign_instrumentor_bind, the tie is watched: so is the object now. *)
BindTied(g) ==
  LET o == call.obj
  IN  /\ \E id \in TieWatches(g, call.tie) :
           LET k == fwatch[g][id].data
           IN  /\ Watch(Bound, o) \/ WatchRefused(o)
               /\ call' = [call EXCEPT !.op = NormalOperation(Data, k, call.field),
                                       !.same = @ /\ MyOperations(heap, Bound, k, field[o]),
                                       !.tied = @ /\ o \in DOMAIN watch'[Bound]]
      /\ UNCHANGED <<foreignVars, origin, oops>>

(* The object is watched.  Its pointer is updated, and overwritten if the
   program has changed it. *)
BindWatched(g) ==
  LET o == call.obj
      k == watch[Bound][o]
      repl == heap.idata[Bound][k].repl
      op == IF HasForeign(Data, g, repl) THEN NormalOperation(Data, k, call.field)
            ELSE heap.mem[repl][call.field]
      mine == MyOperations(heap, Bound, k, field[o])
  IN  /\ TieWatches(g, call.tie) = {} /\ Watched(Bound, o)
      /\ SetPointer(o, repl)
      /\ lost' = IF mine THEN lost ELSE lost \cup {o}
      /\ call' = [call EXCEPT !.op = op, !.same = @ /\ mine]
      /\ oops' = IF op = Intermediate(g, call.field) THEN "bug" ELSE oops
      /\ UNCHANGED <<heap, watch, prog, live, foreignVars, origin>>

(* The operations of the object are instrumented, by us or, as it turns out,
   not by us any more: then its pointer is restored. *)
BindChain(g) ==
  LET o == call.obj
  IN  /\ TieWatches(g, call.tie) = {} /\ ~Watched(Bound, o)
      /\ HasForeign(Data, g, field[o])
      /\ call' = [call EXCEPT
                    !.op = ChainOperation(Data, g, heap.table[Bound][field[o]], call.field)]
      /\ UNCHANGED <<vars, foreignVars, origin, oops>>

(* The operation found in the structure at a.  The original of our own
   replacement is lost; the null pointer is read like any other. *)
ChainTo(g, a) ==
  IF a = NULL THEN oops' = "null" /\ UNCHANGED call
  ELSE LET op == heap.mem[a][call.field]
       IN  /\ call' = [call EXCEPT !.op = op]
           /\ oops' = IF op = Intermediate(g, call.field) THEN "bug" ELSE oops

BindRestore(g) ==
  LET o == call.obj
  IN  /\ TieWatches(g, call.tie) = {} /\ ~Watched(Bound, o)
      /\ field[o] \in DOMAIN heap.table[Bound] /\ ~HasForeign(Data, g, field[o])
      /\ SetPointer(o, heap.table[Bound][field[o]])
      /\ ChainTo(g, heap.table[Bound][field[o]])
      /\ UNCHANGED <<heap, watch, prog, live, lost, foreignVars, origin>>

BindUnknown(g) ==
  LET o == call.obj
  IN  /\ TieWatches(g, call.tie) = {} /\ ~Watched(Bound, o)
      /\ field[o] \notin DOMAIN heap.table[Bound]
      /\ ChainTo(g, field[o])
      /\ UNCHANGED <<vars, foreignVars, origin>>

Bind(g) ==
  /\ call # NULL /\ call.op = Intermediate(g, call.field)
  /\ IF call.obj \in dangling THEN Crash("freed")
     ELSE \/ BindTied(g) \/ BindWatched(g) \/ BindChain(g)
          \/ BindRestore(g) \/ BindUnknown(g)

(* The intermediate operation of the normal interceptor. *)
CallNormal ==
  /\ call # NULL /\ call.op = Intermediate(Bound, call.field)
  /\ LET o == call.obj
     IN  IF ~Watched(Bound, o) /\ o \in dangling THEN Crash("freed")
         ELSE IF ~Watched(Bound, o) /\ field[o] = NULL /\ NULL \notin DOMAIN heap.table[Bound]
         THEN Crash("null")
         ELSE /\ call' = [call EXCEPT
                            !.op = GetOrigOperation(Bound, o, field[o], call.field),
                            !.same = @ /\ ~Stale(Bound, o)]
              /\ UNCHANGED <<vars, foreignVars, origin, oops>>

(* The operation of the program runs. *)
EndCall ==
  /\ call # NULL /\ call.op \notin Intermediates
  /\ call' = NULL
  /\ UNCHANGED <<vars, foreignVars, origin, oops>>
-----------------------------------------------------------------------------
(* Steps of the program and of the normal instrumentor. *)

Idle(x) == IF call = NULL THEN TRUE ELSE call.obj # x

(* Object o is created with the operations of factory p. *)
ProgramCreate(o, p) ==
  /\ o \in Object \ Factory /\ p \in Factory /\ Usable(p) /\ Idle(o)
  /\ SetPointer(o, field[p])
  /\ prog' = [prog EXCEPT ![o] = prog[p]]
  /\ origin' = [origin EXCEPT ![o] = p]
  /\ live' = live \cup {o}
  /\ lost' = IF p \in lost THEN lost \cup {o} ELSE lost \ {o}
  /\ UNCHANGED <<heap, watch, foreignVars, call, oops>>

ForeignProgram ==
  \/ \E o \in Object, p \in Factory : ProgramCreate(o, p)
  \/ \E o \in Object, a \in Given :
       /\ Idle(o) /\ ProgramSetOps(o, a)
       /\ origin' = [origin EXCEPT ![o] = NULL]
       /\ UNCHANGED <<foreignVars, call, oops>>
  \/ \E o \in Object : Idle(o) /\ ProgramFree(o) /\ UNCHANGED <<foreignVars, origin, call, oops>>

NormalCall ==
  /\ \E x \in Object : \/ Usable(x) /\ (Watch(Bound, x) \/ Forget(Bound, x))
                       \/ Idle(x) /\ ForgetNorestore(Bound, x)
  /\ Untie
  /\ UNCHANGED <<foreignVars, origin, oops>>

(* The pointers left to copies which the step has freed. *)
FreedCopies ==
  dangling' = {o \in Object :
    /\ field'[o] \in Copy
    /\ \/ field'[o] \notin DOMAIN heap'.mem
       \/ o \in dangling /\ field'[o] = field[o]}

ForeignInit ==
  /\ Init
  /\ chain = [k \in Key |-> <<>>]
  /\ frefs = [g \in Foreign |-> [k \in Key |-> 0]]
  /\ fwatch = [g \in Foreign |-> Nothing]
  /\ origin = [o \in Object |-> NULL]
  /\ dangling = {} /\ call = NULL /\ oops = "none"

ForeignNext ==
  /\ oops = "none"
  /\ \/ \E g \in Foreign :
          \/ \E w \in Watching : ForeignWatch(g, w)
          \/ \E id \in Id : ForeignForget(g, id) \/ ForeignForgetNorestore(g, id)
          \/ Bind(g)
     \/ Stop \/ CallNormal \/ EndCall
     \/ \E o \in Object, f \in Field : BeginCall(o, f)
     \/ NormalCall \/ ForeignProgram
  /\ FreedCopies

ForeignSpec == ForeignInit /\ [][ForeignNext]_fvars
-----------------------------------------------------------------------------
(***************************************************************************)
(* Properties.                                                             *)
(***************************************************************************)

(* Foreign data and watches keep their types; the call too. *)
ForeignTypeOK ==
  /\ HeapOK(heap)
  /\ chain \in [Key -> Seq(Foreign)]
  /\ \A g \in Foreign : frefs[g] \in [Key -> Nat]
  /\ \A g \in Foreign : \A id \in DOMAIN fwatch[g] :
       /\ id \in Id
       /\ fwatch[g][id] \in [data : DOMAIN heap.idata[Bound], tie : Tie, ops_p : Object]
  /\ origin \in [Object -> Factory \cup {NULL}]
  /\ dangling \subseteq Object
  /\ call \in CallRecord \cup {NULL}
  /\ oops \in {"none", "update", "null", "freed", "bug"}

(* The watches of an instrumentor keep its foreign data, each foreign data is
   once in the list of the normal data, and these are kept by the objects
   watched and by the foreign data in the list: no path of a failed or moved
   watch leaks data or releases those in use. *)
ForeignRefsExact ==
  /\ \A g \in Foreign : \A k \in Key :
       /\ frefs[g][k] = Cardinality({id \in DOMAIN fwatch[g] : fwatch[g][id].data = k})
       /\ Cardinality({n \in DOMAIN chain[k] : chain[k][n] = g}) =
            IF frefs[g][k] > 0 THEN 1 ELSE 0
  /\ \A k \in Key :
       LET users == Cardinality({x \in DOMAIN watch[Bound] : watch[Bound][x] = k})
       IN  IF k \in DOMAIN heap.idata[Bound]
           THEN heap.idata[Bound][k].refs = users + Len(chain[k])
           ELSE users + Len(chain[k]) = 0

(* Whatever the order in which foreign instrumentors came to a structure and
   left it, each of its operations is the replacement of the last of them
   that replaces it, then that of the normal instrumentor, then the
   original; a structure nobody uses is as the program left it. *)
LastOnTop ==
  /\ \A k \in DOMAIN heap.idata[Bound] : \A f \in Field :
       LET orig == ContentAt(k)[f]
           on   == {n \in DOMAIN chain[k] : Replaces(chain[k][n], f, orig)}
       IN  /\ OrigOperation(heap, Bound, k, f) = orig
           /\ heap.mem[heap.idata[Bound][k].repl][f] =
                IF on # {} THEN Intermediate(chain[k][Max(on)], f)
                ELSE Replaced(Bound, f, orig, orig)
  /\ \A s \in Ops \ heap.global : heap.mem[s] = Content[s]

(* The call of an operation of a created object ends in the operation the
   program gave the object, through however many foreign instrumentors it is
   chained, and whoever is watched, forgotten or stopped between them. *)
CallReaches ==
  call # NULL /\ call.same /\ call.obj \notin lost /\ call.op \notin Intermediates
    => call.op = call.want

(* A created object is watched by the normal interceptor when its first own
   operation runs, if a foreign instrumentor watches its tie. *)
BoundInTime ==
  call # NULL /\ call.tied /\ call.op \notin Foreign \X Field
    => Watched(Bound, call.obj)

(* A live object has a pointer to a copy of the library only while a watch of
   its own keeps the data of that copy, unless the program created the object
   with the pointer of a factory.  Only in such an object may the pointer
   outlive the copy; as long as it does not, it is one to the operations the
   program meant, or these were lost. *)
PointersHeld ==
  \A o \in Object \cap live :
    field[o] \in Copy =>
      \/ o \notin dangling /\ OwnPointer(o)
      \/ origin[o] # NULL /\ o \in dangling
      \/ origin[o] # NULL /\ \E k \in DOMAIN heap.idata[Bound] :
           field[o] = heap.idata[Bound][k].repl /\ (k = prog[o] \/ o \in lost)

(* An intermediate operation always finds an operation which is not its own:
   the BUG_ON of bind are never reached. *)
NoBug == oops # "bug"

(***************************************************************************)
(* What comments say of the program and the code does not do.              *)
(***************************************************************************)

(* A watch which cannot be updated fails with an error code. *)
UpdateFails == oops # "update"
=============================================================================
