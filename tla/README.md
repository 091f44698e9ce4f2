# A TLA+ verification of KEDR COI

KEDR COI (callback operations interception) is a library of the Linux kernel.
A driver gives the kernel *objects* whose *operations* are callbacks: a `struct
file` with its `struct file_operations`, say. KEDR COI replaces those callbacks
by *intermediate operations*, which call the handlers of *payloads* before and
after the *original* operation. This directory holds TLA+ modules of its core,
the configurations that check them with TLC on small instances, and theorems
proved with TLAPS for all instances. Paths below are those of the repository
under `sources/`.

## 1. The system

### 1.1 Components

| Component | Code | State it keeps | Operations |
|---|---|---|---|
| Operations structures | `core/kedr_coi_instrumentor_internal.h`, generic part of `core/kedr_coi_instrumentors_impl.c` | the structures themselves, in memory of the program | patch a field, restore it, read it, recognise one's own replacement |
| Normal instrumentor | `core/kedr_coi_instrumentors.c`, `core/kedr_coi_instrumentors_impl.c` (`ap_*`, `uc_*`) | `objects_table` (watched objects), `idata_table` (instrument data by operations pointer), reference counts, copies, saved originals | `watch`, `forget`, `forget_norestore`, the direct variants, `get_orig_operation`, `create`, `destroy` |
| `ops_table_global` | `core/kedr_coi_instrumentors_impl.c:30-140` | addresses of structures in use by any instrumentor | add and remove the search data of instrument data |
| Foreign instrumentor | `core/kedr_coi_instrumentors.c:480-1010`, `apf_*` in `core/kedr_coi_instrumentors_impl.c` | watches by id and by tie, foreign data in a list of each normal data | `watch`, `forget`, `forget_norestore`, `bind`, `create`, `destroy` |
| Payloads | `core/payloads.c` | registered payloads, those fixed for use, handlers per operation, replacements, module references | `add`, `remove`, `use`, `unuse`, `get_interception_info` |
| Interceptors | `core/kedr_coi_interceptors.c` | state (initialized or started), its instrumentor, its factory interceptors | `create`, `start`, `stop`, `destroy`, and the API in front of the instrumentor and the payloads |
| Hash table | `core/kedr_coi_hash_table.c` | an array of lists | add, remove, find, exchange an element, resize |
| Intermediate operations | `templates/kedr_coi_interceptor/*.tpl` | none (the stack) | handlers and chained operation |
| Mechanism selector | `core/kedr_coi_interceptors.c:874-907` | none | whether a structure is patched at place |
| Module initialisation | `core/kedr_coi_module.c` | none | creates and destroys `ops_table_global` |
| Example `file_access_counter` | `examples/file_access_counter/` | what is set up; what its six interceptors watch | initialisation, exit, handlers that watch and forget objects of a file system |
| Template engine of `kedr_gen` | `tools/kedr_gen/src/mist_engine/` | groups of templates, their values and marks | parse, create, set and clear values, evaluate, destroy |
| Other generators, trampolines, other examples, tests, build files | `tools/`, `templates/kedr_trampolines.c`, `examples/`, `tests/` | none at run time | none |

The code that generates interceptors is now `tools/jinja2-yaml`;
`tools/CMakeLists.txt` does not build `kedr_gen` any more, but it is in the
repository with its documentation, and its template engine has an algorithm of
its own that deserves a check.

### 1.2 How they interact

An interceptor owns one instrumentor and one set of payloads. `start` fixes
the payloads, computes from them which operations are replaced and how
(`replace_all`, `replace_null`, `replace_not_null`), creates the instrumentor
with these replacements and starts the factory interceptors bound to it.
`watch(object)` hands the object's operations pointer to the instrumentor. If
the structure there is instrumented already, the instrumentor takes one more
reference to its instrument data; otherwise it makes new data by one of two
mechanisms. *at_place* saves the structure and patches it where it is;
*use_copy* patches a copy, to which the object's pointer is then directed.
Data are found by the address of the original structure and of the copy, in
the table of the instrumentor and in the one table that all instrumentors
share. The last `forget` of an object restores the structure, or frees the
copy.

A factory interceptor has a *foreign* instrumentor, bound to the normal one. It
watches the field (of a factory object) from which new objects get their
operations, and puts its replacement over that of the normal instrumentor. The
first call of an operation of the new object reaches it; `bind` then lets the
normal instrumentor watch the object and says which operation comes next in the
chain.

A call of a replaced operation arrives in the intermediate operation, which
asks the instrumentor for the original operation and the payloads for the
handlers. All calls of one instrumentor, and of those bound to it, exclude each
other by a spinlock, and calls of one set of payloads by a mutex, but normal
instrumentors exclude each other only inside the functions that touch the
global table. The program calls the operations of its objects, sets their
pointers, frees them and reuses their memory at any time, and so do modules
that provide payloads load and unload.

### 1.3 What is hard

- **Two instrumentors, one structure.** A structure must be saved, registered,
  patched, restored and unregistered in an order in which no other
  instrumentor ever saves a replacement as an original.
- **Several foreign instrumentors, one structure.** They come and go in any
  order; what one puts back must be what the others below it want.
- **Sharing.** Objects share instrument data. The counts must be exact through
  repeated watches, watches after the program has set the pointer again,
  failures for lack of memory, failures with `-EBUSY` and stops.
- **A call under way.** The structure through which a thread has come may be
  restored, and instrumented by another interceptor, before the intermediate
  operation asks for the original; a watch of the factory or of the new object
  may be moved or forgotten before `bind`.
- **Freed objects.** An object may be freed, and its memory used again, while
  it is watched.
- **Partial failure** while handlers and replacements are computed, while a
  hash table is narrowed, and at each of the fifteen steps of the example's
  initialisation.
- **Handlers that run late.** A handler that watches an object runs after the
  operation that made the object visible to others.
- **Modules** may be unloaded between the registration of a payload and its use.
- **State that remains.** Values and marks of templates survive an evaluation.

`PROJECT.json` lists each hazard at its line with the properties about it.

### 1.4 What makes the components correct

- *Instrumentor.* The program sees no difference: the operation called for an
  object ends in the one the program gave it; a pointer never refers to a freed
  copy; no data leak; what is watched stays intercepted; that objects share
  structures does not show.
- *`ops_table_global`.* At every step a structure holds replacements of at
  most one normal interceptor, and the originals are saved while it does.
- *Foreign instrumentor.* An object created by a watched factory is watched
  before its first own operation runs, and the call ends in the operation the
  program gave it.
- *Payloads.* Exactly the operations for which there are handlers are
  replaced; handlers run in order and only while their module is held; a failed
  use leaves nothing behind.
- *Interceptors.* Start and stop take all factory interceptors along or none;
  a factory interceptor works only while the normal one does; no call meets an
  interceptor that is not started, unless a stop has overtaken the call.
- *Hash table.* It is a table: lists, hashes and resizing do not show.
- *`file_access_counter`.* What is watched is in memory; nothing is missed but
  what others reach by way of a directory or an inode before its own handler has
  run; what is set up has what it needs, also while the set-up is undone.
- *Template engine.* A string is accepted if it is a template and only then;
  a group evaluates to what its templates mean, whatever happened to it before.

## 2. Modules

Operators whose comment begins with *Mistake* are variants of the definition
after them, as a plausible slip in the code would make it. Nothing refers to
them: they record which error each property is able to notice.

### 2.1 `Operations`

An operations structure is a function from fields to operations; an operation
is a function of the program, NULL, or `Intermediate(i, f)`, the replacement of
field `f` by interceptor `i`. `Patch` and `Restore` are what the loops over
`struct kedr_coi_replacement` do with one structure. `Restore` leaves a field
alone that does not hold the replacement any more. Every other module about
instrumentation extends this one.

### 2.2 `Instrumentor`

Each entry point of the normal instrumentor is one action, because it holds
the spinlock of its instrumentor from its first to its last access.

| TLA+ | Code |
|---|---|
| `heap.idata`, `heap.table` | instrument data, `idata_table` |
| `heap.global` | keys of `ops_table_global` |
| `heap.mem` | contents of structures and of allocated copies |
| `watch` | `objects_table`, each object with the key of its data |
| `field` | the operations pointer in each object |
| `prog`, `lost` | history: what the program stored; pointers a failed update overwrote |
| `live` | objects whose operations the program may still use |
| `WatchNew`, `WatchUpdate`, `WatchMoved` and the two that fail | the paths of `instrumentor_watch_internal` |
| `Forget`, `ForgetNorestore` | `kedr_coi_instrumentor_forget`, `..._forget_direct` |
| `Destroy` | `kedr_coi_instrumentor_destroy` |
| `GetOrigOperation` | `kedr_coi_instrumentor_get_orig_operation` |
| `ProgramSetOps`, `ProgramInit`, `ProgramFree` | what drivers and kernel do with their objects |

Indirect interceptors (a pointer in the object) and direct ones (the object
is the structure) are the same actions with different objects. A hash table is
a partial function. Allocation may fail at any call. NULL is a key like any
other, as in the code: an object without operations gets a copy of an empty
structure.

What the program is assumed to do: it calls operations only of live objects; an
object left at a stop with a pointer to a freed copy is not used again; it does
not write into an operations structure. The documentation of the API asks for
the first two.

### 2.3 `Interception`

The abstract specification of the library as the header gives it to those who
write interceptors: which objects are watched by whom, whose calls are
intercepted, and which objects the program may use. Each call of the API does
something to its object and nothing to any other; a watch that fails for an
object watched before forgets it; one that succeeds intercepts. There are no
structures, copies, tables or counts in it. `Instrumentor` implements it
(`Implements`) under the refinement mapping `watched <- DOMAIN watch[i]`,
`intercepted <- {o : Intercepts(i, o)}` and `usable <- live \cap Object`, where
`Intercepts` follows the object's pointer to a structure and asks whether this
has the replacements. The mapping takes the indirect interceptors; direct ones
may work beside them, and their steps are stutters of it. For direct objects
themselves nothing of the kind is stated, as the memory of one that was freed is
not followed: run `direct` has the invariants only.

### 2.4 `OpsTableGlobal`

This module takes the calls of `Instrumentor` apart where others can see it.
A label of `pc[i]` is a place in `ap_idata_create`, `ap_idata_destroy`,
`uc_idata_create` or `uc_idata_destroy`; the loops over the fields, which write
one word at a time into a structure that other threads read, are one step per
field in any order; registration under the lock of the table is one step.
`CallOperation` is a thread that reads an operation through the structure or
through a copy; `Intermediary` is the question for the original operation, and
may be asked again if the answer is another interceptor's replacement. Counts
are left to `Instrumentor`: each watch here is the first of its structure and
each forget the last. One assumption about the program: it does not forget an
object in the middle of an operation called for it, so a copy is not destroyed
while a thread that came through it is on its way. Nothing of the kind is
assumed of structures instrumented at place.

### 2.5 `ForeignInstrumentor`

This module extends `Instrumentor`: foreign data are kept by the heap, the
reference counts and the operations of the normal instrumentor to which the
foreign ones are bound, as they are in the code.

| TLA+ | Code |
|---|---|
| `chain`, `frefs` | `foreign_data_list` of normal data, reference counts of foreign data |
| `fwatch` | `ids_table`; the table of ties is the same records by another key |
| `ForeignWatchNew`, `...Update`, `...Moved` and those that fail | the paths of `foreign_instrumentor_watch` |
| `ForeignForget`, `ForeignForgetNorestore`, `Stop` | `kedr_coi_foreign_instrumentor_forget`, `..._forget_norestore`, `..._destroy` |
| `CreateForeign`, `DestroyForeign` | `apf_idata_foreign_ops_create`, `..._destroy` |
| `ChainOperation`, `NormalOperation` | `..._get_chain_operation`, `..._get_repl_operation` and the like |
| `BindTied`, `BindWatched`, `BindChain`, `BindRestore`, `BindUnknown` | the cases of `foreign_instrumentor_bind` |
| `call`, `BeginCall`, `CallNormal`, `EndCall` | a call of an operation, from one operation of the chain to the next |
| `origin`, `dangling` | history: the factory of each object; pointers to copies that were freed |
| `KeptFor`, `OwnPointer` | the data that watches of an object keep, its own and those of it as a factory; the object has the pointer to the copy of such data |
| `oops` | what stops the kernel: a bad pointer, or a `BUG_ON` |

One call is under way at a time, and everything else may happen between its
steps. The program is assumed not to set or free the object whose operation is
called, and not to destroy the instrumentors during a call. It may read a
pointer to a copy that was freed in an object which nobody has watched; that
ends the run of the model (`"freed"`), as would the null pointer: both are left
to the program by the documentation. A stop forgets what is left without
restoring it, as if it had been freed; objects that still have a pointer of
their own to a copy then are not used any more (`live`).

`PointersHeld` says which objects can have the pointer of a copy: a live one has
it only while a watch of its own keeps the data of this copy, and then the copy
is there, unless the program has created the object with the pointer of a
factory. Only an object of that kind may point to a copy that was freed; one
that does not points to the operations it was created with.

### 2.6 `Payloads`

One set of payloads. Every call holds the mutex and is one action. `UseFails`
stands for every point at which `operation_payloads_use` may run out of memory:
`PartlyUsed` are the states in which the handlers and replacements may be then,
and the action undoes that state as the code does. Modules are live, being
unloaded, or gone; `try_module_get` (`CanFix`) succeeds for a live one only,
and a payload of a module that is being unloaded is left out of use. Handlers
are entries [payload, when, operation, external], the default variant of an
operation is the one put in place of NULL. The arrays that `use` builds one
handler at a time are `UseHandlers`, a recursive function over the handlers.
The assumption `GroupAssumption` is
not checked by the code: an operation without a default is in no group; the
templates generate whatever group the interceptor's author writes.

### 2.7 `Interceptors`

One normal interceptor and the factory interceptors created for it. Nothing in
the code makes start, stop and calls of the library wait for one another, so
each step that another thread could notice is an action, and calls begin and go
on at any time: before a start, between the steps of a start, of a failing start
or of a stop, and from one life of an interceptor into the next.

| TLA+ | Code |
|---|---|
| `state`, `list` | `state` of both kinds of interceptors, `factory_interceptors` |
| `used`, `instr` | payloads in use, `instrumentor` not NULL |
| `watched` | `objects_table` of the instrumentor |
| `pc`, `todo` | place in `kedr_coi_interceptor_start` or `..._stop`, and the rest of its loop |
| `CreateInterceptor`, `CreateFactory`, `DestroyInterceptor`, `DestroyFactory` | `..._create_common`, `..._destroy` |
| `StartUse`, `StartCreate`, `StartFactory` and those that fail | `kedr_coi_interceptor_start`, `factory_interceptor_start` |
| `StopBegin`, `StopMark`, `StopRestore`, `StopUnuse` | `kedr_coi_interceptor_stop`, `factory_interceptor_stop`, and the error path of start, which does the same in the same order |
| `WatchBegin`, `ForgetBegin`, `CallOperation` | a thread enters `watch`, `forget` or an intermediate operation of the normal or of a factory interceptor |
| `CheckState` | the check of the state, without a lock: `-EPERM`, or the `BUG_ON` of an operation (`at = "bug"`) |
| `WatchEnd`, `ForgetEnd`, `IntermediateInfo`, `BindObject` | what the call does then with the instrumentor, or the thread stays where it uses one that is not there |
| `Return` | the end of an operation whose handlers were called |
| `late` in `call` | history: a stop has marked the interceptor as not started, or destroyed its instrumentor, since the call's check |

`Reached` holds the objects for which an intermediate operation may be called:
those that share a structure with a watched one, too. A watch that fails
(`WatchResults`) leaves its object not watched, also if it was before; that the
same failure of a factory's watch ends in a bad pointer is in
`ForeignInstrumentor`. A use of payloads that fails changes nothing and is no
action.

What the program is assumed to do: one thread of control creates, starts, stops
and destroys the interceptors; the memory of an interceptor is not freed while a
call is about to access it (`Accessed`); an object is not freed in the middle of
a call for it. Nothing is assumed of when `watch` and `forget` are called, or of
objects being forgotten before a stop. A call that a stop has overtaken may meet
the `BUG_ON` or an instrumentor that was destroyed. The library has no means to
wait for it, and `StartedWhenUsed` and `HandlersStay` except such calls, and
those alone: section 5.2. Steps are seen in the order of the program.

### 2.8 `LookupTable` and `HashTable`

`LookupTable` is what the other modules take for granted when they use a partial
function: an element is found by its key until it is removed, the one added last
first. `HashTable` has the array of lists, the hash function as a constant, and
every function of `kedr_coi_hash_table.c`. Any allocation of a resize may fail
(`ok`). `IsNeedExpand` and `IsNeedNarrow` are FALSE as in the code, so
`ReallocKeeps` asks of each content the table can have what any resize would do
with it. `Implements` maps a table to `Listed`, the elements under each key in
their order (`Only`, a walk that keeps some elements of a list). The
instrumentors never add a key twice, and for them the table is a partial
function.

### 2.9 `FsInterception`

The example as it would run on a file system: `SetUp`, `Exit`, `TearDown` are
`kedr_coi_fs_interception_init`, the error labels and exits of `module.c` and
`fs_interception.c`; `TargetLoad` and `TargetUnload` are its callbacks for the
target module; the others are operations of the file system together with the
handlers of the example. A handler that runs before an operation belongs to its
action. One that runs afterwards is put into `post` and run later, when others
may have found the object, unless the caller still has the object to himself
(mount, open). What kernel and file system do (who frees what, and when) is
taken from how the kernel uses these operations and marked external. The
results of watches, which nobody checks, may be failures: `MaxRefused`
interceptors refuse.

Some inodes are directories (`Dir`), each name is in one (`parent`), and a
directory with names in it (`Within`) is not released. `Lookup` and `Create` work
in every directory, and their handlers run if its inode is watched. The kernel
holds the lock of a directory during an operation in it, but not against those
who come by a path that is cached already: a name made or found is there for
others at once, and so is, if it is a directory, what it holds. An object that
was found, made or opened by way of an inode not watched while a handler for it
is still to run, or of one that was missed itself, is in `missed` (`Late`,
`Overlook`): this history is what `ObjectsWatched` excepts. `mknod` and `symlink`
have no handlers (`Handled`), and `unlink` and renaming are not modelled.

### 2.10 `TemplateParser`, `TemplateEvaluation` and `TemplateGroup`

A string is a sequence of lexemes. `TemplateParser` follows the passes of
`mist_base.c` from the string through tokens to chunks, placeholders and
branches. What is abstracted: how strings and arrays grow, the escapes in the
separator of a join, messages, and failures of allocation.

`TemplateEvaluation` is a group in memory, from its creation to its destruction.
Templates refer to one another by pointers, as in the code: a group is a
function from addresses to templates, where a template of the group has its name
for an address and what belongs to a conditional has that of its template and a
path. `mist_template_evaluate` and `mist_placeholder_evaluate` call each other;
each step is one of the call on top of a stack.

| TLA+ | Code |
|---|---|
| `tpl` | `CMistTemplate` and `CMistPlaceholder` objects of a group |
| `vals`, `evaluated` | `vals` and `is_evaluated` of each |
| `stack` | calls of `mist_template_evaluate` under way: the template, its placeholder, and how far that is if it is a conditional |
| `result` | what `mist_tg_evaluate_impl` has returned, or that it failed an assertion |
| `times`, `given` | history: evaluations of each template; values set since the last clear |
| `Unchanged`, `EvaluateParameter`, `BeginTemplate`, `ReturnTemplate` | the three ways through the beginning of `mist_template_evaluate`, and its end |
| `EvaluatePlaceholder`, `EvaluateCondition`, `FailAssertion`, `EvaluateBranch`, `StoreValues` | `mist_placeholder_evaluate`, in the order of its statements |
| `Create`, `SetValues`, `ClearValues`, `Evaluate`, `Destroy` | `mist_tg_*_impl` |

Values and marks are there between evaluations: an evaluation starts from what
the former has left, and only the marks of the templates of the group, not of
branches, are removed first. What is assumed of groups, `IsGroup`, is what
`TemplateGroup` gives them: its `Created` are the groups that
`mist_tg_create_impl` makes of strings, and the assumption is checked of all
that the run has. It also reads strings piece by piece while there is no group,
which leaves the variables of `TemplateEvaluation` alone.

`ParsesRight` and `EvaluatesRight` compare with a definition of
well-formedness by counting and of meaning by equations, which know no tokens,
values left behind, or order of evaluation.

## 3. Runs

| Run | Instance | Shows |
|---|---|---|
| `instrumentor` | 2 indirect interceptors, 2 objects, 2 structures, 3 addresses for copies, 2 fields | `RefsExact`, `CopiesHeld`, `Transparent`, `PointersOwned`, and `Implements`: it refines `Interception` |
| `direct` | 2 direct interceptors, 3 objects | `NeverStacked`, `Transparent`, `NorestoreUntouched` |
| `ops_table_global` | 2 interceptors with one selector, 2 structures (one at place, one copied), 2 fields, 1 thread | types; `ExclusiveUse`, `SavedOriginal`, `CallsReachOriginal` |
| `foreign` | 1 normal and 2 foreign interceptors, a factory, an object created from it that may be watched as a factory too, 2 structures, 1 address for copies, 1 field | `ForeignRefsExact`, `LastOnTop`, `CallReaches`, `BoundInTime`, `PointersHeld`, `NoBug` |
| `payloads` | 4 payloads (two of one module, two of none, one of these inadmissible), 3 operations, 1 group | `CleanWhenUnused`, `ModuleRefsExact`, `HandlersPresent`, `UsedIsFrozen`, `ReplacedAsWanted`, `CalledInOrder` |
| `interceptors` | 1 interceptor, 2 factory interceptors, 2 threads, 2 objects that share a structure, 1 factory | `StartedWhenUsed`, `HandlersStay`, `FactoriesWithin`, `AllOrNothing`, `ListedExist`, `UndoEnds` |
| `hash_table` | 3 keys, 3 elements, sizes of 1 to 5 bits | `FindsIt`, `ReallocKeeps`, and `Implements`: it refines `LookupTable` |
| `fs` | root, 2 more names, 2 more inodes (a directory and a pipe), 1 file, 1 interceptor that refuses | `NeededPresent`, `WatchedAlive`, `NothingUnforgotten`, `ObjectsWatched` |
| `templates` | strings of at most 5 of 8 pieces; groups of 1 or 2 templates with 1 or 2 items each, at most 4 calls | `ParsesRight`, `EvaluatesRight`, `EvaluatedOnce` |

The runs `payloads_factory`, `foreign_update` and `templates_recursion` end in
a violation, see section 5. The type invariants (`TypeOK`, `ForeignTypeOK`)
hold in all of these instances; where they are not among the invariants of a
configuration they can be added there.

**Fairness.** One specification has any, `Interceptors`: weak fairness of the
steps of a stop (`WF_vars(Stop)`), for `UndoEnds`; none of these steps waits
for another thread, each is a finite loop. The other properties are safety.

**Deadlock** is checked except in `foreign`, where the kernel stops on a bad
pointer of the program's making, and in `templates`, where the number of calls
is bounded and a failed assertion ends the program.

### 3.1 Why the bounds are enough

*Instrumentors.* Two interceptors are the fewest that contend, and the first
has a mechanism per structure (`s1` at place, `s2` by copy) so that the second,
which instruments all at place, meets both. Two objects share a structure,
exchange structures or have none. An update holds two copies of one interceptor
at once, while the other holds a third: three addresses, so allocation never
fails merely because the instance is small (it may fail at any call anyway).
The two fields differ in contents (one set, one NULL) and in the modes of both
interceptors, so that all four modes meet both. Three direct objects include a
pair that is watched by the same and by different interceptors, with one left
over. One thread is enough in `ops_table_global` because threads do not touch
each other's calls: the interference is between a thread and the instrumentors.

*Foreign.* Two foreign instrumentors come to a structure and leave it in both
orders, which is where the list matters; they are interchangeable, hence the
symmetry. The object is watched by id as a factory as well, so that a tie of its
own and the normal watch meet. There is one address for copies: an update that
needs a second fails as if memory had run out, and a freed address is used again
as soon as possible. One field is enough as the fields of a structure do not
influence each other.

*Payloads.* Two of one module tell references per payload from references per
module; external and internal handlers, before and after, several for one
operation, and a group with one external handler occur.

*Interceptors.* Two factory interceptors let the second fail to start after the
first has started, and be destroyed in both orders; two threads let a watch and
an intermediate operation, or two of these, be under way while a start, a
failing start or a stop goes on; a thread may be overtaken by a stop and meet
the next start. Of two objects that share a structure one may be watched and
the other only reached.

*Hash table.* The hashes are those of a product, as in the kernel: `x` and `y`
collide up to the default size and separate at five bits, `z` meets them at the
smallest size only, so that widening, narrowing, and narrowing through the
smallest size (the path without memory) all merge and separate lists.

*File system.* A second name for the pipe by `link`, a negative name, an inode
freed after its last name, and a name found while handlers for it are still to
run are possible with two names and a pipe. With a directory below the root the
pipe's name may be found or made in a directory that is not watched yet, or was
missed. The two names are interchangeable, hence the symmetry. One refusal is
enough for a watch to be missing above others that are there.

*Templates.* Five pieces are the fewest for `if`, text, `else`, text,
`endif`; every second `else`, missing `endif`, unpaired marker and nested `if`
that fits is among the 37449 strings. Nested conditionals in an `else` branch,
joins and several values are in the groups, whose templates need no more pieces
than they have items. Four calls are set, evaluate, set or clear, evaluate.

## 4. Proofs

TLC shows the above for those instances. TLAPS proves part of it for every
value of the constants: `OpsTableGlobal`, the part that tests reach least, all
that the runs check of `Instrumentor`, with its refinement of `Interception`,
and of `ForeignInstrumentor`, `Payloads` and `Interceptors`, all safety
properties of `FsInterception`, all of `HashTable`, with its refinement of
`LookupTable`, and all of `TemplateEvaluation`. The proofs about `Instrumentor`
and `ForeignInstrumentor`, which extends it, are in one module.

The assumptions are those named in the modules: `AddressAssumption`,
`InterceptorAssumption`, `ContentAssumption` and `FiniteAssumption` for the
instrumentors (addresses of objects, structures, copies and NULL are apart,
direct interceptors instrument at place, the program gives its own pointers, and
has finitely many objects); `ModeAssumption`, `FunctionAssumption` (program
functions and intermediate operations are different), `BoundAssumption` and
`ForeignModeAssumption` for the foreign instrumentors (one normal interceptor,
finitely many others bound to it and finitely many watches they are asked for,
each id with one field; NULL is no factory; the others replace an operation
whatever it is, as factories use their payloads with `intercept_all`),
`StructAssumption` (what program and selector are), `NullAssumption`;
`PayloadAssumption` and `GroupAssumption` (section 2.6); `NodeAssumption` for
the interceptors; `ObjectAssumption` for the example (objects of different kinds
are different); `BitsAssumption`, `HashAssumption` and `NoneAssumption` for the
hash table (a hash of so many bits is an index of an array of that size, and
NULL is no element and no table); `GroupAssumption` of `TemplateEvaluation`
(section 2.10) and `ParameterAssumption` (values are given as lists).

| Theorem | Module | States |
|---|---|---|
| `TypeCorrect` | `OpsTableGlobal_proofs` | `[]TypeOK` |
| `Exclusive` | `OpsTableGlobal_proofs` | `[]ExclusiveUse` |
| `Recoverable` | `OpsTableGlobal_proofs` | `[]SavedOriginal` |
| `ReachOriginal` | `OpsTableGlobal_proofs` | `[]CallsReachOriginal`, if all interceptors choose the mechanism alike |
| `Invariant` | `Instrumentors_proofs` | `[]IInv`, the inductive invariant |
| `CountsAreExact` | `Instrumentors_proofs` | `[]RefsExact` |
| `OwnersKnown` | `Instrumentors_proofs` | `[]PointersOwned` |
| `CopiesAreHeld` | `Instrumentors_proofs` | `[]CopiesHeld` |
| `NoneIsStacked` | `Instrumentors_proofs` | `[]NeverStacked` |
| `CallsAreTransparent` | `Instrumentors_proofs` | `[]Transparent` |
| `NorestoreWritesNothing` | `Instrumentors_proofs` | `NorestoreUntouched` |
| `Refinement` | `Instrumentors_proofs` | `Implements`: the instrumentors implement `Interception` |
| `NeverTwo` | `Instrumentors_proofs` | no object is intercepted by two interceptors (`OneInterceptor`) |
| `LosesOne` | `Instrumentors_proofs` | no step but a stop loses the interception of two objects (`OneAtATime`) |
| `ForeignInvariant` | `Instrumentors_proofs` | `[]FInv`, the inductive invariant |
| `ForeignTypes` | `Instrumentors_proofs` | `[]ForeignTypeOK` |
| `ForeignCountsAreExact` | `Instrumentors_proofs` | `[]ForeignRefsExact` |
| `LastLiesOnTop` | `Instrumentors_proofs` | `[]LastOnTop` |
| `CallsReach` | `Instrumentors_proofs` | `[]CallReaches` |
| `ObjectsBoundInTime` | `Instrumentors_proofs` | `[]BoundInTime` |
| `PointersAreHeld` | `Instrumentors_proofs` | `[]PointersHeld` |
| `NoBugIsReached` | `Instrumentors_proofs` | `[]NoBug` |
| `TypeCorrect` | `Interceptors_proofs` | `[]TypeOK` |
| `Within` | `Interceptors_proofs` | `[]FactoriesWithin` |
| `Listed` | `Interceptors_proofs` | `[]ListedExist` |
| `NeverUnserved` | `Interceptors_proofs` | `[]StartedWhenUsed` |
| `HandlersKept` | `Interceptors_proofs` | `[]HandlersStay` |
| `Together` | `Interceptors_proofs` | `[]AllOrNothing` |
| `Invariant` | `Payloads_proofs` | `[]PInv`, the inductive invariant |
| `TypeCorrect` | `Payloads_proofs` | the kinds of all variables |
| `NothingLeft` | `Payloads_proofs` | `[]CleanWhenUnused` |
| `RefsAreExact` | `Payloads_proofs` | `[]ModuleRefsExact` |
| `HandlersArePresent` | `Payloads_proofs` | `[]HandlersPresent` |
| `ReplacementsWanted` | `Payloads_proofs` | `[]ReplacedAsWanted` |
| `OrderOfCalls` | `Payloads_proofs` | `[]CalledInOrder` |
| `FrozenWhileUsed` | `Payloads_proofs` | `UsedIsFrozen` |
| `Invariant` | `FsInterception_proofs` | `[]IInv`, the inductive invariant |
| `TypeCorrect` | `FsInterception_proofs` | `[]TypeOK` |
| `AlwaysNeeded` | `FsInterception_proofs` | `[]NeededPresent` |
| `NoneIsFreed` | `FsInterception_proofs` | `[]WatchedAlive` |
| `NoneIsLeft` | `FsInterception_proofs` | `[]NothingUnforgotten` |
| `AllAreWatched` | `FsInterception_proofs` | `[]ObjectsWatched` |
| `AlwaysPlaced` | `HashTable_proofs` | `[]IInv`: every element is in the list of the hash of its key, once, and they are counted |
| `SearchRight` | `HashTable_proofs` | `FindsIt` |
| `ReallocIsSafe` | `HashTable_proofs` | `[]ReallocKeeps` |
| `Refinement` | `HashTable_proofs` | `Implements`: the steps of the table are steps of `LookupTable` |
| `Invariant` | `TemplateEvaluation_proofs` | `[]IInv`, the inductive invariant |
| `TypeCorrect` | `TemplateEvaluation_proofs` | `[]Typed`, the kinds of all variables |
| `OnceEvaluated` | `TemplateEvaluation_proofs` | `[]EvaluatedOnce` |
| `NotInsideItself` | `TemplateEvaluation_proofs` | no template is on the stack of calls twice |
| `BranchesHaveValues` | `TemplateEvaluation_proofs` | the assertions about branches hold |
| `FailsInRecursionOnly` | `TemplateEvaluation_proofs` | `[](~Recursion => NeverCrashes)` |
| `EvaluatedRight` | `TemplateEvaluation_proofs` | `[]EvaluatesRight` |

### 4.1 `OpsTableGlobal`

`ExclusiveUse` is not inductive: it says nothing of what a call in progress
will do next. The invariant `IInv` is the conjunction of

- `TypeOK`;
- `Tables`: tables of different interceptors are disjoint, and part of the
  global table, so that "not in the global table" means "in nobody's";
- `Control`: what each label implies about the structure of the call
  (registered or not yet, which mechanism);
- `Memory`: a field holds the program's operation or the replacement of the
  interceptor that has registered the structure, and the latter only where that
  interceptor has patched the field and not restored it, which `Unpatched`
  reads off the label and the fields still to visit;
- `Saved`: data of a registered structure hold the program's operation in every
  field already saved. This is where the order *save, then patch* and *restore,
  then unregister* enters: the step of `ApCopy` needs `Memory` to know that
  what it saves is the program's, the step of `ApRestore` needs `Saved`.

`ReachOriginal` adds `Copies` (a copy is made of the program's operations) and
`Calling` (a thread runs the program's operation or an intermediate one of the
interceptor through whose copy it came, and the data of that copy are still
there). Its hypothesis `SameSelector` cannot be dropped: `uc_idata_create`
copies a structure before it is registered, so that an interceptor which
patches the same structure at place meanwhile puts its replacements into the
copy. The default selector has `SameSelector`, as it decides by the address
alone; `kedr_coi_interceptor_mechanism_selector` may break it.

### 4.2 `Instrumentor`

No property of this module is inductive either. `RefsExact` needs to know that
a table leads from an address to the right data; the tables are right only if no
address is given to two data, which depends on what is allocated; what is
restored is right only if the memory was. `IInv` is the conjunction of

- `TypeOK`;
- `HeapInv`, which is about the heap and the set of live objects alone: `Tables`
  (data are found by their two pointers, nothing else is found, and the global
  table is the disjoint union of all tables), `Mechanism` (what `kind` implies
  for the pointers and the saved original), `Held` (the copies allocated are
  those in the global table), `Plain` and `Patched` (what the memory holds at
  structures in no table, and in some table);
- `Keyed`: the key of data with which a direct object is watched is the object;
- `RefsExact` and `PointersOwned` themselves.

The proof goes in three layers. First the heap without objects: getting data
*adds* one entry to tables and memory or raises a count (`AddedInv`,
`GetDataInv`), dropping a reference lowers a count or *removes* an entry with
the patch in the structure (`RemovedInv`, `ReleaseInv`), a stop removes all
entries of one interceptor (`DestroyAllInv`), and getting data whose reference
is dropped at once changes nothing (`FailedWatchUndone`: the failed watch).
Then counts: `Counted(h, w, C)` says that each count is the number of watches
plus the references in `C` which a call holds that has not finished, so a
watch that moves goes from the old data to the new through a state in which both
are referenced. Last the pointers of objects: `PointersOwned` is what makes
the operations of a live object `Fetchable`, that is, either in a table already
or still as the program stored them. Without it a watch could save a
replacement as an original.

`Transparent` follows from `IInv` by cases on whose data own the pointer
(`Found`, `Reached`). For the refinement, `Intercepts` is under `IInv` the
same as having the pointer of one's data (`Met`), so each step need only say
what becomes of pointers and watches: `WatchUpdate`, `WatchMoved` and `WatchNew`
map to `Watch`; `WatchMovedFails` to `WatchFails`; `Forget` and
`ForgetNorestore` to the actions of the same name; `Destroy` to `Stop`;
`ProgramSetOps` and `ProgramFree` of an object with a pointer to `ProgramSets`
and `ProgramFrees`; `WatchNewFails`, all calls of direct interceptors and
`ProgramInit` to a stutter. `NeverTwo` and `LosesOne` follow for the
instrumentors from what `Interception` says of its steps.

### 4.3 `ForeignInstrumentor`

The module extends `Instrumentor`, and its proofs use those of the heap there.
`HeapInv` does not hold any more, as foreign replacements lie on top of what
structures held; what the proofs need is stated for `Base`, that is `HeapInv`
without `Patched`. `FInv` is the conjunction of

- `FTyped`, the types, which say that no call has stopped at a `BUG_ON` of bind;
- `FCounted`, about the data. `Tops`: in the structure of data `k` each field
  holds the replacement of the last foreign instrumentor in `chain[k]` that
  replaces it, or else what the normal one made of the original. `CountIs`: the
  references of `k` are the objects watched with it and the instrumentors in its
  list. `FLists`: an instrumentor is in a list, once, if and only if it has
  references, and `Refs(fwatch)`: these are its watches;
- `FPointers`: a pointer is the program's or the one made for it, unless the
  program set it or the copy was freed; no other pointer is to a freed copy,
  and the data of an object with such a pointer are not found by it;
- `CallWants`, `CallReaches` and `CallBinds`: a call wants what the program gave
  its object; what it runs next leads there; and as long as its object is to be
  bound, the object has the pointer of data in whose list the call is at, or
  above, an instrumentor that watches the tie. `BoundInTime` needs this: who
  watches the tie may come and go while a call is on its way down the list.

`PointersHeld` needs one invariant more, `FHeld`. `FAimed`: each foreign watch is
one that may be asked for, so an id means one field. `FHolds`, of each object:
if it is live and has the pointer of a copy, it was created with that of a
factory or has its own; and an own pointer does not dangle. A forget or a failed
update has to restore the pointer for this whenever the data it lets go were
kept for the object by that watch alone.

The argument has four layers. *Lists*: what an append or a removal does to the
replacement on top (`TopAppend`, `TopRemove`). *Data*: to get, share and drop
foreign data keeps `FData` and changes one reference; to destroy an instrumentor
drops any number of them, by induction over the sequence in which this is done
(`DestroyForeignAllIs`); a count is the cardinality of a finite set of watches
(`CountPut`, `CountDrop`, `CountMove`). *Pointers*: a call of the library leaves
what is known of a pointer alone, or sets it to that of the data, and objects
whose copy it frees become `dangling` (`PointerNext`). *Calls*: nobody can
disturb a call under way (`CallSame`, `CallUntied`), and each case of bind goes
on to an operation that leads to the same end (`ChainToIs`, `OrigIs`).

### 4.4 `Interceptors`

None of the properties is inductive: each says something of the variables
at all labels, which holds because of where start or stop is. `Stages` says it
label by label: `UnderWay` (the list up to `todo` is started, the rest is not),
`Stopping` (the current one is as far as the label says, those left are
started, all others are not), `Idle` and `Creating`; `Lists` keeps the list
without repetition, without which a stop of one could be undone by the next.
What `Append`, `RemoveAt`, `Tail`, insertion at the head and a reversed prefix
do to the elements of a list and to their being different is in `ListLemmas`,
which the proofs of the hash table share. `Stages` needs nothing of the program
and gives `Within` and `Listed`.

`Activity` adds what calls do: `Watches` (only an instrumentor that exists
watches anything) and `OnTime` (the interceptor of a call past its check, or of
an operation, is started, unless the call was overtaken; one that stays at a
`BUG_ON` was overtaken). `Steady`, which is inductive, is `Stages`, the types and
`Activity`. `StopMark` is the step that makes a started interceptor one that is
not, and it marks the calls it overtakes; that no other step does so is what the
proof shows, and `StartedServed` that what is started has its payloads and the
instrumentors it works on, at each label of each start and stop.

### 4.5 `Payloads`

What a started interceptor calls is computed by a loop over the handlers of the
payloads in use, `UseHandlers`. The proof describes its result without
recursion: in `Gathered(inf, hs)` every array holds those handlers of `hs` that
are for its operation and time, in their order, and an operation is intercepted
if one of them asks for it. `UseGathers` shows that this is what the loop
leaves, for a list of any length. No induction schema with an operator as its
parameter is needed: `ListsByInduction` in `ListLemmas` is stated for a *set* of
lists (those for which the claim holds); a set which has the empty list, and
with each list those longer by one element, has all lists. It rests on `WFMin`
of the library, by which a set of numbers has a least one.

`PInv` is inductive: `Registered` (what is used is registered, and fixed),
`Modules` (`ModuleRefsExact`, and no payload of a module that is going is in
use) and `Intercepted`: either nothing is left of a use, or all handlers of the
payloads in use were gathered and the replacements made of them. A use that
fails at any handler leaves operations that are `Sound`: what is not marked as
intercepted has no handlers. That is enough for the undoing, which visits
only what is marked, to leave nothing behind (`UnuseCleans`).

### 4.6 `FsInterception`

`IInv` is the conjunction of

- `Begun`: what is set up is a beginning of `Setup`, from which `NeededPresent`
  follows, as everything needs only what comes earlier;
- `Kinds`, of objects and what watches them;
- `Lifetimes`: a name keeps its inode and the directory it is in (`InDir`), an
  open file a name of its inode, any of them the super block, and the target its
  type;
- `HandlersHold`: the handlers that are to run hold the objects they will watch;
- `Forgotten`, `Below`, `Above`: what is watched. `Forgotten` holds whatever
  watches were refused. `Below`: inodes are forgotten by a handler of the super
  block, so nothing below it may be watched when the super block itself is not;
  this holds since watches are made by handlers of watched objects only, and
  fails when the watch of the super block is refused: `WatchedAlive` says so.
  `Above` is the other direction: what is not watched is held by a handler
  that will watch it, or was missed. An inode that is watched has its file
  operations watched too, so that its files are.

The example sets up the watch of the super block and of the root in one handler
of `mount`; this is what both directions rest on.

### 4.7 `HashTable`

`IInv` has two parts. `Shaped`: the table has the default size and `Placed` holds
of it, so every element of every list hashes to that list, and no list repeats
one. `Counted`: `n_elems` is the number of elements. It is inductive because only
an element outside of the table is added or exchanged, so the keys of those
inside do not change; each step changes one list (`OneList`). `SearchRight`
follows: an element with the key can only be in the list that is searched.

What a walk along a list keeps, `Only`, is a recursive function. As with the
handlers of 4.5, its value is described once (`Walks`), and what it keeps of a
list longer by one element, of two lists one after the other, and of a list
with an element in its middle are lemmas by `ListsByInduction`.

`ReallocIsSafe` is not about a step, as no step resizes: it says of each content
the table can have what a resize would leave. All lists one after the other have
each element once (`InOrderIs`, `FlattenInjects`), so new lists made by any hash
that is an index of the new array have each once, whatever the sizes
(`FillKeeps`). The path without memory is two such steps.

`Refinement` maps the table to `Listed`: for each key those elements of its list
that have this key, in their order. What shares the list by collision is
skipped, so an element put at the head of the list is the head for its key only,
one unlinked is the only one that is missing, and the first element a search
finds is the head of what is listed under the key. Elements with equal keys
included, the table is `LookupTable`.

### 4.8 `TemplateEvaluation`

The theorems are about any group whose pointers are as `IsGroup` says, also
with recursion, any values, and any number of evaluations. `IInv` is the
conjunction of

- `Typed`, which has that a template is evaluated at most once;
- `MarkedRight` and `BranchesMarked`, about marks. The mark of a template of the
  group says that it was evaluated. That of a branch may be left from an earlier
  evaluation: it means something only once the conditional to which the branch
  belongs has been reached, and no two conditionals share a branch;
- `StackMarked` and `Chain`, about calls: each was made by the one below it, for
  a branch of the conditional at which this is or for a template to which its
  name refers, and no template is called twice. Hence `NotInsideItself`;
- `ValuesThere`: what was evaluated has no values if and only if its call has
  not returned; `ConditionAsked`, how far a conditional is; and, for each
  placeholder that evaluation has passed, `PlainEvaluated` and
  `ConditionalsStored`. `BranchesHaveValues` needs no more, as a branch is
  called by its conditional only, which waits for it;
- if templates are not recursive, `PlainFinished` and `Built`: what a template
  refers to has returned before the template is built, so that each is built
  from values that do not change any more;
- `GivenRight` and `ResultRight`, what was given and is returned.

The argument has the same three parts for each conjunct: `Call` is a
step that asks for a template from a placeholder, a condition or a branch, and
each conjunct is kept by calls (`CallMarked` to `CallFinished`), by storing the
values of a conditional (`StoreMarks` and the following) and by a return
(`ReturnMarks` and the following). Recursion is a set of names each of which
refers to one of the set. `NoReturn` is where it matters: if a template is asked
for while it is evaluated, the names from its call to the top of the stack are
such a set, so without recursion neither an assertion fails nor a template is
built from one that has no values yet. When the evaluation has ended, everything
asked for has been passed, and the values stored, joined and repeated are those
of the equations (`ConditionalMeans`, `TemplateMeans`, `MeaningIs`).

### 4.9 Not proved

Every invariant and action property of the passing runs is proved, but
`ParsesRight`: the parser consists of RECURSIVE operators, which are out of the
prover's reach, as are the liveness property `UndoEnds` and ENABLED. That a
group made of strings is as `IsGroup` says is checked for the groups of the run,
not proved, since their creation is RECURSIVE too. That an evaluation ends,
which follows from `NotInsideItself` as templates and their placeholders are
finite, is neither stated nor proved.

## 5. Findings

### 5.1 Runs that end in a violation

| Run | Property | What happens |
|---|---|---|
| `payloads_factory` | `NoBug` | A factory interceptor with two intermediates meets `BUG_ON(n != 1)` at its start; the header says "usually" one. |
| `foreign_update` | `UpdateFails` | A foreign watch is to be moved to the operations its field has now, and the data for these cannot be had. `foreign_instrumentor_watch` then restores the field through `idata_foreign`, which holds the error value, not the data of the watch: a bad pointer is dereferenced. |
| `templates_recursion` | `NeverCrashes` | The condition of a conditional is a template that is being evaluated and has no values yet: `assert(ncond >= 1)` fails. The header promises that recursion neither hangs nor crashes. |

### 5.2 Observations without a run

What was seen while the code was read for the models, and what the models leave
out or assume because of it.

- `core/kedr_coi_instrumentors_impl.c:98`: NULL is entered in `ops_table_global`
  like any address: once one interceptor watches an object without operations,
  all others get `-EBUSY` for every object without operations.
- `core/kedr_coi_instrumentors.c:437`: the program gives a watched object
  another structure that is instrumented at place through another object. The
  intermediate operation then runs the original of the *previous* structure.
  `KnownIssues` says that calls may be missed. `Transparent` exempts these
  objects (`Stale`) until they are watched again.
- `core/kedr_coi_instrumentors.c:345`: the stop of a direct interceptor restores
  objects that are still watched, which may be freed. The header says they are
  forgotten as by `forget_norestore`.
- `core/kedr_coi_instrumentors_impl.c:800`: see `SameSelector` in section 4.1.
- `core/payloads.c:733`: a payload left out of use because its module was being
  unloaded is unregistered with success while the interceptor is started; the
  header says always `-EBUSY`.
- `core/kedr_coi_interceptors.c:385`: stop marks the interceptor as not started
  before it destroys the instrumentor, which restores the structures. An
  operation of an object that is still watched meets `BUG_ON(state != started)`
  (line 514) in between, though `doc/docbook/objects_watching.xml:42` says that
  it is no fatal error not to forget an object, as stop forgets it.
- `core/kedr_coi_interceptors.c:514`, `:404`: the same `BUG_ON` is met if all
  objects are forgotten, then the interceptor is stopped, by an intermediate
  operation that began before; a watch that has checked the state before the
  stop uses an instrumentor that was destroyed. The library has no means to wait
  for these. `StartedWhenUsed` excepts calls that a stop has overtaken (`late`).
- `core/kedr_coi_hash_table.c`: the header describes a table that resizes, the
  conditions for it are constant 0. `kedr_coi_hash_table_realloc` reverses the
  order of elements with equal keys; no caller adds a key twice.
- `examples/file_access_counter/fs_interception.c:380`: the comment says that
  only regular files, directories and links are of interest, but the test is
  inverted (and its masks overlap): the handler goes on for pipes only.
- `examples/file_access_counter/fs_interception.c:230`: the handlers that watch
  what an operation of a directory has found or made run after it, and only for
  directories that are watched. What others find, make or open by way of a new
  directory or inode before that is not watched, nor is anything below it. The
  comment at lines 11-12 says that all objects of a watched file system are
  watched automatically. `ObjectsWatched` says what is left of this.
- `examples/file_access_counter/module.c:98`: `mount` returns an `ERR_PTR` on
  failure, which is counted as a mount. `on_target_load` ignores a failed start,
  handlers ignore failed watches, and there are no handlers for `mknod` and
  `symlink`: `ObjectsWatched` is stated without them.
- `mist_base.c`: the main template is looked up among parameters too, so a group
  whose main template is missing is accepted if another template refers to it.

## 6. Limits

### 6.1 What might follow

The intermediate operation of the templates with the handlers of a set of
payloads: handlers before, the original or default, handlers after.

### 6.2 Not modelled

- Module initialisation: it creates one table before anything else and
  destroys it after.
- How the default selector finds the section of an address: kernel data. Which
  structures are patched at place is a constant.
- `jinja2-yaml`, a script around a template engine of others, the trampolines,
  build files, tests and documentation: they have no state in the running
  library. The tests and the header are read for what the library promises.
- Of `kedr_gen`: reading its configuration and directories, growing arrays and
  strings, escapes, and failures of allocation.
- Of the examples: the counters of `file_access_counter`, and `read_counter`,
  which watches one device.
- The callback for objects that were not forgotten, and messages: they change
  no state of the library.
- Memory ordering: the steps of `OpsTableGlobal` are seen by all threads in the
  order in which they are made. On a machine with weaker ordering a thread may
  see the restored structure of one interceptor and the tables of another.
- The foreign instrumentor taken apart step by step as in `OpsTableGlobal`: all
  its calls hold the lock of the normal instrumentor it is bound to.
