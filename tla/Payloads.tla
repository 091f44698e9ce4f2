------------------------------ MODULE Payloads ------------------------------
(***************************************************************************)
(* The payloads of one interceptor (payloads.c): registration, use for     *)
(* interception and release.                                               *)
(*                                                                         *)
(* Every call holds the mutex of the payloads and is one action, failures  *)
(* inside of it included.  The modules that provide payloads are part of   *)
(* the model: a module is not unloaded while somebody holds a reference to *)
(* it, and try_module_get fails for a module that is being unloaded.       *)
(***************************************************************************)
EXTENDS Naturals, Sequences, FiniteSets, SequencesExt

CONSTANTS
  Payload,       \* payloads that may be registered
  Module,        \* kernel modules which provide them
  NULL,          \* no module
  ModuleOf,      \* ModuleOf[p]: the module of payload p, or NULL
  PreHandlers,   \* PreHandlers[p]: sequence of [op, external] of payload p
  PostHandlers,  \* PostHandlers[p]: the same for handlers called afterwards
  Offset,        \* operations a payload may ask for, by operation_offset
  Operation,     \* operations with an intermediate, the list "operations"
  Group,         \* Group[op]: group_id, 0 for no group
  InternalOnly,  \* operations without a default: InternalOnly \subseteq Operation
  InterceptAll   \* intercept_all: the payloads of a factory interceptor

ASSUME PayloadAssumption ==
  /\ ModuleOf \in [Payload -> Module \cup {NULL}]
  /\ NULL \notin Module
  /\ PreHandlers \in [Payload -> Seq([op : Offset, external : BOOLEAN])]
  /\ PostHandlers \in [Payload -> Seq([op : Offset, external : BOOLEAN])]
  /\ Group \in [Operation -> Nat]
  /\ InternalOnly \subseteq Operation
  /\ InterceptAll \in BOOLEAN

(* Intermediates of a group are used together for operations that are NULL,
   which an internal_only one is not made for.  Nothing checks it. *)
ASSUME GroupAssumption == \A op \in InternalOnly : Group[op] = 0

VARIABLES
  elems,         \* payload_elems: registered payloads, in order
  fixed,         \* payloads with is_fixed set
  used,          \* payload_elems_used: payloads fixed for use, in order
  info,          \* info[op]: what struct operation_info has for interception
  replacements,  \* replacements[op] where an operation is replaced, else none
  is_used,       \* the payloads are used by a started interceptor
  refs,          \* refs[m]: references taken to module m
  loaded,        \* loaded[m]: "live", "going" while m is unloaded, or "gone"
  bug            \* a BUG_ON has fired

vars == <<elems, fixed, used, info, replacements, is_used, refs, loaded, bug>>

When == {"pre", "post"}

NoHandlers == [when \in When |-> <<>>]

NoInfo == [is_intercepted |-> FALSE, handlers |-> NoHandlers,
           default_is_intercepted |-> FALSE, default_handlers |-> NoHandlers]

NoReplacements == [op \in {} |-> "replace_all"]

(* The elements of list s that are in T, in their order. *)
Keep(s, T) == FlattenSeq([n \in DOMAIN s |-> IF s[n] \in T THEN <<s[n]>> ELSE <<>>])

(* A payload requires only operations that exist, in a variant they have. *)
CheckPayload(p) ==
  \A h \in ToSet(PreHandlers[p]) \cup ToSet(PostHandlers[p]) :
    h.op \in Operation /\ (h.external => h.op \notin InternalOnly)
-----------------------------------------------------------------------------
(* Use of payloads for interception. *)

(* The handlers of payloads ps in the order in which use_elem adds them. *)
HandlersOf(p) ==
  [k \in DOMAIN PreHandlers[p] |->
     [payload |-> p, when |-> "pre", op |-> PreHandlers[p][k].op,
      external |-> PreHandlers[p][k].external]]
  \o
  [k \in DOMAIN PostHandlers[p] |->
     [payload |-> p, when |-> "post", op |-> PostHandlers[p][k].op,
      external |-> PostHandlers[p][k].external]]

AllHandlers(ps) == FlattenSeq([k \in DOMAIN ps |-> HandlersOf(ps[k])])

(* parray_add_elem, to one of two arrays of handlers. *)
Added(arrays, h) == [arrays EXCEPT ![h.when] = Append(@, h)]

(* Mistake: every handler is one of the default. *)
AddHandlerTwice(inf, h) ==
  [inf EXCEPT ![h.op] =
    [is_intercepted         |-> TRUE,
     handlers               |-> Added(@.handlers, h),
     default_is_intercepted |-> @.default_is_intercepted \/ h.external,
     default_handlers       |-> Added(@.default_handlers, h)]]

(* operation_info_add_pre and operation_info_add_post. *)
AddHandler(inf, h) ==
  [inf EXCEPT ![h.op] =
    [is_intercepted         |-> TRUE,
     handlers               |-> Added(@.handlers, h),
     default_is_intercepted |-> @.default_is_intercepted \/ h.external,
     default_handlers       |-> IF h.external THEN Added(@.default_handlers, h)
                                              ELSE @.default_handlers]]

(* The same without memory for the array of handlers of the default. *)
AddHandlerPartly(inf, h) ==
  [inf EXCEPT ![h.op] =
    [is_intercepted         |-> TRUE,
     handlers               |-> Added(@.handlers, h),
     default_is_intercepted |-> @.default_is_intercepted,
     default_handlers       |-> @.default_handlers]]

(* use_elem, for all payloads: the handlers are added one after the other. *)
UseHandlers(inf, hs) ==
  LET use[n \in 0 .. Len(hs)] ==
        IF n = 0 THEN inf ELSE AddHandler(use[n - 1], hs[n])
  IN  use[Len(hs)]

(* What use starts from. *)
Marked(inf) ==
  IF ~InterceptAll THEN inf
  ELSE [op \in Operation |->
         [inf[op] EXCEPT !.is_intercepted = TRUE,
                         !.default_is_intercepted = @ \/ op \notin InternalOnly]]

(* Mistake: groups are not looked at. *)
LeaveOperations(inf) == inf

(* close_operations: if one operation of a group is intercepted when it is
   NULL, so are the others. *)
CloseOperations(inf) ==
  [op \in Operation |->
    [inf[op] EXCEPT !.default_is_intercepted =
       @ \/ \E op1 \in Operation : /\ Group[op1] # 0 /\ Group[op1] = Group[op]
                                   /\ inf[op1].default_is_intercepted]]

ReplacementMode(i) ==
  IF ~i.default_is_intercepted THEN "replace_not_null"
  ELSE IF i.is_intercepted THEN "replace_all" ELSE "replace_null"

CreateReplacements(inf) ==
  [op \in {o \in Operation : inf[o].is_intercepted \/ inf[o].default_is_intercepted}
     |-> ReplacementMode(inf[op])]

(* operation_info_clear_interception. *)
ClearInternal(i) ==
  IF ~i.is_intercepted THEN i
  ELSE [i EXCEPT !.is_intercepted = FALSE, !.handlers = NoHandlers]
ClearDefault(i) ==
  IF ~i.default_is_intercepted THEN i
  ELSE [i EXCEPT !.default_is_intercepted = FALSE, !.default_handlers = NoHandlers]
ClearInterception(i) == ClearDefault(ClearInternal(i))

UnuseAll(inf) == [op \in Operation |-> ClearInterception(inf[op])]

ModulesOf(p) == {ModuleOf[p]} \ {NULL}

(* operation_payloads_fix_elem succeeds: try_module_get of its module does. *)
CanFix(p) == \A m \in ModulesOf(p) : loaded[m] = "live"
FixAll == Keep(elems, {p \in ToSet(elems) : CanFix(p)})

(* Mistake: a module is released once for all of its payloads. *)
PutModulesOnce(r, ps) ==
  [m \in Module |-> IF \E p \in ps : ModuleOf[p] = m THEN r[m] - 1 ELSE r[m]]

(* try_module_get and module_put for the modules of the payloads in ps. *)
GetModules(r, ps) ==
  [m \in Module |-> r[m] + Cardinality({p \in ps : ModuleOf[p] = m})]
PutModules(r, ps) ==
  [m \in Module |-> r[m] - Cardinality({p \in ps : ModuleOf[p] = m})]
-----------------------------------------------------------------------------
(* Calls of the interceptor. *)

AddPayload(p) ==
  /\ CheckPayload(p)
  /\ p \notin ToSet(elems)
  /\ elems' = Append(elems, p)
  /\ UNCHANGED <<fixed, used, info, replacements, is_used, refs, loaded, bug>>

(* Mistake: is_fixed is not looked at. *)
RemoveUsedPayload(p) ==
  /\ p \in ToSet(elems)
  /\ elems' = Keep(elems, ToSet(elems) \ {p})
  /\ UNCHANGED <<fixed, used, info, replacements, is_used, refs, loaded, bug>>

(* Not for a payload which is fixed. *)
RemovePayload(p) ==
  /\ p \in ToSet(elems) \ fixed
  /\ elems' = Keep(elems, ToSet(elems) \ {p})
  /\ UNCHANGED <<fixed, used, info, replacements, is_used, refs, loaded, bug>>

(* All payloads that can be fixed are used; a factory interceptor expects
   exactly one replacement. *)
UseFixed ==
  /\ info' = CloseOperations(UseHandlers(Marked(info), AllHandlers(FixAll)))
  /\ replacements' = CreateReplacements(info')
  /\ bug' = (bug \/ (InterceptAll /\ Cardinality(DOMAIN replacements') # 1))
  /\ fixed' = ToSet(FixAll)
  /\ used' = FixAll
  /\ refs' = GetModules(refs, ToSet(FixAll))
  /\ is_used' = TRUE
  /\ UNCHANGED <<elems, loaded>>

Use == ~is_used /\ UseFixed

(* No memory for an array of handlers after some of them were added, or none
   for the array of replacements after all of them were. *)
PartlyUsed(inf, hs) ==
  {UseHandlers(inf, SubSeq(hs, 1, n)) : n \in 0..Len(hs) - 1}
  \cup {AddHandlerPartly(UseHandlers(inf, SubSeq(hs, 1, n - 1)), hs[n]) :
          n \in {k \in DOMAIN hs : hs[k].external}}
  \cup {CloseOperations(UseHandlers(inf, hs))}

(* What was done before the failure is undone. *)
UseFails ==
  /\ ~is_used
  /\ \E inf \in PartlyUsed(Marked(info), AllHandlers(FixAll)) : info' = UnuseAll(inf)
  /\ refs' = PutModules(GetModules(refs, ToSet(FixAll)), ToSet(FixAll))
  /\ fixed' = {} /\ used' = <<>>
  /\ UNCHANGED <<elems, replacements, is_used, loaded, bug>>

Unuse ==
  /\ is_used
  /\ is_used' = FALSE
  /\ replacements' = NoReplacements
  /\ info' = UnuseAll(info)
  /\ refs' = PutModules(refs, fixed \cap ToSet(elems))
  /\ fixed' = fixed \ ToSet(elems)
  /\ used' = Keep(used, ToSet(used) \ (fixed \cap ToSet(elems)))
  /\ UNCHANGED <<elems, loaded, bug>>

(* The handlers which the intermediate operation calls for op. *)
InterceptionInfo(op, is_default) ==
  IF is_default THEN info[op].default_handlers ELSE info[op].handlers
-----------------------------------------------------------------------------
(* Modules that provide payloads. *)

(* rmmod: refused as long as there are references. *)
BeginUnload(m) ==
  /\ loaded[m] = "live" /\ refs[m] = 0
  /\ loaded' = [loaded EXCEPT ![m] = "going"]
  /\ UNCHANGED <<elems, fixed, used, info, replacements, is_used, refs, bug>>

(* The exit function of a module has unregistered its payloads. *)
EndUnload(m) ==
  /\ loaded[m] = "going"
  /\ \A p \in ToSet(elems) : ModuleOf[p] # m
  /\ loaded' = [loaded EXCEPT ![m] = "gone"]
  /\ UNCHANGED <<elems, fixed, used, info, replacements, is_used, refs, bug>>

Load(m) ==
  /\ loaded[m] = "gone"
  /\ loaded' = [loaded EXCEPT ![m] = "live"]
  /\ UNCHANGED <<elems, fixed, used, info, replacements, is_used, refs, bug>>

(* Code of the module of p may run.  Payloads are registered by the init
   function of their module or later, and unregistered by its exit function or
   before. *)
CodePresent(p) == \A m \in ModulesOf(p) : loaded[m] # "gone"
-----------------------------------------------------------------------------
Init ==
  /\ elems = <<>> /\ fixed = {} /\ used = <<>>
  /\ info = [op \in Operation |-> NoInfo]
  /\ replacements = NoReplacements
  /\ is_used = FALSE
  /\ refs = [m \in Module |-> 0]
  /\ loaded = [m \in Module |-> "live"]
  /\ bug = FALSE

Next ==
  \/ \E p \in Payload : CodePresent(p) /\ CanFix(p) /\ AddPayload(p)
  \/ \E p \in Payload : CodePresent(p) /\ RemovePayload(p)
  \/ Use \/ UseFails \/ Unuse
  \/ \E m \in Module : BeginUnload(m) \/ EndUnload(m) \/ Load(m)

Spec == Init /\ [][Next]_vars
-----------------------------------------------------------------------------
(***************************************************************************)
(* Properties.                                                             *)
(***************************************************************************)

Infos == {info[op] : op \in Operation}
HandlerArrays ==
  UNION {{a[when] : a \in {i.handlers, i.default_handlers}, when \in When} : i \in Infos}
Handlers == UNION {ToSet(a) : a \in HandlerArrays}

TypeOK ==
  /\ ToSet(elems) \subseteq Payload /\ ToSet(used) \subseteq Payload
  /\ fixed \subseteq Payload
  /\ DOMAIN info = Operation
  /\ \A i \in Infos : i.is_intercepted \in BOOLEAN /\ i.default_is_intercepted \in BOOLEAN
  /\ DOMAIN replacements \subseteq Operation
  /\ \A op \in DOMAIN replacements :
       replacements[op] \in {"replace_all", "replace_null", "replace_not_null"}
  /\ is_used \in BOOLEAN /\ bug \in BOOLEAN
  /\ refs \in [Module -> Nat]
  /\ loaded \in [Module -> {"live", "going", "gone"}]

(* A failed start and a stop leave nothing behind: no handler, no mark that an
   operation is intercepted, no fixed payload and no replacement. *)
CleanWhenUnused ==
  ~is_used => /\ info = [op \in Operation |-> NoInfo]
              /\ replacements = NoReplacements
              /\ fixed = {} /\ used = <<>>

(* A module is referenced once for each of its payloads in use, however often
   use of the payloads succeeded, failed and ended. *)
ModuleRefsExact ==
  \A m \in Module : refs[m] = Cardinality({p \in fixed : ModuleOf[p] = m})

(* A handler that may be called belongs to a payload which is registered and
   fixed, and to a module which is not being unloaded. *)
HandlersPresent ==
  \A h \in Handlers :
    /\ h.payload \in fixed /\ h.payload \in ToSet(elems)
    /\ \A m \in ModulesOf(h.payload) : loaded[m] = "live"

(* As long as the payloads are used, what is called and what is replaced does
   not change, whatever is registered, unregistered or unloaded. *)
UsedIsFrozen ==
  [][is_used /\ is_used' => UNCHANGED <<info, replacements, used, fixed>>]_vars

(* What a handler is registered for, in the terms of the API: one that is not
   external, and one that is, or is in a group with one. *)
Wants(op) == \E h \in ToSet(AllHandlers(used)) : h.op = op
WantsNull(op) ==
  \E h \in ToSet(AllHandlers(used)) :
    h.external /\ (h.op = op \/ (Group[h.op] # 0 /\ Group[h.op] = Group[op]))

(* An operation the program has set is replaced exactly if some handler is for
   it, and one that is NULL exactly if some external handler is for it or for
   an operation of its group. *)
ReplacedAsWanted ==
  is_used /\ ~InterceptAll =>
    \A op \in Operation :
      LET mode == IF op \in DOMAIN replacements THEN replacements[op] ELSE "none"
      IN  /\ Wants(op) <=> mode \in {"replace_all", "replace_not_null"}
          /\ WantsNull(op) <=> mode \in {"replace_all", "replace_null"}

(* Handlers are called in the order in which their payloads were registered,
   each payload's own in the order of its array; for an operation that is NULL
   these are the external ones. *)
CalledInOrder ==
  is_used =>
    \A op \in Operation, is_default \in BOOLEAN :
      LET Expected(when) ==
            Keep(AllHandlers(used),
                 {h \in ToSet(AllHandlers(used)) :
                    h.op = op /\ h.when = when /\ (is_default => h.external)})
      IN  InterceptionInfo(op, is_default) = [when \in When |-> Expected(when)]

(* A factory interceptor starts whatever operations it knows. *)
NoBug == ~bug
=============================================================================
