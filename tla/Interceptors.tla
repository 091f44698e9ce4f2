----------------------------- MODULE Interceptors -----------------------------
(***************************************************************************)
(* The life of a normal interceptor and of the factory interceptors bound  *)
(* to it (kedr_coi_interceptors.c): creation, start, stop, and the         *)
(* intermediate operations that run at the same time.                      *)
(*                                                                         *)
(* The module that owns the interceptors creates, starts, stops and        *)
(* destroys them in one thread of control; threads of the program call     *)
(* watch, forget and the operations of objects, at any time.  Nothing in   *)
(* the code makes one wait for another: each step here is what the others  *)
(* may see.  A call checks the state, and uses the instrumentor in a step  *)
(* of its own; start, a start that fails and stop may come in between.     *)
(* Of payloads this module keeps whether they are used, of instrumentors   *)
(* whether they exist and what they watch.                                 *)
(***************************************************************************)
EXTENDS Naturals, Sequences, FiniteSets, SequencesExt

CONSTANTS
  Normal,     \* the normal interceptor
  Factory,    \* its possible factory interceptors
  Object,     \* objects and factories of the program
  Watchable,  \* Watchable[x]: those that interceptor x may watch
  OpsOf,      \* OpsOf[o]: the operations structure of o
  Thread      \* threads of the program

Node == {Normal} \cup Factory

ASSUME NodeAssumption ==
  /\ Normal \notin Factory
  /\ Watchable \in [Node -> SUBSET Object]
  /\ DOMAIN OpsOf = Object

VARIABLES
  state,    \* state[x]: "absent" before creation and after destruction
  list,     \* factory_interceptors
  used,     \* used[x]: the payloads of x are used, its handlers are there
  instr,    \* instr[x]: the instrumentor of x exists
  watched,  \* watched[x]: what this instrumentor watches
  pc,       \* where start or stop is
  todo,     \* factory interceptors it has still to start or to stop
  alive,    \* objects that exist
  call      \* call[t]: what thread t is doing in the library

control == <<state, list, used, instr, pc, todo>>
vars == <<control, watched, alive, call>>

Set(fun, x, v) == [fun EXCEPT ![x] = v]

(* A call has entered the library, it is past the check of the state, or (for
   an operation) it has got its handlers and runs; "bug" is a BUG_ON or the use
   of an instrumentor that does not exist, where the thread stays.  It is late
   when a stop, or the undoing of a start, has overtaken it: the interceptor is
   marked as not started, then its instrumentor is gone. *)
NoCall == [at |-> "none"]
Calls == [kind : {"watch", "forget", "operation"}, at : {"enter", "inside", "run", "bug"},
          node : Node, object : Object,
          handlers : BOOLEAN, late : {"no", "marked", "gone"}]

InProgress(t) == call[t].at \in {"enter", "inside", "run"}

Overtake(x, how) ==
  call' = [t \in Thread |->
             IF InProgress(t) /\ call[t].node = x THEN [call[t] EXCEPT !.late = how]
             ELSE call[t]]
-----------------------------------------------------------------------------
(* Creation and destruction. *)

CreateInterceptor ==
  /\ pc = "idle" /\ state[Normal] = "absent"
  /\ state' = Set(state, Normal, "initialized")
  /\ UNCHANGED <<list, used, instr, pc, todo, watched, alive, call>>

(* Memory that a call is about to access is not freed. *)
Accessed(x) == \E t \in Thread : call[t].at \in {"enter", "inside"} /\ call[t].node = x

(* Factory interceptors that are left are disconnected. *)
DestroyInterceptor ==
  /\ pc = "idle" /\ state[Normal] = "initialized"
  /\ \A x \in Node : ~Accessed(x)
  /\ state' = Set(state, Normal, "absent")
  /\ list' = <<>>
  /\ UNCHANGED <<used, instr, pc, todo, watched, alive, call>>

CreateFactory(f) ==
  /\ pc = "idle" /\ state[f] = "absent" /\ state[Normal] = "initialized"
  /\ state' = Set(state, f, "initialized")
  /\ list' = Append(list, f)
  /\ UNCHANGED <<used, instr, pc, todo, watched, alive, call>>

(* Mistake: it stays in the list. *)
DestroyLinkedFactory(f) ==
  /\ pc = "idle" /\ state[f] = "initialized" /\ ~Accessed(f)
  /\ state' = Set(state, f, "absent")
  /\ UNCHANGED <<list, used, instr, pc, todo, watched, alive, call>>

DestroyFactory(f) ==
  /\ pc = "idle" /\ state[f] = "initialized" /\ ~Accessed(f)
  /\ state' = Set(state, f, "absent")
  /\ IF f \in ToSet(list)
       THEN \E k \in DOMAIN list : list[k] = f /\ list' = RemoveAt(list, k)
       ELSE list' = list
  /\ UNCHANGED <<used, instr, pc, todo, watched, alive, call>>
-----------------------------------------------------------------------------
(* Start.  Payloads that cannot be used leave everything as it is. *)

StartUse ==
  /\ pc = "idle" /\ state[Normal] = "initialized"
  /\ used' = Set(used, Normal, TRUE)
  /\ pc' = "create"
  /\ UNCHANGED <<state, list, instr, todo, watched, alive, call>>

(* The factory interceptors fs are next, if there are any. *)
Starting(fs) == todo' = fs /\ pc' = IF fs = <<>> THEN "idle" ELSE "start"

StartCreate ==
  /\ pc = "create"
  /\ instr' = Set(instr, Normal, TRUE)
  /\ state' = Set(state, Normal, "started")
  /\ Starting(list)
  /\ UNCHANGED <<list, used, watched, alive, call>>

StartCreateFails ==
  /\ pc = "create"
  /\ used' = Set(used, Normal, FALSE)
  /\ pc' = "idle"
  /\ UNCHANGED <<state, list, instr, todo, watched, alive, call>>

(* factory_interceptor_start *)
StartFactory ==
  /\ pc = "start"
  /\ LET f == Head(todo)
     IN  /\ used' = Set(used, f, TRUE)
         /\ instr' = Set(instr, f, TRUE)
         /\ state' = Set(state, f, "started")
  /\ Starting(Tail(todo))
  /\ UNCHANGED <<list, watched, alive, call>>

(* Mistake: the factory interceptors started before are left as they are. *)
StartFactoryFailsAlone ==
  /\ pc = "start"
  /\ todo' = <<>>
  /\ pc' = "mark"
  /\ UNCHANGED <<state, list, used, instr, watched, alive, call>>

(* Mistake: the payloads are unused first, as if no operation could run yet. *)
StartFactoryFailsUnused ==
  /\ pc = "start"
  /\ todo' = Reverse(SubSeq(list, 1, Len(list) - Len(todo)))
  /\ pc' = "mark"
  /\ used' = Set(used, Normal, FALSE)
  /\ UNCHANGED <<state, list, instr, watched, alive, call>>

(* It fails, which leaves f as it was: those started before are stopped, the
   last of them first, and then the normal interceptor. *)
StartFactoryFails ==
  /\ pc = "start"
  /\ todo' = Reverse(SubSeq(list, 1, Len(list) - Len(todo)))
  /\ pc' = "mark"
  /\ UNCHANGED <<state, list, used, instr, watched, alive, call>>
-----------------------------------------------------------------------------
(* Stop of the factory interceptors in todo, and of the normal one then. *)

StopBegin ==
  /\ pc = "idle" /\ state[Normal] = "started"
  /\ todo' = list
  /\ pc' = "mark"
  /\ UNCHANGED <<state, list, used, instr, watched, alive, call>>

(* Mistake: the normal interceptor is stopped first. *)
NormalFirst ==
  IF todo # <<>> /\ state[Normal] = "started" THEN Normal
  ELSE IF todo = <<>> THEN Normal ELSE Head(todo)

Current == IF todo = <<>> THEN Normal ELSE Head(todo)

StopMark ==
  /\ pc = "mark"
  /\ state' = Set(state, Current, "initialized")
  /\ pc' = "restore"
  /\ Overtake(Current, "marked")
  /\ UNCHANGED <<list, used, instr, todo, watched, alive>>

(* The instrumentor is destroyed, everything it still watches is forgotten. *)
StopRestore ==
  /\ pc = "restore"
  /\ instr' = Set(instr, Current, FALSE)
  /\ watched' = Set(watched, Current, {})
  /\ pc' = "unuse"
  /\ Overtake(Current, "gone")
  /\ UNCHANGED <<state, list, used, todo, alive>>

(* Mistake: the loop does not go on to the next one. *)
StopSame ==
  /\ pc = "unuse"
  /\ used' = Set(used, Current, FALSE)
  /\ pc' = IF todo = <<>> THEN "idle" ELSE "mark"
  /\ UNCHANGED <<state, list, instr, todo, watched, alive, call>>

StopUnuse ==
  /\ pc = "unuse"
  /\ used' = Set(used, Current, FALSE)
  /\ IF todo = <<>> THEN pc' = "idle" /\ todo' = todo
                    ELSE pc' = "mark" /\ todo' = Tail(todo)
  /\ UNCHANGED <<state, list, instr, watched, alive, call>>

(* Mistake: the instrumentor is destroyed before the state says so. *)
StopSwapped ==
  \/ /\ pc = "mark" /\ instr[Current]
     /\ instr' = Set(instr, Current, FALSE)
     /\ watched' = Set(watched, Current, {})
     /\ UNCHANGED <<state, list, used, pc, todo, alive, call>>
  \/ /\ pc = "mark" /\ ~instr[Current]
     /\ state' = Set(state, Current, "initialized")
     /\ Overtake(Current, "gone")
     /\ pc' = "unuse"
     /\ UNCHANGED <<list, used, instr, todo, watched, alive>>
  \/ StopUnuse

Stop == StopMark \/ StopRestore \/ StopUnuse
-----------------------------------------------------------------------------
(* Calls of watch, of forget, and of operations of objects, at any time. *)

EnterCall(t, kind, x, o) ==
  /\ call[t] = NoCall /\ state[x] # "absent"
  /\ call' = Set(call, t,
       [kind |-> kind, at |-> "enter", node |-> x, object |-> o, handlers |-> FALSE,
        late |-> IF kind = "operation" /\ state[x] # "started" THEN "marked" ELSE "no"])
  /\ UNCHANGED <<control, watched, alive>>

WatchBegin(t, x, o)  == o \in alive \cap Watchable[x] /\ EnterCall(t, "watch", x, o)

(* The object may have been destroyed: that is why it is forgotten. *)
ForgetBegin(t, x, o) == o \in Watchable[x] /\ EnterCall(t, "forget", x, o)

Patched(x) == {OpsOf[o] : o \in watched[x]}

(* Objects whose operations are intermediate ones of x: those that share a
   structure with a watched one, too. *)
Reached(x) == {o \in alive : OpsOf[o] \in Patched(x)}

(* Thread t calls an intermediate operation of x for object o; o has the
   operations of a factory that is watched when x is a factory interceptor. *)
CallOperation(t, x, o) ==
  /\ IF x = Normal THEN o \in Reached(Normal)
     ELSE o \in alive \cap Watchable[Normal] /\ Reached(x) # {}
  /\ EnterCall(t, "operation", x, o)

Leave(t) == call' = Set(call, t, NoCall)
Bug(t)   == call' = [call EXCEPT ![t].at = "bug"]
Run(t, handlers) == call' = [call EXCEPT ![t].at = "run", ![t].handlers = handlers]

(* The check of the state: watch and forget return -EPERM, an operation meets
   the BUG_ON in get_intermediate_info or bind_object. *)
CheckState(t) ==
  /\ call[t].at = "enter"
  /\ IF state[call[t].node] = "started"
       THEN call' = [call EXCEPT ![t].at = "inside", ![t].late = "no"]
     ELSE IF call[t].kind = "operation" THEN Bug(t)
     ELSE Leave(t)
  /\ UNCHANGED <<control, watched, alive>>

(* Then the instrumentor is called; a factory interceptor's works on that of
   the normal one.  A late call may still hold one that was destroyed. *)
Served(t) == instr[call[t].node] /\ instr[Normal]
Unserved(t) ==
  /\ ~Served(t) \/ call[t].late = "gone"
  /\ Bug(t) /\ UNCHANGED watched

Inside(t, kind) == call[t].at = "inside" /\ call[t].kind = kind

(* A watch that fails leaves the object not watched, also one that was watched
   before and whose pointer has changed.  For a factory that second failure
   ends in a crash, which ForeignInstrumentor has. *)
WatchResults(x, o) ==
  {watched[x] \cup {o}} \cup
  (IF x = Normal \/ o \notin watched[x] THEN {watched[x] \ {o}} ELSE {})

WatchEnd(t) ==
  /\ Inside(t, "watch")
  /\ \/ /\ Served(t)
        /\ \E w \in WatchResults(call[t].node, call[t].object) :
             watched' = Set(watched, call[t].node, w)
        /\ Leave(t)
     \/ Unserved(t)
  /\ UNCHANGED <<control, alive>>
ForgetEnd(t) ==
  /\ Inside(t, "forget")
  /\ \/ /\ Served(t)
        /\ watched' = [watched EXCEPT ![call[t].node] = @ \ {call[t].object}]
        /\ Leave(t)
     \/ Unserved(t)
  /\ UNCHANGED <<control, alive>>

(* kedr_coi_interceptor_get_intermediate_info: handlers are called for objects
   that are watched. *)
IntermediateInfo(t) ==
  /\ Inside(t, "operation") /\ call[t].node = Normal
  /\ \/ /\ Served(t)
        /\ Run(t, call[t].object \in watched[Normal])
        /\ UNCHANGED watched
     \/ Unserved(t)
  /\ UNCHANGED <<control, alive>>

(* kedr_coi_factory_interceptor_bind_object: the object is watched by the
   normal interceptor from now on, and handlers are called if it was not
   before; or that watch fails, or the factory is not watched any more. *)
BindObject(t) ==
  /\ Inside(t, "operation") /\ call[t].node # Normal
  /\ \/ /\ Served(t)
        /\ \E w \in WatchResults(Normal, call[t].object) :
             /\ watched' = Set(watched, Normal, w)
             /\ Run(t, call[t].object \in w \ watched[Normal])
     \/ Unserved(t)
  /\ UNCHANGED <<control, alive>>

Return(t) ==
  /\ call[t].at = "run"
  /\ Leave(t)
  /\ UNCHANGED <<control, watched, alive>>

(* An object is created, or destroyed outside of any call for it. *)
ProgramCreate(o) ==
  /\ o \notin alive
  /\ alive' = alive \cup {o}
  /\ UNCHANGED <<control, watched, call>>
ProgramFree(o) ==
  /\ o \in alive
  /\ ~\E t \in Thread : InProgress(t) /\ call[t].object = o
  /\ alive' = alive \ {o}
  /\ UNCHANGED <<control, watched, call>>
-----------------------------------------------------------------------------
Init ==
  /\ state = [x \in Node |-> "absent"]
  /\ list = <<>>
  /\ used = [x \in Node |-> FALSE]
  /\ instr = [x \in Node |-> FALSE]
  /\ watched = [x \in Node |-> {}]
  /\ pc = "idle" /\ todo = <<>>
  /\ alive = Object
  /\ call = [t \in Thread |-> NoCall]

Start == StartUse \/ StartCreate \/ StartCreateFails \/ StartFactory \/ StartFactoryFails

Next ==
  \/ CreateInterceptor \/ DestroyInterceptor
  \/ \E f \in Factory : CreateFactory(f) \/ DestroyFactory(f)
  \/ Start \/ StopBegin \/ Stop
  \/ \E t \in Thread :
       \/ \E x \in Node, o \in Object :
            WatchBegin(t, x, o) \/ ForgetBegin(t, x, o) \/ CallOperation(t, x, o)
       \/ CheckState(t) \/ WatchEnd(t) \/ ForgetEnd(t)
       \/ IntermediateInfo(t) \/ BindObject(t) \/ Return(t)
  \/ \E o \in Object : ProgramCreate(o) \/ ProgramFree(o)

(* Start and stop do not wait for anything. *)
Fairness == WF_vars(Stop)

Spec == Init /\ [][Next]_vars /\ Fairness
-----------------------------------------------------------------------------
(***************************************************************************)
(* Properties.                                                             *)
(***************************************************************************)

TypeOK ==
  /\ state \in [Node -> {"absent", "initialized", "started"}]
  /\ list \in Seq(Factory) /\ todo \in Seq(Factory)
  /\ used \in [Node -> BOOLEAN] /\ instr \in [Node -> BOOLEAN]
  /\ watched \in [Node -> SUBSET Object]
  /\ pc \in {"idle", "create", "start", "mark", "restore", "unuse"}
  /\ pc = "start" => todo # <<>>
  /\ alive \subseteq Object
  /\ call \in [Thread -> Calls \cup {NoCall}]

(* A call meets an interceptor that is not started, or has no instrumentor,
   only if a stop or the undoing of a start has overtaken it: whatever starts,
   failing starts and stops other calls come between, one whose interceptor
   stays started from its check to its end is served. *)
StartedWhenUsed == \A t \in Thread : call[t].at = "bug" => call[t].late # "no"

(* While an operation runs that has got handlers, and no stop has overtaken
   it, the payloads stay used: those handlers are not freed or unloaded. *)
HandlersStay ==
  \A t \in Thread :
    call[t].at = "run" /\ call[t].handlers /\ call[t].late = "no" => used[call[t].node]

(* A factory interceptor works on the instrumentor of the normal one: at every
   step of a start, a failing start or a stop it is started, or has an
   instrumentor, only while the normal one is started and has its own. *)
FactoriesWithin ==
  \A f \in Factory :
    state[f] = "started" \/ instr[f] => state[Normal] = "started" /\ instr[Normal]

(* Between calls all interceptors in the list are started, with payloads used
   and instrumentors of their own, or none is and nothing is left behind. *)
AllOrNothing ==
  pc = "idle" =>
    \A x \in Node :
      LET on == state[Normal] = "started" /\ x \in {Normal} \cup ToSet(list)
      IN  /\ (state[x] = "started") = on /\ instr[x] = on /\ used[x] = on
          /\ ~on => watched[x] = {}

(* The list holds the factory interceptors which exist, each once, and none
   that was destroyed: start and stop access all of them. *)
ListedExist ==
  /\ \A f \in ToSet(list) \cup ToSet(todo) : state[f] # "absent"
  /\ IsInjective(list)
  /\ state[Normal] = "absent" => list = <<>>

(* A stop, and a start that has failed, ends with nothing left to undo. *)
UndoEnds ==
  pc = "mark" ~> (pc = "idle" /\ \A x \in Node : ~used[x] /\ ~instr[x])
=============================================================================
