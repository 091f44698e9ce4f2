---------------------------- MODULE Interception ----------------------------
(***************************************************************************)
(* What the library promises to the program whose objects are watched:     *)
(* which objects each interceptor watches and whose calls it intercepts,   *)
(* and what a call of the API may do to them.  Nothing is said of          *)
(* operations structures: that objects may share one, and that several     *)
(* interceptors may meet at one, must not show.                            *)
(***************************************************************************)
CONSTANTS
  Interceptor,  \* interceptors of objects with a pointer to operations
  Object        \* the objects

VARIABLES
  watched,      \* watched[i]: objects which i was asked to watch
  intercepted,  \* intercepted[i]: those of which i intercepts every call
  usable        \* objects whose operations the program may call

vars == <<watched, intercepted, usable>>

(* Object o is not intercepted by any interceptor but i. *)
FreeFor(i, o) == \A j \in Interceptor \ {i} : o \notin intercepted[j]

(* Watch succeeds: all calls are intercepted, after any change of the
   object's operations.  Another interceptor must not have them. *)
Watch(i, o) ==
  /\ o \in usable /\ FreeFor(i, o)
  /\ watched'     = [watched EXCEPT ![i] = @ \cup {o}]
  /\ intercepted' = [intercepted EXCEPT ![i] = @ \cup {o}]
  /\ UNCHANGED usable

(* It fails with an error, never for an object whose interception is up to
   date.  Nothing is changed for an object that was not watched; one that
   was is forgotten, and its operations are given back to the program. *)
WatchFails(i, o) ==
  /\ o \in usable /\ o \notin intercepted[i]
  /\ watched' = [watched EXCEPT ![i] = @ \ {o}]
  /\ intercepted' = IF o \in watched[i]
                    THEN [j \in Interceptor |-> intercepted[j] \ {o}]
                    ELSE intercepted
  /\ UNCHANGED usable

Forgotten(i, o) ==
  /\ o \in watched[i]
  /\ watched'     = [watched EXCEPT ![i] = @ \ {o}]
  /\ intercepted' = [intercepted EXCEPT ![i] = @ \ {o}]

Forget(i, o) == o \in usable /\ Forgotten(i, o) /\ UNCHANGED usable

(* The object may be freed already; if it is not, it must not be used. *)
ForgetNorestore(i, o) == Forgotten(i, o) /\ usable' = usable \ {o}

(* All objects are forgotten as if freed.  Some of those not freed may be
   left with operations that are freed now. *)
Stop(i) ==
  /\ watched'     = [watched EXCEPT ![i] = {}]
  /\ intercepted' = [intercepted EXCEPT ![i] = {}]
  /\ \E S \in SUBSET intercepted[i] : usable' = usable \ S

(* The program sets the operations of an object.  Its calls may be missed
   until it is watched again; no more than one interceptor meets them. *)
ProgramSets(o) ==
  /\ \E I \in SUBSET Interceptor :
       /\ \A i, j \in I : i = j
       /\ \A i \in I : o \in watched[i]
       /\ intercepted' = [i \in Interceptor |-> IF i \in I THEN intercepted[i] \cup {o}
                                                           ELSE intercepted[i] \ {o}]
  /\ usable' = usable \cup {o}
  /\ UNCHANGED watched

ProgramFrees(o) == usable' = usable \ {o} /\ UNCHANGED <<watched, intercepted>>

Init ==
  /\ watched = [i \in Interceptor |-> {}]
  /\ intercepted = [i \in Interceptor |-> {}]
  /\ usable = Object

Next ==
  \/ \E i \in Interceptor : \/ Stop(i)
                            \/ \E o \in Object : \/ Watch(i, o) \/ WatchFails(i, o)
                                                 \/ Forget(i, o) \/ ForgetNorestore(i, o)
  \/ \E o \in Object : ProgramSets(o) \/ ProgramFrees(o)

Spec == Init /\ [][Next]_vars
-----------------------------------------------------------------------------
TypeOK ==
  /\ watched \in [Interceptor -> SUBSET Object]
  /\ intercepted \in [Interceptor -> SUBSET Object]
  /\ usable \in SUBSET Object

(* The calls of an object are intercepted by one interceptor at most, which
   watches the object: no call runs the handlers of two of them. *)
OneInterceptor ==
  /\ \A i \in Interceptor : intercepted[i] \subseteq watched[i]
  /\ \A i, j \in Interceptor : i # j => intercepted[i] \cap intercepted[j] = {}

(* No step loses the interception of two objects, but a stop. *)
OneAtATime ==
  [][(\A i \in Interceptor : ~Stop(i)) =>
       \E o \in Object : \A i \in Interceptor : intercepted[i] \ {o} \subseteq intercepted'[i]]_vars
=============================================================================
