-------------------------- MODULE Interceptors_proofs --------------------------
(***************************************************************************)
(* What Interceptors promises, for any number of factory interceptors,     *)
(* objects and threads.                                                    *)
(***************************************************************************)
EXTENDS Interceptors, ListLemmas

-----------------------------------------------------------------------------
(* Where the interceptors are, at each label of start and stop. *)

On(x)  == state[x] = "started" /\ instr[x] /\ used[x]
Off(x) == state[x] # "started" /\ ~instr[x] /\ ~used[x]

Types ==
  /\ state \in [Node -> {"absent", "initialized", "started"}]
  /\ list \in Seq(Factory) /\ todo \in Seq(Factory)
  /\ used \in [Node -> BOOLEAN] /\ instr \in [Node -> BOOLEAN]
  /\ pc \in {"idle", "create", "start", "mark", "restore", "unuse"}

Lists ==
  /\ IsInjective(list)
  /\ \A f \in ToSet(list) : state[f] # "absent"
  /\ state[Normal] = "absent" => list = <<>>

Idle ==
  pc = "idle" =>
    /\ todo = <<>>
    /\ \A x \in Node :
         IF state[Normal] = "started" /\ x \in {Normal} \cup ToSet(list)
           THEN On(x) ELSE Off(x)

Creating ==
  pc = "create" =>
    /\ todo = <<>>
    /\ state[Normal] = "initialized" /\ used[Normal] /\ ~instr[Normal]
    /\ \A f \in Factory : Off(f)

(* todo is the rest of the list, those before it are started. *)
UnderWay ==
  pc = "start" =>
    /\ todo # <<>> /\ Len(todo) <= Len(list)
    /\ \A k \in 1 .. Len(todo) : todo[k] = list[Len(list) - Len(todo) + k]
    /\ On(Normal)
    /\ \A f \in Factory :
         IF f \in {list[k] : k \in 1 .. Len(list) - Len(todo)} THEN On(f) ELSE Off(f)

Left == {Normal} \cup ToSet(todo)

(* One is being stopped, those left are as they were, the others are stopped. *)
Stopping ==
  pc \in {"mark", "restore", "unuse"} =>
    /\ IsInjective(todo) /\ ToSet(todo) \subseteq ToSet(list)
    /\ state[Normal] # "absent"
    /\ used[Current]
    /\ instr[Current] = (pc # "unuse")
    /\ state[Current] = IF pc = "mark" THEN "started" ELSE "initialized"
    /\ \A x \in Left \ {Current} : On(x)
    /\ \A x \in Node \ Left : Off(x)

Stages == Types /\ Lists /\ Idle /\ Creating /\ UnderWay /\ Stopping

(* Only an instrumentor that exists watches anything. *)
Watches == \A x \in Node : watched[x] # {} => instr[x]

(* A call that needs the interceptor started finds it so, unless overtaken. *)
Needs(c) ==
  \/ c.at \in {"inside", "run"}
  \/ c.at = "enter" /\ c.kind = "operation"
OnTime(t) ==
  /\ Needs(call[t]) /\ call[t].late = "no" => state[call[t].node] = "started"
  /\ call[t].at = "bug" => call[t].late # "no"

Activity == Watches /\ \A t \in Thread : OnTime(t)
-----------------------------------------------------------------------------
LEMMA Members ==
  ASSUME NEW s \in Seq(Factory)
  PROVE  /\ ToSet(s) \subseteq Factory /\ ToSet(s) \subseteq Node
         /\ Normal \notin ToSet(s)
         /\ ToSet(<<>>) = {}
         /\ s # <<>> => Head(s) \in ToSet(s)
<1>1. DOMAIN s = 1 .. Len(s) /\ Len(s) \in Nat /\ \A k \in 1 .. Len(s) : s[k] \in Factory
  BY LenProperties
<1>2. s # <<>> => Len(s) >= 1 /\ Head(s) = s[1]
  BY EmptySeq, <1>1
<1>3. ToSet(<<>>) = {}
  BY DEF ToSet
<1> QED BY <1>1, <1>2, <1>3, NodeAssumption DEF ToSet, Node

LEMMA CurrentLeft ==
  ASSUME Types
  PROVE  /\ Current \in Left /\ Left \subseteq Node
         /\ todo = <<>> => Current = Normal /\ Left = {Normal}
         /\ todo # <<>> => Current = Head(todo) /\ Current \in Factory /\ Current # Normal
<1>1. /\ ToSet(todo) \subseteq Node /\ ToSet(todo) \subseteq Factory
      /\ ToSet(<<>>) = {}
      /\ todo # <<>> => Head(todo) \in ToSet(todo)
  BY Members DEF Types
<1>2. CASE todo = <<>>
  <2>1. ToSet(todo) = {}
    BY <1>1, <1>2
  <2> QED BY <1>2, <2>1 DEF Current, Left, Node
<1>3. CASE todo # <<>>
  BY <1>1, <1>3, NodeAssumption DEF Current, Left, Node
<1> QED BY <1>2, <1>3

LEMMA StagesInit == Init => Stages
<1> SUFFICES ASSUME Init PROVE Stages
  OBVIOUS
<1>1. <<>> \in Seq(Factory) /\ ToSet(<<>>) = {}
  BY Members, EmptySeq
<1>2. IsInjective(<<>>)
  BY DEF IsInjective
<1>3. Normal \in Node
  BY DEF Node
<1> QED BY <1>1, <1>2, <1>3
  DEF Init, Stages, Types, Lists, Idle, Creating, UnderWay, Stopping, Off, On

LEMMA StagesKept == Stages /\ UNCHANGED control => Stages'
BY DEF control, Stages, Types, Lists, Idle, Creating, UnderWay, Stopping, Off, On,
       Left, Current

(* Between calls. *)
LEMMA StagesIdle ==
  ASSUME Stages, CreateInterceptor \/ DestroyInterceptor
                 \/ \E f \in Factory : CreateFactory(f) \/ DestroyFactory(f)
  PROVE  Stages'
<1> USE NodeAssumption DEF Set
<1>0. pc = "idle" /\ pc' = pc /\ todo' = todo /\ used' = used /\ instr' = instr
  BY DEF CreateInterceptor, DestroyInterceptor, CreateFactory, DestroyFactory
<1>1. /\ list \in Seq(Factory) /\ ToSet(list) \subseteq Factory /\ Normal \in Node
      /\ <<>> \in Seq(Factory) /\ ToSet(<<>>) = {}
  BY Members, EmptySeq DEF Stages, Types, Node
<1>2. Creating' /\ UnderWay' /\ Stopping'
  BY <1>0 DEF Creating, UnderWay, Stopping
<1>3. CASE CreateInterceptor
  BY <1>0, <1>1, <1>2, <1>3
  DEF CreateInterceptor, Stages, Types, Lists, Idle, Off, On, Node
<1>4. CASE DestroyInterceptor
  <2>1. IsInjective(list')
    BY <1>4 DEF DestroyInterceptor, IsInjective
  <2> QED BY <1>0, <1>1, <1>2, <1>4, <2>1
    DEF DestroyInterceptor, Stages, Types, Lists, Idle, Off, On, Node
<1>5. ASSUME NEW f \in Factory, CreateFactory(f) PROVE Stages'
  <2>1. f \notin ToSet(list)
    BY <1>5 DEF CreateFactory, Stages, Lists
  <2>2. list' \in Seq(Factory) /\ ToSet(list') = ToSet(list) \cup {f} /\ IsInjective(list')
    BY <1>1, <1>5, <2>1, AppendList DEF CreateFactory, Stages, Lists
  <2> QED BY <1>0, <1>1, <1>2, <1>5, <2>2
    DEF CreateFactory, Stages, Types, Lists, Idle, Off, On, Node
<1>6. ASSUME NEW f \in Factory, DestroyFactory(f) PROVE Stages'
  <2>1. list' \in Seq(Factory) /\ ToSet(list') = ToSet(list) \ {f} /\ IsInjective(list')
    <3>1. CASE f \notin ToSet(list)
      BY <1>1, <1>6, <3>1 DEF DestroyFactory, Stages, Lists
    <3>2. CASE f \in ToSet(list)
      BY <1>1, <1>6, <3>2, RemoveList DEF DestroyFactory, Stages, Lists
    <3> QED BY <3>1, <3>2
  <2>2. state[Normal] = "started" => f \notin ToSet(list)
    BY <1>0, <1>1, <1>6 DEF DestroyFactory, Stages, Idle, On, Node
  <2>3. list = <<>> => list' = <<>>
    BY <1>1, <1>6 DEF DestroyFactory
  <2> QED BY <1>0, <1>1, <1>2, <1>6, <2>1, <2>2, <2>3
    DEF DestroyFactory, Stages, Types, Lists, Idle, Off, On, Node
<1> QED BY <1>3, <1>4, <1>5, <1>6

(* Start. *)
LEMMA StagesStart ==
  ASSUME Stages, Start
  PROVE  Stages'
<1> USE NodeAssumption DEF Set
<1>1. /\ list \in Seq(Factory) /\ ToSet(list) \subseteq Factory
      /\ DOMAIN list = 1 .. Len(list) /\ Len(list) \in Nat
      /\ todo \in Seq(Factory) /\ Len(todo) \in Nat
      /\ \A f \in Factory : f \in Node /\ f # Normal
      /\ Normal \in Node
  BY Members, LenProperties DEF Stages, Types, Node
<1>2. CASE StartUse
  BY <1>1, <1>2 DEF StartUse, Stages, Types, Lists, Idle, Creating, UnderWay, Stopping, Off, On, Node
<1>3. CASE StartCreate
  <2>1. Types' /\ Lists'
    BY <1>1, <1>3 DEF StartCreate, Starting, Stages, Types, Lists, Creating
  <2>2. /\ state'[Normal] = "started" /\ instr'[Normal] /\ used'[Normal]
        /\ \A f \in Factory : Off(f)'
    BY <1>1, <1>3 DEF StartCreate, Stages, Types, Creating, Off
  <2>3. CASE list = <<>>
    <3>1. ToSet(list') = {} /\ pc' = "idle" /\ todo' = <<>>
      BY <1>1, <1>3, <2>3, Members DEF StartCreate, Starting
    <3> QED BY <2>1, <2>2, <3>1
      DEF Stages, Idle, Creating, UnderWay, Stopping, On, Off, Node
  <2>4. CASE list # <<>>
    <3>1. pc' = "start" /\ todo' = list /\ list' = list
      BY <1>3, <2>4 DEF StartCreate, Starting
    <3>2. {list[k] : k \in 1 .. Len(list) - Len(list)} = {}
      BY <1>1
    <3> QED BY <1>1, <2>1, <2>2, <2>4, <3>1, <3>2
      DEF Stages, Idle, Creating, UnderWay, Stopping, On, Off
  <2> QED BY <2>3, <2>4
<1>4. CASE StartCreateFails
  BY <1>1, <1>4
  DEF StartCreateFails, Stages, Types, Lists, Idle, Creating, UnderWay, Stopping, Off, On, Node
<1>5. CASE StartFactory
  <2> DEFINE f == Head(todo)
             n == Len(list) - Len(todo)
             r == Tail(todo)
  <2>0. pc = "start" /\ todo # <<>> /\ list' = list
    BY <1>5 DEF StartFactory, Stages, UnderWay
  <2>1. /\ f = todo[1] /\ f \in Factory /\ r \in Seq(Factory) /\ Len(r) = Len(todo) - 1
        /\ \A k \in 1 .. Len(r) : r[k] = todo[k + 1]
        /\ Len(todo) >= 1
    BY <1>1, <2>0, HeadTailProperties, EmptySeq
  <2>2. /\ f = list[n + 1] /\ n + 1 \in 1 .. Len(list) /\ n \in Nat
        /\ Len(list) - Len(r) = n + 1
    BY <1>1, <2>0, <2>1 DEF Stages, UnderWay
  <2>3. {list[k] : k \in 1 .. n + 1} = {list[k] : k \in 1 .. n} \cup {f}
    BY <2>2
  <2>4. /\ state' = [state EXCEPT ![f] = "started"]
        /\ instr' = [instr EXCEPT ![f] = TRUE] /\ used' = [used EXCEPT ![f] = TRUE]
        /\ todo' = r /\ pc' = IF r = <<>> THEN "idle" ELSE "start"
    BY <1>5 DEF StartFactory, Starting
  <2>5. \A k \in 1 .. Len(r) : r[k] = list[Len(list) - Len(r) + k]
    <3> TAKE k \in 1 .. Len(r)
    <3>1. k + 1 \in 1 .. Len(todo) /\ r[k] = todo[k + 1]
      BY <1>1, <2>1
    <3>2. todo[k + 1] = list[n + (k + 1)]
      BY <3>1, <2>0 DEF Stages, UnderWay
    <3>3. n + (k + 1) = Len(list) - Len(r) + k
      BY <1>1, <2>1
    <3> QED BY <3>1, <3>2, <3>3
  <2> HIDE DEF f, r, n
  <2>6. Types' /\ Lists'
    BY <1>1, <2>0, <2>1, <2>4 DEF Stages, Types, Lists
  <2>7. On(Normal)'
    BY <1>1, <2>0, <2>1, <2>4 DEF Stages, Types, UnderWay, On
  <2>8. \A g \in Factory :
          IF g \in {list[k] : k \in 1 .. n} \cup {f} THEN On(g)' ELSE Off(g)'
    BY <1>1, <2>0, <2>1, <2>4 DEF Stages, Types, UnderWay, On, Off, n
  <2>9. CASE r = <<>>
    <3>1. Len(list) = n + 1
      <4>1. Len(r) = 0
        BY <2>9, EmptySeq
      <4>2. Len(list) - Len(r) = n + 1 /\ Len(list) \in Nat /\ n \in Nat
        BY <1>1, <2>2
      <4>3. Len(list) - 0 = n + 1
        BY <4>1, <4>2
      <4> QED BY <4>2, <4>3
    <3>2. ToSet(list) = {list[k] : k \in 1 .. n + 1}
      BY <1>1, <3>1 DEF ToSet
    <3>3. Idle'
      BY <2>0, <2>3, <2>4, <2>7, <2>8, <2>9, <3>2 DEF Idle, On, Node
    <3> QED BY <2>4, <2>6, <2>9, <3>3 DEF Stages, Creating, UnderWay, Stopping
  <2>10. CASE r # <<>>
    <3>1. Len(r) <= Len(list)
      BY <1>1, <2>1, <2>2
    <3>2. UnderWay'
      <4>1. Len(list') - Len(todo') = n + 1
        BY <2>0, <2>2, <2>4
      <4>2. {list'[k] : k \in 1 .. Len(list') - Len(todo')} = {list[k] : k \in 1 .. n} \cup {f}
        BY <2>0, <2>3, <4>1
      <4>3. \A k \in 1 .. Len(todo') : todo'[k] = list'[Len(list') - Len(todo') + k]
        BY <2>0, <2>4, <2>5
      <4> HIDE DEF On, Off
      <4> QED BY <2>0, <2>4, <2>7, <2>8, <2>10, <3>1, <4>2, <4>3 DEF UnderWay
    <3> QED BY <2>4, <2>6, <2>10, <3>2 DEF Stages, Idle, Creating, Stopping
  <2> QED BY <2>9, <2>10
<1>6. CASE StartFactoryFails
  <2> DEFINE n == Len(list) - Len(todo)
  <2>0. /\ pc = "start" /\ pc' = "mark" /\ n \in 0 .. Len(list)
        /\ todo' = Reverse(SubSeq(list, 1, n))
        /\ UNCHANGED <<state, list, used, instr>>
    BY <1>1, <1>6 DEF StartFactoryFails, Stages, UnderWay
  <2>1. /\ todo' \in Seq(Factory) /\ ToSet(todo') = {list[k] : k \in 1 .. n}
        /\ IsInjective(todo') /\ ToSet(todo') \subseteq ToSet(list)
    <3>1. {list[k] : k \in 1 .. n} \subseteq ToSet(list)
      BY <1>1, <2>0 DEF ToSet
    <3>2. IsInjective(list)
      BY DEF Stages, Lists
    <3> HIDE DEF n
    <3>3. /\ Reverse(SubSeq(list, 1, n)) \in Seq(Factory)
          /\ ToSet(Reverse(SubSeq(list, 1, n))) = {list[k] : k \in 1 .. n}
          /\ IsInjective(Reverse(SubSeq(list, 1, n)))
      BY <1>1, <2>0, <3>2, ReversePrefix
    <3> QED BY <2>0, <3>1, <3>3
  <2> HIDE DEF n
  <2>2. Types' /\ Lists'
    BY <2>0, <2>1 DEF Stages, Types, Lists
  <2>3. Current' \in Left' /\ Left' \subseteq Node
    <3>1. ToSet(todo') \subseteq Node /\ (todo' # <<>> => Head(todo') \in ToSet(todo'))
      BY <2>1, Members
    <3> QED BY <3>1 DEF Current, Left, Node
  <2>4. /\ \A x \in Left' : On(x)'
        /\ \A x \in Node \ Left' : Off(x)'
    BY <1>1, <2>0, <2>1 DEF Stages, UnderWay, Left, On, Off, n, Node
  <2>5. Stopping'
    BY <1>1, <2>0, <2>1, <2>2, <2>3, <2>4 DEF Types, Stopping, On, Off, Left
  <2> QED BY <2>0, <2>2, <2>5 DEF Stages, Idle, Creating, UnderWay
<1> QED BY <1>2, <1>3, <1>4, <1>5, <1>6 DEF Start

(* Stop. *)
LEMMA StagesStop ==
  ASSUME Stages, StopBegin \/ Stop
  PROVE  Stages'
<1> USE NodeAssumption DEF Set
<1>1. /\ list \in Seq(Factory) /\ todo \in Seq(Factory) /\ Normal \in Node
      /\ ToSet(list) \subseteq Node /\ Normal \notin ToSet(list)
      /\ Types
  BY Members DEF Stages, Types, Node
<1>2. /\ Current \in Left /\ Left \subseteq Node
      /\ todo = <<>> => Current = Normal /\ Left = {Normal}
      /\ todo # <<>> => Current = Head(todo) /\ Current \in Factory /\ Current # Normal
  BY <1>1, CurrentLeft
<1>3. CASE StopBegin
  <2>0. /\ pc = "idle" /\ pc' = "mark" /\ todo' = list /\ state[Normal] = "started"
        /\ UNCHANGED <<state, list, used, instr>>
    BY <1>3 DEF StopBegin
  <2>1. \A x \in Node : IF x \in {Normal} \cup ToSet(list) THEN On(x)' ELSE Off(x)'
    BY <2>0 DEF Stages, Idle, On, Off
  <2>2. Current' \in Left' /\ Left' = {Normal} \cup ToSet(list) /\ Left' \subseteq Node
    <3>1. list # <<>> => Head(list) \in ToSet(list)
      BY <1>1, Members
    <3> QED BY <1>1, <2>0, <3>1 DEF Current, Left
  <2>3. Stopping'
    BY <1>1, <2>0, <2>1, <2>2 DEF Stages, Lists, Stopping, On
  <2> QED BY <2>0, <2>3, <1>1
    DEF Stages, Types, Lists, Idle, Creating, UnderWay
<1>4. CASE StopMark
  <2>0. /\ pc = "mark" /\ pc' = "restore"
        /\ state' = [state EXCEPT ![Current] = "initialized"]
        /\ UNCHANGED <<list, used, instr, todo>> /\ Current' = Current /\ Left' = Left
    BY <1>4 DEF StopMark, Current, Left
  <2>1. Types' /\ Lists'
    BY <1>1, <1>2, <2>0 DEF Stages, Types, Lists, Stopping
  <2>2. Stopping'
    BY <1>1, <1>2, <2>0 DEF Stages, Types, Stopping, On, Off
  <2> QED BY <2>0, <2>1, <2>2 DEF Stages, Idle, Creating, UnderWay
<1>5. CASE StopRestore
  <2>0. /\ pc = "restore" /\ pc' = "unuse"
        /\ instr' = [instr EXCEPT ![Current] = FALSE]
        /\ UNCHANGED <<list, used, state, todo>> /\ Current' = Current /\ Left' = Left
    BY <1>5 DEF StopRestore, Current, Left
  <2>1. Types' /\ Lists'
    BY <1>1, <1>2, <2>0 DEF Stages, Types, Lists
  <2>2. Stopping'
    BY <1>1, <1>2, <2>0 DEF Stages, Types, Stopping, On, Off
  <2> QED BY <2>0, <2>1, <2>2 DEF Stages, Idle, Creating, UnderWay
<1>6. CASE StopUnuse
  <2>0. /\ pc = "unuse"
        /\ used' = [used EXCEPT ![Current] = FALSE]
        /\ UNCHANGED <<list, state, instr>>
    BY <1>6 DEF StopUnuse
  <2> PICK c \in Left : c = Current
    BY <1>2
  <2>1. Off(c)'
    BY <1>1, <1>2, <2>0 DEF Stages, Types, Stopping, Off
  <2>2. /\ \A x \in Left \ {c} : On(x)'
        /\ \A x \in Node \ Left : Off(x)'
    BY <1>1, <1>2, <2>0 DEF Stages, Types, Stopping, On, Off
  <2>3. Lists'
    BY <2>0 DEF Stages, Lists
  <2>4. CASE todo = <<>>
    <3>0. pc' = "idle" /\ todo' = <<>>
      BY <1>6, <2>4 DEF StopUnuse
    <3>1. \A x \in Node : Off(x)'
      BY <1>2, <2>1, <2>2, <2>4
    <3>2. state'[Normal] # "started"
      BY <1>1, <3>1 DEF Off
    <3>3. Idle'
      BY <3>0, <3>1, <3>2 DEF Idle
    <3>4. Types'
      BY <1>1, <1>2, <2>0, <2>4, <3>0 DEF Types
    <3> QED BY <2>3, <3>0, <3>3, <3>4 DEF Stages, Creating, UnderWay, Stopping
  <2>5. CASE todo # <<>>
    <3>0. pc' = "mark" /\ todo' = Tail(todo)
      BY <1>6, <2>5 DEF StopUnuse
    <3>1. /\ todo' \in Seq(Factory) /\ ToSet(todo') = ToSet(todo) \ {Head(todo)}
          /\ IsInjective(todo')
      BY <1>1, <2>0, <2>5, <3>0, TailList DEF Stages, Stopping
    <3>2. Left' = Left \ {c} /\ Left' \subseteq Node
      BY <1>2, <2>5, <3>1 DEF Left
    <3>3. Current' \in Left'
      <4>1. todo' # <<>> => Head(todo') \in ToSet(todo')
        BY <3>1, Members
      <4> QED BY <4>1 DEF Current, Left
    <3>4. Types'
      BY <1>1, <1>2, <2>0, <3>0, <3>1 DEF Types
    <3>5. /\ ToSet(todo') \subseteq ToSet(list') /\ state'[Normal] # "absent"
      BY <2>0, <3>1 DEF Stages, Stopping
    <3>6. \A x \in Left' : On(x)'
      BY <2>2, <3>2
    <3>7. \A x \in Node \ Left' : Off(x)'
      BY <2>1, <2>2, <3>2
    <3>8. /\ used'[Current'] /\ instr'[Current'] /\ state'[Current'] = "started"
      BY <3>3, <3>6 DEF On
    <3>9. Stopping'
      <4> HIDE DEF Set
      <4> QED BY <3>0, <3>1, <3>4, <3>5, <3>6, <3>7, <3>8 DEF Stopping, Types
    <3> QED BY <2>3, <3>0, <3>4, <3>9 DEF Stages, Idle, Creating, UnderWay
  <2> QED BY <2>4, <2>5
<1> QED BY <1>3, <1>4, <1>5, <1>6 DEF Stop

LEMMA StagesNext == Stages /\ [Next]_vars => Stages'
<1> SUFFICES ASSUME Stages, [Next]_vars PROVE Stages'
  OBVIOUS
<1>1. CASE \/ CreateInterceptor \/ DestroyInterceptor
           \/ \E f \in Factory : CreateFactory(f) \/ DestroyFactory(f)
  BY <1>1, StagesIdle
<1>2. CASE Start
  BY <1>2, StagesStart
<1>3. CASE StopBegin \/ Stop
  BY <1>3, StagesStop
<1>4. ASSUME NEW t \in Thread, NEW x \in Node, NEW o \in Object,
             WatchBegin(t, x, o) \/ ForgetBegin(t, x, o) \/ CallOperation(t, x, o)
      PROVE  UNCHANGED control
  BY <1>4 DEF WatchBegin, ForgetBegin, CallOperation, EnterCall
<1>5. ASSUME NEW t \in Thread,
             \/ CheckState(t) \/ WatchEnd(t) \/ ForgetEnd(t)
             \/ IntermediateInfo(t) \/ BindObject(t) \/ Return(t)
      PROVE  UNCHANGED control
  BY <1>5 DEF CheckState, WatchEnd, ForgetEnd, IntermediateInfo, BindObject, Return
<1>6. ASSUME NEW o \in Object, ProgramCreate(o) \/ ProgramFree(o)
      PROVE  UNCHANGED control
  BY <1>6 DEF ProgramCreate, ProgramFree
<1>7. CASE UNCHANGED vars
  BY <1>7, StagesKept DEF vars
<1> QED BY <1>1, <1>2, <1>3, <1>4, <1>5, <1>6, <1>7, StagesKept DEF Next

(* At each label of start and stop every interceptor is as far as the label
   and the list still to do say, also while a start that failed is undone. *)
THEOREM StagesInvariant == Spec => []Stages
<1> QED BY StagesInit, StagesNext, PTL DEF Spec

LEMMA StagesWithin == Stages => FactoriesWithin
<1> SUFFICES ASSUME Stages, NEW f \in Factory, state[f] = "started" \/ instr[f]
             PROVE  state[Normal] = "started" /\ instr[Normal]
  BY DEF FactoriesWithin
<1>0. Normal \in Node /\ f \in Node /\ f # Normal
  BY NodeAssumption DEF Node
<1>1. CASE pc = "idle"
  BY <1>0, <1>1 DEF Stages, Idle, On, Off
<1>2. CASE pc = "create"
  BY <1>0, <1>2 DEF Stages, Creating, Off
<1>3. CASE pc = "start"
  BY <1>0, <1>3 DEF Stages, UnderWay, On
<1>4. CASE pc \in {"mark", "restore", "unuse"}
  <2>1. f \in Left /\ f # Normal
    BY <1>0, <1>4 DEF Stages, Stopping, Off
  <2>2. todo # <<>> => Current # Normal
    BY CurrentLeft DEF Stages
  <2>3. todo # <<>>
    BY <2>1, CurrentLeft DEF Stages
  <2> QED BY <1>0, <1>4, <2>2, <2>3 DEF Stages, Stopping, On, Left
<1> QED BY <1>1, <1>2, <1>3, <1>4 DEF Stages, Types

(* A factory interceptor works only while the normal one does. *)
THEOREM Within == Spec => []FactoriesWithin
BY StagesWithin, StagesInvariant, PTL

(* The lists that start and stop go through hold interceptors which exist. *)
THEOREM Listed == Spec => []ListedExist
<1>1. Stages => ListedExist
  <2> SUFFICES ASSUME Stages PROVE ListedExist
    OBVIOUS
  <2>1. ToSet(todo) \subseteq ToSet(list)
    <3>1. CASE pc \in {"idle", "create"}
      BY <3>1, Members DEF Stages, Types, Idle, Creating
    <3>2. CASE pc = "start"
      <4>1. /\ DOMAIN todo = 1 .. Len(todo) /\ Len(todo) \in Nat
            /\ DOMAIN list = 1 .. Len(list) /\ Len(list) \in Nat
        BY LenProperties DEF Stages, Types
      <4>2. \A k \in 1 .. Len(todo) :
              Len(list) - Len(todo) + k \in DOMAIN list
              /\ todo[k] = list[Len(list) - Len(todo) + k]
        BY <3>2, <4>1 DEF Stages, UnderWay
      <4> QED BY <4>1, <4>2 DEF ToSet
    <3>3. CASE pc \in {"mark", "restore", "unuse"}
      BY <3>3 DEF Stages, Stopping
    <3> QED BY <3>1, <3>2, <3>3 DEF Stages, Types
  <2> QED BY <2>1 DEF Stages, Lists, ListedExist
<1> QED BY <1>1, StagesInvariant, PTL
-----------------------------------------------------------------------------
(* Types of what calls and the program change. *)
Variables ==
  /\ watched \in [Node -> SUBSET Object]
  /\ alive \subseteq Object
  /\ call \in [Thread -> Calls \cup {NoCall}]

LEMMA CallTyped ==
  ASSUME Variables, NEW t \in Thread, call[t].at # "none"
  PROVE  /\ call[t] \in Calls /\ call[t].node \in Node /\ call[t].object \in Object
         /\ call[t].at \in {"enter", "inside", "run", "bug"}
         /\ call[t].kind \in {"watch", "forget", "operation"}
         /\ call[t].late \in {"no", "marked", "gone"}
BY DEF Variables, Calls, NoCall

(* What a step of a call changes of its record. *)
Moved(t, at, late) ==
  /\ call' \in [Thread -> Calls \cup {NoCall}]
  /\ \A u \in Thread \ {t} : call'[u] = call[u]
  /\ call'[t].at = at /\ call'[t].late = late
  /\ call'[t].node = call[t].node /\ call'[t].kind = call[t].kind

LEMMA MovedTo ==
  ASSUME Variables, NEW t \in Thread, call[t].at # "none",
         NEW at \in {"inside", "run", "bug"}, NEW h \in BOOLEAN,
         NEW late \in {"no", "marked", "gone"}, NEW c \in Calls,
         c = [call[t] EXCEPT !.at = at, !.handlers = h, !.late = late],
         call' = [call EXCEPT ![t] = c]
  PROVE  Moved(t, at, late)
<1>1. call[t] \in Calls /\ call \in [Thread -> Calls \cup {NoCall}]
  BY CallTyped DEF Variables
<1>2. call'[t] = c
  BY <1>1
<1>3. /\ c.at = at /\ c.late = late /\ c.node = call[t].node /\ c.kind = call[t].kind
  BY <1>1 DEF Calls
<1> QED BY <1>1, <1>2, <1>3 DEF Moved

LEMMA BugMoves ==
  ASSUME Variables, NEW t \in Thread, call[t].at # "none", Bug(t)
  PROVE  Moved(t, "bug", call[t].late)
<1>1. /\ call[t] \in Calls /\ call[t].late \in {"no", "marked", "gone"}
      /\ call[t].handlers \in BOOLEAN
  BY CallTyped DEF Calls
<1> DEFINE c == [call[t] EXCEPT !.at = "bug"]
<1>2. call' = [call EXCEPT ![t] = c]
  BY DEF Bug, Variables
<1>3. /\ c \in Calls
      /\ c = [call[t] EXCEPT !.at = "bug", !.handlers = call[t].handlers, !.late = call[t].late]
  BY <1>1 DEF Calls
<1> HIDE DEF c
<1> QED BY <1>1, <1>2, <1>3, MovedTo

LEMMA RunMoves ==
  ASSUME Variables, NEW t \in Thread, call[t].at # "none", NEW h \in BOOLEAN, Run(t, h)
  PROVE  Moved(t, "run", call[t].late)
<1>1. call[t] \in Calls /\ call[t].late \in {"no", "marked", "gone"}
  BY CallTyped
<1> DEFINE c == [call[t] EXCEPT !.at = "run", !.handlers = h]
<1>2. call' = [call EXCEPT ![t] = c]
  BY DEF Run, Variables
<1>3. /\ c \in Calls
      /\ c = [call[t] EXCEPT !.at = "run", !.handlers = h, !.late = call[t].late]
  BY <1>1 DEF Calls
<1> HIDE DEF c
<1> QED BY <1>1, <1>2, <1>3, MovedTo

(* The check of the state lets a call in, ends it, or is a BUG_ON. *)
LEMMA Checked ==
  ASSUME Variables, NEW t \in Thread, CheckState(t)
  PROVE  \/ state[call[t].node] = "started" /\ Moved(t, "inside", "no")
         \/ state[call[t].node] # "started" /\ call[t].kind = "operation"
              /\ Moved(t, "bug", call[t].late)
         \/ Leave(t)
<1>0. call[t].at = "enter"
  BY DEF CheckState
<1>1. call[t] \in Calls /\ call[t].handlers \in BOOLEAN
  BY <1>0, CallTyped DEF Calls
<1>2. CASE state[call[t].node] = "started"
  <2> DEFINE c == [call[t] EXCEPT !.at = "inside", !.late = "no"]
  <2>1. call' = [call EXCEPT ![t] = c]
    BY <1>2 DEF CheckState, Variables
  <2>2. /\ c \in Calls
        /\ c = [call[t] EXCEPT !.at = "inside", !.handlers = call[t].handlers, !.late = "no"]
    BY <1>1 DEF Calls
  <2> HIDE DEF c
  <2> QED BY <1>0, <1>1, <1>2, <2>1, <2>2, MovedTo
<1>3. CASE state[call[t].node] # "started"
  <2>1. (call[t].kind = "operation" /\ Bug(t)) \/ Leave(t)
    BY <1>3 DEF CheckState
  <2> QED BY <1>0, <1>3, <2>1, BugMoves
<1> QED BY <1>2, <1>3

LEMMA CallLeft ==
  ASSUME Variables, NEW t \in Thread, Leave(t)
  PROVE  /\ call' \in [Thread -> Calls \cup {NoCall}]
         /\ \A u \in Thread \ {t} : call'[u] = call[u]
         /\ call'[t] = NoCall
BY DEF Variables, Leave, Set

(* A stop marks the calls in progress on one interceptor, and changes nothing
   else of them. *)
LEMMA Overtaken ==
  ASSUME Variables, NEW x, NEW how \in {"marked", "gone"}, Overtake(x, how)
  PROVE  /\ call' \in [Thread -> Calls \cup {NoCall}]
         /\ \A t \in Thread :
              \/ call'[t] = call[t] /\ (InProgress(t) => call[t].node # x)
              \/ InProgress(t) /\ call'[t].late = how /\ call'[t].at = call[t].at
<1> SUFFICES ASSUME NEW t \in Thread
             PROVE  /\ call'[t] \in Calls \cup {NoCall}
                    /\ \/ call'[t] = call[t] /\ (InProgress(t) => call[t].node # x)
                       \/ InProgress(t) /\ call'[t].late = how /\ call'[t].at = call[t].at
  BY DEF Overtake
<1>1. call[t] \in Calls \cup {NoCall}
  BY DEF Variables
<1>2. CASE InProgress(t) /\ call[t].node = x
  <2>1. call[t] \in Calls
    BY <1>2, CallTyped DEF InProgress
  <2>2. call'[t] = [call[t] EXCEPT !.late = how]
    BY <1>2 DEF Overtake
  <2> QED BY <1>2, <2>1, <2>2 DEF Calls
<1>3. CASE ~(InProgress(t) /\ call[t].node = x)
  <2>1. call'[t] = call[t]
    BY <1>3 DEF Overtake
  <2> QED BY <1>1, <1>3, <2>1
<1> QED BY <1>2, <1>3

LEMMA CallEntered ==
  ASSUME Variables, NEW t \in Thread, NEW x \in Node, NEW o \in Object,
         NEW kind \in {"watch", "forget", "operation"}, EnterCall(t, kind, x, o)
  PROVE  /\ call' \in [Thread -> Calls \cup {NoCall}]
         /\ \A u \in Thread \ {t} : call'[u] = call[u]
         /\ call'[t].at = "enter" /\ call'[t].node = x /\ call'[t].kind = kind
         /\ kind = "operation" /\ call'[t].late = "no" => state[x] = "started"
<1> DEFINE late == IF kind = "operation" /\ state[x] # "started" THEN "marked" ELSE "no"
           c == [kind |-> kind, at |-> "enter", node |-> x, object |-> o,
                 handlers |-> FALSE, late |-> late]
<1>1. late \in {"no", "marked"} /\ (kind = "operation" /\ late = "no" => state[x] = "started")
  OBVIOUS
<1>2. c \in Calls
  BY <1>1 DEF Calls
<1>3. call' = [call EXCEPT ![t] = c]
  BY DEF EnterCall, Set
<1>4. c.at = "enter" /\ c.node = x /\ c.kind = kind /\ c.late = late
  OBVIOUS
<1> HIDE DEF c, late
<1>5. call'[t] = c
  BY <1>3 DEF Variables
<1> QED BY <1>1, <1>2, <1>3, <1>4, <1>5 DEF Variables

(* What the instrumentor is called for changes only what is watched, and if it
   does not exist the call is stuck. *)
LEMMA WatchedBy ==
  ASSUME Variables, NEW t \in Thread,
         WatchEnd(t) \/ ForgetEnd(t) \/ IntermediateInfo(t) \/ BindObject(t)
  PROVE  /\ call[t].at = "inside"
         /\ \/ /\ Served(t)
               /\ Leave(t) \/ \E h \in BOOLEAN : Run(t, h)
               /\ \E x \in {call[t].node, Normal}, w \in SUBSET Object :
                    watched' = [watched EXCEPT ![x] = w]
            \/ Unserved(t)
         /\ UNCHANGED <<control, alive>>
<1> USE DEF Set
<1>0. call[t].at = "inside"
  BY DEF WatchEnd, ForgetEnd, IntermediateInfo, BindObject, Inside
<1>1. /\ call[t].node \in Node /\ call[t].object \in Object /\ Normal \in Node
      /\ watched \in [Node -> SUBSET Object]
  BY <1>0, CallTyped DEF Node, Variables
<1>2. \A x \in Node : watched = [watched EXCEPT ![x] = watched[x]]
  BY <1>1
<1>3. \A x \in Node : \A w \in WatchResults(x, call[t].object) : w \in SUBSET Object
  BY <1>1 DEF WatchResults
<1>4. CASE WatchEnd(t)
  BY <1>0, <1>1, <1>3, <1>4 DEF WatchEnd
<1>5. CASE ForgetEnd(t)
  BY <1>0, <1>1, <1>5 DEF ForgetEnd
<1>6. CASE IntermediateInfo(t)
  <2> DEFINE h == call[t].object \in watched[Normal]
  <2>1. h \in BOOLEAN
    OBVIOUS
  <2>2. \/ Served(t) /\ Run(t, h) /\ watched' = watched
        \/ Unserved(t)
    BY <1>6 DEF IntermediateInfo
  <2>3. UNCHANGED <<control, alive>>
    BY <1>6 DEF IntermediateInfo
  <2> HIDE DEF h
  <2> QED BY <1>0, <1>1, <1>2, <2>1, <2>2, <2>3
<1>7. CASE BindObject(t)
  <2>1. UNCHANGED <<control, alive>>
    BY <1>7 DEF BindObject
  <2>2. CASE Unserved(t)
    BY <1>0, <2>1, <2>2
  <2>3. CASE ~Unserved(t)
    <3>1. Served(t)
      BY <1>7, <2>3 DEF BindObject
    <3>2. PICK w \in WatchResults(Normal, call[t].object) :
            /\ watched' = [watched EXCEPT ![Normal] = w]
            /\ Run(t, call[t].object \in w \ watched[Normal])
      BY <1>7, <2>3 DEF BindObject
    <3> DEFINE h == call[t].object \in w \ watched[Normal]
    <3>3. h \in BOOLEAN /\ Run(t, h)
      BY <3>2
    <3>4. w \in SUBSET Object
      BY <1>1, <1>3
    <3> HIDE DEF h
    <3> QED BY <1>0, <2>1, <3>1, <3>2, <3>3, <3>4
  <2> QED BY <2>2, <2>3
<1> QED BY <1>4, <1>5, <1>6, <1>7

LEMMA VariablesNext == Stages /\ Variables /\ [Next]_vars => Variables'
<1> SUFFICES ASSUME Stages, Variables, [Next]_vars PROVE Variables'
  OBVIOUS
<1> USE NodeAssumption DEF Set
<1>1. CASE \/ UNCHANGED vars \/ CreateInterceptor \/ DestroyInterceptor
           \/ \E f \in Factory : CreateFactory(f) \/ DestroyFactory(f)
           \/ Start \/ StopBegin \/ StopUnuse
  <2>1. UNCHANGED <<watched, alive, call>>
    BY <1>1
    DEF vars, CreateInterceptor, DestroyInterceptor, CreateFactory, DestroyFactory, Start,
        StartUse, StartCreate, StartCreateFails, StartFactory, StartFactoryFails, StopBegin,
        StopUnuse
  <2> QED BY <2>1 DEF Variables
<1>2. CASE StopMark \/ StopRestore
  <2>1. PICK how \in {"marked", "gone"} : Overtake(Current, how)
    BY <1>2 DEF StopMark, StopRestore
  <2>2. call' \in [Thread -> Calls \cup {NoCall}]
    BY <2>1, Overtaken
  <2> QED BY <1>2, <2>2 DEF StopMark, StopRestore, Variables
<1>3. ASSUME NEW t \in Thread, NEW x \in Node, NEW o \in Object,
             WatchBegin(t, x, o) \/ ForgetBegin(t, x, o) \/ CallOperation(t, x, o)
      PROVE  Variables'
  <2>1. PICK kind \in {"watch", "forget", "operation"} : EnterCall(t, kind, x, o)
    BY <1>3 DEF WatchBegin, ForgetBegin, CallOperation
  <2>2. call' \in [Thread -> Calls \cup {NoCall}]
    BY <2>1, CallEntered
  <2> QED BY <2>1, <2>2 DEF EnterCall, Variables
<1>4. ASSUME NEW t \in Thread, CheckState(t) \/ Return(t)
      PROVE  Variables'
  <2>1. UNCHANGED <<watched, alive>>
    BY <1>4 DEF CheckState, Return
  <2>2. call' \in [Thread -> Calls \cup {NoCall}]
    BY <1>4, Checked, CallLeft DEF Moved, Return
  <2> QED BY <2>1, <2>2 DEF Variables
<1>5. ASSUME NEW t \in Thread,
             WatchEnd(t) \/ ForgetEnd(t) \/ IntermediateInfo(t) \/ BindObject(t)
      PROVE  Variables'
  <2>1. call[t].at = "inside" /\ UNCHANGED alive
    BY <1>5, WatchedBy
  <2>2. Normal \in Node /\ call[t].node \in Node
    BY <2>1, CallTyped DEF Node
  <2>3. CASE Unserved(t)
    BY <2>1, <2>3, BugMoves DEF Unserved, Moved, Variables
  <2>4. CASE ~Unserved(t)
    <3>1. PICK x \in {call[t].node, Normal}, w \in SUBSET Object :
            watched' = [watched EXCEPT ![x] = w]
      BY <1>5, <2>4, WatchedBy
    <3>2. call' \in [Thread -> Calls \cup {NoCall}]
      <4>1. Leave(t) \/ \E h \in BOOLEAN : Run(t, h)
        BY <1>5, <2>4, WatchedBy
      <4> QED BY <2>1, <4>1, CallLeft, RunMoves DEF Moved
    <3> QED BY <2>1, <2>2, <3>1, <3>2 DEF Variables
  <2> QED BY <2>3, <2>4
<1>6. ASSUME NEW o \in Object, ProgramCreate(o) \/ ProgramFree(o)
      PROVE  Variables'
  BY <1>6 DEF ProgramCreate, ProgramFree, Variables
<1> QED BY <1>1, <1>2, <1>3, <1>4, <1>5, <1>6 DEF Next, Stop

(* The types of all variables, and that start looks at no empty list. *)
THEOREM TypeCorrect == Spec => []TypeOK
<1>1. Init => Variables
  BY DEF Init, Variables, Node
<1>2. Stages /\ Variables => TypeOK
  BY DEF Stages, Types, UnderWay, Variables, TypeOK
<1> QED BY <1>1, <1>2, StagesInvariant, VariablesNext, PTL DEF Spec
-----------------------------------------------------------------------------
(* Calls while interceptors are started and stopped. *)

Steady == Stages /\ Variables /\ Activity

(* Whatever is started has its payloads and its instrumentor, and so has the
   normal interceptor. *)
LEMMA StartedServed ==
  ASSUME Stages, NEW x \in Node, state[x] = "started"
  PROVE  used[x] /\ instr[x] /\ instr[Normal]
<1>0. Normal \in Node /\ Current \in Left /\ Left \subseteq Node /\ Types
  BY CurrentLeft DEF Stages, Node
<1>1. used[x] /\ instr[x]
  <2>1. CASE pc = "idle"
    BY <2>1 DEF Stages, Idle, On, Off
  <2>2. CASE pc = "create"
    BY <2>2, NodeAssumption DEF Stages, Creating, Off, Node
  <2>3. CASE pc = "start"
    BY <2>3 DEF Stages, UnderWay, On, Off, Node
  <2>4. CASE pc \in {"mark", "restore", "unuse"}
    BY <1>0, <2>4 DEF Stages, Stopping, On, Off
  <2> QED BY <1>0, <2>1, <2>2, <2>3, <2>4 DEF Types
<1>2. CASE x = Normal
  BY <1>1, <1>2
<1>3. CASE x # Normal
  <2>1. x \in Factory
    BY <1>3 DEF Node
  <2> QED BY <1>1, <2>1, StagesWithin DEF FactoriesWithin
<1> QED BY <1>2, <1>3

LEMMA ActivityInit == Init => Activity
BY DEF Init, Activity, Watches, OnTime, Needs, NoCall

(* Steps that are no call and overtake none. *)
LEMMA OnTimeKept ==
  ASSUME Steady, UNCHANGED <<watched, call>>,
         \A x \in Node : instr[x] => instr'[x],
         \A x \in Node : state[x] = "started" => state'[x] = "started"
  PROVE  Activity'
<1>1. Watches'
  BY DEF Steady, Activity, Watches
<1>2. ASSUME NEW t \in Thread PROVE OnTime(t)'
  <2>1. Needs(call[t]) => call[t].node \in Node
    BY CallTyped DEF Steady, Needs
  <2> QED BY <2>1 DEF Steady, Activity, OnTime, Needs
<1> QED BY <1>1, <1>2 DEF Activity

LEMMA ActivityControl ==
  ASSUME Steady,
         \/ CreateInterceptor \/ DestroyInterceptor
         \/ \E f \in Factory : CreateFactory(f) \/ DestroyFactory(f)
         \/ Start \/ StopBegin \/ StopUnuse
  PROVE  Activity'
<1> USE NodeAssumption DEF Set
<1>1. UNCHANGED <<watched, call>>
  BY DEF CreateInterceptor, DestroyInterceptor, CreateFactory, DestroyFactory, Start,
         StartUse, StartCreate, StartCreateFails, StartFactory, StartFactoryFails, StopBegin,
         StopUnuse
<1>2. /\ Normal \in Node /\ \A f \in Factory : f \in Node
      /\ todo # <<>> => Head(todo) \in Node
      /\ state \in [Node -> {"absent", "initialized", "started"}]
      /\ instr \in [Node -> BOOLEAN]
  BY Members DEF Steady, Stages, Types, Node
<1>3. /\ \A x \in Node : instr[x] => instr'[x]
      /\ \A x \in Node : state[x] = "started" => state'[x] = "started"
  <2>1. CASE CreateInterceptor \/ DestroyInterceptor
    BY <1>2, <2>1 DEF CreateInterceptor, DestroyInterceptor
  <2>2. CASE \E f \in Factory : CreateFactory(f) \/ DestroyFactory(f)
    BY <1>2, <2>2 DEF CreateFactory, DestroyFactory
  <2>3. CASE StartUse \/ StartCreateFails \/ StartFactoryFails \/ StopBegin \/ StopUnuse
    BY <2>3 DEF StartUse, StartCreateFails, StartFactoryFails, StopBegin, StopUnuse
  <2>4. CASE StartCreate
    BY <1>2, <2>4 DEF StartCreate
  <2>5. CASE StartFactory
    BY <1>2, <2>5 DEF StartFactory, Steady, Stages, UnderWay
  <2> QED BY <2>1, <2>2, <2>3, <2>4, <2>5 DEF Start
<1> QED BY <1>1, <1>3, OnTimeKept

(* Stop marks the interceptor and with it all calls that rely on it. *)
LEMMA ActivityStop ==
  ASSUME Steady, StopMark \/ StopRestore
  PROVE  Activity'
<1> USE DEF Set
<1>1. PICK how \in {"marked", "gone"} : Overtake(Current, how)
  BY DEF StopMark, StopRestore
<1>2. /\ Current \in Node /\ state \in [Node -> {"absent", "initialized", "started"}]
      /\ instr \in [Node -> BOOLEAN] /\ watched \in [Node -> SUBSET Object]
  BY CurrentLeft DEF Steady, Stages, Types, Variables
<1>3. /\ \A x \in Node \ {Current} : /\ state'[x] = state[x] /\ instr'[x] = instr[x]
                                     /\ watched'[x] = watched[x]
      /\ \/ watched'[Current] = {}
         \/ watched' = watched /\ instr' = instr
  <2>1. CASE StopMark
    BY <1>2, <2>1 DEF StopMark
  <2>2. CASE StopRestore
    BY <1>2, <2>2 DEF StopRestore
  <2> QED BY <2>1, <2>2
<1>4. Watches'
  BY <1>2, <1>3 DEF Watches, Steady, Activity
<1>5. ASSUME NEW t \in Thread PROVE OnTime(t)'
  <2>1. \/ call'[t] = call[t] /\ (InProgress(t) => call[t].node # Current)
        \/ InProgress(t) /\ call'[t].late = how /\ call'[t].at = call[t].at
    BY <1>1, Overtaken DEF Steady
  <2>2. CASE call'[t] = call[t] /\ (InProgress(t) => call[t].node # Current)
    <3>1. Needs(call[t]) => InProgress(t) /\ call[t].node \in Node
      BY CallTyped DEF Needs, InProgress, Steady
    <3> QED BY <1>3, <2>2, <3>1 DEF Steady, Activity, OnTime, Needs
  <2>3. CASE call'[t].late = how
    BY <2>3 DEF OnTime
  <2> QED BY <2>1, <2>2, <2>3
<1> QED BY <1>4, <1>5 DEF Activity

LEMMA ActivityBegin ==
  ASSUME Steady, NEW t \in Thread, NEW x \in Node, NEW o \in Object,
         WatchBegin(t, x, o) \/ ForgetBegin(t, x, o) \/ CallOperation(t, x, o)
  PROVE  Activity'
<1>1. PICK kind \in {"watch", "forget", "operation"} : EnterCall(t, kind, x, o)
  BY DEF WatchBegin, ForgetBegin, CallOperation
<1>2. UNCHANGED <<state, instr, watched>>
  BY <1>1 DEF EnterCall, control
<1>3. /\ \A u \in Thread \ {t} : call'[u] = call[u]
      /\ call'[t].at = "enter" /\ call'[t].node = x /\ call'[t].kind = kind
      /\ kind = "operation" /\ call'[t].late = "no" => state[x] = "started"
  BY <1>1, CallEntered DEF Steady
<1>4. ASSUME NEW u \in Thread PROVE OnTime(u)'
  BY <1>2, <1>3 DEF Steady, Activity, OnTime, Needs
<1> QED BY <1>2, <1>4 DEF Steady, Activity, Watches

LEMMA ActivityChecks ==
  ASSUME Steady, NEW t \in Thread, CheckState(t) \/ Return(t)
  PROVE  Activity'
<1>1. UNCHANGED <<state, instr, watched>>
  BY DEF CheckState, Return, control
<1>2. CASE Leave(t)
  <2>1. call'[t] = NoCall /\ \A u \in Thread \ {t} : call'[u] = call[u]
    BY <1>2, CallLeft DEF Steady
  <2>2. ASSUME NEW u \in Thread PROVE OnTime(u)'
    BY <1>1, <2>1 DEF Steady, Activity, OnTime, Needs, NoCall
  <2> QED BY <1>1, <2>2 DEF Steady, Activity, Watches
<1>3. CASE CheckState(t) /\ ~Leave(t)
  <2>1. \/ state[call[t].node] = "started" /\ Moved(t, "inside", "no")
        \/ /\ state[call[t].node] # "started" /\ call[t].kind = "operation"
           /\ Moved(t, "bug", call[t].late)
    BY <1>3, Checked DEF Steady
  <2>2. call[t].at = "enter"
    BY <1>3 DEF CheckState
  <2>3. OnTime(t)'
    BY <1>1, <2>1, <2>2 DEF Moved, Steady, Activity, OnTime, Needs
  <2>4. ASSUME NEW u \in Thread \ {t} PROVE OnTime(u)'
    BY <1>1, <2>1 DEF Moved, Steady, Activity, OnTime, Needs
  <2> QED BY <1>1, <2>3, <2>4 DEF Steady, Activity, Watches
<1> QED BY <1>2, <1>3 DEF Return

(* Only a call that is overtaken does not find the instrumentor. *)
LEMMA ActivityUse ==
  ASSUME Steady, NEW t \in Thread,
         WatchEnd(t) \/ ForgetEnd(t) \/ IntermediateInfo(t) \/ BindObject(t)
  PROVE  Activity'
<1>1. /\ call[t].at = "inside" /\ UNCHANGED <<state, instr>>
      /\ call[t].node \in Node /\ call[t].late \in {"no", "marked", "gone"}
  BY WatchedBy, CallTyped DEF Steady, control
<1>2. CASE Unserved(t)
  <2>1. Moved(t, "bug", call[t].late)
    BY <1>1, <1>2, BugMoves DEF Unserved, Steady
  <2>2. call[t].late # "no"
    <3>1. SUFFICES ASSUME call[t].late = "no" PROVE FALSE
      OBVIOUS
    <3>2. state[call[t].node] = "started"
      <4>1. OnTime(t) /\ Needs(call[t])
        BY <1>1 DEF Steady, Activity, Needs
      <4> QED BY <3>1, <4>1 DEF OnTime
    <3>3. Served(t)
      BY <1>1, <3>2, StartedServed DEF Served, Steady
    <3> QED BY <1>2, <3>1, <3>3 DEF Unserved
  <2>3. ASSUME NEW u \in Thread PROVE OnTime(u)'
    BY <1>1, <2>1, <2>2 DEF Moved, Steady, Activity, OnTime, Needs
  <2> QED BY <1>1, <1>2, <2>3 DEF Unserved, Steady, Activity, Watches
<1>3. CASE ~Unserved(t)
  <2>1. /\ Served(t)
        /\ Leave(t) \/ \E h \in BOOLEAN : Run(t, h)
        /\ \E x \in {call[t].node, Normal}, w \in SUBSET Object :
             watched' = [watched EXCEPT ![x] = w]
    BY <1>3, WatchedBy DEF Steady
  <2>2. Watches'
    BY <1>1, <2>1 DEF Served, Steady, Activity, Watches, Variables
  <2>3. ASSUME NEW u \in Thread PROVE OnTime(u)'
    <3>1. CASE Leave(t)
      <4>1. call'[t] = NoCall /\ \A v \in Thread \ {t} : call'[v] = call[v]
        BY <3>1, CallLeft DEF Steady
      <4> QED BY <1>1, <4>1 DEF Steady, Activity, OnTime, Needs, NoCall
    <3>2. ASSUME NEW h \in BOOLEAN, Run(t, h) PROVE OnTime(u)'
      <4>1. Moved(t, "run", call[t].late)
        BY <1>1, <3>2, RunMoves DEF Steady
      <4> QED BY <1>1, <4>1 DEF Moved, Steady, Activity, OnTime, Needs
    <3> QED BY <2>1, <3>1, <3>2
  <2> QED BY <2>2, <2>3 DEF Activity
<1> QED BY <1>2, <1>3

LEMMA ActivityNext == Steady /\ [Next]_vars => Activity'
<1> SUFFICES ASSUME Steady, [Next]_vars PROVE Activity'
  OBVIOUS
<1>1. CASE UNCHANGED vars \/ \E o \in Object : ProgramCreate(o) \/ ProgramFree(o)
  <2>1. UNCHANGED <<state, instr, watched, call>>
    BY <1>1 DEF vars, control, ProgramCreate, ProgramFree
  <2> QED BY <2>1, OnTimeKept
<1> QED BY <1>1, ActivityControl, ActivityStop, ActivityBegin, ActivityChecks, ActivityUse
        DEF Next, Stop

(* Nothing is watched without an instrumentor, and a call that needs its
   interceptor finds it started unless a stop has overtaken it. *)
THEOREM ActivityInvariant == Spec => []Steady
<1>1. Init => Variables
  BY DEF Init, Variables, Node
<1>2. Init => Steady
  BY <1>1, StagesInit, ActivityInit DEF Steady
<1>3. Steady /\ [Next]_vars => Steady'
  BY StagesNext, VariablesNext, ActivityNext DEF Steady
<1> QED BY <1>2, <1>3, PTL DEF Spec

(* A call ends in a BUG_ON, or without an instrumentor, only when a stop has
   overtaken it, whatever other starts and stops come between its steps. *)
THEOREM NeverUnserved == Spec => []StartedWhenUsed
<1>1. Steady => StartedWhenUsed
  BY DEF Steady, Activity, OnTime, StartedWhenUsed
<1> QED BY <1>1, ActivityInvariant, PTL

(* Handlers that an operation runs with stay in use until a stop overtakes it. *)
THEOREM HandlersKept == Spec => []HandlersStay
<1>1. Steady => HandlersStay
  <2> SUFFICES ASSUME Steady, NEW t \in Thread,
                      call[t].at = "run", call[t].handlers, call[t].late = "no"
               PROVE  used[call[t].node]
    BY DEF HandlersStay
  <2>1. state[call[t].node] = "started"
    <3>1. OnTime(t) /\ Needs(call[t])
      BY DEF Steady, Activity, Needs
    <3> QED BY <3>1 DEF OnTime
  <2>2. call[t].node \in Node
    BY CallTyped DEF Steady
  <2> QED BY <2>1, <2>2, StartedServed DEF Steady
<1> QED BY <1>1, ActivityInvariant, PTL

(* Start and stop take all interceptors along or none, and leave nothing. *)
THEOREM Together == Spec => []AllOrNothing
<1>1. Steady => AllOrNothing
  <2> SUFFICES ASSUME Steady, pc = "idle", NEW x \in Node,
                      NEW on, on = (state[Normal] = "started" /\ x \in {Normal} \cup ToSet(list))
               PROVE  /\ (state[x] = "started") = on /\ instr[x] = on /\ used[x] = on
                      /\ ~on => watched[x] = {}
    BY DEF AllOrNothing
  <2>1. IF on THEN On(x) ELSE Off(x)
    BY DEF Steady, Stages, Idle
  <2>2. instr[x] \in BOOLEAN /\ used[x] \in BOOLEAN
    BY DEF Steady, Stages, Types
  <2>3. ~on => watched[x] = {}
    BY <2>1 DEF Off, Steady, Activity, Watches
  <2>4. CASE on
    BY <2>1, <2>2, <2>4 DEF On
  <2>5. CASE ~on
    BY <2>1, <2>2, <2>3, <2>5 DEF Off
  <2> QED BY <2>3, <2>4, <2>5
<1> QED BY <1>1, ActivityInvariant, PTL
=============================================================================
