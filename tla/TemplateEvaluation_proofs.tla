----------------------- MODULE TemplateEvaluation_proofs -----------------------
(***************************************************************************)
(* Proofs about the evaluation of templates: each is evaluated once and    *)
(* not inside its own evaluation, to what it means, whatever the group, if *)
(* its templates are not recursive.                                        *)
(***************************************************************************)
EXTENDS TemplateEvaluation, ListLemmas

-----------------------------------------------------------------------------
(* The invariant. First, positions in an evaluation.                       *)
OnStack(id) == \E k \in DOMAIN stack : stack[k].id = id

(* Placeholder n of the template at id. *)
Ph(id, n)      == tpl[id].ph[n]
IsCond(id, n)  == n \in DOMAIN tpl[id].ph /\ Ph(id, n).type = "cond"
IsPlain(id, n) == n \in DOMAIN tpl[id].ph /\ Ph(id, n).type # "cond"

(* A frame that has not come to placeholder n of the template at id, and   *)
(* one that is beyond it.                                                  *)
Before(f, id, n) == f.id = id /\ (f.ph < n \/ (f.ph = n /\ f.asked = 0))
Beyond(f, id, n) == f.id = id => n < f.ph

(* Evaluation has not come to it yet; is beyond it.                        *)
Ahead(id, n)  == times[id] = 0 \/ \E k \in DOMAIN stack : Before(stack[k], id, n)
Passed(id, n) == times[id] = 1 /\ \A k \in DOMAIN stack : Beyond(stack[k], id, n)

(* The kinds of the variables. *)
Frames == [id : DOMAIN tpl, ph : Nat \ {0}, asked : Nat]
FrameOK(f) ==
  /\ tpl[f.id] # Parameter /\ f.ph <= Len(tpl[f.id].ph) + 1
  /\ f.asked > 0 => IsCond(f.id, f.ph)
  /\ f.id.name \in OwnNames(tpl)
Lists(f, S) == f = [i \in S |-> f[i]] /\ \A i \in S : IsList(f[i])
MemoryTyped ==
  /\ Lists(vals, DOMAIN tpl)
  /\ evaluated \subseteq DOMAIN tpl
  /\ times \in [DOMAIN tpl -> {0, 1}]
StackTyped == stack \in Seq(Frames) /\ \A k \in DOMAIN stack : FrameOK(stack[k])
GivenTyped == given # None => Lists(given, OwnNames(tpl))
Typed == tpl # None => tpl \in Groups /\ MemoryTyped /\ StackTyped /\ GivenTyped

(* Marks. Those of the branches are set between the condition and the end  *)
(* of their conditional; the template that keeps its values is not called. *)
MarkedRight ==
  /\ \A id \in DOMAIN tpl : times[id] = 1 => id \in evaluated
  /\ \A id \in evaluated : Own(id) => times[id] = 1
  /\ \A id \in DOMAIN tpl : times[id] = 1 /\ tpl[id] = Parameter => Own(id)
PartMarked(id, n, part) ==
  /\ times[part] = 1 => ~Ahead(id, n)
  /\ part = Ph(id, n).tpl => times[part] = 0
  /\ ~Ahead(id, n) /\ part \in evaluated /\ part # Ph(id, n).tpl => times[part] = 1
BranchesMarked ==
  \A id \in DOMAIN tpl : \A n \in DOMAIN tpl[id].ph :
    IsCond(id, n) => \A part \in Parts(Ph(id, n)) : PartMarked(id, n, part)

(* Calls. The template of each was called by the one below it, and is not  *)
(* called twice.                                                           *)
StackMarked ==
  /\ \A k \in DOMAIN stack : times[stack[k].id] = 1
  /\ \A j, k \in DOMAIN stack : stack[j].id = stack[k].id => j = k
BranchCalled(f, id) == ~Own(id) /\ IsCond(f.id, f.ph) /\ f.asked > 1 /\ id \in Parts(Ph(f.id, f.ph))
OwnCalled(f, id)    == Own(id) /\ id.name \in References(f.id.name)
CalledBy(f, id)     == BranchCalled(f, id) \/ OwnCalled(f, id)
Chain ==
  \A k \in DOMAIN stack :
    IF k = 1 THEN Own(stack[k].id) ELSE CalledBy(stack[k - 1], stack[k].id)

(* Values. *)
ValuesThere ==
  \A id \in DOMAIN tpl : times[id] = 1 => (vals[id] = <<>> <=> OnStack(id))
BranchesAsked(p, asked) ==
  \A i \in 1 .. NumBranches(p, Asked(p)) : i < asked => times[Branch(p, Asked(p), i)] = 1
FrameAsked(f, p) ==
  /\ f.asked > 0 => times[p.tpl_cond] = 1
  /\ f.asked > 1 => /\ Asked(p) # <<>> /\ f.asked <= NumBranches(p, Asked(p)) + 1
                    /\ BranchesAsked(p, f.asked)
ConditionAsked == \A k \in DOMAIN stack : FrameAsked(stack[k], Ph(stack[k].id, stack[k].ph))

(* Equations. *)
Stored(p) ==
  IF p.is_concat THEN vals[Branch(p, Asked(p), 1)]
  ELSE ConditionalValues(Asked(p), vals[p.tpl_then], vals[p.tpl_else])
AllAsked(p) ==
  /\ times[p.tpl_cond] = 1 /\ Asked(p) # <<>>
  /\ \A i \in 1 .. NumBranches(p, Asked(p)) : times[Branch(p, Asked(p), i)] = 1
ConditionalsStored ==
  \A id \in DOMAIN tpl : \A n \in DOMAIN tpl[id].ph :
    IsCond(id, n) /\ Passed(id, n) =>
      LET p == Ph(id, n) IN AllAsked(p) /\ p.tpl \in evaluated /\ vals[p.tpl] = Stored(p)
PlainEvaluated ==
  \A id \in DOMAIN tpl : \A n \in DOMAIN tpl[id].ph :
    IsPlain(id, n) /\ Passed(id, n) => times[Ph(id, n).tpl] = 1

(* Without recursion a template is not asked for while it is evaluated,    *)
(* unless by the call that began it.                                       *)
BegunBy(x, id) ==
  \A j \in DOMAIN stack : stack[j].id = x => j > 1 /\ stack[j - 1].id = id
PlainFinished ==
  \A id \in DOMAIN tpl : \A n \in DOMAIN tpl[id].ph :
    IsPlain(id, n) /\ Passed(id, n) => BegunBy(Ph(id, n).tpl, id)
ListsOf(id) == [n \in DOMAIN tpl[id].ph |-> vals[Ph(id, n).tpl]]
Built ==
  \A id \in DOMAIN tpl :
    times[id] = 1 /\ ~OnStack(id) /\ tpl[id] # Parameter =>
      vals[id] = BuildValues(tpl[id], ListsOf(id))

MarksRight == MarkedRight /\ BranchesMarked
StackRight == StackMarked /\ Chain
ValuesRight == ValuesThere /\ ConditionAsked /\ ConditionalsStored /\ PlainEvaluated
EvInv ==
  /\ MarksRight /\ StackRight /\ ValuesRight
  /\ times[Named(Main)] = 1
  /\ ~Recursion => PlainFinished /\ Built

(* What was given. *)
GivenRight ==
  given # None => \A id \in DOMAIN tpl : Own(id) /\ tpl[id] = Parameter =>
    \/ vals[id] = given[id.name]
    \/ given[id.name] = <<>> /\ vals[id] = <<<<>>>> /\ (result # Nothing \/ stack # <<>>)

(* What is returned. *)
ResultRight ==
  /\ tpl = None => /\ stack = <<>> /\ vals = <<>> /\ evaluated = {} /\ times = <<>>
                   /\ result = Nothing
  /\ result \in {Nothing, Failed, Done(result.values)}
  /\ result = Failed => stack # <<>> /\ Recursion
  /\ result \notin {Nothing, Failed} => stack = <<>>
  /\ result \notin {Nothing, Failed} /\ given # None => result = Done(vals[Named(Main)])

InEvaluation == stack # <<>> \/ (result # Nothing /\ given # None)
IInv ==
  /\ Typed /\ ResultRight
  /\ tpl # None => GivenRight
  /\ InEvaluation => EvInv
-----------------------------------------------------------------------------
(* Lists, and maxima of their lengths. *)

LEMMA ListIs ==
  ASSUME NEW s, NEW n \in Nat, s = [i \in 1 .. n |-> s[i]]
  PROVE  IsList(s) /\ Len(s) = n /\ DOMAIN s = 1 .. n
<1>1. DOMAIN s = 1 .. n
  OBVIOUS
<1>2. \A i \in 1 .. n : s[i] \in ToSet(s)
  BY <1>1 DEF ToSet
<1>3. s \in [1 .. n -> ToSet(s)]
  BY <1>2
<1> QED  BY <1>1, <1>3 DEF IsList

LEMMA ListFacts ==
  ASSUME NEW s, IsList(s)
  PROVE  /\ Len(s) \in Nat /\ DOMAIN s = 1 .. Len(s) /\ s = [i \in 1 .. Len(s) |-> s[i]]
         /\ s = <<>> <=> Len(s) = 0
         /\ s # <<>> => Last(s) = s[Len(s)] /\ Len(s) \in DOMAIN s
BY EmptySeq, LenProperties DEF IsList, Last

LEMMA SeqIsList ==
  ASSUME NEW S, NEW s \in Seq(S)
  PROVE  IsList(s)
BY LenProperties, ListIs

LEMMA ConcatIsList ==
  ASSUME NEW s, NEW t, IsList(s), IsList(t)
  PROVE  IsList(s \o t)
<1> DEFINE S == ToSet(s) \cup ToSet(t)
<1>1. s \in [1 .. Len(s) -> ToSet(s)] /\ t \in [1 .. Len(t) -> ToSet(t)] /\ Len(s) \in Nat /\ Len(t) \in Nat
  BY LenProperties DEF IsList
<1>2. s \in Seq(S) /\ t \in Seq(S)
  BY <1>1
<1>3. s \o t \in Seq(S)
  BY <1>2, ConcatProperties
<1> QED  BY <1>3, SeqIsList
LEMMA FrontIs ==
  ASSUME NEW S, NEW s \in Seq(S), s # <<>>
  PROVE  /\ Front(s) \in Seq(S) /\ DOMAIN Front(s) = 1 .. Len(s) - 1
         /\ \A k \in 1 .. Len(s) - 1 : Front(s)[k] = s[k]
<1> DEFINE n == Len(s)
           f == SubSeq(s, 1, n - 1)
<1>1. n \in Nat \ {0} /\ \A k \in 1 .. n : s[k] \in S
  BY EmptySeq, LenProperties
<1> HIDE DEF n
<1>2. f \in Seq(S) /\ Len(f) = n - 1 /\ \A k \in 1 .. n - 1 : f[k] = s[k]
  <2>1. 1 \in 1 .. n + 1 /\ n - 1 \in 1 - 1 .. n /\ \A k \in 1 .. n - 1 : s[k] \in S
    BY <1>1
  <2>2. 1 \in 1 .. Len(s) + 1 /\ n - 1 \in 1 - 1 .. Len(s)
    BY <2>1 DEF n
  <2> HIDE DEF f
  <2>3. f \in Seq(S) /\ Len(f) = (n - 1) - 1 + 1 /\ \A k \in 1 .. (n - 1) - 1 + 1 : f[k] = s[1 + k - 1]
    BY <1>1, <2>2, SubSeqProperties DEF f
  <2> QED  BY <1>1, <2>3
<1> QED  BY <1>2, LenProperties DEF Front, n
-----------------------------------------------------------------------------
(* The templates of a group. *)

LEMMA GroupIs ==
  ASSUME Typed, tpl # None
  PROVE  IsGroup(tpl)
BY GroupAssumption DEF Typed

LEMMA PlaceholdersAre ==
  ASSUME IsGroup(tpl), NEW id \in DOMAIN tpl
  PROVE  /\ Len(tpl[id].ph) \in Nat /\ DOMAIN tpl[id].ph = 1 .. Len(tpl[id].ph)
         /\ Own(id) => id = Named(id.name) /\ id.name \in OwnNames(tpl)
         /\ tpl[id] = Parameter => DOMAIN tpl[id].ph = {}
<1>1. IsTemplate(tpl[id]) /\ (Own(id) => id = Named(id.name))
  BY DEF IsGroup
<1>2. CASE tpl[id] = Parameter
  <2>1. tpl[id].ph = <<>>
    BY <1>2 DEF Parameter, Template
  <2> QED  BY <1>1, <2>1, EmptySeq DEF OwnNames
<1>3. CASE tpl[id] # Parameter
  BY <1>1, <1>3, ListFacts DEF IsTemplate, OwnNames
<1> QED  BY <1>2, <1>3

LEMMA PlainIs ==
  ASSUME IsGroup(tpl), NEW id \in DOMAIN tpl, NEW n, IsPlain(id, n)
  PROVE  /\ Ph(id, n).type \in {"plain", "join"}
         /\ Ph(id, n).tpl \in DOMAIN tpl /\ Own(Ph(id, n).tpl)
<1>1. IsPlaceholder(tpl, id, tpl[id].ph[n])
  BY DEF IsGroup, IsPlain
<1> QED  BY <1>1 DEF IsPlaceholder, IsPlain, Ph

(* A conditional and the templates that belong to it. *)
Conditional(p, name) ==
  /\ p.is_concat \in BOOLEAN
  /\ p.tpl_cond \in DOMAIN tpl /\ Own(p.tpl_cond)
  /\ p.tpl \in DOMAIN tpl /\ ~Own(p.tpl) /\ p.tpl.name = name /\ tpl[p.tpl] = Parameter
  /\ p.tpl_then \in DOMAIN tpl /\ ~Own(p.tpl_then) /\ p.tpl_then.name = name
  /\ p.tpl_else \in DOMAIN tpl /\ ~Own(p.tpl_else) /\ p.tpl_else.name = name
  /\ tpl[p.tpl_then] # Parameter /\ tpl[p.tpl_else] # Parameter
  /\ p.tpl_then # p.tpl_else /\ p.tpl # p.tpl_then /\ p.tpl # p.tpl_else
  /\ Parts(p) = {p.tpl, p.tpl_then, p.tpl_else}

LEMMA ConditionalIs ==
  ASSUME IsGroup(tpl), NEW id \in DOMAIN tpl, NEW n, IsCond(id, n)
  PROVE  Conditional(Ph(id, n), id.name)
<1> DEFINE p == Ph(id, n)
<1>1. IsPlaceholder(tpl, id, p) /\ p.type = "cond"
  BY DEF IsGroup, IsCond, Ph
<1>2. Parts(p) = {p.tpl, p.tpl_then, p.tpl_else}
  BY <1>1 DEF Parts
<1> HIDE DEF p
<1>3. /\ p.is_concat \in BOOLEAN
      /\ p.tpl_cond \in DOMAIN tpl /\ Own(p.tpl_cond)
      /\ p.tpl_then # p.tpl_else /\ p.tpl \notin {p.tpl_then, p.tpl_else}
      /\ tpl[p.tpl] = Parameter /\ tpl[p.tpl_then] # Parameter /\ tpl[p.tpl_else] # Parameter
      /\ \A part \in Parts(p) : part \in DOMAIN tpl /\ ~Own(part) /\ part.name = id.name
  BY <1>1 DEF IsPlaceholder
<1>4. Conditional(p, id.name)
  BY <1>2, <1>3 DEF Conditional
<1> QED  BY <1>4 DEF p

LEMMA SamePart ==
  ASSUME IsGroup(tpl), NEW id \in DOMAIN tpl, NEW n, IsCond(id, n),
         NEW other \in DOMAIN tpl, NEW m, IsCond(other, m),
         NEW part, part \in Parts(Ph(id, n)), part \in Parts(Ph(other, m))
  PROVE  id = other /\ n = m
<1>1. n \in DOMAIN tpl[id].ph /\ m \in DOMAIN tpl[other].ph
  BY DEF IsCond
<1>2. Parts(tpl[id].ph[n]) \cap Parts(tpl[other].ph[m]) # {}
  BY DEF Ph
<1> QED  BY <1>1, <1>2 DEF IsGroup
-----------------------------------------------------------------------------
(* An evaluation that goes on. *)
TopRight ==
  /\ tpl # None /\ IsGroup(tpl) /\ Typed /\ EvInv /\ result = Nothing
  /\ stack \in Seq(Frames)
  /\ Len(stack) \in Nat \ {0} /\ DOMAIN stack = 1 .. Len(stack) /\ Len(stack) \in DOMAIN stack
  /\ \A k \in DOMAIN stack : stack[k] \in Frames /\ FrameOK(stack[k])
  /\ Top \in Frames /\ Top.id \in DOMAIN tpl

LEMMA TopIs ==
  ASSUME IInv, Running
  PROVE  TopRight
<1>1. stack # <<>> /\ tpl # None /\ Typed /\ EvInv
  BY DEF IInv, Running, InEvaluation, ResultRight
<1>2. result = Nothing
  BY <1>1 DEF IInv, Running, Alive, ResultRight
<1>3. stack \in Seq(Frames) /\ \A k \in DOMAIN stack : FrameOK(stack[k])
  BY <1>1 DEF Typed, StackTyped
<1>4. Len(stack) \in Nat \ {0} /\ DOMAIN stack = 1 .. Len(stack)
  BY <1>1, <1>3, EmptySeq, LenProperties
<1>5. \A k \in DOMAIN stack : stack[k] \in Frames
  BY <1>3, ElementOfSeq, LenProperties
<1>6. Top \in Frames
  BY <1>4, <1>5 DEF Top
<1> QED  BY <1>1, <1>2, <1>3, <1>4, <1>5, <1>6, GroupIs DEF TopRight, Frames

(* What the marks are when the call of the template at x is made that      *)
(* makes the top of the stack to g, when the parts in C have been cleared. *)
AsksPlain(x, g, C) ==
  /\ IsPlain(Top.id, Top.ph) /\ x = Ph(Top.id, Top.ph).tpl /\ C = {}
  /\ g.ph = Top.ph + 1 /\ g.asked = 0
AsksCondition(x, g, C) ==
  /\ IsCond(Top.id, Top.ph) /\ Top.asked = 0
  /\ x = Ph(Top.id, Top.ph).tpl_cond /\ C = Parts(Ph(Top.id, Top.ph))
  /\ g.ph = Top.ph /\ g.asked = 1
AsksBranch(x, g, C) ==
  /\ IsCond(Top.id, Top.ph) /\ Top.asked \in Nat \ {0} /\ Asked(Ph(Top.id, Top.ph)) # <<>>
  /\ Top.asked <= NumBranches(Ph(Top.id, Top.ph), Asked(Ph(Top.id, Top.ph)))
  /\ x = Branch(Ph(Top.id, Top.ph), Asked(Ph(Top.id, Top.ph)), Top.asked) /\ C = {}
  /\ g.ph = Top.ph /\ g.asked = Top.asked + 1
Asks(x, g, C) ==
  /\ x \in DOMAIN tpl /\ g \in Frames /\ g.id = Top.id /\ C \in SUBSET DOMAIN tpl
  /\ AsksPlain(x, g, C) \/ AsksCondition(x, g, C) \/ AsksBranch(x, g, C)

Effects(x, C) ==
  /\ evaluated' = (evaluated \ C) \cup {x}
  /\ times'[x] = 1
  /\ \A id \in DOMAIN tpl : id # x =>
       times'[id] = times[id] /\ vals'[id] = IF id \in C THEN <<>> ELSE vals[id]
KnownAlready(x, g) ==
  x \in evaluated /\ times[x] = 1 /\ vals'[x] = vals[x] /\ stack' = GoOn(g)
ParameterSet(x, g) ==
  /\ x \notin evaluated /\ times[x] = 0 /\ tpl[x] = Parameter
  /\ vals'[x] = (IF vals[x] = <<>> THEN <<<<>>>> ELSE vals[x]) /\ stack' = GoOn(g)
TemplateBegun(x, g) ==
  /\ x \notin evaluated /\ times[x] = 0 /\ tpl[x] # Parameter
  /\ vals'[x] = <<>> /\ stack' = Append(GoOn(g), Frame(x))
Effect(x, g, C) ==
  /\ Effects(x, C)
  /\ KnownAlready(x, g) \/ ParameterSet(x, g) \/ TemplateBegun(x, g)
Call(x, g, C) == Asks(x, g, C) /\ Effect(x, g, C) /\ UNCHANGED <<tpl, result, given, calls>>

(* The memory when the templates in C have been cleared. *)
Cleared(m, C) ==
  /\ m.vals = [id \in DOMAIN tpl |-> IF id \in C THEN <<>> ELSE vals[id]]
  /\ m.evaluated = evaluated \ C /\ m.times = times

LEMMA ClearedIs ==
  ASSUME MemoryTyped, NEW C
  PROVE  Cleared(Memory, {}) /\ Cleared(Clear(Memory, C), C)
<1>1. vals = [id \in DOMAIN tpl |-> vals[id]]
  BY DEF MemoryTyped, Lists
<1>2. DOMAIN vals = DOMAIN tpl
  BY <1>1
<1>3. Cleared(Memory, {})
  BY <1>1 DEF Cleared, Memory
<1>4. Cleared(Clear(Memory, C), C)
  BY <1>2 DEF Cleared, Memory, Clear
<1> QED  BY <1>3, <1>4

LEMMA EffectIs ==
  ASSUME MemoryTyped, NEW x \in DOMAIN tpl, NEW g, NEW C \in SUBSET DOMAIN tpl, x \notin C,
         NEW m, Cleared(m, C), x \in evaluated <=> times[x] = 1,
         TemplateEvaluate(m, x, GoOn(g)), tpl' = tpl
  PROVE  Effect(x, g, C) /\ MemoryTyped'
<1>1. /\ m.vals = [id \in DOMAIN tpl |-> IF id \in C THEN <<>> ELSE vals[id]]
      /\ m.evaluated = evaluated \ C /\ m.times = times
  BY DEF Cleared
<1>2. /\ times \in [DOMAIN tpl -> {0, 1}] /\ evaluated \subseteq DOMAIN tpl
      /\ \A id \in DOMAIN tpl : IsList(vals[id])
      /\ m.vals[x] = vals[x]
      /\ \A id \in DOMAIN tpl : m.vals[id] = IF id \in C THEN <<>> ELSE vals[id]
  BY <1>1 DEF MemoryTyped, Lists
<1>3. IsList(<<>>) /\ IsList(<<<<>>>>)
  <2>1. <<>> \in Seq({}) /\ <<<<>>>> \in Seq({<<>>})
    BY EmptySeq
  <2> QED  BY <2>1, SeqIsList
<1>4. CASE Unchanged(m, x, GoOn(g))
  <2>1. x \in evaluated /\ times[x] = 1
    BY <1>1, <1>4 DEF Unchanged
  <2>2. vals' = m.vals /\ evaluated' = evaluated \ C /\ times' = times /\ stack' = GoOn(g)
    BY <1>1, <1>4 DEF Unchanged
  <2>3. evaluated' = (evaluated \ C) \cup {x}
    BY <2>1, <2>2
  <2>4. Effect(x, g, C)
    BY <1>2, <2>1, <2>2, <2>3 DEF Effect, Effects, KnownAlready
  <2>5. MemoryTyped'
    BY <1>1, <1>2, <1>3, <2>2 DEF MemoryTyped, Lists
  <2> QED  BY <2>4, <2>5
<1>5. CASE EvaluateParameter(m, x, GoOn(g)) \/ BeginTemplate(m, x, GoOn(g))
  <2>1. x \notin evaluated /\ times[x] = 0
    BY <1>1, <1>2, <1>5 DEF EvaluateParameter, BeginTemplate, Mark
  <2>2. evaluated' = (evaluated \ C) \cup {x} /\ times' = [times EXCEPT ![x] = times[x] + 1]
    BY <1>1, <1>5 DEF EvaluateParameter, BeginTemplate, Mark
  <2> DEFINE v == IF tpl[x] = Parameter THEN IF vals[x] = <<>> THEN <<<<>>>> ELSE vals[x] ELSE <<>>
  <2>3. vals' = [m.vals EXCEPT ![x] = v]
    BY <1>2, <1>5 DEF EvaluateParameter, BeginTemplate
  <2>4. IsList(v)
    BY <1>2, <1>3
  <2>5. \/ tpl[x] = Parameter /\ stack' = GoOn(g)
        \/ tpl[x] # Parameter /\ stack' = Append(GoOn(g), Frame(x))
    BY <1>5 DEF EvaluateParameter, BeginTemplate
  <2>6. vals'[x] = v
    BY <1>1, <2>3
  <2> HIDE DEF v
  <2>7. times' = [id \in DOMAIN tpl |-> IF id = x THEN 1 ELSE times[id]]
    <3>1. times' = [times EXCEPT ![x] = 1]
      BY <2>1, <2>2
    <3> QED  BY <1>2, <3>1
  <2>8. vals' = [id \in DOMAIN tpl |-> IF id = x THEN v ELSE IF id \in C THEN <<>> ELSE vals[id]]
    BY <1>1, <2>3
  <2>9. Effects(x, C)
    BY <2>2, <2>7, <2>8 DEF Effects
  <2>10. ParameterSet(x, g) \/ TemplateBegun(x, g)
    BY <2>1, <2>5, <2>6 DEF ParameterSet, TemplateBegun, v
  <2>11. MemoryTyped'
    BY <1>2, <1>3, <2>2, <2>4, <2>7, <2>8 DEF MemoryTyped, Lists
  <2> QED  BY <2>9, <2>10, <2>11 DEF Effect
<1> QED  BY <1>4, <1>5 DEF TemplateEvaluate
-----------------------------------------------------------------------------
(* The template on top of the stack. *)

LEMMA TopAhead ==
  ASSUME TopRight, NEW n
  PROVE  /\ Ahead(Top.id, n) <=> Before(Top, Top.id, n)
         /\ Passed(Top.id, n) <=> n < Top.ph
         /\ times[Top.id] = 1 /\ tpl[Top.id] # Parameter
<1>1. Len(stack) \in DOMAIN stack /\ Top = stack[Len(stack)] /\ FrameOK(Top)
  BY DEF TopRight, Top
<1>2. times[Top.id] = 1 /\ \A k \in DOMAIN stack : stack[k].id = Top.id => k = Len(stack)
  BY <1>1 DEF TopRight, EvInv, StackRight, StackMarked
<1> QED  BY <1>1, <1>2 DEF Ahead, Passed, Before, Beyond, FrameOK

LEMMA TopPlaceholder ==
  ASSUME TopRight, Top.ph \in DOMAIN Body.ph
  PROVE  /\ Body.ph[Top.ph] = Ph(Top.id, Top.ph)
         /\ IsCond(Top.id, Top.ph) \/ IsPlain(Top.id, Top.ph)
         /\ IsCond(Top.id, Top.ph) <=> Ph(Top.id, Top.ph).type = "cond"
         /\ FrameAsked(Top, Ph(Top.id, Top.ph))
<1>1. FrameAsked(stack[Len(stack)], Ph(stack[Len(stack)].id, stack[Len(stack)].ph))
  BY DEF TopRight, EvInv, ValuesRight, ConditionAsked
<1> QED  BY <1>1 DEF Body, Ph, IsCond, IsPlain, Top

LEMMA AskedIs ==
  ASSUME TopRight, NEW p, p.tpl_cond \in DOMAIN tpl
  PROVE  /\ IsList(Asked(p)) /\ NumBranches(p, Asked(p)) \in Nat
         /\ Asked(p) # <<>> => NumBranches(p, Asked(p)) \in Nat \ {0}
<1>1. IsList(Asked(p))
  BY DEF TopRight, Typed, MemoryTyped, Lists, Asked
<1> QED  BY <1>1, ListFacts DEF NumBranches

(* A template that is asked for is marked if it was evaluated. *)
LEMMA OwnMarked ==
  ASSUME TopRight, NEW x \in DOMAIN tpl, Own(x)
  PROVE  x \in evaluated <=> times[x] = 1
BY DEF TopRight, EvInv, MarksRight, MarkedRight

LEMMA BranchMarked ==
  ASSUME TopRight, IsCond(Top.id, Top.ph), Top.asked # 0,
         NEW x, x \in {Ph(Top.id, Top.ph).tpl_then, Ph(Top.id, Top.ph).tpl_else}
  PROVE  x \in DOMAIN tpl /\ (x \in evaluated <=> times[x] = 1)
<1>1. Conditional(Ph(Top.id, Top.ph), Top.id.name)
  BY ConditionalIs DEF TopRight
<1>2. x \in DOMAIN tpl /\ x \in Parts(Ph(Top.id, Top.ph)) /\ x # Ph(Top.id, Top.ph).tpl
  BY <1>1 DEF Conditional
<1>3. ~Ahead(Top.id, Top.ph)
  BY TopAhead DEF Before, TopRight, Frames
<1>4. PartMarked(Top.id, Top.ph, x)
  BY <1>2 DEF TopRight, EvInv, MarksRight, BranchesMarked, IsCond
<1>5. times[x] = 1 => x \in evaluated
  BY <1>2 DEF TopRight, EvInv, MarksRight, MarkedRight
<1> QED  BY <1>2, <1>3, <1>4, <1>5 DEF PartMarked

(* Steps that call. *)
LEMMA PlainCall ==
  ASSUME TopRight, Top.ph \in DOMAIN Body.ph, EvaluatePlaceholder(Body.ph[Top.ph]),
         UNCHANGED <<tpl, given, calls>>
  PROVE  \E x, g, C : Call(x, g, C) /\ MemoryTyped'
<1> DEFINE x == Ph(Top.id, Top.ph).tpl
           f == Top
           h == [f EXCEPT !.ph = f.ph + 1]
           g == [h EXCEPT !.asked = 0]
<1>1. /\ Top \in Frames /\ MemoryTyped /\ Body.ph[Top.ph] = Ph(Top.id, Top.ph)
      /\ IsPlain(Top.id, Top.ph)
  BY TopPlaceholder DEF TopRight, Typed, EvaluatePlaceholder
<1>2. x \in DOMAIN tpl /\ Own(x)
  BY <1>1, PlainIs DEF TopRight
<1>3. TemplateEvaluate(Memory, x, GoOn(g)) /\ UNCHANGED result
  BY <1>1 DEF EvaluatePlaceholder, NextPlaceholder
<1>4. f \in Frames
  BY <1>1
<1> HIDE DEF f
<1>5. g \in Frames /\ g.id = f.id /\ g.ph = f.ph + 1 /\ g.asked = 0
  <2>1. h \in Frames /\ h.id = f.id /\ h.ph = f.ph + 1
    BY <1>4 DEF Frames
  <2> HIDE DEF h
  <2> QED  BY <2>1 DEF Frames
<1>6. x \in evaluated <=> times[x] = 1
  BY <1>2, OwnMarked
<1> HIDE DEF g
<1>7. Asks(x, g, {})
  BY <1>1, <1>2, <1>5 DEF Asks, AsksPlain, f
<1>8. Effect(x, g, {}) /\ MemoryTyped'
  BY <1>1, <1>2, <1>3, <1>6, ClearedIs, EffectIs
<1> QED  BY <1>3, <1>7, <1>8 DEF Call

LEMMA ConditionCall ==
  ASSUME TopRight, Top.ph \in DOMAIN Body.ph, EvaluateCondition(Body.ph[Top.ph]),
         UNCHANGED <<tpl, given, calls>>
  PROVE  \E x, g, C : Call(x, g, C) /\ MemoryTyped'
<1> DEFINE p == Ph(Top.id, Top.ph)
           x == p.tpl_cond
           C == Parts(p)
           g == [Top EXCEPT !.asked = Top.asked + 1]
<1>1. /\ Top \in Frames /\ MemoryTyped /\ Body.ph[Top.ph] = p
      /\ IsCond(Top.id, Top.ph) /\ Top.asked = 0
  BY TopPlaceholder DEF TopRight, Typed, EvaluateCondition
<1>2. Conditional(p, Top.id.name)
  BY <1>1, ConditionalIs DEF TopRight
<1>3. g \in Frames /\ g.id = Top.id /\ g.ph = Top.ph /\ g.asked = 1
  <2>1. g \in Frames /\ g.id = Top.id /\ g.ph = Top.ph /\ g.asked = Top.asked + 1
    <3>1. Top \in Frames
      BY <1>1
    <3> QED  BY <3>1 DEF Frames
  <2> QED  BY <1>1, <2>1
<1>4. TemplateEvaluate(Clear(Memory, C), x, GoOn(g)) /\ UNCHANGED result
  BY <1>1 DEF EvaluateCondition, NextBranch
<1> HIDE DEF g, p
<1>5. x \in DOMAIN tpl /\ Own(x) /\ C \in SUBSET DOMAIN tpl /\ x \notin C
  BY <1>2 DEF Conditional
<1>6. x \in evaluated <=> times[x] = 1
  BY <1>5, OwnMarked
<1> HIDE DEF x, C
<1>7. Asks(x, g, C)
  BY <1>1, <1>3, <1>5 DEF Asks, AsksCondition, p, x, C
<1>8. Effect(x, g, C) /\ MemoryTyped'
  BY <1>1, <1>4, <1>5, <1>6, ClearedIs, EffectIs
<1> QED  BY <1>4, <1>7, <1>8 DEF Call

LEMMA BranchCall ==
  ASSUME TopRight, Top.ph \in DOMAIN Body.ph, EvaluateBranch(Body.ph[Top.ph], Top.asked),
         UNCHANGED <<tpl, given, calls>>
  PROVE  \E x, g, C : Call(x, g, C) /\ MemoryTyped'
<1> DEFINE p == Ph(Top.id, Top.ph)
           x == Branch(p, Asked(p), Top.asked)
           g == [Top EXCEPT !.asked = Top.asked + 1]
<1>1. /\ Top \in Frames /\ MemoryTyped /\ Body.ph[Top.ph] = p
      /\ IsCond(Top.id, Top.ph) /\ Asked(p) # <<>>
      /\ Top.asked \in 1 .. NumBranches(p, Asked(p))
  BY TopPlaceholder DEF TopRight, Typed, EvaluateBranch, AskedBranch
<1>2. Conditional(p, Top.id.name)
  BY <1>1, ConditionalIs DEF TopRight
<1>3. NumBranches(p, Asked(p)) \in Nat
  BY <1>2, AskedIs DEF Conditional
<1>4. Top.asked \in Nat \ {0} /\ Top.asked <= NumBranches(p, Asked(p))
  BY <1>1, <1>3
<1>5. g \in Frames /\ g.id = Top.id /\ g.ph = Top.ph /\ g.asked = Top.asked + 1
  BY <1>1, <1>4 DEF Frames
<1>6. TemplateEvaluate(Memory, x, GoOn(g)) /\ UNCHANGED result
  BY <1>1 DEF EvaluateBranch, NextBranch
<1>7. x \in {p.tpl_then, p.tpl_else}
  BY DEF Branch
<1>8. x \in DOMAIN tpl /\ (x \in evaluated <=> times[x] = 1)
  BY <1>1, <1>4, <1>7, BranchMarked
<1> HIDE DEF g, x
<1>9. Asks(x, g, {})
  BY <1>1, <1>4, <1>5, <1>8 DEF Asks, AsksBranch, x
<1>10. Effect(x, g, {}) /\ MemoryTyped'
  BY <1>1, <1>6, <1>8, ClearedIs, EffectIs
<1> QED  BY <1>6, <1>9, <1>10 DEF Call
-----------------------------------------------------------------------------
(* Calls. *)

LEMMA ReferenceIs ==
  ASSUME NEW id \in DOMAIN tpl, NEW n \in DOMAIN tpl[id].ph
  PROVE  Reference(Ph(id, n)).name \in References(id.name)
BY DEF References, Ph

LEMMA AsksIs ==
  ASSUME TopRight, NEW x, NEW g, NEW C, Asks(x, g, C)
  PROVE  CalledBy(g, x) /\ x.name \in OwnNames(tpl) /\ x \notin C /\ FrameOK(g)
<1> DEFINE p == Ph(Top.id, Top.ph)
<1>1. /\ FrameOK(Top) /\ Top.id \in DOMAIN tpl /\ Top.ph \in Nat /\ Top.asked \in Nat
      /\ Len(tpl[Top.id].ph) \in Nat /\ DOMAIN tpl[Top.id].ph = 1 .. Len(tpl[Top.id].ph)
  BY PlaceholdersAre DEF TopRight, Top, Frames
<1>2. x \in DOMAIN tpl /\ g.id = Top.id
  BY DEF Asks
<1>3. CASE AsksPlain(x, g, C)
  <2>1. IsPlain(Top.id, Top.ph) /\ x = p.tpl /\ C = {} /\ g.ph = Top.ph + 1 /\ g.asked = 0
    BY <1>3 DEF AsksPlain
  <2>2. Own(x)
    BY <1>1, <2>1, PlainIs DEF TopRight
  <2>3. Reference(p) = x /\ Top.ph \in DOMAIN tpl[Top.id].ph
    BY <2>1 DEF Reference, IsPlain
  <2>4. x.name \in References(Top.id.name)
    BY <1>1, <2>3, ReferenceIs
  <2>5. x.name \in OwnNames(tpl)
    BY <1>2, <2>2 DEF OwnNames
  <2>6. FrameOK(g)
    BY <1>1, <1>2, <2>1, <2>3 DEF FrameOK
  <2> QED  BY <1>2, <2>1, <2>2, <2>4, <2>5, <2>6 DEF CalledBy, OwnCalled
<1>4. CASE AsksCondition(x, g, C)
  <2>1. /\ IsCond(Top.id, Top.ph) /\ x = p.tpl_cond /\ C = Parts(p)
        /\ g.ph = Top.ph /\ g.asked = 1
    BY <1>4 DEF AsksCondition
  <2>2. Own(x) /\ x \notin C
    BY <1>1, <2>1, ConditionalIs DEF TopRight, Conditional
  <2>3. Reference(p) = x /\ Top.ph \in DOMAIN tpl[Top.id].ph
    BY <2>1 DEF Reference, IsCond
  <2>4. x.name \in References(Top.id.name)
    BY <1>1, <2>3, ReferenceIs
  <2>5. x.name \in OwnNames(tpl)
    BY <1>2, <2>2 DEF OwnNames
  <2>6. FrameOK(g)
    BY <1>1, <1>2, <2>1, <2>3 DEF FrameOK
  <2> QED  BY <1>2, <2>2, <2>4, <2>5, <2>6 DEF CalledBy, OwnCalled
<1>5. CASE AsksBranch(x, g, C)
  <2>1. /\ IsCond(Top.id, Top.ph) /\ Top.asked \in Nat \ {0} /\ C = {}
        /\ g.ph = Top.ph /\ g.asked = Top.asked + 1
    BY <1>5 DEF AsksBranch
  <2>2. x \in {p.tpl_then, p.tpl_else}
    BY <1>5 DEF AsksBranch, Branch
  <2>3. Conditional(p, Top.id.name)
    BY <1>1, <2>1, ConditionalIs DEF TopRight
  <2>4. ~Own(x) /\ x \in Parts(p) /\ x.name = Top.id.name
    BY <2>2, <2>3 DEF Conditional
  <2>5. FrameOK(g)
    BY <1>1, <1>2, <2>1 DEF FrameOK, IsCond
  <2>6. BranchCalled(g, x)
    BY <1>2, <2>1, <2>4 DEF BranchCalled
  <2> QED  BY <1>1, <2>1, <2>4, <2>5, <2>6 DEF CalledBy, FrameOK
<1> QED  BY <1>3, <1>4, <1>5 DEF Asks

(* The stack after a call. *)
Moves(x, g) ==
  /\ stack' \in Seq(Frames)
  /\ Len(stack') \in Nat /\ DOMAIN stack' = 1 .. Len(stack')
  /\ \A k \in 1 .. Len(stack) - 1 : stack'[k] = stack[k]
  /\ stack'[Len(stack)] = g
  /\ \/ Len(stack') = Len(stack) /\ (times[x] = 1 \/ tpl[x] = Parameter)
     \/ /\ Len(stack') = Len(stack) + 1 /\ stack'[Len(stack) + 1] = Frame(x)
        /\ times[x] = 0 /\ tpl[x] # Parameter /\ vals'[x] = <<>>

LEMMA GoOnIs ==
  ASSUME TopRight, NEW g \in Frames
  PROVE  /\ GoOn(g) \in Seq(Frames) /\ Len(GoOn(g)) = Len(stack)
         /\ \A k \in 1 .. Len(stack) - 1 : GoOn(g)[k] = stack[k]
         /\ GoOn(g)[Len(stack)] = g
<1> DEFINE n == Len(stack)
<1>1. stack \in [1 .. n -> Frames] /\ n \in Nat \ {0}
  BY LenProperties DEF TopRight
<1> HIDE DEF n
<1> DEFINE s == [stack EXCEPT ![n] = g]
<1>2. s \in [1 .. n -> Frames] /\ s[n] = g /\ \A k \in 1 .. n - 1 : s[k] = stack[k]
  BY <1>1
<1>3. GoOn(g) = s
  BY DEF GoOn, n
<1> HIDE DEF s
<1>4. s \in Seq(Frames) /\ Len(s) = n
  BY <1>1, <1>2
<1> QED  BY <1>2, <1>3, <1>4 DEF n

LEMMA CallMoves ==
  ASSUME TopRight, NEW x, NEW g, NEW C, Call(x, g, C)
  PROVE  Moves(x, g) /\ StackTyped'
<1>1. /\ x \in DOMAIN tpl /\ g \in Frames /\ Effect(x, g, C) /\ tpl' = tpl
      /\ Len(stack) \in Nat \ {0} /\ DOMAIN stack = 1 .. Len(stack)
      /\ \A k \in DOMAIN stack : FrameOK(stack[k])
  BY DEF Call, Asks, TopRight
<1>2. /\ GoOn(g) \in Seq(Frames) /\ Len(GoOn(g)) = Len(stack)
      /\ \A k \in 1 .. Len(stack) - 1 : GoOn(g)[k] = stack[k]
      /\ GoOn(g)[Len(stack)] = g
  BY <1>1, GoOnIs
<1>3. FrameOK(g) /\ x.name \in OwnNames(tpl)
  BY AsksIs DEF Call
<1>4. \A k \in DOMAIN GoOn(g) : FrameOK(GoOn(g)[k])
  <2> TAKE k \in DOMAIN GoOn(g)
  <2>1. k \in 1 .. Len(stack) - 1 \/ k = Len(stack)
    BY <1>1, <1>2, LenProperties
  <2> QED  BY <1>1, <1>2, <1>3, <2>1
<1>5. CASE stack' = GoOn(g) /\ (times[x] = 1 \/ tpl[x] = Parameter)
  <2>1. Moves(x, g)
    BY <1>2, <1>5, LenProperties DEF Moves
  <2>2. StackTyped'
    BY <1>1, <1>2, <1>4, <1>5 DEF StackTyped, Frames, FrameOK, IsCond, Ph
  <2> QED  BY <2>1, <2>2
<1>6. CASE TemplateBegun(x, g)
  <2> DEFINE s == GoOn(g)
             f == Frame(x)
  <2>1. f \in Frames /\ f.id = x /\ f.ph = 1 /\ f.asked = 0
    BY <1>1 DEF Frames, Frame
  <2>2. s \in Seq(Frames) /\ Len(s) = Len(stack) /\ stack' = Append(s, f)
    BY <1>2, <1>6 DEF TemplateBegun
  <2>3. FrameOK(f)
    <3>1. Len(tpl[x].ph) \in Nat
      BY <1>1, PlaceholdersAre DEF TopRight
    <3> QED  BY <1>3, <1>6, <2>1, <3>1 DEF TemplateBegun, FrameOK
  <2> HIDE DEF s, f
  <2>4. /\ stack' \in Seq(Frames) /\ Len(stack') = Len(s) + 1 /\ stack'[Len(s) + 1] = f
        /\ \A k \in 1 .. Len(s) : stack'[k] = s[k]
    BY <2>1, <2>2, AppendProperties
  <2>5. DOMAIN stack' = 1 .. Len(stack') /\ Len(stack') \in Nat
    BY <2>4, LenProperties
  <2>6. Moves(x, g)
    <3>1. /\ \A k \in 1 .. Len(stack) - 1 : s[k] = stack[k]
          /\ s[Len(stack)] = g
      BY <1>2 DEF s
    <3>2. /\ \A k \in 1 .. Len(stack) - 1 : stack'[k] = stack[k]
          /\ stack'[Len(stack)] = g
      <4> DEFINE n == Len(stack)
      <4>1. n \in Nat \ {0} /\ Len(s) = n
        BY <1>1, <2>2
      <4> HIDE DEF n
      <4>2. \A k \in 1 .. n : stack'[k] = s[k]
        BY <2>4, <4>1
      <4>3. \A k \in 1 .. n - 1 : s[k] = stack[k]
        BY <3>1 DEF n
      <4>4. \A k \in 1 .. n - 1 : stack'[k] = stack[k]
        BY <4>1, <4>2, <4>3
      <4>5. stack'[n] = s[n]
        BY <4>1, <4>2
      <4> QED  BY <3>1, <4>4, <4>5 DEF n
    <3> QED  BY <1>6, <2>2, <2>4, <2>5, <3>2 DEF Moves, TemplateBegun, f
  <2>7. \A k \in DOMAIN stack' : FrameOK(stack'[k])
    <3> TAKE k \in DOMAIN stack'
    <3>1. \A m \in 1 .. Len(s) : FrameOK(s[m])
      BY <1>4, <2>2, LenProperties DEF s
    <3>2. k \in 1 .. Len(s) \/ k = Len(s) + 1
      BY <1>1, <2>2, <2>4, <2>5
    <3> QED  BY <2>3, <2>4, <3>1, <3>2
  <2>8. StackTyped'
    BY <1>1, <2>4, <2>7 DEF StackTyped, Frames, FrameOK, IsCond, Ph
  <2> QED  BY <2>6, <2>8
<1> QED  BY <1>1, <1>5, <1>6 DEF Effect, KnownAlready, ParameterSet

(* Frames of the stack after a call: those of before, g for the top, and   *)
(* that of the template if it is begun.                                    *)
FramesAre(x, g) ==
  /\ \A k \in DOMAIN stack' :
       \/ k \in DOMAIN stack /\ k # Len(stack) /\ stack'[k] = stack[k]
       \/ k = Len(stack) /\ k \in DOMAIN stack /\ stack'[k] = g
       \/ /\ k = Len(stack) + 1 /\ stack'[k] = Frame(x)
          /\ times[x] = 0 /\ tpl[x] # Parameter /\ vals'[x] = <<>>
  /\ \A k \in DOMAIN stack : k \in DOMAIN stack' /\ (k # Len(stack) => stack'[k] = stack[k])
  /\ stack'[Len(stack)] = g /\ Len(stack) \in DOMAIN stack'
  /\ times[x] = 0 /\ tpl[x] # Parameter =>
       Len(stack) + 1 \in DOMAIN stack' /\ stack'[Len(stack) + 1] = Frame(x)

LEMMA CallFrames ==
  ASSUME TopRight, NEW x, NEW g, NEW C, Call(x, g, C)
  PROVE  FramesAre(x, g)
<1> DEFINE n == Len(stack)
           m == Len(stack')
<1>1. Moves(x, g) /\ n \in Nat \ {0} /\ DOMAIN stack = 1 .. n
  BY CallMoves DEF TopRight
<1>2. /\ m \in Nat /\ DOMAIN stack' = 1 .. m
      /\ \A k \in 1 .. n - 1 : stack'[k] = stack[k]
      /\ stack'[n] = g
      /\ \/ m = n /\ (times[x] = 1 \/ tpl[x] = Parameter)
         \/ /\ m = n + 1 /\ stack'[n + 1] = Frame(x)
            /\ times[x] = 0 /\ tpl[x] # Parameter /\ vals'[x] = <<>>
  BY <1>1 DEF Moves
<1> HIDE DEF n, m
<1>3. \A k \in 1 .. m : k \in 1 .. n - 1 \/ k = n \/ (k = n + 1 /\ m = n + 1)
  BY <1>1, <1>2
<1>4. \A k \in 1 .. n : k \in 1 .. m /\ (k # n => k \in 1 .. n - 1)
  BY <1>1, <1>2
<1>5. \A k \in 1 .. n - 1 : k \in 1 .. n /\ k # n
  BY <1>1
<1>6. \A k \in 1 .. m :
        \/ k \in 1 .. n /\ k # n /\ stack'[k] = stack[k]
        \/ k = n /\ k \in 1 .. n /\ stack'[k] = g
        \/ /\ k = n + 1 /\ stack'[k] = Frame(x)
           /\ times[x] = 0 /\ tpl[x] # Parameter /\ vals'[x] = <<>>
  <2> TAKE k \in 1 .. m
  <2>1. CASE k \in 1 .. n - 1
    BY <1>2, <1>5, <2>1
  <2>2. CASE k = n
    BY <1>1, <1>2, <2>2
  <2>3. CASE k = n + 1 /\ m = n + 1
    <3>1. m # n
      BY <1>1, <2>3
    <3> QED  BY <1>2, <2>3, <3>1
  <2> QED  BY <1>3, <2>1, <2>2, <2>3
<1>7. \A k \in 1 .. n : k \in 1 .. m /\ (k # n => stack'[k] = stack[k])
  BY <1>2, <1>4
<1>8. n \in 1 .. m
  BY <1>1, <1>4
<1>9. times[x] = 0 /\ tpl[x] # Parameter => n + 1 \in 1 .. m /\ stack'[n + 1] = Frame(x)
  BY <1>1, <1>2
<1> QED  BY <1>1, <1>2, <1>6, <1>7, <1>8, <1>9 DEF FramesAre, n, m

(* How the evaluation has come on when it has come from frame f to g. *)
LEMMA GoesOn ==
  ASSUME TopRight, NEW x, NEW g, NEW C, Asks(x, g, C), NEW id, NEW n \in Nat
  PROVE  /\ Before(g, id, n) => Before(Top, id, n)
         /\ Before(Top, id, n) /\ ~Before(g, id, n) => id = Top.id /\ n = Top.ph /\ Top.asked = 0
         /\ Beyond(g, id, n) => Beyond(Top, id, n) \/ (id = Top.id /\ n = Top.ph /\ AsksPlain(x, g, C))
<1>1. Top.ph \in Nat /\ Top.asked \in Nat /\ g.id = Top.id
  BY DEF TopRight, Frames, Asks
<1>2. CASE AsksPlain(x, g, C)
  <2>1. g.ph = Top.ph + 1 /\ g.asked = 0
    BY <1>2 DEF AsksPlain
  <2> QED  BY <1>1, <1>2, <2>1 DEF Before, Beyond
<1>3. CASE AsksCondition(x, g, C) \/ AsksBranch(x, g, C)
  <2>1. g.ph = Top.ph /\ g.asked = Top.asked + 1
    BY <1>3 DEF AsksCondition, AsksBranch
  <2> QED  BY <1>1, <2>1 DEF Before, Beyond
<1> QED  BY <1>2, <1>3 DEF Asks

LEMMA CallAhead ==
  ASSUME TopRight, NEW x, NEW g, NEW C, Call(x, g, C),
         NEW id \in DOMAIN tpl, NEW n \in DOMAIN tpl[id].ph
  PROVE  /\ Ahead(id, n)' => Ahead(id, n)
         /\ Ahead(id, n) /\ ~Ahead(id, n)' => id = Top.id /\ n = Top.ph /\ Top.asked = 0
         /\ Passed(id, n)' => \/ Passed(id, n)
                              \/ id = Top.id /\ n = Top.ph /\ AsksPlain(x, g, C)
<1>1. FramesAre(x, g) /\ Asks(x, g, C) /\ Effects(x, C)
  BY CallFrames DEF Call, Effect
<1>2. /\ n \in Nat \ {0} /\ (tpl[id] = Parameter => FALSE)
      /\ Len(stack) \in DOMAIN stack /\ Top = stack[Len(stack)]
  BY PlaceholdersAre DEF TopRight, Top
<1>3. /\ Before(g, id, n) => Before(Top, id, n)
      /\ Before(Top, id, n) /\ ~Before(g, id, n) => id = Top.id /\ n = Top.ph /\ Top.asked = 0
      /\ Beyond(g, id, n) => Beyond(Top, id, n) \/ (id = Top.id /\ n = Top.ph /\ AsksPlain(x, g, C))
  BY <1>1, <1>2, GoesOn
<1>4. /\ times'[x] = 1 /\ (id # x => times'[id] = times[id]) /\ times[id] \in {0, 1}
      /\ times[id] = 1 => times'[id] = 1
  BY <1>1 DEF Effects, TopRight, Typed, MemoryTyped
<1>5. /\ Before(Frame(x), id, n) <=> id = x
      /\ Beyond(Frame(x), id, n) <=> id # x
  BY <1>2 DEF Before, Beyond, Frame
<1>6. Ahead(id, n)' => Ahead(id, n)
  <2> SUFFICES ASSUME Ahead(id, n)'  PROVE Ahead(id, n)
    OBVIOUS
  <2>1. CASE times'[id] = 0
    BY <1>4, <2>1 DEF Ahead
  <2>2. CASE \E k \in DOMAIN stack' : Before(stack'[k], id, n)
    <3> PICK k \in DOMAIN stack' : Before(stack'[k], id, n)
      BY <2>2
    <3>1. CASE k \in DOMAIN stack /\ stack'[k] = stack[k]
      BY <3>1 DEF Ahead
    <3>2. CASE stack'[k] = g
      BY <1>2, <1>3, <3>2 DEF Ahead
    <3>3. CASE stack'[k] = Frame(x) /\ times[x] = 0
      BY <1>5, <3>3 DEF Ahead
    <3> QED  BY <1>1, <3>1, <3>2, <3>3 DEF FramesAre
  <2> QED  BY <2>1, <2>2 DEF Ahead, Before
<1>7. Ahead(id, n) /\ ~Ahead(id, n)' => id = Top.id /\ n = Top.ph /\ Top.asked = 0
  <2> SUFFICES ASSUME Ahead(id, n), ~Ahead(id, n)'
               PROVE  id = Top.id /\ n = Top.ph /\ Top.asked = 0
    OBVIOUS
  <2>1. times'[id] # 0 /\ \A k \in DOMAIN stack' : ~Before(stack'[k], id, n)
    BY DEF Ahead, Before
  <2>2. CASE times[id] = 0
    <3>1. id = x
      BY <1>4, <2>1, <2>2
    <3> QED  BY <1>1, <1>2, <1>5, <2>1, <2>2, <3>1 DEF FramesAre
  <2>3. CASE \E k \in DOMAIN stack : Before(stack[k], id, n)
    <3> PICK k \in DOMAIN stack : Before(stack[k], id, n)
      BY <2>3
    <3>1. k = Len(stack)
      BY <1>1, <2>1 DEF FramesAre
    <3> QED  BY <1>1, <1>2, <1>3, <2>1, <3>1 DEF FramesAre
  <2> QED  BY <2>2, <2>3 DEF Ahead
<1>8. Passed(id, n)' => Passed(id, n) \/ (id = Top.id /\ n = Top.ph /\ AsksPlain(x, g, C))
  <2> SUFFICES ASSUME Passed(id, n)', ~(id = Top.id /\ n = Top.ph /\ AsksPlain(x, g, C))
               PROVE  Passed(id, n)
    OBVIOUS
  <2>1. times'[id] = 1 /\ \A k \in DOMAIN stack' : Beyond(stack'[k], id, n)
    BY DEF Passed, Beyond
  <2>2. times[id] = 1
    <3>1. CASE times[id] = 0
      <4>1. id = x
        BY <1>4, <2>1, <3>1
      <4> QED  BY <1>1, <1>2, <1>5, <2>1, <3>1, <4>1 DEF FramesAre
    <3> QED  BY <1>4, <3>1
  <2>3. \A k \in DOMAIN stack : Beyond(stack[k], id, n)
    BY <1>1, <1>2, <1>3, <2>1 DEF FramesAre
  <2> QED  BY <2>2, <2>3 DEF Passed
<1> QED  BY <1>6, <1>7, <1>8
-----------------------------------------------------------------------------
(* A call leaves the marks, and the calls, right. *)

LEMMA ClearedUnused ==
  ASSUME TopRight, NEW x, NEW g, NEW C, Asks(x, g, C), NEW part \in C
  PROVE  /\ AsksCondition(x, g, C) /\ IsCond(Top.id, Top.ph) /\ C = Parts(Ph(Top.id, Top.ph))
         /\ part \in DOMAIN tpl /\ times[part] = 0 /\ ~Own(part)
<1>1. AsksCondition(x, g, C) /\ IsCond(Top.id, Top.ph) /\ C = Parts(Ph(Top.id, Top.ph)) /\ Top.asked = 0
  BY DEF Asks, AsksPlain, AsksBranch, AsksCondition
<1>2. part \in DOMAIN tpl /\ ~Own(part)
  BY <1>1, ConditionalIs DEF TopRight, Conditional
<1>3. Ahead(Top.id, Top.ph)
  BY <1>1, TopAhead DEF Before
<1>4. PartMarked(Top.id, Top.ph, part)
  BY <1>1 DEF TopRight, EvInv, MarksRight, BranchesMarked, IsCond
<1>5. times[part] \in {0, 1}
  BY <1>2 DEF TopRight, Typed, MemoryTyped
<1> QED  BY <1>1, <1>2, <1>3, <1>4, <1>5 DEF PartMarked

LEMMA CallMarked ==
  ASSUME TopRight, NEW x, NEW g, NEW C, Call(x, g, C)
  PROVE  MarkedRight'
<1>1. /\ MarkedRight /\ tpl' = tpl /\ evaluated \subseteq DOMAIN tpl
      /\ \A id \in DOMAIN tpl : times[id] \in {0, 1}
  BY DEF TopRight, EvInv, MarksRight, Call, Typed, MemoryTyped
<1>2. /\ evaluated' = (evaluated \ C) \cup {x} /\ times'[x] = 1 /\ x \in DOMAIN tpl
      /\ \A id \in DOMAIN tpl : id # x => times'[id] = times[id]
      /\ tpl[x] = Parameter => Own(x)
  <2>1. CalledBy(g, x) /\ g.id = Top.id /\ Top.id \in DOMAIN tpl
    BY AsksIs DEF Call, Asks, TopRight
  <2>2. tpl[x] = Parameter => Own(x)
    <3>1. CASE AsksBranch(x, g, C)
      <4>1. IsCond(Top.id, Top.ph) /\ x \in {Ph(Top.id, Top.ph).tpl_then, Ph(Top.id, Top.ph).tpl_else}
        BY <3>1 DEF AsksBranch, Branch
      <4> QED  BY <2>1, <4>1, ConditionalIs DEF Conditional, TopRight
    <3>2. CASE ~AsksBranch(x, g, C)
      <4>1. AsksPlain(x, g, C) \/ AsksCondition(x, g, C)
        BY <3>2 DEF Call, Asks
      <4>2. CASE AsksPlain(x, g, C)
        BY <2>1, <4>2, PlainIs DEF AsksPlain, TopRight
      <4>3. CASE AsksCondition(x, g, C)
        BY <2>1, <4>3, ConditionalIs DEF AsksCondition, TopRight, Conditional
      <4> QED  BY <4>1, <4>2, <4>3
    <3> QED  BY <3>1, <3>2
  <2> QED  BY <2>2 DEF Call, Asks, Effect, Effects
<1>3. \A id \in C : times[id] = 0 /\ ~Own(id)
  BY ClearedUnused DEF Call
<1> QED  BY <1>1, <1>2, <1>3 DEF MarkedRight, Own

LEMMA CallBranches ==
  ASSUME TopRight, NEW x, NEW g, NEW C, Call(x, g, C)
  PROVE  BranchesMarked'
<1>1. /\ BranchesMarked /\ tpl' = tpl /\ IsGroup(tpl) /\ Top.id \in DOMAIN tpl
      /\ \A id \in DOMAIN tpl : times[id] \in {0, 1}
  BY DEF TopRight, EvInv, MarksRight, Call, Typed, MemoryTyped
<1>2. /\ evaluated' = (evaluated \ C) \cup {x} /\ times'[x] = 1 /\ x \in DOMAIN tpl
      /\ \A id \in DOMAIN tpl : id # x => times'[id] = times[id]
      /\ Asks(x, g, C)
  BY DEF Call, Asks, Effect, Effects
<1> SUFFICES ASSUME NEW id \in DOMAIN tpl, NEW n \in DOMAIN tpl[id].ph, IsCond(id, n),
                    NEW part \in Parts(Ph(id, n))
             PROVE  PartMarked(id, n, part)'
  BY <1>1 DEF BranchesMarked, IsCond, Ph
<1>3. PartMarked(id, n, part)
  BY <1>1 DEF BranchesMarked
<1>4. /\ Ahead(id, n)' => Ahead(id, n)
      /\ Ahead(id, n) /\ ~Ahead(id, n)' => id = Top.id /\ n = Top.ph /\ Top.asked = 0
  BY CallAhead
<1>5. Conditional(Ph(id, n), id.name)
  BY <1>1, ConditionalIs
<1>6. part \in DOMAIN tpl /\ ~Own(part)
  BY <1>5 DEF Conditional
<1>7. CASE part = x
  <2>1. AsksBranch(x, g, C)
    <3>1. CASE AsksPlain(x, g, C)
      BY <1>1, <1>6, <1>7, <3>1, PlainIs DEF AsksPlain
    <3>2. CASE AsksCondition(x, g, C)
      BY <1>1, <1>6, <1>7, <3>2, ConditionalIs DEF AsksCondition, Conditional
    <3> QED  BY <1>2, <3>1, <3>2 DEF Asks
  <2>2. IsCond(Top.id, Top.ph) /\ Top.asked # 0
    BY <2>1 DEF AsksBranch
  <2>3. x \in {Ph(Top.id, Top.ph).tpl_then, Ph(Top.id, Top.ph).tpl_else}
    BY <2>1 DEF AsksBranch, Branch
  <2>4. Conditional(Ph(Top.id, Top.ph), Top.id.name)
    BY <1>1, <2>2, ConditionalIs
  <2>5. x \in Parts(Ph(Top.id, Top.ph)) /\ x # Ph(Top.id, Top.ph).tpl
    BY <2>3, <2>4 DEF Conditional
  <2>6. id = Top.id /\ n = Top.ph
    BY <1>1, <1>7, <2>2, <2>5, SamePart
  <2>7. ~Ahead(id, n)
    <3>1. Top.ph \in Nat
      BY DEF TopRight, Frames
    <3> QED  BY <2>2, <2>6, <3>1, TopAhead DEF Before
  <2> QED  BY <1>1, <1>2, <1>4, <1>7, <2>5, <2>6, <2>7 DEF PartMarked, Ph, Ahead
<1>8. CASE part # x
  <2>1. times'[part] = times[part]
    BY <1>2, <1>6, <1>8
  <2>2. times'[part] = 1 => ~Ahead(id, n)'
    BY <1>3, <1>4, <2>1 DEF PartMarked
  <2>3. part = Ph(id, n).tpl => times'[part] = 0
    BY <1>3, <2>1 DEF PartMarked
  <2>4. ASSUME ~Ahead(id, n)', part \in evaluated', part # Ph(id, n).tpl
        PROVE  times'[part] = 1
    <3>1. CASE ~Ahead(id, n)
      BY <1>2, <1>3, <1>8, <2>1, <2>4, <3>1 DEF PartMarked
    <3>2. CASE Ahead(id, n)
      <4>1. id = Top.id /\ n = Top.ph /\ Top.asked = 0
        BY <1>4, <2>4, <3>2
      <4>2. AsksCondition(x, g, C)
        BY <1>2, <4>1 DEF Asks, AsksPlain, AsksBranch, IsPlain, IsCond
      <4>3. part \in C
        BY <4>1, <4>2 DEF AsksCondition
      <4> QED  BY <1>2, <1>8, <2>4, <4>3
    <3> QED  BY <3>1, <3>2
  <2> QED  BY <1>1, <2>2, <2>3, <2>4 DEF PartMarked, Ph
<1> QED  BY <1>7, <1>8

LEMMA CallStack ==
  ASSUME TopRight, NEW x, NEW g, NEW C, Call(x, g, C)
  PROVE  StackRight'
<1> DEFINE n == Len(stack)
<1>1. /\ StackMarked /\ Chain /\ tpl' = tpl /\ n \in Nat \ {0} /\ DOMAIN stack = 1 .. n
      /\ \A k \in DOMAIN stack : stack[k].id \in DOMAIN tpl
      /\ g.id = stack[n].id
  BY DEF TopRight, EvInv, StackRight, Frames, Call, Asks, Top
<1>2. FramesAre(x, g) /\ DOMAIN stack' = 1 .. Len(stack')
  BY CallFrames, CallMoves DEF Moves
<1>3. /\ times'[x] = 1 /\ x \in DOMAIN tpl
      /\ \A id \in DOMAIN tpl : id # x => times'[id] = times[id]
      /\ CalledBy(g, x)
  BY AsksIs DEF Call, Asks, Effect, Effects
<1> HIDE DEF n
<1>4. \A k \in DOMAIN stack' :
        \/ k \in DOMAIN stack /\ stack'[k].id = stack[k].id
        \/ k = n + 1 /\ stack'[k] = Frame(x) /\ stack'[k].id = x /\ times[x] = 0
  BY <1>1, <1>2 DEF FramesAre, Frame, n
<1>5. StackMarked'
  <2>1. \A k \in DOMAIN stack : times[stack[k].id] = 1
    BY <1>1 DEF StackMarked
  <2>2. \A k \in DOMAIN stack' : times'[stack'[k].id] = 1
    BY <1>1, <1>3, <1>4, <2>1
  <2>3. ASSUME NEW j \in DOMAIN stack', NEW k \in DOMAIN stack', stack'[j].id = stack'[k].id
        PROVE  j = k
    <3>1. CASE j \in DOMAIN stack /\ k \in DOMAIN stack /\ stack'[j].id = stack[j].id /\ stack'[k].id = stack[k].id
      BY <1>1, <2>3, <3>1 DEF StackMarked
    <3>2. CASE j = n + 1 /\ k = n + 1
      BY <3>2
    <3> QED  BY <1>4, <2>1, <2>3, <3>1, <3>2
  <2> QED  BY <2>2, <2>3 DEF StackMarked
<1>6. Chain'
  <2> SUFFICES ASSUME NEW k \in DOMAIN stack'
               PROVE  IF k = 1 THEN Own(stack'[k].id) ELSE CalledBy(stack'[k - 1], stack'[k].id)
    BY <1>1 DEF Chain, CalledBy, BranchCalled, OwnCalled, IsCond, Ph, References, Own
  <2>1. CASE k \in DOMAIN stack /\ stack'[k].id = stack[k].id
    <3>1. k # 1 => k - 1 \in DOMAIN stack /\ k - 1 # n
      BY <1>1, <2>1
    <3>2. k # 1 => stack'[k - 1] = stack[k - 1]
      BY <1>2, <3>1 DEF FramesAre, n
    <3> QED  BY <1>1, <2>1, <3>2 DEF Chain
  <2>2. CASE k = n + 1 /\ stack'[k].id = x
    <3>1. k # 1 /\ k - 1 = n
      BY <1>1, <2>2
    <3>2. stack'[n] = g
      BY <1>2 DEF FramesAre, n
    <3> QED  BY <1>3, <2>2, <3>1, <3>2
  <2> QED  BY <1>4, <2>1, <2>2
<1> QED  BY <1>5, <1>6 DEF StackRight
-----------------------------------------------------------------------------
(* A call leaves the values right. *)

LEMMA CallKeeps ==
  ASSUME TopRight, NEW x, NEW g, NEW C, Call(x, g, C), NEW id \in DOMAIN tpl
  PROVE  /\ times[id] = 1 => times'[id] = 1 /\ vals'[id] = vals[id]
         /\ id # x /\ id \notin C => vals'[id] = vals[id] /\ times'[id] = times[id]
                                     /\ (id \in evaluated' <=> id \in evaluated)
<1>1. /\ evaluated' = (evaluated \ C) \cup {x} /\ times'[x] = 1
      /\ \A i \in DOMAIN tpl : i # x =>
           times'[i] = times[i] /\ vals'[i] = IF i \in C THEN <<>> ELSE vals[i]
  BY DEF Call, Effect, Effects
<1>2. times[x] = 1 => vals'[x] = vals[x]
  BY DEF Call, Effect, KnownAlready, ParameterSet, TemplateBegun
<1>3. \A part \in C : times[part] = 0
  BY ClearedUnused DEF Call
<1> QED  BY <1>1, <1>2, <1>3

(* The parts of a conditional that evaluation is beyond are left alone. *)
LEMMA PartsUntouched ==
  ASSUME TopRight, NEW x, NEW g, NEW C, Call(x, g, C),
         NEW id \in DOMAIN tpl, NEW n, IsCond(id, n), Passed(id, n)',
         NEW part \in Parts(Ph(id, n))
  PROVE  part # x /\ part \notin C
<1>1. /\ IsGroup(tpl) /\ Asks(x, g, C) /\ g.id = Top.id /\ Top.id \in DOMAIN tpl
      /\ Top.ph \in Nat /\ n \in Nat
  BY PlaceholdersAre DEF TopRight, Call, Asks, Frames, IsCond
<1>2. Beyond(g, id, n)
  BY CallFrames DEF FramesAre, Passed, Beyond
<1>3. ~Own(part)
  BY <1>1, ConditionalIs DEF Conditional
<1>4. part # x
  <2> SUFFICES ASSUME part = x  PROVE FALSE
    OBVIOUS
  <2>1. IsCond(g.id, g.ph) /\ x \in Parts(Ph(g.id, g.ph))
    BY <1>1, <1>3, AsksIs DEF CalledBy, OwnCalled, BranchCalled
  <2>2. id = g.id /\ n = g.ph
    BY <1>1, <2>1, SamePart
  <2> QED  BY <1>1, <1>2, <2>2 DEF Beyond
<1>5. part \notin C
  <2> SUFFICES ASSUME part \in C  PROVE FALSE
    OBVIOUS
  <2>1. AsksCondition(x, g, C) /\ IsCond(Top.id, Top.ph) /\ C = Parts(Ph(Top.id, Top.ph))
    BY <1>1, ClearedUnused
  <2>2. id = g.id /\ n = g.ph
    BY <1>1, <2>1, SamePart DEF AsksCondition
  <2> QED  BY <1>1, <1>2, <2>2 DEF Beyond
<1> QED  BY <1>4, <1>5

LEMMA CallValues ==
  ASSUME TopRight, NEW x, NEW g, NEW C, Call(x, g, C)
  PROVE  ValuesThere'
<1> SUFFICES ASSUME NEW id \in DOMAIN tpl, times'[id] = 1
             PROVE  vals'[id] = <<>> <=> OnStack(id)'
  BY DEF ValuesThere, OnStack, Call
<1>1. /\ FramesAre(x, g) /\ StackMarked /\ ValuesThere
      /\ times[x] \in {0, 1} /\ times[id] \in {0, 1} /\ x \in DOMAIN tpl
      /\ g.id = Top.id /\ Top = stack[Len(stack)]
  BY CallFrames DEF TopRight, EvInv, StackRight, ValuesRight, Call, Asks, Typed, MemoryTyped, Top
<1>2. \A k \in DOMAIN stack : k \in DOMAIN stack' /\ stack'[k].id = stack[k].id
  BY <1>1 DEF FramesAre
<1>3. \A k \in DOMAIN stack' :
        \/ k \in DOMAIN stack
        \/ stack'[k].id = x /\ times[x] = 0 /\ tpl[x] # Parameter /\ vals'[x] = <<>>
  BY <1>1 DEF FramesAre, Frame
<1>4. CASE times[id] = 1
  <2>1. OnStack(id)' <=> OnStack(id)
    BY <1>2, <1>3, <1>4 DEF OnStack
  <2> QED  BY <1>1, <1>4, <2>1, CallKeeps DEF ValuesThere
<1>5. CASE times[id] = 0
  <2>1. id = x
    BY <1>5 DEF Call, Effect, Effects
  <2>2. \A k \in DOMAIN stack : stack'[k].id # x
    BY <1>1, <1>2, <1>5, <2>1 DEF StackMarked
  <2>3. CASE ParameterSet(x, g)
    <3>1. vals'[x] # <<>>
      <4>1. Len(<<<<>>>>) = 1 /\ Len(<<>>) = 0
        BY EmptySeq
      <4>2. <<<<>>>> # <<>>
        BY <4>1
      <4> QED  BY <2>3, <4>2 DEF ParameterSet
    <3>2. ~OnStack(x)'
      BY <1>3, <2>2, <2>3 DEF OnStack, ParameterSet
    <3> QED  BY <2>1, <3>1, <3>2
  <2>4. CASE TemplateBegun(x, g)
    <3>1. OnStack(x)'
      BY <1>1, <2>4 DEF OnStack, TemplateBegun, FramesAre, Frame
    <3> QED  BY <2>1, <2>4, <3>1 DEF TemplateBegun
  <2> QED  BY <1>5, <2>1, <2>3, <2>4 DEF Call, Effect, KnownAlready
<1> QED  BY <1>1, <1>4, <1>5

LEMMA BranchIs ==
  ASSUME NEW p, NEW name, Conditional(p, name), NEW cond, NEW i
  PROVE  Branch(p, cond, i) \in DOMAIN tpl /\ Branch(p, cond, i) \in {p.tpl_then, p.tpl_else}
BY DEF Conditional, Branch

LEMMA CallAsked ==
  ASSUME TopRight, NEW x, NEW g, NEW C, Call(x, g, C)
  PROVE  ConditionAsked'
<1>1. /\ FramesAre(x, g) /\ IsGroup(tpl) /\ tpl' = tpl /\ times'[x] = 1
      /\ \A k \in DOMAIN stack : /\ FrameOK(stack[k]) /\ stack[k] \in Frames
                                 /\ FrameAsked(stack[k], Ph(stack[k].id, stack[k].ph))
      /\ Asks(x, g, C) /\ g.id = Top.id /\ Top \in Frames
  BY CallFrames DEF TopRight, EvInv, ValuesRight, ConditionAsked, Call, Effect, Effects, Asks
<1>2. ASSUME NEW f \in Frames, FrameOK(f), FrameAsked(f, Ph(f.id, f.ph))
      PROVE  FrameAsked(f, Ph(f.id, f.ph))'
  <2> PICK p : p = Ph(f.id, f.ph)
    OBVIOUS
  <2>1. CASE f.asked > 0
    <3>1. Conditional(p, f.id.name)
      BY <1>1, <1>2, <2>1, ConditionalIs DEF FrameOK, Frames
    <3>2. Ph(f.id, f.ph)' = p
      BY <1>1 DEF Ph
    <3>3. times[p.tpl_cond] = 1 /\ p.tpl_cond \in DOMAIN tpl
      BY <1>2, <2>1, <3>1 DEF FrameAsked, Conditional
    <3>4. times'[p.tpl_cond] = 1 /\ vals'[p.tpl_cond] = vals[p.tpl_cond]
      BY <3>3, CallKeeps
    <3>5. Asked(p)' = Asked(p)
      BY <3>4 DEF Asked
    <3>6. \A i : times[Branch(p, Asked(p), i)] = 1 => times'[Branch(p, Asked(p), i)] = 1
      BY <3>1, BranchIs, CallKeeps
    <3>7. FrameAsked(f, p)
      BY <1>2
    <3>8. BranchesAsked(p, f.asked) =>
            \A i \in 1 .. NumBranches(p, Asked(p)) : i < f.asked => times'[Branch(p, Asked(p), i)] = 1
      BY <3>6 DEF BranchesAsked
    <3> QED  BY <3>2, <3>4, <3>5, <3>7, <3>8 DEF FrameAsked, BranchesAsked
  <2>2. CASE f.asked = 0
    BY <2>2 DEF FrameAsked
  <2> QED  BY <1>2, <2>1, <2>2 DEF Frames
<1>3. FrameAsked(g, Ph(g.id, g.ph))'
  <2>1. CASE AsksPlain(x, g, C)
    BY <2>1 DEF AsksPlain, FrameAsked
  <2>2. CASE AsksCondition(x, g, C)
    <3>1. g.asked = 1 /\ g.ph = Top.ph /\ x = Ph(Top.id, Top.ph).tpl_cond
      BY <2>2 DEF AsksCondition
    <3>2. Ph(g.id, g.ph)' = Ph(Top.id, Top.ph)
      BY <1>1, <3>1 DEF Ph
    <3> PICK p : p = Ph(Top.id, Top.ph)
      OBVIOUS
    <3>3. times'[p.tpl_cond] = 1 /\ ~(g.asked > 1)
      BY <1>1, <3>1
    <3> QED  BY <3>2, <3>3 DEF FrameAsked
  <2>3. CASE AsksBranch(x, g, C)
    <3> PICK p : p = Ph(Top.id, Top.ph)
      OBVIOUS
    <3>1. /\ IsCond(Top.id, Top.ph) /\ Top.asked \in Nat \ {0} /\ Asked(p) # <<>>
          /\ Top.asked <= NumBranches(p, Asked(p))
          /\ x = Branch(p, Asked(p), Top.asked)
          /\ g.ph = Top.ph /\ g.asked = Top.asked + 1
      BY <2>3 DEF AsksBranch
    <3>2. Conditional(p, Top.id.name)
      BY <1>1, <3>1, ConditionalIs DEF TopRight
    <3>3. FrameAsked(Top, p) /\ Top.id \in DOMAIN tpl
      BY <1>1 DEF Top, TopRight
    <3>4. Ph(g.id, g.ph)' = p
      BY <1>1, <3>1 DEF Ph
    <3>5. times[p.tpl_cond] = 1 /\ p.tpl_cond \in DOMAIN tpl
      BY <3>1, <3>2, <3>3 DEF FrameAsked, Conditional
    <3>6. times'[p.tpl_cond] = 1 /\ vals'[p.tpl_cond] = vals[p.tpl_cond]
      BY <3>5, CallKeeps
    <3>7. Asked(p)' = Asked(p)
      BY <3>6 DEF Asked
    <3>8. NumBranches(p, Asked(p)) \in Nat
      BY <3>5, AskedIs
    <3>9. ASSUME NEW i \in 1 .. NumBranches(p, Asked(p)), i < Top.asked + 1
          PROVE  times'[Branch(p, Asked(p), i)] = 1
      <4>1. CASE i = Top.asked
        BY <1>1, <3>1, <4>1
      <4>2. CASE i < Top.asked
        <5>1. Top.asked > 1 /\ i \in Nat
          BY <3>1, <3>8, <4>2
        <5>2. times[Branch(p, Asked(p), i)] = 1
          BY <3>3, <4>2, <5>1 DEF FrameAsked, BranchesAsked
        <5> QED  BY <3>2, <5>2, BranchIs, CallKeeps
      <4> QED  BY <3>1, <3>8, <3>9, <4>1, <4>2
    <3>10. g.asked <= NumBranches(p, Asked(p)) + 1
      BY <3>1, <3>8
    <3>11. BranchesAsked(p, g.asked)'
      BY <3>1, <3>7, <3>9 DEF BranchesAsked
    <3> QED  BY <3>1, <3>4, <3>6, <3>7, <3>10, <3>11 DEF FrameAsked
  <2> QED  BY <1>1, <2>1, <2>2, <2>3 DEF Asks
<1>4. FrameAsked(Frame(x), Ph(Frame(x).id, Frame(x).ph))'
  BY DEF FrameAsked, Frame
<1> SUFFICES ASSUME NEW k \in DOMAIN stack'
             PROVE  FrameAsked(stack[k], Ph(stack[k].id, stack[k].ph))'
  BY DEF ConditionAsked
<1>5. CASE k \in DOMAIN stack /\ stack'[k] = stack[k]
  <2> DEFINE f == stack[k]
  <2>1. f \in Frames /\ FrameOK(f) /\ FrameAsked(f, Ph(f.id, f.ph))
    BY <1>1, <1>5
  <2>2. stack'[k] = f
    BY <1>5
  <2> HIDE DEF f
  <2> QED  BY <1>2, <2>1, <2>2 DEF FrameAsked, Ph, Asked, BranchesAsked
<1>6. CASE stack'[k] = g
  BY <1>3, <1>6 DEF FrameAsked, Ph, Asked, BranchesAsked
<1>7. CASE stack'[k] = Frame(x)
  BY <1>4, <1>7 DEF FrameAsked, Ph, Asked, BranchesAsked
<1> QED  BY <1>1, <1>5, <1>6, <1>7 DEF FramesAre

LEMMA CallConditionals ==
  ASSUME TopRight, NEW x, NEW g, NEW C, Call(x, g, C)
  PROVE  ConditionalsStored' /\ PlainEvaluated'
<1>1. /\ tpl' = tpl /\ IsGroup(tpl) /\ ConditionalsStored /\ PlainEvaluated /\ times'[x] = 1
      /\ Top.id \in DOMAIN tpl
  BY DEF TopRight, EvInv, ValuesRight, Call, Effect, Effects
<1>2. ASSUME NEW id \in DOMAIN tpl, NEW n \in DOMAIN tpl[id].ph, IsCond(id, n), Passed(id, n)',
             NEW p, p = Ph(id, n)
      PROVE  (AllAsked(p) /\ p.tpl \in evaluated /\ vals[p.tpl] = Stored(p))'
  <2>1. Passed(id, n)
    <3>1. ~IsPlain(Top.id, Top.ph) \/ ~(id = Top.id /\ n = Top.ph)
      BY <1>2 DEF IsPlain, IsCond
    <3> QED  BY <1>2, <3>1, CallAhead DEF AsksPlain
  <2>2. AllAsked(p) /\ p.tpl \in evaluated /\ vals[p.tpl] = Stored(p)
    BY <1>1, <1>2, <2>1 DEF ConditionalsStored
  <2>3. Conditional(p, id.name)
    BY <1>1, <1>2, ConditionalIs
  <2>4. \A part \in Parts(p) : part \in DOMAIN tpl /\ part # x /\ part \notin C
    BY <1>2, <2>3, PartsUntouched DEF Conditional
  <2>5. \A part \in Parts(p) : vals'[part] = vals[part] /\ (part \in evaluated' <=> part \in evaluated)
    BY <2>4, CallKeeps
  <2>6. times'[p.tpl_cond] = 1 /\ vals'[p.tpl_cond] = vals[p.tpl_cond]
    BY <2>2, <2>3, CallKeeps DEF AllAsked, Conditional
  <2>7. Asked(p)' = Asked(p) /\ Asked(p) # <<>>
    BY <2>2, <2>6 DEF Asked, AllAsked
  <2>8. \A i \in 1 .. NumBranches(p, Asked(p)) : times'[Branch(p, Asked(p), i)] = 1
    BY <2>2, <2>3, BranchIs, CallKeeps DEF AllAsked
  <2>9. AllAsked(p)'
    BY <2>6, <2>7, <2>8 DEF AllAsked
  <2>10. /\ p.tpl \in evaluated' /\ vals'[p.tpl] = vals[p.tpl]
         /\ vals'[p.tpl_then] = vals[p.tpl_then] /\ vals'[p.tpl_else] = vals[p.tpl_else]
    BY <2>2, <2>3, <2>5 DEF Conditional
  <2>11. vals'[Branch(p, Asked(p), 1)] = vals[Branch(p, Asked(p), 1)]
    BY <2>3, <2>10, BranchIs
  <2>12. Stored(p)' = Stored(p)
    BY <2>7, <2>10, <2>11 DEF Stored
  <2> QED  BY <2>2, <2>9, <2>10, <2>12
<1>3. ConditionalsStored'
  <2> SUFFICES ASSUME NEW id \in DOMAIN tpl, NEW n \in DOMAIN tpl[id].ph,
                      IsCond(id, n), Passed(id, n)'
               PROVE  (AllAsked(Ph(id, n)) /\ Ph(id, n).tpl \in evaluated
                         /\ vals[Ph(id, n).tpl] = Stored(Ph(id, n)))'
    BY <1>1 DEF ConditionalsStored, IsCond, Ph
  <2> PICK p : p = Ph(id, n)
    OBVIOUS
  <2>1. Ph(id, n)' = p
    BY <1>1 DEF Ph
  <2>2. (AllAsked(p) /\ p.tpl \in evaluated /\ vals[p.tpl] = Stored(p))'
    BY <1>2
  <2> QED  BY <2>1, <2>2 DEF AllAsked, Stored, Asked
<1>4. PlainEvaluated'
  <2> SUFFICES ASSUME NEW id \in DOMAIN tpl, NEW n \in DOMAIN tpl[id].ph,
                      IsPlain(id, n), Passed(id, n)'
               PROVE  times'[Ph(id, n).tpl] = 1
    BY <1>1 DEF PlainEvaluated, IsPlain, Ph
  <2>1. CASE Passed(id, n)
    <3>1. times[Ph(id, n).tpl] = 1 /\ Ph(id, n).tpl \in DOMAIN tpl
      BY <1>1, <2>1, PlainIs DEF PlainEvaluated
    <3> QED  BY <3>1, CallKeeps
  <2>2. CASE id = Top.id /\ n = Top.ph /\ AsksPlain(x, g, C)
    BY <1>1, <2>2 DEF AsksPlain
  <2> QED  BY <2>1, <2>2, CallAhead
<1> QED  BY <1>3, <1>4
-----------------------------------------------------------------------------
(* Without recursion. *)

(* The names of the templates from a call to the top of the stack refer to *)
(* one another, and the top to what it asks for: if that were one of them, *)
(* there would be a recursion.                                             *)
LEMMA NoReturn ==
  ASSUME TopRight, ~Recursion, NEW x, x.name \in References(Top.id.name)
  PROVE  ~OnStack(x)
<1> SUFFICES ASSUME NEW k \in DOMAIN stack, stack[k].id = x  PROVE FALSE
  BY DEF OnStack
<1> DEFINE top   == Len(stack)
           names == {stack[j].id.name : j \in k .. top}
<1>1. /\ top \in Nat \ {0} /\ DOMAIN stack = 1 .. top /\ Chain
      /\ \A j \in DOMAIN stack : FrameOK(stack[j])
      /\ Top = stack[top]
  BY DEF TopRight, EvInv, StackRight, Top
<1> HIDE DEF top
<1>2. k \in 1 .. top /\ k .. top \subseteq DOMAIN stack
  BY <1>1
<1>3. x.name \in names
  BY <1>1, <1>2
<1>4. names \in SUBSET OwnNames(tpl)
  BY <1>1, <1>2 DEF FrameOK
<1>5. ASSUME NEW m \in names
      PROVE  References(m) \cap names # {}
  <2> DEFINE S == {j \in k .. top : stack[j].id.name = m}
  <2>1. S \in SUBSET (0 .. top) /\ S # {}
    BY <1>1, <1>2, <1>5
  <2> DEFINE j == Max(S)
  <2> HIDE DEF S, names
  <2>2. j \in S /\ \A i \in S : i <= j
    BY <1>1, <2>1, MaxIs
  <2> HIDE DEF j
  <2>3. j \in k .. top /\ stack[j].id.name = m
    BY <2>2 DEF S
  <2>4. CASE j = top
    BY <1>1, <1>3, <2>3, <2>4
  <2>5. CASE j # top
    <3>1. j + 1 \in k .. top /\ j + 1 # 1 /\ (j + 1) - 1 = j /\ ~(j + 1 <= j)
      BY <1>1, <1>2, <2>3, <2>5
    <3>2. CalledBy(stack[j], stack[j + 1].id)
      BY <1>1, <1>2, <3>1 DEF Chain
    <3>3. stack[j + 1].id.name \in names
      BY <3>1 DEF names
    <3>4. stack[j + 1].id.name # m
      BY <2>2, <3>1 DEF S
    <3>5. ~BranchCalled(stack[j], stack[j + 1].id)
      <4> SUFFICES ASSUME BranchCalled(stack[j], stack[j + 1].id)  PROVE FALSE
        OBVIOUS
      <4>1. stack[j].id \in DOMAIN tpl
        BY <1>2, <2>3 DEF TopRight, Frames
      <4>2. stack[j + 1].id.name = stack[j].id.name
        BY <4>1, ConditionalIs DEF BranchCalled, Conditional, TopRight
      <4> QED  BY <2>3, <3>4, <4>2
    <3>6. stack[j + 1].id.name \in References(m)
      BY <2>3, <3>2, <3>5 DEF CalledBy, OwnCalled
    <3> QED  BY <3>3, <3>6
  <2> QED  BY <2>4, <2>5
<1> HIDE DEF names
<1> QED  BY <1>3, <1>4, <1>5 DEF Recursion

LEMMA CallFinished ==
  ASSUME TopRight, NEW x, NEW g, NEW C, Call(x, g, C), ~Recursion
  PROVE  PlainFinished' /\ Built'
<1> DEFINE top == Len(stack)
<1>1. /\ tpl' = tpl /\ IsGroup(tpl) /\ PlainFinished /\ Built /\ PlainEvaluated /\ StackMarked
      /\ times'[x] = 1 /\ Top.id \in DOMAIN tpl /\ g.id = Top.id /\ x \in DOMAIN tpl
      /\ top \in Nat \ {0} /\ DOMAIN stack = 1 .. top /\ Top = stack[top]
      /\ \A id \in DOMAIN tpl : times[id] \in {0, 1}
  BY DEF TopRight, EvInv, ValuesRight, StackRight, Call, Asks, Effect, Effects, Top, Typed, MemoryTyped
<1>2. FramesAre(x, g)
  BY CallFrames
<1> HIDE DEF top
<1>3. \A k \in DOMAIN stack : k \in DOMAIN stack' /\ stack'[k].id = stack[k].id
  BY <1>1, <1>2 DEF FramesAre, top
<1>4. \A k \in DOMAIN stack' : k \in DOMAIN stack \/ (k = top + 1 /\ stack'[k].id = x /\ times[x] = 0)
  BY <1>2 DEF FramesAre, Frame, top
<1>5. PlainFinished'
  <2> SUFFICES ASSUME NEW id \in DOMAIN tpl, NEW n \in DOMAIN tpl[id].ph,
                      IsPlain(id, n), Passed(id, n)',
                      NEW j \in DOMAIN stack', stack'[j].id = Ph(id, n).tpl
               PROVE  j > 1 /\ stack'[j - 1].id = id
    BY <1>1 DEF PlainFinished, IsPlain, Ph, BegunBy
  <2>1. CASE Passed(id, n)
    <3>1. times[Ph(id, n).tpl] = 1 /\ BegunBy(Ph(id, n).tpl, id)
      BY <1>1, <2>1 DEF PlainEvaluated, PlainFinished
    <3>2. j \in DOMAIN stack
      BY <1>4, <3>1
    <3>3. j > 1 /\ stack[j - 1].id = id
      BY <1>3, <3>1, <3>2 DEF BegunBy
    <3>4. j - 1 \in DOMAIN stack
      BY <1>1, <3>2, <3>3
    <3> QED  BY <1>3, <3>3, <3>4
  <2>2. CASE id = Top.id /\ n = Top.ph /\ AsksPlain(x, g, C)
    <3>1. x = Ph(id, n).tpl
      BY <2>2 DEF AsksPlain
    <3>2. x.name \in References(Top.id.name)
      <4>1. Reference(Ph(id, n)) = x
        BY <3>1 DEF Reference, IsPlain
      <4> QED  BY <2>2, <4>1, ReferenceIs
    <3>3. ~OnStack(x)
      BY <3>2, NoReturn
    <3>4. j = top + 1
      BY <1>3, <1>4, <3>1, <3>3 DEF OnStack
    <3>5. stack'[top] = g
      BY <1>2 DEF FramesAre, top
    <3>6. j > 1 /\ j - 1 = top
      BY <1>1, <3>4
    <3> QED  BY <1>1, <2>2, <3>5, <3>6
  <2> QED  BY <2>1, <2>2, CallAhead
<1>6. Built'
  <2> SUFFICES ASSUME NEW id \in DOMAIN tpl, times'[id] = 1, ~OnStack(id)', tpl[id] # Parameter
               PROVE  vals'[id] = BuildValues(tpl[id], ListsOf(id)')
    BY <1>1 DEF Built, OnStack
  <2>1. times[id] = 1
    <3> SUFFICES ASSUME times[id] = 0  PROVE FALSE
      BY <1>1
    <3>1. id = x
      BY DEF Call, Effect, Effects
    <3>2. top + 1 \in DOMAIN stack' /\ stack'[top + 1].id = x
      BY <1>2, <3>1 DEF FramesAre, Frame, top
    <3> QED  BY <3>1, <3>2 DEF OnStack
  <2>2. ~OnStack(id)
    BY <1>3 DEF OnStack
  <2>3. vals[id] = BuildValues(tpl[id], ListsOf(id)) /\ vals'[id] = vals[id]
    BY <1>1, <2>1, <2>2, CallKeeps DEF Built
  <2>4. ASSUME NEW n \in DOMAIN tpl[id].ph
        PROVE  vals'[Ph(id, n).tpl] = vals[Ph(id, n).tpl]
    <3>1. Passed(id, n) /\ Passed(id, n)'
      BY <2>1, <2>2 DEF Passed, OnStack, Beyond
    <3>2. CASE IsPlain(id, n)
      <4>1. times[Ph(id, n).tpl] = 1 /\ Ph(id, n).tpl \in DOMAIN tpl
        BY <1>1, <3>1, <3>2, PlainIs DEF PlainEvaluated
      <4> QED  BY <4>1, CallKeeps
    <3>3. CASE IsCond(id, n)
      <4>1. Ph(id, n).tpl \in Parts(Ph(id, n)) /\ Ph(id, n).tpl \in DOMAIN tpl
        BY <1>1, <3>3, ConditionalIs DEF Conditional
      <4> QED  BY <3>1, <3>3, <4>1, PartsUntouched, CallKeeps
    <3> QED  BY <3>2, <3>3 DEF IsPlain, IsCond
  <2>5. ListsOf(id)' = ListsOf(id)
    BY <1>1, <2>4 DEF ListsOf, Ph
  <2> QED  BY <2>3, <2>5
<1> QED  BY <1>5, <1>6
-----------------------------------------------------------------------------
(* The invariant after a call. *)
LEMMA CallInvariant ==
  ASSUME IInv, Running, NEW x, NEW g, NEW C, Call(x, g, C), MemoryTyped'
  PROVE  IInv'
<1>1. TopRight
  BY TopIs
<1>2. /\ tpl' = tpl /\ tpl # None /\ given' = given /\ result' = result /\ result = Nothing
      /\ Typed /\ EvInv /\ GivenRight /\ ResultRight /\ Own(Named(Main))
      /\ Named(Main) \in DOMAIN tpl /\ x \in DOMAIN tpl
  BY <1>1 DEF TopRight, Call, Asks, IInv, Own, Named, IsGroup
<1>3. StackTyped' /\ stack' # <<>>
  <2>1. Moves(x, g) /\ StackTyped' /\ Len(stack) \in DOMAIN stack /\ FramesAre(x, g)
    BY <1>1, CallMoves, CallFrames DEF TopRight
  <2>2. DOMAIN stack' # {}
    BY <2>1 DEF FramesAre
  <2> QED  BY <2>1, <2>2, EmptySeq
<1>4. Typed'
  <2>1. GivenTyped'
    BY <1>2 DEF Typed, GivenTyped, Lists
  <2> QED  BY <1>2, <1>3, <2>1 DEF Typed
<1>5. EvInv'
  <2>1. MarksRight' /\ StackRight'
    BY <1>1, CallMarked, CallBranches, CallStack DEF MarksRight
  <2>2. ValuesRight'
    BY <1>1, CallValues, CallAsked, CallConditionals DEF ValuesRight
  <2>3. times'[Named(Main)] = 1
    BY <1>1, <1>2, CallKeeps DEF EvInv
  <2>4. Recursion' <=> Recursion
    BY <1>2 DEF Recursion, References, Reference, OwnNames
  <2>5. ~Recursion => PlainFinished' /\ Built'
    BY <1>1, CallFinished
  <2> QED  BY <2>1, <2>2, <2>3, <2>4, <2>5 DEF EvInv
<1>6. GivenRight'
  <2> SUFFICES ASSUME given # None, NEW id \in DOMAIN tpl, Own(id), tpl[id] = Parameter
               PROVE  \/ vals'[id] = given[id.name]
                      \/ given[id.name] = <<>> /\ vals'[id] = <<<<>>>>
    BY <1>2, <1>3 DEF GivenRight
  <2>1. vals[id] = given[id.name] \/ (given[id.name] = <<>> /\ vals[id] = <<<<>>>>)
    BY <1>2 DEF GivenRight
  <2>2. CASE vals'[id] = vals[id]
    BY <2>1, <2>2
  <2>3. CASE id = x /\ ParameterSet(x, g)
    BY <2>1, <2>3 DEF ParameterSet
  <2>4. id # x \/ KnownAlready(x, g) \/ ParameterSet(x, g)
    BY DEF Call, Effect, TemplateBegun
  <2>5. id \notin C
    BY <1>1, ClearedUnused DEF Call
  <2> QED  BY <1>1, <2>2, <2>3, <2>4, <2>5, CallKeeps DEF KnownAlready
<1>7. ResultRight'
  BY <1>2 DEF ResultRight, Nothing, Failed, Done
<1> QED  BY <1>2, <1>4, <1>5, <1>6, <1>7 DEF IInv
-----------------------------------------------------------------------------
(* Values that are stored, and those that are built. *)

LEMMA ConditionalValuesAre ==
  ASSUME NEW cond, NEW then, NEW else, IsList(cond), IsList(then), IsList(else)
  PROVE  /\ IsList(ConditionalValues(cond, then, else))
         /\ cond # <<>> => ConditionalValues(cond, then, else) # <<>>
<1> DEFINE chosen == {IF Nonempty(c) THEN then ELSE else : c \in ToSet(cond)}
           S == {Len(cond)} \cup {Len(s) : s \in chosen}
           v == ConditionalValues(cond, then, else)
           b == Len(cond) + Len(then) + Len(else)
<1>1. Len(cond) \in Nat /\ Len(then) \in Nat /\ Len(else) \in Nat /\ (cond # <<>> => Len(cond) # 0)
  BY ListFacts
<1>2. chosen \subseteq {then, else}
  OBVIOUS
<1> HIDE DEF chosen
<1>3. S \in SUBSET (0 .. b) /\ S # {} /\ b \in Nat /\ Len(cond) \in S
  BY <1>1, <1>2
<1> HIDE DEF b
<1>4. v = [i \in 1 .. Max(S) |-> Value(IF Nonempty(Value(cond, i)) THEN then ELSE else, i)]
  BY DEF ConditionalValues, chosen
<1> HIDE DEF S, v
<1>5. Max(S) \in Nat /\ Len(cond) <= Max(S)
  <2> DEFINE n == Max(S)
  <2>1. n \in S /\ \A m \in S : m <= n
    BY <1>3, MaxIs
  <2> HIDE DEF n
  <2>2. n \in Nat /\ Len(cond) <= n
    BY <1>3, <2>1
  <2> QED  BY <2>2 DEF n
<1>6. v = [i \in 1 .. Max(S) |-> v[i]]
  BY <1>4
<1>7. IsList(v) /\ Len(v) = Max(S)
  BY <1>5, <1>6, ListIs
<1>8. cond # <<>> => v # <<>>
  BY <1>1, <1>5, <1>7, EmptySeq
<1> QED  BY <1>7, <1>8 DEF v

(* Lists have a length that none of them exceeds. *)
LEMMA LengthsBounded ==
  ASSUME NEW n \in Nat, NEW lists, \A k \in 1 .. n : IsList(lists[k])
  PROVE  \E b \in Nat : \A k \in 1 .. n : Len(lists[k]) <= b
<1> DEFINE S == {m \in Nat : m <= n => \E b \in Nat : \A k \in 1 .. m : Len(lists[k]) <= b}
<1>1. 0 \in S
  OBVIOUS
<1>2. ASSUME NEW m \in Nat, m \in S
      PROVE  m + 1 \in S
  <2> SUFFICES ASSUME m + 1 <= n
               PROVE  \E b \in Nat : \A k \in 1 .. m + 1 : Len(lists[k]) <= b
    OBVIOUS
  <2>1. PICK b \in Nat : \A k \in 1 .. m : Len(lists[k]) <= b
    BY <1>2
  <2>2. \A k \in 1 .. m + 1 : Len(lists[k]) \in Nat
    BY ListFacts
  <2>3. m + 1 \in 1 .. m + 1
    OBVIOUS
  <2> DEFINE last == Len(lists[m + 1])
  <2>4. last \in Nat
    BY <2>2, <2>3
  <2>5. \A k \in 1 .. m + 1 : k \in 1 .. m \/ k = m + 1
    OBVIOUS
  <2>6. \A k \in 1 .. m + 1 : Len(lists[k]) <= b \/ Len(lists[k]) = last
    BY <2>1, <2>5
  <2> HIDE DEF last
  <2>7. b + last \in Nat /\ b <= b + last /\ last <= b + last
    BY <2>4
  <2>8. \A k \in 1 .. m + 1 : Len(lists[k]) <= b + last
    BY <2>2, <2>4, <2>6, <2>7
  <2> QED  BY <2>7, <2>8
<1> HIDE DEF S
<1>3. n \in S
  BY <1>1, <1>2, NumbersByInduction
<1> QED  BY <1>3 DEF S

(* The lists of the placeholders of a template. *)
ListsFor(t, lists) ==
  DOMAIN t.ph = 1 .. Len(t.ph) /\ Len(t.ph) \in Nat /\ \A n \in DOMAIN t.ph : IsList(lists[n])

LEMMA NumValuesIs ==
  ASSUME NEW t, NEW lists, ListsFor(t, lists)
  PROVE  NumValues(t, lists) \in Nat \ {0}
<1> DEFINE L == {n \in DOMAIN t.ph : t.ph[n].type # "join"}
           S == {1} \cup {Len(lists[n]) : n \in L}
<1>1. L \subseteq 1 .. Len(t.ph) /\ \A n \in 1 .. Len(t.ph) : IsList(lists[n])
  BY DEF ListsFor
<1>2. PICK b \in Nat : \A n \in 1 .. Len(t.ph) : Len(lists[n]) <= b
  BY <1>1, LengthsBounded DEF ListsFor
<1>3. \A n \in L : Len(lists[n]) \in 0 .. b
  BY <1>1, <1>2, ListFacts
<1>4. NumValues(t, lists) = Max(S)
  BY DEF NumValues
<1> HIDE DEF L
<1>5. S \in SUBSET (0 .. b + 1) /\ 1 \in S /\ b + 1 \in Nat
  BY <1>3
<1> HIDE DEF S
<1> DEFINE n == Max(S)
<1>6. n \in S /\ 1 <= n
  BY <1>5, MaxIs
<1> HIDE DEF n
<1>7. n \in Nat \ {0}
  BY <1>5, <1>6
<1> QED  BY <1>4, <1>7 DEF n

LEMMA BuildValuesAre ==
  ASSUME NEW t, NEW lists, ListsFor(t, lists)
  PROVE  /\ IsList(BuildValues(t, lists)) /\ BuildValues(t, lists) # <<>>
<1> DEFINE n == NumValues(t, lists)
           v == BuildValues(t, lists)
<1>1. n \in Nat \ {0}
  BY NumValuesIs
<1>2. v = [i \in 1 .. n |->
             Text(t, [k \in DOMAIN t.ph |-> CopyPlaceholderValue(t.ph[k], lists[k], i)])]
  BY DEF BuildValues
<1> HIDE DEF n, v
<1>3. v = [i \in 1 .. n |-> v[i]]
  BY <1>2
<1>4. IsList(v) /\ Len(v) = n
  BY <1>1, <1>3, ListIs
<1>5. v # <<>>
  BY <1>1, <1>4, EmptySeq
<1> QED  BY <1>4, <1>5 DEF v
-----------------------------------------------------------------------------
(* The values of a conditional are stored. *)
Stores(p, g) ==
  /\ IsCond(Top.id, Top.ph) /\ p = Ph(Top.id, Top.ph) /\ Conditional(p, Top.id.name)
  /\ AllAsked(p) /\ Top.asked # 0
  /\ g \in Frames /\ g.id = Top.id /\ g.ph = Top.ph + 1 /\ g.asked = 0
  /\ evaluated' = evaluated \cup {p.tpl} /\ times' = times
  /\ vals'[p.tpl] = Stored(p) /\ \A id \in DOMAIN tpl : id # p.tpl => vals'[id] = vals[id]
  /\ DOMAIN stack' = DOMAIN stack /\ stack'[Len(stack)] = g
  /\ \A k \in DOMAIN stack : k # Len(stack) => stack'[k] = stack[k]
  /\ UNCHANGED <<tpl, result, given, calls>>

LEMMA StoreIs ==
  ASSUME TopRight, Top.ph \in DOMAIN Body.ph, StoreValues(Body.ph[Top.ph], Top.asked),
         UNCHANGED <<tpl, given, calls>>
  PROVE  (\E p, g : Stores(p, g)) /\ MemoryTyped' /\ StackTyped' /\ stack' # <<>>
<1> PICK p : p = Ph(Top.id, Top.ph)
  OBVIOUS
<1> DEFINE f == Top
           h == [f EXCEPT !.ph = f.ph + 1]
           g == [h EXCEPT !.asked = 0]
<1>1. /\ Top \in Frames /\ MemoryTyped /\ Body.ph[Top.ph] = p
      /\ IsCond(Top.id, Top.ph) /\ Asked(p) # <<>>
      /\ FrameAsked(Top, p) /\ Top.asked = NumBranches(p, Asked(p)) + 1
  BY TopPlaceholder DEF TopRight, Typed, StoreValues, AskedBranch
<1>2. Conditional(p, Top.id.name)
  BY <1>1, ConditionalIs DEF TopRight
<1>3. /\ IsList(Asked(p)) /\ NumBranches(p, Asked(p)) \in Nat \ {0}
  BY <1>1, <1>2, AskedIs DEF Conditional
<1>4. AllAsked(p)
  BY <1>1, <1>3 DEF FrameAsked, BranchesAsked, AllAsked
<1>5. /\ vals' = [vals EXCEPT ![p.tpl] = Stored(p)]
      /\ evaluated' = evaluated \cup {p.tpl} /\ times' = times /\ result' = result
      /\ stack' = GoOn(g)
  BY <1>1 DEF StoreValues, Stored, NextPlaceholder
<1>6. f \in Frames
  BY <1>1
<1> HIDE DEF f
<1>7. g \in Frames /\ g.id = f.id /\ g.ph = f.ph + 1 /\ g.asked = 0
  <2>1. h \in Frames /\ h.id = f.id /\ h.ph = f.ph + 1
    BY <1>6 DEF Frames
  <2> HIDE DEF h
  <2> QED  BY <2>1 DEF Frames
<1> HIDE DEF g
<1>8. /\ GoOn(g) \in Seq(Frames) /\ Len(GoOn(g)) = Len(stack)
      /\ \A k \in 1 .. Len(stack) - 1 : GoOn(g)[k] = stack[k]
      /\ GoOn(g)[Len(stack)] = g
  BY <1>7, GoOnIs
<1>9. DOMAIN stack' = DOMAIN stack /\ stack' # <<>>
  <2>1. DOMAIN stack' = 1 .. Len(stack)
    BY <1>5, <1>8, LenProperties
  <2> QED  BY <2>1, EmptySeq DEF TopRight
<1>10. \A k \in DOMAIN stack : k = Len(stack) \/ k \in 1 .. Len(stack) - 1
  BY DEF TopRight
<1>11. Stores(p, g)
  <2>1. p.tpl \in DOMAIN tpl /\ DOMAIN vals = DOMAIN tpl
    BY <1>1, <1>2 DEF Conditional, MemoryTyped, Lists
  <2>2. vals'[p.tpl] = Stored(p) /\ \A id \in DOMAIN tpl : id # p.tpl => vals'[id] = vals[id]
    BY <1>5, <2>1
  <2>3. Top.asked # 0
    BY <1>1, <1>3
  <2>4. \A k \in DOMAIN stack : k # Len(stack) => stack'[k] = stack[k]
    BY <1>5, <1>8, <1>10
  <2> QED  BY <1>1, <1>2, <1>4, <1>5, <1>7, <1>8, <1>9, <2>2, <2>3, <2>4 DEF Stores, f
<1>12. MemoryTyped'
  <2>1. \A id \in DOMAIN tpl : IsList(vals[id])
    BY <1>1 DEF MemoryTyped, Lists
  <2>2. IsList(Stored(p))
    <3>1. CASE p.is_concat = TRUE
      <4>1. Branch(p, Asked(p), 1) \in DOMAIN tpl
        BY <1>2, BranchIs
      <4> QED  BY <2>1, <3>1, <4>1 DEF Stored
    <3>2. CASE p.is_concat = FALSE
      <4>1. IsList(vals[p.tpl_then]) /\ IsList(vals[p.tpl_else])
        BY <1>2, <2>1 DEF Conditional
      <4> QED  BY <1>3, <3>2, <4>1, ConditionalValuesAre DEF Stored
    <3> QED  BY <1>2, <3>1, <3>2 DEF Conditional
  <2>3. p.tpl \in DOMAIN tpl
    BY <1>2 DEF Conditional
  <2>4. vals = [id \in DOMAIN tpl |-> vals[id]]
    BY <1>1 DEF MemoryTyped, Lists
  <2> DEFINE v == Stored(p)
  <2> HIDE DEF v
  <2>5. vals' = [id \in DOMAIN tpl |-> IF id = p.tpl THEN v ELSE vals[id]]
    BY <1>5, <2>4 DEF v
  <2>6. Lists(vals', DOMAIN tpl)
    BY <2>1, <2>2, <2>5 DEF Lists, v
  <2> QED  BY <1>1, <1>5, <2>3, <2>6 DEF MemoryTyped, Lists
<1>13. StackTyped'
  <2>1. /\ \A k \in DOMAIN stack : FrameOK(stack[k])
        /\ DOMAIN tpl[Top.id].ph = 1 .. Len(tpl[Top.id].ph) /\ Len(tpl[Top.id].ph) \in Nat
        /\ Top.ph \in DOMAIN tpl[Top.id].ph /\ Top = stack[Len(stack)] /\ Len(stack) \in DOMAIN stack
    BY <1>1, PlaceholdersAre DEF TopRight, IsCond, Top
  <2>2. FrameOK(g)
    BY <1>7, <2>1 DEF FrameOK, f
  <2>3. \A k \in DOMAIN stack' : FrameOK(stack'[k])
    BY <1>5, <1>8, <1>9, <1>10, <2>1, <2>2
  <2>4. stack' \in Seq(Frames)
    BY <1>5, <1>8
  <2> QED  BY <2>3, <2>4 DEF StackTyped, Frames, FrameOK, IsCond, Ph
<1> QED  BY <1>9, <1>11, <1>12, <1>13

LEMMA StoreAhead ==
  ASSUME TopRight, NEW p, NEW g, Stores(p, g),
         NEW id \in DOMAIN tpl, NEW n \in DOMAIN tpl[id].ph
  PROVE  /\ Ahead(id, n)' <=> Ahead(id, n)
         /\ Passed(id, n)' => Passed(id, n) \/ (id = Top.id /\ n = Top.ph)
<1>1. /\ times' = times /\ DOMAIN stack' = DOMAIN stack /\ stack'[Len(stack)] = g
      /\ \A k \in DOMAIN stack : k # Len(stack) => stack'[k] = stack[k]
      /\ g.id = Top.id /\ g.ph = Top.ph + 1 /\ g.asked = 0 /\ Top.asked # 0
      /\ Top = stack[Len(stack)] /\ Top.ph \in Nat /\ n \in Nat
  BY PlaceholdersAre DEF Stores, Top, TopRight, Frames
<1>2. /\ Before(g, id, n) <=> Before(Top, id, n)
      /\ Beyond(g, id, n) => Beyond(Top, id, n) \/ (id = Top.id /\ n = Top.ph)
  BY <1>1 DEF Before, Beyond
<1>3. \A k \in DOMAIN stack : Before(stack'[k], id, n) <=> Before(stack[k], id, n)
  BY <1>1, <1>2
<1>4. Ahead(id, n)' <=> Ahead(id, n)
  BY <1>1, <1>3 DEF Ahead, Before
<1>5. Passed(id, n)' => Passed(id, n) \/ (id = Top.id /\ n = Top.ph)
  BY <1>1, <1>2 DEF Passed, Beyond
<1> QED  BY <1>4, <1>5

LEMMA StoreKeeps ==
  ASSUME TopRight, NEW p, NEW g, Stores(p, g)
  PROVE  /\ p.tpl \in DOMAIN tpl /\ times[p.tpl] = 0 /\ ~Own(p.tpl) /\ tpl[p.tpl] = Parameter
         /\ \A id \in DOMAIN tpl : times[id] = 1 \/ Own(id) => id # p.tpl /\ vals'[id] = vals[id]
         /\ \A k \in DOMAIN stack : stack'[k].id = stack[k].id
         /\ \A id \in DOMAIN tpl : OnStack(id)' <=> OnStack(id)
<1>1. p.tpl \in DOMAIN tpl /\ ~Own(p.tpl) /\ tpl[p.tpl] = Parameter /\ p.tpl \in Parts(p)
  BY DEF Stores, Conditional
<1>2. PartMarked(Top.id, Top.ph, p.tpl)
  BY <1>1 DEF Stores, TopRight, EvInv, MarksRight, BranchesMarked, IsCond
<1>3. times[p.tpl] = 0
  BY <1>2 DEF PartMarked, Stores
<1>4. \A k \in DOMAIN stack : stack'[k].id = stack[k].id
  BY DEF Stores, Top
<1>5. \A id \in DOMAIN tpl : OnStack(id)' <=> OnStack(id)
  BY <1>4 DEF OnStack, Stores
<1> QED  BY <1>1, <1>3, <1>4, <1>5 DEF Stores

LEMMA StoreMarks ==
  ASSUME TopRight, NEW p, NEW g, Stores(p, g)
  PROVE  MarksRight' /\ StackRight'
<1>1. /\ MarkedRight /\ BranchesMarked /\ StackMarked /\ Chain /\ IsGroup(tpl) /\ tpl' = tpl
      /\ times' = times /\ evaluated' = evaluated \cup {p.tpl} /\ DOMAIN stack' = DOMAIN stack
      /\ \A k \in DOMAIN stack : k # Len(stack) => stack'[k] = stack[k]
      /\ DOMAIN stack = 1 .. Len(stack) /\ Len(stack) \in Nat
      /\ IsCond(Top.id, Top.ph) /\ p = Ph(Top.id, Top.ph) /\ Top.id \in DOMAIN tpl
      /\ p.tpl \in Parts(p)
  BY DEF TopRight, EvInv, MarksRight, StackRight, Stores, Conditional
<1>2. /\ ~Own(p.tpl) /\ times[p.tpl] = 0
      /\ \A k \in DOMAIN stack : stack'[k].id = stack[k].id
  BY StoreKeeps
<1>3. MarkedRight'
  BY <1>1, <1>2 DEF MarkedRight, Own
<1>4. BranchesMarked'
  <2> SUFFICES ASSUME NEW id \in DOMAIN tpl, NEW n \in DOMAIN tpl[id].ph, IsCond(id, n),
                      NEW part \in Parts(Ph(id, n))
               PROVE  PartMarked(id, n, part)'
    BY <1>1 DEF BranchesMarked, IsCond, Ph
  <2>1. PartMarked(id, n, part)
    BY <1>1 DEF BranchesMarked
  <2>2. Ahead(id, n)' <=> Ahead(id, n)
    BY StoreAhead
  <2>3. part = p.tpl => part = Ph(id, n).tpl
    <3> SUFFICES ASSUME part = p.tpl  PROVE part = Ph(id, n).tpl
      OBVIOUS
    <3>1. id = Top.id /\ n = Top.ph
      BY <1>1, SamePart
    <3> QED  BY <1>1, <3>1
  <2> QED  BY <1>1, <2>1, <2>2, <2>3 DEF PartMarked, Ph
<1>5. StackMarked'
  BY <1>1, <1>2 DEF StackMarked
<1>6. Chain'
  <2>5. tpl' = tpl /\ DOMAIN stack' = DOMAIN stack
    BY <1>1
  <2>6. \A f, id : CalledBy(f, id)' <=> CalledBy(f, id)
    BY <2>5 DEF CalledBy, BranchCalled, OwnCalled, IsCond, Ph, References
  <2> SUFFICES ASSUME NEW k \in DOMAIN stack
               PROVE  IF k = 1 THEN Own(stack'[k].id) ELSE CalledBy(stack'[k - 1], stack'[k].id)
    BY <2>5, <2>6 DEF Chain
  <2>1. k # 1 => k - 1 \in DOMAIN stack /\ k - 1 # Len(stack)
    BY <1>1
  <2>2. stack'[k].id = stack[k].id
    BY <1>2
  <2>3. CASE k = 1
    BY <1>1, <2>2, <2>3 DEF Chain
  <2>4. CASE k # 1
    <3>1. stack'[k - 1] = stack[k - 1]
      BY <1>1, <2>1, <2>4
    <3>2. CalledBy(stack[k - 1], stack[k].id)
      BY <1>1, <2>4 DEF Chain
    <3> QED  BY <2>2, <2>4, <3>1, <3>2
  <2> QED  BY <2>3, <2>4
<1> QED  BY <1>3, <1>4, <1>5, <1>6 DEF MarksRight, StackRight

LEMMA StoreConditionals ==
  ASSUME TopRight, NEW p, NEW g, Stores(p, g)
  PROVE  ConditionalsStored' /\ PlainEvaluated'
<1>1. /\ tpl' = tpl /\ IsGroup(tpl) /\ ConditionalsStored /\ PlainEvaluated /\ times' = times
      /\ Top.id \in DOMAIN tpl /\ evaluated' = evaluated \cup {p.tpl}
      /\ IsCond(Top.id, Top.ph) /\ p = Ph(Top.id, Top.ph) /\ p.tpl \in Parts(p)
      /\ Conditional(p, Top.id.name) /\ AllAsked(p)
      /\ vals'[p.tpl] = Stored(p) /\ \A id \in DOMAIN tpl : id # p.tpl => vals'[id] = vals[id]
      /\ ~Passed(Top.id, Top.ph)
  <2>1. ~Passed(Top.id, Top.ph)
    BY TopAhead DEF TopRight, Frames
  <2> QED  BY <2>1 DEF TopRight, EvInv, ValuesRight, Stores, Conditional
<1>2. ASSUME NEW q, NEW name, Conditional(q, name), AllAsked(q),
             p.tpl # q.tpl_then, p.tpl # q.tpl_else
      PROVE  AllAsked(q)' /\ Stored(q)' = Stored(q)
  <2>1. /\ vals'[q.tpl_cond] = vals[q.tpl_cond] /\ vals'[q.tpl_then] = vals[q.tpl_then]
        /\ vals'[q.tpl_else] = vals[q.tpl_else]
    BY <1>2, StoreKeeps DEF Conditional, Stores
  <2>2. Asked(q)' = Asked(q)
    BY <2>1 DEF Asked
  <2>3. AllAsked(q)'
    BY <1>1, <1>2, <2>2 DEF AllAsked
  <2>4. vals'[Branch(q, Asked(q), 1)] = vals[Branch(q, Asked(q), 1)]
    BY <1>2, <2>1, BranchIs
  <2>5. Stored(q)' = Stored(q)
    BY <2>1, <2>2, <2>4 DEF Stored
  <2> QED  BY <2>3, <2>5
<1>3. ASSUME NEW id \in DOMAIN tpl, NEW n \in DOMAIN tpl[id].ph, IsCond(id, n), Passed(id, n)',
             NEW q, q = Ph(id, n)
      PROVE  (AllAsked(q) /\ q.tpl \in evaluated /\ vals[q.tpl] = Stored(q))'
  <2>1. Conditional(q, id.name)
    BY <1>1, <1>3, ConditionalIs
  <2>2. CASE id = Top.id /\ n = Top.ph
    <3>1. q = p
      BY <1>1, <1>3, <2>2
    <3>2. AllAsked(q) /\ p.tpl # q.tpl_then /\ p.tpl # q.tpl_else
      BY <1>1, <3>1 DEF Conditional
    <3> QED  BY <1>1, <1>2, <2>1, <3>1, <3>2
  <2>3. CASE ~(id = Top.id /\ n = Top.ph)
    <3>1. Passed(id, n)
      BY <1>3, <2>3, StoreAhead
    <3>2. AllAsked(q) /\ q.tpl \in evaluated /\ vals[q.tpl] = Stored(q)
      BY <1>1, <1>3, <3>1 DEF ConditionalsStored
    <3>3. \A part \in Parts(q) : part # p.tpl
      BY <1>1, <1>3, <2>3, SamePart
    <3>4. p.tpl # q.tpl /\ p.tpl # q.tpl_then /\ p.tpl # q.tpl_else /\ q.tpl \in DOMAIN tpl
      BY <2>1, <3>3 DEF Conditional
    <3> QED  BY <1>1, <1>2, <2>1, <3>2, <3>4
  <2> QED  BY <2>2, <2>3
<1>4. ConditionalsStored'
  <2> SUFFICES ASSUME NEW id \in DOMAIN tpl, NEW n \in DOMAIN tpl[id].ph,
                      IsCond(id, n), Passed(id, n)'
               PROVE  (AllAsked(Ph(id, n)) /\ Ph(id, n).tpl \in evaluated
                         /\ vals[Ph(id, n).tpl] = Stored(Ph(id, n)))'
    BY <1>1 DEF ConditionalsStored, IsCond, Ph
  <2> PICK q : q = Ph(id, n)
    OBVIOUS
  <2>1. Ph(id, n)' = q
    BY <1>1 DEF Ph
  <2>2. (AllAsked(q) /\ q.tpl \in evaluated /\ vals[q.tpl] = Stored(q))'
    BY <1>3
  <2> QED  BY <2>1, <2>2 DEF AllAsked, Stored, Asked
<1>5. PlainEvaluated'
  <2> SUFFICES ASSUME NEW id \in DOMAIN tpl, NEW n \in DOMAIN tpl[id].ph,
                      IsPlain(id, n), Passed(id, n)'
               PROVE  times[Ph(id, n).tpl] = 1
    BY <1>1 DEF PlainEvaluated, IsPlain, Ph
  <2>1. ~(id = Top.id /\ n = Top.ph)
    BY <1>1 DEF IsPlain, IsCond
  <2>2. Passed(id, n)
    BY <2>1, StoreAhead
  <2> QED  BY <1>1, <2>2 DEF PlainEvaluated
<1> QED  BY <1>4, <1>5

LEMMA StoreValuesRight ==
  ASSUME TopRight, NEW p, NEW g, Stores(p, g)
  PROVE  ValuesRight'
<1>1. /\ tpl' = tpl /\ IsGroup(tpl) /\ ValuesThere /\ ConditionAsked /\ times' = times
      /\ DOMAIN stack' = DOMAIN stack /\ stack'[Len(stack)] = g /\ g.asked = 0
      /\ \A k \in DOMAIN stack : k # Len(stack) => stack'[k] = stack[k]
      /\ \A k \in DOMAIN stack : FrameOK(stack[k]) /\ stack[k] \in Frames
  BY DEF TopRight, EvInv, ValuesRight, Stores
<1>2. ValuesThere'
  BY <1>1, StoreKeeps DEF ValuesThere
<1>3. ConditionAsked'
  <2> SUFFICES ASSUME NEW k \in DOMAIN stack
               PROVE  FrameAsked(stack[k], Ph(stack[k].id, stack[k].ph))'
    BY <1>1 DEF ConditionAsked
  <2>1. CASE k = Len(stack)
    BY <1>1, <2>1 DEF FrameAsked
  <2>2. CASE k # Len(stack)
    <3> PICK f : f = stack[k]
      OBVIOUS
    <3> PICK q : q = Ph(f.id, f.ph)
      OBVIOUS
    <3>1. f = stack'[k] /\ Ph(f.id, f.ph)' = q /\ FrameAsked(f, q) /\ FrameOK(f) /\ f \in Frames
      BY <1>1, <2>2 DEF Ph, ConditionAsked
    <3>2. FrameAsked(f, q)'
      <4>1. CASE f.asked > 0
        <5>1. Conditional(q, f.id.name)
          BY <1>1, <3>1, <4>1, ConditionalIs DEF FrameOK, Frames
        <5>2. vals'[q.tpl_cond] = vals[q.tpl_cond]
          BY <5>1, StoreKeeps DEF Conditional
        <5>3. Asked(q)' = Asked(q)
          BY <5>2 DEF Asked
        <5> QED  BY <1>1, <3>1, <5>3 DEF FrameAsked, BranchesAsked
      <4>2. CASE f.asked = 0
        BY <4>2 DEF FrameAsked
      <4> QED  BY <3>1, <4>1, <4>2 DEF Frames
    <3> QED  BY <3>1, <3>2 DEF FrameAsked, BranchesAsked, Asked, Ph
  <2> QED  BY <2>1, <2>2
<1> QED  BY <1>2, <1>3, StoreConditionals DEF ValuesRight

LEMMA StoreFinished ==
  ASSUME TopRight, NEW p, NEW g, Stores(p, g), ~Recursion
  PROVE  PlainFinished' /\ Built'
<1>1. /\ tpl' = tpl /\ IsGroup(tpl) /\ PlainFinished /\ Built /\ times' = times
      /\ DOMAIN stack' = DOMAIN stack /\ DOMAIN stack = 1 .. Len(stack) /\ Len(stack) \in DOMAIN stack
      /\ Top.id \in DOMAIN tpl /\ Top = stack[Len(stack)]
      /\ IsCond(Top.id, Top.ph) /\ p = Ph(Top.id, Top.ph) /\ p.tpl \in Parts(p)
      /\ \A id \in DOMAIN tpl : id # p.tpl => vals'[id] = vals[id]
  BY DEF TopRight, EvInv, Stores, Top, Conditional
<1>2. /\ \A k \in DOMAIN stack : stack'[k].id = stack[k].id
      /\ \A id \in DOMAIN tpl : OnStack(id)' <=> OnStack(id)
      /\ tpl[p.tpl] = Parameter /\ ~Own(p.tpl)
  BY StoreKeeps
<1>3. PlainFinished'
  <2> SUFFICES ASSUME NEW id \in DOMAIN tpl, NEW n \in DOMAIN tpl[id].ph,
                      IsPlain(id, n), Passed(id, n)',
                      NEW j \in DOMAIN stack', stack'[j].id = Ph(id, n).tpl
               PROVE  j > 1 /\ stack'[j - 1].id = id
    BY <1>1 DEF PlainFinished, IsPlain, Ph, BegunBy
  <2>1. ~(id = Top.id /\ n = Top.ph)
    BY <1>1 DEF IsPlain, IsCond
  <2>2. Passed(id, n)
    BY <2>1, StoreAhead
  <2>3. BegunBy(Ph(id, n).tpl, id)
    BY <1>1, <2>2 DEF PlainFinished
  <2>4. j > 1 /\ stack[j - 1].id = id
    BY <1>1, <1>2, <2>3 DEF BegunBy
  <2>5. j - 1 \in DOMAIN stack
    BY <1>1, <2>4
  <2> QED  BY <1>2, <2>4, <2>5
<1>4. Built'
  <2> SUFFICES ASSUME NEW id \in DOMAIN tpl, times[id] = 1, ~OnStack(id), tpl[id] # Parameter
               PROVE  vals'[id] = BuildValues(tpl[id], ListsOf(id)')
    BY <1>1, <1>2 DEF Built
  <2>1. vals[id] = BuildValues(tpl[id], ListsOf(id)) /\ vals'[id] = vals[id]
    BY <1>1, <1>2 DEF Built
  <2>2. ASSUME NEW n \in DOMAIN tpl[id].ph
        PROVE  vals'[Ph(id, n).tpl] = vals[Ph(id, n).tpl]
    <3>1. CASE IsPlain(id, n)
      BY <1>1, <1>2, <3>1, PlainIs
    <3>2. CASE IsCond(id, n)
      <4>1. Ph(id, n).tpl \in Parts(Ph(id, n)) /\ Ph(id, n).tpl \in DOMAIN tpl
        BY <1>1, <3>2, ConditionalIs DEF Conditional
      <4>2. id # Top.id
        BY <1>1 DEF OnStack
      <4>3. Ph(id, n).tpl # p.tpl
        BY <1>1, <3>2, <4>1, <4>2, SamePart
      <4> QED  BY <1>1, <4>1, <4>3
    <3> QED  BY <3>1, <3>2 DEF IsPlain, IsCond
  <2>3. ListsOf(id)' = ListsOf(id)
    BY <1>1, <2>2 DEF ListsOf, Ph
  <2> QED  BY <2>1, <2>3
<1> QED  BY <1>3, <1>4

LEMMA StoreInvariant ==
  ASSUME IInv, Running, Top.ph \in DOMAIN Body.ph, StoreValues(Body.ph[Top.ph], Top.asked),
         UNCHANGED <<tpl, given, calls>>
  PROVE  IInv'
<1>1. TopRight
  BY TopIs
<1>2. MemoryTyped' /\ StackTyped' /\ stack' # <<>>
  BY <1>1, StoreIs
<1>3. PICK p, g : Stores(p, g)
  BY <1>1, StoreIs
<1>4. /\ tpl' = tpl /\ tpl # None /\ given' = given /\ result' = result /\ result = Nothing
      /\ Typed /\ EvInv /\ GivenRight /\ ResultRight /\ times' = times
  BY <1>1, <1>3 DEF TopRight, Stores, IInv
<1>5. Typed'
  <2>1. GivenTyped'
    BY <1>4 DEF Typed, GivenTyped, Lists
  <2> QED  BY <1>2, <1>4, <2>1 DEF Typed
<1>6. EvInv'
  <2>1. MarksRight' /\ StackRight' /\ ValuesRight' /\ times'[Named(Main)] = 1
    BY <1>1, <1>3, <1>4, StoreMarks, StoreValuesRight DEF EvInv
  <2>2. Recursion' <=> Recursion
    BY <1>4 DEF Recursion, References, Reference, OwnNames
  <2>3. ~Recursion => PlainFinished' /\ Built'
    BY <1>1, <1>3, StoreFinished
  <2> QED  BY <2>1, <2>2, <2>3 DEF EvInv
<1>7. GivenRight'
  <2>1. \A id \in DOMAIN tpl : Own(id) => vals'[id] = vals[id]
    BY <1>1, <1>3, StoreKeeps
  <2> QED  BY <1>2, <1>4, <2>1 DEF GivenRight
<1>8. ResultRight'
  BY <1>4 DEF ResultRight, Nothing, Failed, Done
<1> QED  BY <1>4, <1>5, <1>6, <1>7, <1>8 DEF IInv
-----------------------------------------------------------------------------
(* A template returns. *)
Returns ==
  /\ Top.ph = Len(tpl[Top.id].ph) + 1
  /\ vals'[Top.id] = BuildValues(tpl[Top.id], ListsOf(Top.id))
  /\ \A id \in DOMAIN tpl : id # Top.id => vals'[id] = vals[id]
  /\ DOMAIN stack' = 1 .. Len(stack) - 1 /\ \A k \in 1 .. Len(stack) - 1 : stack'[k] = stack[k]
  /\ UNCHANGED <<tpl, evaluated, times, given, calls>>

LEMMA ListsOfAre ==
  ASSUME TopRight, NEW id \in DOMAIN tpl
  PROVE  ListsFor(tpl[id], ListsOf(id))
<1>1. /\ Len(tpl[id].ph) \in Nat /\ DOMAIN tpl[id].ph = 1 .. Len(tpl[id].ph)
      /\ \A i \in DOMAIN tpl : IsList(vals[i])
  BY PlaceholdersAre DEF TopRight, Typed, MemoryTyped, Lists
<1>2. \A n \in DOMAIN tpl[id].ph : Ph(id, n).tpl \in DOMAIN tpl
  BY PlainIs, ConditionalIs DEF TopRight, IsPlain, IsCond, Conditional
<1> QED  BY <1>1, <1>2 DEF ListsFor, ListsOf

LEMMA ReturnIs ==
  ASSUME TopRight, ReturnTemplate, UNCHANGED <<tpl, given, calls>>
  PROVE  Returns /\ MemoryTyped' /\ StackTyped' /\ vals'[Top.id] # <<>>
<1> PICK id : id = Top.id
  OBVIOUS
<1>1. /\ id \in DOMAIN tpl /\ MemoryTyped /\ stack \in Seq(Frames) /\ stack # <<>>
      /\ Len(stack) \in Nat \ {0} /\ DOMAIN stack = 1 .. Len(stack)
      /\ \A k \in DOMAIN stack : FrameOK(stack[k])
  BY EmptySeq DEF TopRight, Typed
<1>2. ListsOf(id) = [n \in DOMAIN Body.ph |-> vals[Body.ph[n].tpl]] /\ Body = tpl[id]
  BY DEF ListsOf, Ph, Body
<1>3. /\ vals' = [vals EXCEPT ![id] = BuildValues(tpl[id], ListsOf(id))]
      /\ stack' = Front(stack) /\ evaluated' = evaluated /\ times' = times
      /\ Top.ph = Len(tpl[id].ph) + 1
  BY <1>2 DEF ReturnTemplate
<1> DEFINE v == BuildValues(tpl[id], ListsOf(id))
<1>4. IsList(v) /\ v # <<>>
  BY <1>1, ListsOfAre, BuildValuesAre
<1> HIDE DEF v
<1>5. vals = [i \in DOMAIN tpl |-> vals[i]] /\ \A i \in DOMAIN tpl : IsList(vals[i])
  BY <1>1 DEF MemoryTyped, Lists
<1>6. vals' = [i \in DOMAIN tpl |-> IF i = id THEN v ELSE vals[i]]
  BY <1>3, <1>5 DEF v
<1>7. stack' \in Seq(Frames) /\ DOMAIN stack' = 1 .. Len(stack) - 1
      /\ \A k \in 1 .. Len(stack) - 1 : stack'[k] = stack[k]
  BY <1>1, <1>3, FrontIs
<1>8. MemoryTyped'
  <2>1. Lists(vals', DOMAIN tpl)
    BY <1>4, <1>5, <1>6 DEF Lists
  <2> QED  BY <1>1, <1>3, <2>1 DEF MemoryTyped, Lists
<1>9. StackTyped'
  <2>1. \A k \in DOMAIN stack' : FrameOK(stack'[k])
    BY <1>1, <1>7
  <2> QED  BY <1>7, <2>1 DEF StackTyped, Frames, FrameOK, IsCond, Ph
<1>10. Returns
  BY <1>1, <1>3, <1>6, <1>7 DEF Returns, v
<1> QED  BY <1>1, <1>4, <1>6, <1>8, <1>9, <1>10

(* The calls that are left, and the position of the evaluation in each     *)
(* template.                                                               *)
LEMMA ReturnStack ==
  ASSUME TopRight, Returns
  PROVE  /\ \A k \in DOMAIN stack' : k \in DOMAIN stack /\ k # Len(stack) /\ stack'[k] = stack[k]
                                     /\ stack[k].id # Top.id
         /\ \A k \in DOMAIN stack : k = Len(stack) \/ k \in DOMAIN stack'
         /\ \A id \in DOMAIN tpl : OnStack(id)' <=> OnStack(id) /\ id # Top.id
         /\ vals[Top.id] = <<>>
<1>1. /\ DOMAIN stack = 1 .. Len(stack) /\ Len(stack) \in Nat \ {0} /\ StackMarked
      /\ DOMAIN stack' = 1 .. Len(stack) - 1 /\ \A k \in 1 .. Len(stack) - 1 : stack'[k] = stack[k]
      /\ Top = stack[Len(stack)] /\ Top.id \in DOMAIN tpl /\ ValuesThere
  BY DEF TopRight, EvInv, StackRight, ValuesRight, Returns, Top
<1>2. /\ \A k \in 1 .. Len(stack) - 1 : k \in DOMAIN stack /\ k # Len(stack)
      /\ \A k \in DOMAIN stack : k = Len(stack) \/ k \in 1 .. Len(stack) - 1
      /\ Len(stack) \in DOMAIN stack
  <2> DEFINE n == Len(stack)
  <2>1. n \in Nat \ {0} /\ DOMAIN stack = 1 .. n
    BY <1>1
  <2> HIDE DEF n
  <2>2. /\ \A k \in 1 .. n - 1 : k \in 1 .. n /\ k # n
        /\ \A k \in 1 .. n : k = n \/ k \in 1 .. n - 1
        /\ n \in 1 .. n
    BY <2>1
  <2> QED  BY <2>1, <2>2 DEF n
<1>3. \A k \in DOMAIN stack' : k \in DOMAIN stack /\ k # Len(stack) /\ stack'[k] = stack[k]
                               /\ stack[k].id # Top.id
  BY <1>1, <1>2 DEF StackMarked
<1>4. \A id \in DOMAIN tpl : OnStack(id)' <=> OnStack(id) /\ id # Top.id
  BY <1>1, <1>2, <1>3 DEF OnStack
<1>5. vals[Top.id] = <<>>
  BY <1>1, <1>2 DEF ValuesThere, StackMarked, OnStack
<1> QED  BY <1>1, <1>2, <1>3, <1>4, <1>5

LEMMA ReturnAhead ==
  ASSUME TopRight, Returns, NEW id \in DOMAIN tpl, NEW n \in DOMAIN tpl[id].ph
  PROVE  /\ Ahead(id, n)' <=> Ahead(id, n)
         /\ Passed(id, n)' <=> Passed(id, n)
<1>1. /\ times' = times /\ Top = stack[Len(stack)] /\ Len(stack) \in DOMAIN stack
      /\ Top.ph = Len(tpl[Top.id].ph) + 1 /\ Len(tpl[Top.id].ph) \in Nat
      /\ n \in 1 .. Len(tpl[id].ph)
  BY PlaceholdersAre DEF Returns, Top, TopRight
<1>2. /\ \A k \in DOMAIN stack' : k \in DOMAIN stack /\ stack'[k] = stack[k]
      /\ \A k \in DOMAIN stack : k = Len(stack) \/ k \in DOMAIN stack'
  BY ReturnStack
<1>3. ~Before(Top, id, n) /\ Beyond(Top, id, n)
  BY <1>1 DEF Before, Beyond
<1>4. Ahead(id, n)' <=> Ahead(id, n)
  BY <1>1, <1>2, <1>3 DEF Ahead, Before
<1>5. Passed(id, n)' <=> Passed(id, n)
  BY <1>1, <1>2, <1>3 DEF Passed, Beyond
<1> QED  BY <1>4, <1>5

LEMMA ReturnMarks ==
  ASSUME TopRight, Returns
  PROVE  MarksRight' /\ StackRight'
<1>1. /\ MarkedRight /\ BranchesMarked /\ StackMarked /\ Chain /\ tpl' = tpl
      /\ times' = times /\ evaluated' = evaluated
      /\ DOMAIN stack' = 1 .. Len(stack) - 1 /\ Len(stack) \in Nat
  BY DEF TopRight, EvInv, MarksRight, StackRight, Returns
<1>2. \A k \in DOMAIN stack' : k \in DOMAIN stack /\ stack'[k] = stack[k]
  BY ReturnStack
<1>3. MarkedRight'
  BY <1>1 DEF MarkedRight, Own
<1>4. BranchesMarked'
  <2> SUFFICES ASSUME NEW id \in DOMAIN tpl, NEW n \in DOMAIN tpl[id].ph, IsCond(id, n),
                      NEW part \in Parts(Ph(id, n))
               PROVE  PartMarked(id, n, part)'
    BY <1>1 DEF BranchesMarked, IsCond, Ph
  <2>1. PartMarked(id, n, part)
    BY <1>1 DEF BranchesMarked
  <2>2. Ahead(id, n)' <=> Ahead(id, n)
    BY ReturnAhead
  <2> QED  BY <1>1, <2>1, <2>2 DEF PartMarked, Ph
<1>5. StackMarked'
  BY <1>1, <1>2 DEF StackMarked
<1>6. Chain'
  <2>2. tpl' = tpl
    BY <1>1
  <2>3. \A f, id : CalledBy(f, id)' <=> CalledBy(f, id)
    BY <2>2 DEF CalledBy, BranchCalled, OwnCalled, IsCond, Ph, References
  <2> SUFFICES ASSUME NEW k \in DOMAIN stack'
               PROVE  IF k = 1 THEN Own(stack'[k].id) ELSE CalledBy(stack'[k - 1], stack'[k].id)
    BY <2>3 DEF Chain
  <2>1. k # 1 => k - 1 \in DOMAIN stack'
    BY <1>1
  <2> QED  BY <1>1, <1>2, <2>1 DEF Chain
<1> QED  BY <1>3, <1>4, <1>5, <1>6 DEF MarksRight, StackRight

(* The values of a conditional that evaluation is beyond are not those of  *)
(* the template that returns: it was not called from there.                *)
LEMMA ReturnParts ==
  ASSUME TopRight, Returns, NEW id \in DOMAIN tpl, NEW n \in DOMAIN tpl[id].ph,
         IsCond(id, n), Passed(id, n), NEW part \in Parts(Ph(id, n))
  PROVE  part \in DOMAIN tpl /\ vals'[part] = vals[part]
<1>1. /\ IsGroup(tpl) /\ Chain /\ Len(stack) \in DOMAIN stack /\ DOMAIN stack = 1 .. Len(stack)
      /\ Top = stack[Len(stack)] /\ \A k \in DOMAIN stack : stack[k].id \in DOMAIN tpl
      /\ n \in Nat /\ tpl[Top.id] # Parameter /\ Len(stack) \in Nat
  <2>1. \A k \in DOMAIN stack : stack[k].id \in DOMAIN tpl
    BY DEF TopRight, Frames
  <2>2. n \in Nat
    BY PlaceholdersAre DEF TopRight
  <2> QED  BY <2>1, <2>2, TopAhead DEF TopRight, EvInv, StackRight, Top
<1>2. Conditional(Ph(id, n), id.name)
  BY <1>1, ConditionalIs
<1>3. part \in DOMAIN tpl /\ ~Own(part)
  BY <1>2 DEF Conditional
<1>4. part # Top.id
  <2> SUFFICES ASSUME part = Top.id  PROVE FALSE
    OBVIOUS
  <2>1. Len(stack) # 1 /\ CalledBy(stack[Len(stack) - 1], part)
    BY <1>1, <1>3 DEF Chain
  <2> DEFINE f == stack[Len(stack) - 1]
  <2>2. Len(stack) - 1 \in DOMAIN stack
    BY <1>1, <2>1
  <2>3. f.id \in DOMAIN tpl /\ Beyond(f, id, n)
    BY <1>1, <2>2 DEF Passed
  <2>4. IsCond(f.id, f.ph) /\ part \in Parts(Ph(f.id, f.ph))
    BY <1>3, <2>1 DEF CalledBy, OwnCalled, BranchCalled
  <2> HIDE DEF f
  <2>5. f.id = id /\ f.ph = n
    BY <1>1, <2>3, <2>4, SamePart
  <2> QED  BY <1>1, <2>3, <2>5 DEF Beyond
<1> QED  BY <1>3, <1>4 DEF Returns

LEMMA ReturnValues ==
  ASSUME TopRight, Returns, vals'[Top.id] # <<>>
  PROVE  ValuesRight'
<1>1. /\ tpl' = tpl /\ IsGroup(tpl) /\ ValuesThere /\ ConditionAsked
      /\ ConditionalsStored /\ PlainEvaluated /\ times' = times /\ evaluated' = evaluated
      /\ Top.id \in DOMAIN tpl
      /\ \A id \in DOMAIN tpl : id # Top.id => vals'[id] = vals[id]
      /\ \A k \in DOMAIN stack : FrameOK(stack[k]) /\ stack[k] \in Frames
  BY DEF TopRight, EvInv, ValuesRight, Returns
<1>2. /\ \A k \in DOMAIN stack' : k \in DOMAIN stack /\ stack'[k] = stack[k]
      /\ \A id \in DOMAIN tpl : OnStack(id)' <=> OnStack(id) /\ id # Top.id
      /\ vals[Top.id] = <<>>
  BY ReturnStack
<1>3. ASSUME NEW q, NEW name, Conditional(q, name), Asked(q) # <<>>
      PROVE  Asked(q)' = Asked(q) /\ vals'[q.tpl_cond] = vals[q.tpl_cond]
  BY <1>1, <1>2, <1>3 DEF Conditional, Asked
<1>4. ValuesThere'
  <2> SUFFICES ASSUME NEW id \in DOMAIN tpl, times[id] = 1
               PROVE  vals'[id] = <<>> <=> OnStack(id)'
    BY <1>1 DEF ValuesThere
  <2>1. CASE id = Top.id
    BY <1>2, <2>1
  <2>2. CASE id # Top.id
    BY <1>1, <1>2, <2>2 DEF ValuesThere
  <2> QED  BY <2>1, <2>2
<1>5. ConditionAsked'
  <2> SUFFICES ASSUME NEW k \in DOMAIN stack'
               PROVE  FrameAsked(stack[k], Ph(stack[k].id, stack[k].ph))'
    BY DEF ConditionAsked
  <2> PICK f : f = stack[k]
    OBVIOUS
  <2> PICK q : q = Ph(f.id, f.ph)
    OBVIOUS
  <2>1. f = stack'[k] /\ Ph(f.id, f.ph)' = q /\ FrameAsked(f, q) /\ FrameOK(f) /\ f \in Frames
    BY <1>1, <1>2 DEF Ph, ConditionAsked
  <2>2. FrameAsked(f, q)'
    <3>1. CASE f.asked > 1
      <4>1. f.asked > 0 /\ Asked(q) # <<>>
        BY <2>1, <3>1 DEF Frames, FrameAsked
      <4>2. Conditional(q, f.id.name)
        BY <1>1, <2>1, <4>1, ConditionalIs DEF FrameOK, Frames
      <4>3. Asked(q)' = Asked(q)
        BY <1>3, <4>1, <4>2
      <4> QED  BY <1>1, <2>1, <4>3 DEF FrameAsked, BranchesAsked
    <3>2. CASE ~(f.asked > 1)
      BY <1>1, <2>1, <3>2 DEF FrameAsked
    <3> QED  BY <3>1, <3>2
  <2> QED  BY <2>1, <2>2 DEF FrameAsked, BranchesAsked, Asked, Ph
<1>6. ASSUME NEW id \in DOMAIN tpl, NEW n \in DOMAIN tpl[id].ph, IsCond(id, n), Passed(id, n)',
             NEW q, q = Ph(id, n)
      PROVE  (AllAsked(q) /\ q.tpl \in evaluated /\ vals[q.tpl] = Stored(q))'
  <2>1. Conditional(q, id.name) /\ Passed(id, n)
    BY <1>1, <1>6, ConditionalIs, ReturnAhead
  <2>2. AllAsked(q) /\ q.tpl \in evaluated /\ vals[q.tpl] = Stored(q)
    BY <1>1, <1>6, <2>1 DEF ConditionalsStored
  <2>3. Asked(q)' = Asked(q)
    BY <1>3, <2>1, <2>2 DEF AllAsked
  <2>4. \A part \in Parts(q) : vals'[part] = vals[part]
    BY <1>6, <2>1, ReturnParts
  <2>5. /\ vals'[q.tpl] = vals[q.tpl]
        /\ vals'[q.tpl_then] = vals[q.tpl_then] /\ vals'[q.tpl_else] = vals[q.tpl_else]
    BY <2>1, <2>4 DEF Conditional
  <2>6. vals'[Branch(q, Asked(q), 1)] = vals[Branch(q, Asked(q), 1)]
    BY <2>1, <2>5, BranchIs
  <2>7. Stored(q)' = Stored(q)
    BY <2>3, <2>5, <2>6 DEF Stored
  <2>8. AllAsked(q)'
    BY <1>1, <2>2, <2>3 DEF AllAsked
  <2> QED  BY <1>1, <2>2, <2>5, <2>7, <2>8
<1>7. ConditionalsStored'
  <2> SUFFICES ASSUME NEW id \in DOMAIN tpl, NEW n \in DOMAIN tpl[id].ph,
                      IsCond(id, n), Passed(id, n)'
               PROVE  (AllAsked(Ph(id, n)) /\ Ph(id, n).tpl \in evaluated
                         /\ vals[Ph(id, n).tpl] = Stored(Ph(id, n)))'
    BY <1>1 DEF ConditionalsStored, IsCond, Ph
  <2> PICK q : q = Ph(id, n)
    OBVIOUS
  <2>1. Ph(id, n)' = q
    BY <1>1 DEF Ph
  <2>2. (AllAsked(q) /\ q.tpl \in evaluated /\ vals[q.tpl] = Stored(q))'
    BY <1>6
  <2> QED  BY <2>1, <2>2 DEF AllAsked, Stored, Asked
<1>8. PlainEvaluated'
  <2> SUFFICES ASSUME NEW id \in DOMAIN tpl, NEW n \in DOMAIN tpl[id].ph,
                      IsPlain(id, n), Passed(id, n)'
               PROVE  times[Ph(id, n).tpl] = 1
    BY <1>1 DEF PlainEvaluated, IsPlain, Ph
  <2> QED  BY <1>1, ReturnAhead DEF PlainEvaluated
<1> QED  BY <1>4, <1>5, <1>7, <1>8 DEF ValuesRight

LEMMA ReturnFinished ==
  ASSUME TopRight, Returns, ~Recursion
  PROVE  PlainFinished' /\ Built'
<1>1. /\ tpl' = tpl /\ IsGroup(tpl) /\ PlainFinished /\ Built /\ times' = times
      /\ Top.id \in DOMAIN tpl /\ Top = stack[Len(stack)]
      /\ DOMAIN stack = 1 .. Len(stack) /\ Len(stack) \in Nat \ {0}
      /\ DOMAIN stack' = 1 .. Len(stack) - 1
      /\ \A id \in DOMAIN tpl : id # Top.id => vals'[id] = vals[id]
      /\ vals'[Top.id] = BuildValues(tpl[Top.id], ListsOf(Top.id))
      /\ tpl[Top.id] # Parameter
  BY TopAhead DEF TopRight, EvInv, Returns, Top
<1>2. /\ \A k \in DOMAIN stack' : k \in DOMAIN stack /\ stack'[k] = stack[k] /\ stack[k].id # Top.id
      /\ \A k \in DOMAIN stack : k = Len(stack) \/ k \in DOMAIN stack'
      /\ \A id \in DOMAIN tpl : OnStack(id)' <=> OnStack(id) /\ id # Top.id
  BY ReturnStack
<1>3. PlainFinished'
  <2> SUFFICES ASSUME NEW id \in DOMAIN tpl, NEW n \in DOMAIN tpl[id].ph,
                      IsPlain(id, n), Passed(id, n)',
                      NEW j \in DOMAIN stack', stack'[j].id = Ph(id, n).tpl
               PROVE  j > 1 /\ stack'[j - 1].id = id
    BY <1>1 DEF PlainFinished, IsPlain, Ph, BegunBy
  <2>1. BegunBy(Ph(id, n).tpl, id)
    BY <1>1, ReturnAhead DEF PlainFinished
  <2>2. j > 1 /\ stack[j - 1].id = id
    BY <1>2, <2>1 DEF BegunBy
  <2>3. j - 1 \in DOMAIN stack'
    BY <1>1, <2>2
  <2> QED  BY <1>2, <2>2, <2>3
<1>4. ASSUME NEW id \in DOMAIN tpl, times[id] = 1, ~OnStack(id)', NEW n \in DOMAIN tpl[id].ph
      PROVE  vals'[Ph(id, n).tpl] = vals[Ph(id, n).tpl]
  <2>1. Passed(id, n)
    <3>1. Passed(id, n)'
      BY <1>1, <1>4 DEF Passed, OnStack, Beyond
    <3> QED  BY <3>1, ReturnAhead
  <2>2. CASE IsPlain(id, n)
    <3>1. Ph(id, n).tpl \in DOMAIN tpl /\ BegunBy(Ph(id, n).tpl, id)
      BY <1>1, <2>1, <2>2, PlainIs DEF PlainFinished
    <3>2. Ph(id, n).tpl # Top.id
      <4> SUFFICES ASSUME Ph(id, n).tpl = Top.id  PROVE FALSE
        OBVIOUS
      <4>1. Len(stack) > 1 /\ stack[Len(stack) - 1].id = id
        BY <1>1, <3>1 DEF BegunBy
      <4>2. Len(stack) - 1 \in DOMAIN stack'
        BY <1>1, <4>1
      <4> QED  BY <1>2, <1>4, <4>1, <4>2 DEF OnStack
    <3> QED  BY <1>1, <3>1, <3>2
  <2>3. CASE IsCond(id, n)
    <3>1. Ph(id, n).tpl \in Parts(Ph(id, n))
      BY <1>1, <2>3, ConditionalIs DEF Conditional
    <3> QED  BY <2>1, <2>3, <3>1, ReturnParts
  <2> QED  BY <2>2, <2>3 DEF IsPlain, IsCond
<1>5. Built'
  <2> SUFFICES ASSUME NEW id \in DOMAIN tpl, times[id] = 1, ~OnStack(id)', tpl[id] # Parameter
               PROVE  vals'[id] = BuildValues(tpl[id], ListsOf(id)')
    BY <1>1 DEF Built, OnStack
  <2>1. ListsOf(id)' = ListsOf(id)
    BY <1>1, <1>4 DEF ListsOf, Ph
  <2>2. CASE id = Top.id
    BY <1>1, <2>1, <2>2
  <2>3. CASE id # Top.id
    <3>1. ~OnStack(id)
      BY <1>2, <2>3
    <3> QED  BY <1>1, <2>1, <2>3, <3>1 DEF Built
  <2> QED  BY <2>2, <2>3
<1> QED  BY <1>3, <1>5

LEMMA ReturnInvariant ==
  ASSUME IInv, Running, ReturnTemplate, UNCHANGED <<tpl, given, calls>>
  PROVE  IInv'
<1>1. TopRight
  BY TopIs
<1>2. Returns /\ MemoryTyped' /\ StackTyped' /\ vals'[Top.id] # <<>>
  BY <1>1, ReturnIs
<1>3. /\ tpl' = tpl /\ tpl # None /\ given' = given /\ result = Nothing /\ times' = times
      /\ Typed /\ EvInv /\ GivenRight /\ ResultRight /\ stack # <<>>
      /\ result' = IF stack' = <<>> THEN Done(vals'[Named(Main)]) ELSE Nothing
  BY <1>1, <1>2 DEF TopRight, Returns, IInv, ReturnTemplate, Returned, Running
<1>4. Typed'
  <2>1. GivenTyped'
    BY <1>3 DEF Typed, GivenTyped, Lists
  <2> QED  BY <1>2, <1>3, <2>1 DEF Typed
<1>5. EvInv'
  <2>1. MarksRight' /\ StackRight' /\ ValuesRight' /\ times'[Named(Main)] = 1
    BY <1>1, <1>2, <1>3, ReturnMarks, ReturnValues DEF EvInv
  <2>2. Recursion' <=> Recursion
    BY <1>3 DEF Recursion, References, Reference, OwnNames
  <2>3. ~Recursion => PlainFinished' /\ Built'
    BY <1>1, <1>2, ReturnFinished
  <2> QED  BY <2>1, <2>2, <2>3 DEF EvInv
<1>6. GivenRight'
  <2>1. \A id \in DOMAIN tpl : tpl[id] = Parameter => vals'[id] = vals[id]
    BY <1>1, <1>2, TopAhead DEF Returns
  <2>2. result' # Nothing \/ stack' # <<>>
    BY <1>3 DEF Nothing, Done
  <2> QED  BY <1>3, <2>1, <2>2 DEF GivenRight
<1>7. ResultRight'
  BY <1>3 DEF ResultRight, Nothing, Failed, Done
<1> QED  BY <1>3, <1>4, <1>5, <1>6, <1>7 DEF IInv
-----------------------------------------------------------------------------
(* Nothing depends on what else changes. *)
LEMMA MemoryKept ==
  ASSUME EvInv, UNCHANGED <<tpl, memory, stack>>
  PROVE  EvInv' /\ (Recursion' <=> Recursion)
<1>1. tpl' = tpl /\ vals' = vals /\ evaluated' = evaluated /\ times' = times /\ stack' = stack
  BY DEF memory
<1>2. Recursion' <=> Recursion
  <2>1. tpl' = tpl
    BY <1>1
  <2>2. OwnNames(tpl)' = OwnNames(tpl)
    BY <2>1 DEF OwnNames
  <2>3. \A m : References(m)' = References(m)
    BY <2>1 DEF References, Reference
  <2> QED  BY <2>2, <2>3 DEF Recursion
<1>3. EvInv'
  <2>1. MarksRight'
    BY <1>1 DEF EvInv, MarksRight, MarkedRight, BranchesMarked, PartMarked, Ahead, Before, IsCond, Ph
  <2>2. StackRight'
    BY <1>1 DEF EvInv, StackRight, StackMarked, Chain, CalledBy, BranchCalled, OwnCalled,
                      IsCond, Ph, References
  <2>3. ValuesThere'
    BY <1>1 DEF EvInv, ValuesRight, ValuesThere, OnStack
  <2>6. ConditionAsked'
    <3>1. tpl' = tpl /\ vals' = vals /\ times' = times /\ stack' = stack
      BY <1>1
    <3>2. ConditionAsked
      BY DEF EvInv, ValuesRight
    <3>3. ASSUME NEW f, NEW q, FrameAsked(f, q)
          PROVE  FrameAsked(f, q)'
      <4>1. Asked(q)' = Asked(q)
        BY <3>1 DEF Asked
      <4>2. BranchesAsked(q, f.asked)' <=> BranchesAsked(q, f.asked)
        BY <3>1, <4>1 DEF BranchesAsked
      <4> QED  BY <3>1, <3>3, <4>1, <4>2 DEF FrameAsked
    <3>4. \A k \in DOMAIN stack :
            stack'[k] = stack[k] /\ Ph(stack[k].id, stack[k].ph)' = Ph(stack[k].id, stack[k].ph)
      BY <1>1 DEF Ph
    <3> QED  BY <3>1, <3>2, <3>3, <3>4 DEF ConditionAsked
  <2>4. ConditionalsStored'
    BY <1>1 DEF EvInv, ValuesRight, ConditionalsStored, Passed, Beyond, AllAsked, Stored,
                      Asked, IsCond, Ph
  <2>5. PlainEvaluated'
    BY <1>1 DEF EvInv, ValuesRight, PlainEvaluated, Passed, Beyond, IsPlain, Ph
  <2>7. ~Recursion => PlainFinished'
    BY <1>1 DEF EvInv, PlainFinished, Passed, Beyond, BegunBy, IsPlain, Ph
  <2>8. ~Recursion => Built'
    <3>1. \A id : ListsOf(id)' = ListsOf(id)
      BY <1>1 DEF ListsOf, Ph
    <3>2. \A id : OnStack(id)' <=> OnStack(id)
      BY <1>1 DEF OnStack
    <3> QED  BY <1>1, <3>1, <3>2 DEF EvInv, Built
  <2>9. times'[Named(Main)] = 1
    BY <1>1 DEF EvInv
  <2> QED  BY <1>2, <2>7, <2>8, <2>9, <2>1, <2>2, <2>3, <2>4, <2>5, <2>6 DEF EvInv, ValuesRight
<1> QED  BY <1>2, <1>3

(* An assertion fails in recursion only. *)
LEMMA FailInvariant ==
  ASSUME IInv, Running, Top.ph \in DOMAIN Body.ph, FailAssertion(Body.ph[Top.ph]),
         UNCHANGED <<tpl, given, calls>>
  PROVE  IInv'
<1> DEFINE p == Ph(Top.id, Top.ph)
<1>1. TopRight
  BY TopIs
<1>2. /\ IsCond(Top.id, Top.ph) /\ Top.asked = 1 /\ Asked(p) = <<>> /\ FrameAsked(Top, p)
      /\ result' = Failed /\ UNCHANGED <<tpl, vals, evaluated, times, stack, given>>
  BY <1>1, TopPlaceholder DEF FailAssertion, memory
<1>3. Conditional(p, Top.id.name)
  BY <1>1, <1>2, ConditionalIs DEF TopRight
<1>4. Reference(p) = p.tpl_cond
  BY <1>2 DEF Reference, IsCond
<1> HIDE DEF p
<1>5. OnStack(p.tpl_cond)
  <2>1. times[p.tpl_cond] = 1 /\ vals[p.tpl_cond] = <<>> /\ p.tpl_cond \in DOMAIN tpl
    BY <1>2, <1>3 DEF FrameAsked, Asked, Conditional
  <2> QED  BY <1>1, <2>1 DEF TopRight, EvInv, ValuesRight, ValuesThere
<1>6. Recursion
  <2>1. p.tpl_cond.name \in References(Top.id.name)
    BY <1>1, <1>2, <1>4, ReferenceIs DEF TopRight, IsCond, p
  <2> QED  BY <1>1, <1>5, <2>1, NoReturn
<1>7. tpl # None /\ stack # <<>> /\ Typed /\ GivenRight /\ EvInv
  BY <1>1 DEF TopRight, IInv, Running
<1>8. Recursion'
  BY <1>2, <1>6, <1>7, MemoryKept DEF memory
<1>9. Typed'
  <2>1. MemoryTyped' /\ GivenTyped'
    BY <1>2, <1>7 DEF Typed, MemoryTyped, GivenTyped, Lists
  <2>2. StackTyped'
    BY <1>2, <1>7 DEF Typed, StackTyped, Frames, FrameOK, IsCond, Ph
  <2> QED  BY <1>2, <1>7, <2>1, <2>2 DEF Typed
<1>10. EvInv'
  BY <1>2, <1>7, MemoryKept DEF memory
<1>11. GivenRight'
  BY <1>2, <1>7 DEF GivenRight
<1>12. ResultRight'
  BY <1>2, <1>7, <1>8 DEF ResultRight, Nothing, Failed, Done
<1> QED  BY <1>7, <1>2, <1>9, <1>10, <1>11, <1>12 DEF IInv

LEMMA StepInvariant ==
  ASSUME IInv, EvaluateStep
  PROVE  IInv'
<1>1. Running /\ UNCHANGED <<tpl, given, calls>> /\ TopRight
  BY TopIs DEF EvaluateStep
<1>2. CASE ReturnTemplate
  BY <1>1, <1>2, ReturnInvariant
<1>3. CASE Top.ph \in DOMAIN Body.ph /\ PlaceholderEvaluate(Body.ph[Top.ph])
  <2>1. CASE EvaluatePlaceholder(Body.ph[Top.ph])
    BY <1>1, <1>3, <2>1, PlainCall, CallInvariant
  <2>2. CASE EvaluateCondition(Body.ph[Top.ph])
    BY <1>1, <1>3, <2>2, ConditionCall, CallInvariant
  <2>3. CASE FailAssertion(Body.ph[Top.ph])
    BY <1>1, <1>3, <2>3, FailInvariant
  <2>4. CASE EvaluateBranch(Body.ph[Top.ph], Top.asked)
    BY <1>1, <1>3, <2>4, BranchCall, CallInvariant
  <2>5. CASE StoreValues(Body.ph[Top.ph], Top.asked)
    BY <1>1, <1>3, <2>5, StoreInvariant
  <2> QED  BY <1>3, <2>1, <2>2, <2>3, <2>4, <2>5 DEF PlaceholderEvaluate
<1> QED  BY <1>2, <1>3 DEF EvaluateStep
-----------------------------------------------------------------------------
(* Calls of the program. *)

(* The main template is called, or is a parameter and gets its value.      *)
Begins ==
  /\ evaluated' = (evaluated \ OwnTemplates) \cup {Named(Main)}
  /\ times' = [id \in DOMAIN tpl |-> IF id = Named(Main) THEN 1 ELSE 0]
  /\ \A id \in DOMAIN tpl : id # Named(Main) => vals'[id] = vals[id]
  /\ \/ /\ tpl[Named(Main)] = Parameter /\ stack' = <<>> /\ result' = Done(vals'[Named(Main)])
        /\ vals'[Named(Main)] = (IF vals[Named(Main)] = <<>> THEN <<<<>>>> ELSE vals[Named(Main)])
     \/ /\ tpl[Named(Main)] # Parameter /\ result' = Nothing /\ vals'[Named(Main)] = <<>>
        /\ stack' \in Seq(Frames) /\ DOMAIN stack' = {1} /\ stack'[1] = Frame(Named(Main))

LEMMA BeginsIs ==
  ASSUME IInv, Evaluate
  PROVE  /\ Begins /\ Typed' /\ tpl' = tpl /\ given' = given /\ tpl # None /\ IsGroup(tpl)
         /\ stack = <<>> /\ (result' # Nothing \/ stack' # <<>>)
<1> PICK x : x = Named(Main)
  OBVIOUS
<1>1. /\ tpl # None /\ tpl' = tpl /\ given' = given /\ stack = <<>> /\ Typed /\ IsGroup(tpl)
      /\ MemoryTyped /\ GivenTyped /\ x \in DOMAIN tpl /\ Own(x) /\ x \in OwnTemplates
  BY GroupIs DEF Evaluate, Called, IInv, Typed, IsGroup, OwnTemplates, Own, Named
<1>2. /\ vals = [id \in DOMAIN tpl |-> vals[id]] /\ \A id \in DOMAIN tpl : IsList(vals[id])
      /\ evaluated \subseteq DOMAIN tpl
  BY <1>1 DEF MemoryTyped, Lists
<1> DEFINE t == [id \in DOMAIN tpl |-> 0]
           m == [vals |-> vals, evaluated |-> evaluated \ OwnTemplates, times |-> t]
<1>3. m.vals = vals /\ m.evaluated = evaluated \ OwnTemplates /\ m.times = t
  OBVIOUS
<1>4. TemplateEvaluate(m, x, <<>>) /\ Returned
  BY DEF Evaluate
<1> HIDE DEF m
<1>5. EvaluateParameter(m, x, <<>>) \/ BeginTemplate(m, x, <<>>)
  BY <1>1, <1>3, <1>4 DEF TemplateEvaluate, Unchanged
<1>6. evaluated' = (evaluated \ OwnTemplates) \cup {x} /\ times' = [t EXCEPT ![x] = t[x] + 1]
  BY <1>3, <1>5 DEF EvaluateParameter, BeginTemplate, Mark
<1>7. times' = [id \in DOMAIN tpl |-> IF id = x THEN 1 ELSE 0]
  <2>1. t[x] + 1 = 1
    BY <1>1
  <2> QED  BY <1>6, <2>1
<1>8. IsList(<<>>) /\ IsList(<<<<>>>>)
  <2>1. <<>> \in Seq({}) /\ <<<<>>>> \in Seq({<<>>})
    BY EmptySeq
  <2> QED  BY <2>1, SeqIsList
<1> DEFINE v == IF tpl[x] = Parameter THEN IF vals[x] = <<>> THEN <<<<>>>> ELSE vals[x] ELSE <<>>
<1>9. vals' = [vals EXCEPT ![x] = v]
  BY <1>3, <1>5 DEF EvaluateParameter, BeginTemplate
<1>10. IsList(v)
  BY <1>1, <1>2, <1>8
<1> HIDE DEF v, t
<1>11. vals' = [id \in DOMAIN tpl |-> IF id = x THEN v ELSE vals[id]]
  BY <1>2, <1>9
<1>12. MemoryTyped'
  <2>1. Lists(vals', DOMAIN tpl)
    BY <1>2, <1>10, <1>11 DEF Lists
  <2> QED  BY <1>1, <1>2, <1>6, <1>7, <2>1 DEF MemoryTyped, Lists
<1>13. vals'[x] = v /\ \A id \in DOMAIN tpl : id # x => vals'[id] = vals[id]
  BY <1>1, <1>11
<1>14. x.name \in OwnNames(tpl)
  BY <1>1 DEF OwnNames
<1>15. CASE tpl[x] = Parameter
  <2>1. stack' = <<>>
    BY <1>5, <1>15 DEF EvaluateParameter, BeginTemplate
  <2>2. result' = Done(vals'[x])
    BY <1>4, <2>1 DEF Returned
  <2>3. Begins
    BY <1>6, <1>7, <1>13, <1>15, <2>1, <2>2 DEF Begins, v
  <2>4. StackTyped'
    BY <2>1, EmptySeq DEF StackTyped
  <2>5. result' # Nothing
    BY <2>2 DEF Done, Nothing
  <2> QED  BY <1>1, <1>12, <2>3, <2>4, <2>5 DEF Typed, GivenTyped, Lists
<1>16. CASE tpl[x] # Parameter
  <2> PICK f : f = Frame(x)
    OBVIOUS
  <2>1. f \in Frames /\ f.id = x /\ f.ph = 1 /\ f.asked = 0
    BY <1>1 DEF Frames, Frame
  <2>2. stack' = Append(<<>>, f)
    BY <1>5, <1>16 DEF EvaluateParameter, BeginTemplate
  <2>3. stack' \in Seq(Frames) /\ Len(stack') = 1 /\ stack'[1] = f
    BY <2>1, <2>2, EmptySeq, AppendProperties
  <2>4. DOMAIN stack' = {1}
    BY <2>3, LenProperties
  <2>5. stack' # <<>>
    BY <2>3, EmptySeq
  <2>6. result' = Nothing
    BY <1>4, <2>5 DEF Returned
  <2>7. Begins
    BY <1>6, <1>7, <1>13, <1>16, <2>3, <2>4, <2>6 DEF Begins, v
  <2>8. FrameOK(f)
    <3>1. Len(tpl[x].ph) \in Nat
      BY <1>1, PlaceholdersAre
    <3> QED  BY <1>14, <1>16, <2>1, <3>1 DEF FrameOK
  <2>9. StackTyped'
    BY <1>1, <2>3, <2>4, <2>8 DEF StackTyped, Frames, FrameOK, IsCond, Ph
  <2> QED  BY <1>1, <1>12, <2>5, <2>7, <2>9 DEF Typed, GivenTyped, Lists
<1> QED  BY <1>15, <1>16

LEMMA EvaluateInvariant ==
  ASSUME IInv, Evaluate
  PROVE  IInv'
<1> PICK x : x = Named(Main)
  OBVIOUS
<1>1. /\ Begins /\ Typed' /\ tpl' = tpl /\ given' = given /\ tpl # None /\ IsGroup(tpl)
      /\ stack = <<>> /\ (result' # Nothing \/ stack' # <<>>)
  BY BeginsIs
<1>2. x \in DOMAIN tpl /\ Own(x) /\ x \in OwnTemplates
  BY <1>1 DEF IsGroup, OwnTemplates, Own, Named
<1>3. /\ evaluated' = (evaluated \ OwnTemplates) \cup {x}
      /\ times' = [id \in DOMAIN tpl |-> IF id = x THEN 1 ELSE 0]
      /\ \A id \in DOMAIN tpl : id # x => vals'[id] = vals[id]
      /\ \/ /\ tpl[x] = Parameter /\ stack' = <<>> /\ result' = Done(vals'[x])
            /\ vals'[x] = (IF vals[x] = <<>> THEN <<<<>>>> ELSE vals[x])
         \/ /\ tpl[x] # Parameter /\ result' = Nothing /\ vals'[x] = <<>>
            /\ stack' \in Seq(Frames) /\ DOMAIN stack' = {1} /\ stack'[1] = Frame(x)
  BY <1>1 DEF Begins
<1>4. /\ \A id \in DOMAIN tpl : times'[id] = 1 <=> id = x
      /\ \A id \in DOMAIN tpl : times'[id] = 0 <=> id # x
      /\ \A id \in evaluated' : Own(id) => id = x
  <2>1. evaluated \subseteq DOMAIN tpl
    BY <1>1 DEF IInv, Typed, MemoryTyped
  <2> QED  BY <1>3, <2>1 DEF OwnTemplates
<1>5. \A k \in DOMAIN stack' : k = 1 /\ stack'[k] = Frame(x) /\ stack'[k].id = x
                               /\ stack'[k].ph = 1 /\ stack'[k].asked = 0
  BY <1>3, EmptySeq DEF Frame
<1>6. tpl[x] # Parameter => 1 \in DOMAIN stack'
  BY <1>3
<1>7. \A id \in DOMAIN tpl : \A n \in DOMAIN tpl[id].ph : Ahead(id, n)' /\ ~Passed(id, n)'
  <2> SUFFICES ASSUME NEW id \in DOMAIN tpl, NEW n \in DOMAIN tpl[id].ph
               PROVE  Ahead(id, n)' /\ ~Passed(id, n)'
    OBVIOUS
  <2>1. CASE id # x
    BY <1>4, <2>1 DEF Ahead, Passed
  <2>2. CASE id = x
    <3>1. tpl[x] # Parameter /\ n \in Nat \ {0}
      BY <1>1, <2>2, PlaceholdersAre
    <3>2. 1 < n \/ 1 = n
      BY <3>1
    <3>3. Before(stack'[1], id, n) /\ ~Beyond(stack'[1], id, n)
      BY <1>5, <1>6, <2>2, <3>1, <3>2 DEF Before, Beyond
    <3> QED  BY <1>6, <3>1, <3>3 DEF Ahead, Passed, Before, Beyond
  <2> QED  BY <2>1, <2>2
<1>8. EvInv'
  <2>1. MarkedRight'
    BY <1>1, <1>2, <1>3, <1>4 DEF MarkedRight, Own
  <2>2. BranchesMarked'
    <3> SUFFICES ASSUME NEW id \in DOMAIN tpl, NEW n \in DOMAIN tpl[id].ph, IsCond(id, n),
                        NEW part \in Parts(Ph(id, n))
                 PROVE  PartMarked(id, n, part)'
      BY <1>1 DEF BranchesMarked, IsCond, Ph
    <3>1. part \in DOMAIN tpl /\ ~Own(part)
      BY <1>1, ConditionalIs DEF Conditional
    <3>2. times'[part] = 0
      BY <1>2, <1>4, <3>1
    <3> QED  BY <1>7, <3>2 DEF PartMarked
  <2>3. StackRight'
    BY <1>2, <1>4, <1>5 DEF StackRight, StackMarked, Chain
  <2>4. ValuesThere'
    <3> SUFFICES vals'[x] = <<>> <=> OnStack(x)'
      BY <1>1, <1>4 DEF ValuesThere, OnStack
    <3>1. CASE tpl[x] = Parameter
      <4>1. ~OnStack(x)'
        BY <1>3, <3>1, EmptySeq DEF OnStack
      <4>2. vals'[x] # <<>>
        <5>1. Len(<<<<>>>>) = 1 /\ Len(<<>>) = 0
          BY EmptySeq
        <5>2. <<<<>>>> # <<>>
          BY <5>1
        <5> QED  BY <1>3, <3>1, <5>2
      <4> QED  BY <4>1, <4>2
    <3>2. CASE tpl[x] # Parameter
      BY <1>3, <1>5, <1>6, <3>2 DEF OnStack
    <3> QED  BY <3>1, <3>2
  <2>5. ConditionAsked'
    BY <1>5 DEF ConditionAsked, FrameAsked
  <2>6. ConditionalsStored' /\ PlainEvaluated' /\ PlainFinished'
    BY <1>1, <1>7 DEF ConditionalsStored, PlainEvaluated, PlainFinished
  <2>7. Built'
    <3> SUFFICES ASSUME NEW id \in DOMAIN tpl, times'[id] = 1, ~OnStack(id)', tpl[id] # Parameter
                 PROVE  FALSE
      BY <1>1 DEF Built, OnStack
    <3>1. id = x
      BY <1>4
    <3> QED  BY <1>5, <1>6, <3>1 DEF OnStack
  <2>8. times'[Named(Main)] = 1
    BY <1>2, <1>4
  <2> QED  BY <2>1, <2>2, <2>3, <2>4, <2>5, <2>6, <2>7, <2>8 DEF EvInv, MarksRight, ValuesRight
<1>9. GivenRight'
  <2> SUFFICES ASSUME given # None, NEW id \in DOMAIN tpl, Own(id), tpl[id] = Parameter
               PROVE  \/ vals'[id] = given[id.name]
                      \/ given[id.name] = <<>> /\ vals'[id] = <<<<>>>>
    BY <1>1 DEF GivenRight
  <2>1. vals[id] = given[id.name] \/ (given[id.name] = <<>> /\ vals[id] = <<<<>>>>)
    BY <1>1 DEF IInv, GivenRight
  <2>2. CASE id # x
    BY <1>3, <2>1, <2>2
  <2>3. CASE id = x
    BY <1>3, <2>1, <2>3
  <2> QED  BY <2>2, <2>3
<1>10. ResultRight'
  <2>1. CASE stack' = <<>> /\ result' = Done(vals'[Named(Main)])
    BY <1>1, <2>1 DEF ResultRight, Nothing, Failed, Done
  <2>2. CASE result' = Nothing
    BY <1>1, <2>2 DEF ResultRight, Nothing, Failed, Done
  <2> QED  BY <1>1, <2>1, <2>2 DEF Begins
<1> QED  BY <1>1, <1>8, <1>9, <1>10 DEF IInv

LEMMA InitInvariant ==
  ASSUME Init
  PROVE  IInv
<1>1. Typed /\ tpl = None /\ stack = <<>> /\ result = Nothing
  BY DEF Init, Typed
<1>2. ResultRight
  BY <1>1 DEF Init, ResultRight, Nothing, Failed
<1> QED  BY <1>1, <1>2 DEF IInv, InEvaluation

LEMMA CreateInvariant ==
  ASSUME IInv, tpl = None, NEW group \in Groups, Create(group)
  PROVE  IInv'
<1>1. /\ tpl' = group /\ vals' = [id \in DOMAIN group |-> <<>>]
      /\ times' = [id \in DOMAIN group |-> 0] /\ given' = [m \in OwnNames(group) |-> <<>>]
      /\ evaluated' = {} /\ stack' = <<>> /\ result' = Nothing
  BY DEF Create, IInv, ResultRight
<1>2. IsList(<<>>)
  BY EmptySeq, SeqIsList
<1>3. Lists(vals', DOMAIN group) /\ Lists(given', OwnNames(group))
  BY <1>1, <1>2 DEF Lists
<1>4. Typed'
  <2>1. StackTyped'
    BY <1>1, EmptySeq DEF StackTyped
  <2>2. MemoryTyped'
    BY <1>1, <1>3 DEF MemoryTyped, Lists
  <2>3. GivenTyped'
    BY <1>1, <1>3 DEF GivenTyped, Lists
  <2> QED  BY <1>1, <2>1, <2>2, <2>3 DEF Typed
<1>5. GivenRight'
  <2>1. \A id \in DOMAIN group : Own(id) => id.name \in OwnNames(group)
    BY DEF OwnNames
  <2>2. \A id \in DOMAIN group : Own(id) => vals'[id] = given'[id.name]
    BY <1>1, <2>1
  <2> QED  BY <1>1, <2>2 DEF GivenRight
<1>6. ResultRight'
  <2>1. tpl' # None
    BY <1>1, GroupAssumption
  <2> QED  BY <1>1, <2>1 DEF ResultRight, Nothing, Failed
<1> QED  BY <1>1, <1>4, <1>5, <1>6 DEF IInv, InEvaluation

LEMMA SetValuesInvariant ==
  ASSUME IInv, NEW values \in Parameters, SetValues(values)
  PROVE  IInv'
<1> DEFINE New(id) == IF Own(id) THEN Added(vals[id], values, id.name) ELSE vals[id]
<1>1. /\ tpl # None /\ tpl' = tpl /\ stack = <<>> /\ result # Failed
      /\ Typed /\ IsGroup(tpl) /\ MemoryTyped /\ GivenTyped /\ GivenRight
      /\ evaluated' = evaluated /\ stack' = stack /\ result' = result /\ times' = times
  BY GroupIs DEF SetValues, Called, Alive, IInv, Typed
<1>2. /\ given = None \/ result # Nothing => given' = None
      /\ given # None /\ result = Nothing =>
           given' = [m \in DOMAIN given |-> Added(given[m], values, m)]
  BY DEF SetValues
<1>3. \A s, m : IsList(s) => IsList(Added(s, values, m))
  BY ParameterAssumption, ConcatIsList DEF Added
<1>4. vals' = [id \in DOMAIN tpl |-> New(id)]
  BY <1>1 DEF SetValues, MemoryTyped, Lists
<1>5. \A id \in DOMAIN tpl : IsList(New(id))
  BY <1>1, <1>3 DEF MemoryTyped, Lists
<1>6. \A id \in DOMAIN tpl : Own(id) => New(id) = Added(vals[id], values, id.name)
  OBVIOUS
<1> HIDE DEF New
<1>7. MemoryTyped'
  BY <1>1, <1>4, <1>5 DEF MemoryTyped, Lists
<1>8. GivenTyped'
  <2> SUFFICES ASSUME given' # None
               PROVE  Lists(given', OwnNames(tpl))
    BY <1>1 DEF GivenTyped, Lists
  <2>1. given' = [m \in OwnNames(tpl) |-> Added(given[m], values, m)]
    BY <1>1, <1>2 DEF GivenTyped, Lists
  <2>2. \A m \in OwnNames(tpl) : IsList(given[m])
    BY <1>1, <1>2 DEF GivenTyped, Lists
  <2> QED  BY <1>3, <2>1, <2>2 DEF Lists
<1>9. Typed'
  <2>1. StackTyped'
    BY <1>1, EmptySeq DEF StackTyped
  <2> QED  BY <1>1, <1>7, <1>8, <2>1 DEF Typed
<1>10. GivenRight'
  <2> SUFFICES ASSUME given' # None, NEW id \in DOMAIN tpl, Own(id), tpl[id] = Parameter
               PROVE  vals'[id] = given'[id.name]
    BY <1>1 DEF GivenRight
  <2>1. id.name \in OwnNames(tpl)
    BY DEF OwnNames
  <2>2. given # None /\ result = Nothing
    BY <1>2
  <2>3. id.name \in DOMAIN given
    BY <1>1, <2>1, <2>2 DEF GivenTyped, Lists
  <2>4. vals[id] = given[id.name]
    BY <1>1, <2>2 DEF GivenRight
  <2> QED  BY <1>2, <1>4, <1>6, <2>2, <2>3, <2>4
<1>11. ResultRight'
  <2>1. ResultRight
    BY DEF IInv
  <2> QED  BY <1>1, <1>2, <2>1 DEF ResultRight
<1>12. ~InEvaluation'
  BY <1>1, <1>2 DEF InEvaluation
<1> QED  BY <1>9, <1>10, <1>11, <1>12 DEF IInv

LEMMA ClearValuesInvariant ==
  ASSUME IInv, ClearValues
  PROVE  IInv'
<1> PICK m : m = Clear(Memory, OwnTemplates)
  OBVIOUS
<1>1. /\ tpl # None /\ tpl' = tpl /\ stack' = <<>> /\ result' = Nothing
      /\ Typed /\ IsGroup(tpl) /\ MemoryTyped /\ times' = times
      /\ vals' = m.vals /\ evaluated' = m.evaluated
      /\ given' = [name \in OwnNames(tpl) |-> <<>>]
  BY GroupIs DEF ClearValues, Called, IInv, Typed
<1>2. /\ m.vals = [id \in DOMAIN vals |-> IF id \in OwnTemplates THEN <<>> ELSE vals[id]]
      /\ m.evaluated = evaluated \ OwnTemplates
  BY DEF Clear, Memory
<1>3. IsList(<<>>)
  BY EmptySeq, SeqIsList
<1>4. vals' = [id \in DOMAIN tpl |-> IF id \in OwnTemplates THEN <<>> ELSE vals[id]]
  BY <1>1, <1>2 DEF MemoryTyped, Lists
<1>5. Lists(vals', DOMAIN tpl)
  BY <1>1, <1>3, <1>4 DEF MemoryTyped, Lists
<1>6. Lists(given', OwnNames(tpl))
  BY <1>1, <1>3 DEF Lists
<1>7. Typed'
  <2>1. StackTyped'
    BY <1>1, EmptySeq DEF StackTyped
  <2>2. MemoryTyped'
    BY <1>1, <1>2, <1>5 DEF MemoryTyped, Lists
  <2>3. GivenTyped'
    BY <1>1, <1>6 DEF GivenTyped, Lists
  <2> QED  BY <1>1, <2>1, <2>2, <2>3 DEF Typed
<1>8. GivenRight'
  <2>1. \A id \in DOMAIN tpl : Own(id) => id.name \in OwnNames(tpl) /\ id \in OwnTemplates
    BY DEF OwnNames, OwnTemplates
  <2>2. \A id \in DOMAIN tpl : Own(id) => vals'[id] = given'[id.name]
    BY <1>1, <1>4, <2>1
  <2> QED  BY <1>1, <2>2 DEF GivenRight
<1>9. ResultRight'
  BY <1>1 DEF ResultRight, Nothing, Failed
<1> QED  BY <1>1, <1>7, <1>8, <1>9 DEF IInv, InEvaluation

LEMMA DestroyInvariant ==
  ASSUME IInv, Destroy
  PROVE  IInv'
<1>1. /\ tpl' = None /\ stack' = <<>> /\ vals' = <<>> /\ evaluated' = {} /\ times' = <<>>
      /\ result' = Nothing
  BY DEF Destroy
<1>2. ResultRight'
  BY <1>1 DEF ResultRight, Nothing, Failed
<1>3. Typed'
  BY <1>1 DEF Typed
<1> QED  BY <1>1, <1>2, <1>3 DEF IInv, InEvaluation

LEMMA StutterInvariant ==
  ASSUME IInv, UNCHANGED vars
  PROVE  IInv'
<1>1. /\ tpl' = tpl /\ vals' = vals /\ evaluated' = evaluated /\ times' = times
      /\ stack' = stack /\ result' = result /\ given' = given
  BY DEF vars, memory
<1>2. Typed'
  <2>1. MemoryTyped' <=> MemoryTyped
    BY <1>1 DEF MemoryTyped, Lists
  <2>2. StackTyped' <=> StackTyped
    BY <1>1 DEF StackTyped, Frames, FrameOK, IsCond, Ph
  <2>3. GivenTyped' <=> GivenTyped
    BY <1>1 DEF GivenTyped, Lists
  <2> QED  BY <1>1, <2>1, <2>2, <2>3 DEF IInv, Typed
<1>3. Recursion' <=> Recursion
  <2>1. tpl' = tpl
    BY <1>1
  <2>2. OwnNames(tpl)' = OwnNames(tpl)
    BY <2>1 DEF OwnNames
  <2>3. \A m : References(m)' = References(m)
    BY <2>1 DEF References, Reference
  <2> QED  BY <2>2, <2>3 DEF Recursion
<1>4. ResultRight'
  BY <1>1, <1>3 DEF IInv, ResultRight
<1>5. tpl # None => GivenRight'
  BY <1>1 DEF IInv, GivenRight
<1>6. InEvaluation => EvInv'
  BY MemoryKept DEF IInv, vars
<1>7. InEvaluation' <=> InEvaluation
  BY <1>1 DEF InEvaluation
<1> QED  BY <1>1, <1>2, <1>4, <1>5, <1>6, <1>7 DEF IInv
-----------------------------------------------------------------------------
(* The invariant holds of every group and all values, however often it is  *)
(* evaluated: it is what the theorems below rest on.                       *)
THEOREM Invariant == Spec => []IInv
<1>1. Init => IInv
  BY InitInvariant
<1>2. IInv /\ [Next]_vars => IInv'
  <2> SUFFICES ASSUME IInv, [Next]_vars
               PROVE  IInv'
    OBVIOUS
  <2>1. CASE tpl = None /\ \E group \in Groups : Create(group)
    BY <2>1, CreateInvariant
  <2>2. CASE \E values \in Parameters : SetValues(values)
    BY <2>2, SetValuesInvariant
  <2>3. CASE ClearValues
    BY <2>3, ClearValuesInvariant
  <2>4. CASE Evaluate
    BY <2>4, EvaluateInvariant
  <2>5. CASE EvaluateStep
    BY <2>5, StepInvariant
  <2>6. CASE Destroy
    BY <2>6, DestroyInvariant
  <2>7. CASE UNCHANGED vars
    BY <2>7, StutterInvariant
  <2> QED  BY <2>1, <2>2, <2>3, <2>4, <2>5, <2>6, <2>7 DEF Next
<1> QED  BY <1>1, <1>2, PTL DEF Spec

-----------------------------------------------------------------------------
(* What templates mean. *)

(* The values that a conditional means when its condition has the values   *)
(* cond and chooses these lists.                                           *)
Chosen(cond, choices) ==
  [i \in 1 .. Max({Len(cond)} \cup {Len(choices[k]) : k \in DOMAIN cond})
     |-> Value(Value(choices, i), i)]
Chooses(cond, then, else, choices) ==
  choices = [i \in DOMAIN cond |-> IF Nonempty(cond[i]) THEN then ELSE else]

LEMMA ConditionalMeans ==
  ASSUME NEW cond, NEW then, NEW else, NEW choices, IsList(cond), cond # <<>>,
         Chooses(cond, then, else, choices)
  PROVE  ConditionalValues(cond, then, else) = Chosen(cond, choices)
<1> DEFINE Choice(c) == IF Nonempty(c) THEN then ELSE else
           R == {Len(s) : s \in {Choice(c) : c \in ToSet(cond)}}
           Q == {Len(choices[k]) : k \in DOMAIN cond}
           m == Max({Len(cond)} \cup R)
           n == Len(cond)
<1>1. n \in Nat \ {0} /\ DOMAIN cond = 1 .. n /\ Last(cond) = cond[n]
  BY ListFacts
<1>2. /\ choices = [i \in 1 .. n |-> choices[i]]
      /\ \A k \in DOMAIN cond : choices[k] = Choice(cond[k])
  BY <1>1 DEF Chooses
<1>3. Len(choices) = n /\ Last(choices) = choices[n]
  <2>1. IsList(choices) /\ Len(choices) = n
    BY <1>1, <1>2, ListIs
  <2> QED  BY <1>1, <2>1, ListFacts, EmptySeq
<1>4. ToSet(cond) = {cond[k] : k \in DOMAIN cond}
  BY DEF ToSet
<1>5. ConditionalValues(cond, then, else) = [i \in 1 .. m |-> Value(Choice(Value(cond, i)), i)]
  BY DEF ConditionalValues
<1>6. R = Q
  <2>1. {Choice(c) : c \in ToSet(cond)} = {choices[k] : k \in DOMAIN cond}
    <3> HIDE DEF Choice
    <3>1. ASSUME NEW c \in ToSet(cond)
          PROVE  \E k \in DOMAIN cond : Choice(c) = choices[k]
      <4>1. PICK k \in DOMAIN cond : c = cond[k]
        BY <1>4
      <4> QED  BY <1>2, <4>1
    <3>2. ASSUME NEW k \in DOMAIN cond
          PROVE  \E c \in ToSet(cond) : choices[k] = Choice(c)
      BY <1>2, <1>4
    <3> QED  BY <3>1, <3>2
  <2> HIDE DEF Choice
  <2>2. R = {Len(s) : s \in {choices[k] : k \in DOMAIN cond}}
    BY <2>1
  <2> QED  BY <2>2
<1>7. Chosen(cond, choices) = [i \in 1 .. m |-> Value(Value(choices, i), i)]
  BY <1>6 DEF Chosen
<1> HIDE DEF m, R, Q
<1>8. \A i \in 1 .. m : Choice(Value(cond, i)) = Value(choices, i)
  <2> SUFFICES ASSUME NEW i \in 1 .. m
               PROVE  Choice(Value(cond, i)) = Value(choices, i)
    OBVIOUS
  <2>1. PICK k \in 1 .. n : Value(cond, i) = cond[k] /\ Value(choices, i) = choices[k]
    <3>1. CASE i <= n
      BY <1>1, <1>3, <3>1 DEF Value
    <3>2. CASE ~(i <= n)
      BY <1>1, <1>3, <3>2 DEF Value
    <3> QED  BY <3>1, <3>2
  <2> QED  BY <1>1, <1>2, <2>1
<1> HIDE DEF Choice
<1> QED  BY <1>5, <1>7, <1>8

(* The same for the values of a template and of its placeholders.          *)
Filled(t, means) ==
  [i \in 1 .. Max({1} \cup {Len(means[n]) : n \in DOMAIN means}) |->
     Text(t, [n \in DOMAIN means |-> Value(means[n], i)])]
MeansPlain(p, list, mean) ==
  IF p.type = "join" THEN mean = <<JoinValues(list, p.sep)>> ELSE mean = list

LEMMA TemplateMeans ==
  ASSUME NEW t, NEW lists, NEW means, ListsFor(t, lists),
         \A n \in DOMAIN t.ph : lists[n] # <<>> /\ MeansPlain(t.ph[n], lists[n], means[n]),
         DOMAIN means = DOMAIN t.ph
  PROVE  BuildValues(t, lists) = Filled(t, means)
<1> DEFINE Wide == {n \in DOMAIN t.ph : t.ph[n].type # "join"}
           S == {1} \cup {Len(lists[n]) : n \in Wide}
           R == {1} \cup {Len(means[n]) : n \in DOMAIN means}
<1>1. \A x : Len(<<x>>) = 1 /\ <<x>>[1] = x /\ Last(<<x>>) = x
  BY DEF Last
<1>2. \A n \in DOMAIN t.ph : IF t.ph[n].type = "join" THEN Len(means[n]) = 1
                                                     ELSE Len(means[n]) = Len(lists[n])
  BY <1>1 DEF MeansPlain
<1>3. S = R
  BY <1>2
<1>4. NumValues(t, lists) = Max(R)
  BY <1>3 DEF NumValues
<1> DEFINE m == Max(R)
<1> HIDE DEF S, R
<1>5. \A i \in 1 .. m : \A n \in DOMAIN t.ph :
        CopyPlaceholderValue(t.ph[n], lists[n], i) = Value(means[n], i)
  <2>1. m \in Nat \ {0}
    BY <1>4, NumValuesIs
  <2> HIDE DEF m
  <2> SUFFICES ASSUME NEW i \in 1 .. m, NEW n \in DOMAIN t.ph
               PROVE  CopyPlaceholderValue(t.ph[n], lists[n], i) = Value(means[n], i)
    OBVIOUS
  <2>2. CASE t.ph[n].type = "join"
    <3> DEFINE joined == JoinValues(lists[n], t.ph[n].sep)
    <3>1. CopyPlaceholderValue(t.ph[n], lists[n], i) = joined /\ means[n] = <<joined>>
      BY <2>2 DEF CopyPlaceholderValue, MeansPlain
    <3> HIDE DEF joined
    <3>2. Value(<<joined>>, i) = joined
      BY <1>1, <2>1 DEF Value
    <3> QED  BY <3>1, <3>2
  <2>3. CASE t.ph[n].type # "join"
    BY <2>3 DEF CopyPlaceholderValue, MeansPlain
  <2> QED  BY <2>2, <2>3
<1>6. \A i \in 1 .. m : [n \in DOMAIN t.ph |-> CopyPlaceholderValue(t.ph[n], lists[n], i)]
                          = [n \in DOMAIN means |-> Value(means[n], i)]
  BY <1>5
<1>7. BuildValues(t, lists) =
        [i \in 1 .. m |->
           Text(t, [n \in DOMAIN t.ph |-> CopyPlaceholderValue(t.ph[n], lists[n], i)])]
  BY <1>4 DEF BuildValues
<1>8. Filled(t, means) =
        [i \in 1 .. m |-> Text(t, [n \in DOMAIN means |-> Value(means[n], i)])]
  BY DEF Filled, R
<1> HIDE DEF m
<1> QED  BY <1>6, <1>7, <1>8

(* An evaluation has ended: nothing is called, and every placeholder of    *)
(* what was evaluated has been passed.                                     *)
Ended ==
  /\ tpl # None /\ Typed /\ IsGroup(tpl) /\ GivenRight /\ EvInv
  /\ stack = <<>> /\ given # None /\ ~Recursion

LEMMA EndedIs ==
  ASSUME Ended, NEW id \in DOMAIN tpl, times[id] = 1
  PROVE  ~OnStack(id) /\ vals[id] # <<>> /\ IsList(vals[id]) /\ \A n : Passed(id, n)
<1>1. ~OnStack(id) /\ \A n : Passed(id, n)
  BY EmptySeq DEF Ended, OnStack, Passed
<1>2. vals[id] # <<>>
  BY <1>1 DEF Ended, EvInv, ValuesRight, ValuesThere
<1> QED  BY <1>1, <1>2 DEF Ended, Typed, MemoryTyped, Lists

LEMMA EndedPlain ==
  ASSUME Ended, NEW id \in DOMAIN tpl, times[id] = 1, NEW n, IsPlain(id, n)
  PROVE  /\ Ph(id, n).tpl \in DOMAIN tpl /\ times[Ph(id, n).tpl] = 1
         /\ vals[Ph(id, n).tpl] # <<>> /\ IsList(vals[Ph(id, n).tpl])
<1>1. Ph(id, n).tpl \in DOMAIN tpl /\ n \in DOMAIN tpl[id].ph
  BY PlainIs DEF Ended, IsPlain
<1>2. times[Ph(id, n).tpl] = 1
  BY <1>1, EndedIs DEF Ended, EvInv, ValuesRight, PlainEvaluated
<1> QED  BY <1>1, <1>2, EndedIs

LEMMA EndedConditional ==
  ASSUME Ended, NEW id \in DOMAIN tpl, times[id] = 1, NEW n, IsCond(id, n),
         NEW p, p = Ph(id, n)
  PROVE  /\ Conditional(p, id.name) /\ AllAsked(p) /\ vals[p.tpl] = Stored(p)
         /\ IsList(Asked(p)) /\ IsList(vals[p.tpl_then]) /\ IsList(vals[p.tpl_else])
         /\ vals[p.tpl] # <<>> /\ IsList(vals[p.tpl])
<1>1. Conditional(p, id.name)
  BY ConditionalIs DEF Ended
<1>2. n \in DOMAIN tpl[id].ph /\ Passed(id, n)
  BY EndedIs DEF IsCond
<1>3. AllAsked(p) /\ vals[p.tpl] = Stored(p)
  BY <1>2 DEF Ended, EvInv, ValuesRight, ConditionalsStored
<1>4. \A x \in DOMAIN tpl : IsList(vals[x])
  BY DEF Ended, Typed, MemoryTyped, Lists
<1>5. IsList(Asked(p)) /\ IsList(vals[p.tpl_then]) /\ IsList(vals[p.tpl_else]) /\ IsList(vals[p.tpl])
  BY <1>1, <1>4 DEF Conditional, Asked
<1>6. vals[p.tpl] # <<>>
  <2>1. CASE p.is_concat
    <3>1. times[Branch(p, Asked(p), 1)] = 1
      BY <1>3, <2>1 DEF AllAsked, NumBranches
    <3>2. Branch(p, Asked(p), 1) \in DOMAIN tpl
      BY <1>1, BranchIs
    <3>3. vals[Branch(p, Asked(p), 1)] # <<>>
      BY <3>1, <3>2, EndedIs
    <3> QED  BY <1>3, <2>1, <3>3 DEF Stored
  <2>2. CASE ~p.is_concat
    <3>1. vals[p.tpl] = ConditionalValues(Asked(p), vals[p.tpl_then], vals[p.tpl_else])
      BY <1>3, <2>2 DEF Stored
    <3>2. Asked(p) # <<>>
      BY <1>3 DEF AllAsked
    <3> QED  BY <1>5, <3>1, <3>2, ConditionalValuesAre
  <2> QED  BY <2>1, <2>2
<1> QED  BY <1>1, <1>3, <1>5, <1>6

LEMMA AskedForEvaluated ==
  ASSUME Ended, NEW id \in DOMAIN tpl, times[id] = 1
  PROVE  AskedFor(id) \subseteq Evaluated
<1>1. \A x \in DOMAIN tpl : times[x] = 1 => x \in Evaluated
  BY DEF Evaluated
<1>2. ASSUME NEW n \in DOMAIN tpl[id].ph
      PROVE  LET p == tpl[id].ph[n]
             IN  IF p.type # "cond" THEN p.tpl \in Evaluated
                 ELSE /\ p.tpl_cond \in Evaluated
                      /\ \A i \in 1 .. NumBranches(p, vals[p.tpl_cond]) :
                           Branch(p, vals[p.tpl_cond], i) \in Evaluated
  <2> PICK p : p = Ph(id, n)
    OBVIOUS
  <2>1. CASE p.type # "cond"
    <3>1. p.tpl \in Evaluated
      BY <1>1, <2>1, EndedPlain DEF IsPlain
    <3> QED  BY <2>1, <3>1 DEF Ph
  <2>2. CASE p.type = "cond"
    <3>1. Conditional(p, id.name) /\ AllAsked(p)
      BY <2>2, EndedConditional DEF IsCond
    <3>2. p.tpl_cond \in Evaluated
      BY <1>1, <3>1 DEF Conditional, AllAsked
    <3>3. \A i \in 1 .. NumBranches(p, vals[p.tpl_cond]) :
            Branch(p, vals[p.tpl_cond], i) \in Evaluated
      BY <1>1, <3>1, BranchIs DEF AllAsked, Asked
    <3> QED  BY <2>2, <3>2, <3>3 DEF Ph
  <2> QED  BY <2>1, <2>2
<1>3. SUFFICES ASSUME NEW x \in AskedFor(id)
               PROVE  x \in Evaluated
  OBVIOUS
<1>4. PICK n \in DOMAIN tpl[id].ph :
        LET p == tpl[id].ph[n]
        IN  IF p.type # "cond" THEN x = p.tpl
            ELSE \/ x = p.tpl_cond
                 \/ \E i \in 1 .. NumBranches(p, vals[p.tpl_cond]) :
                      x = Branch(p, vals[p.tpl_cond], i)
  BY DEF AskedFor
<1> QED  BY <1>2, <1>4

(* What a placeholder means is what its template has, if not joined.       *)
LEMMA PlaceholderMeans ==
  ASSUME Ended, NEW id \in DOMAIN tpl, times[id] = 1, NEW n \in DOMAIN tpl[id].ph
  PROVE  /\ vals[Ph(id, n).tpl] # <<>> /\ IsList(vals[Ph(id, n).tpl])
         /\ MeansPlain(Ph(id, n), vals[Ph(id, n).tpl], MeaningOfPlaceholder(Ph(id, n)))
<1> PICK p : p = Ph(id, n)
  OBVIOUS
<1>1. CASE p.type # "cond"
  <2>1. IsPlain(id, n)
    BY <1>1 DEF IsPlain
  <2>2. p.type \in {"plain", "join"}
    BY <2>1, PlainIs DEF Ended
  <2>3. MeansPlain(p, vals[p.tpl], MeaningOfPlaceholder(p))
    BY <2>2 DEF MeansPlain, MeaningOfPlaceholder
  <2> QED  BY <2>1, <2>3, EndedPlain
<1>2. CASE p.type = "cond"
  <2>1. IsCond(id, n)
    BY <1>2 DEF IsCond
  <2>2. /\ AllAsked(p) /\ vals[p.tpl] = Stored(p) /\ IsList(Asked(p))
        /\ vals[p.tpl] # <<>> /\ IsList(vals[p.tpl])
    BY <2>1, EndedConditional
  <2>3. MeaningOfPlaceholder(p) = vals[p.tpl]
    <3>1. CASE p.is_concat
      <4>1. MeaningOfPlaceholder(p) =
              vals[IF \E v \in ToSet(vals[p.tpl_cond]) : Nonempty(v) THEN p.tpl_then ELSE p.tpl_else]
        BY <1>2, <3>1 DEF MeaningOfPlaceholder
      <4>2. Branch(p, Asked(p), 1) =
              IF \E v \in ToSet(vals[p.tpl_cond]) : Nonempty(v) THEN p.tpl_then ELSE p.tpl_else
        BY <3>1 DEF Branch, Asked
      <4> QED  BY <2>2, <3>1, <4>1, <4>2 DEF Stored
    <3>2. CASE ~p.is_concat
      <4> PICK choices : choices = [i \in DOMAIN Asked(p) |->
                 vals[IF Nonempty(Asked(p)[i]) THEN p.tpl_then ELSE p.tpl_else]]
        OBVIOUS
      <4>1. MeaningOfPlaceholder(p) = Chosen(Asked(p), choices)
        BY <1>2, <3>2 DEF MeaningOfPlaceholder, Chosen, Asked
      <4>2. Chooses(Asked(p), vals[p.tpl_then], vals[p.tpl_else], choices)
        BY DEF Chooses
      <4>3. ConditionalValues(Asked(p), vals[p.tpl_then], vals[p.tpl_else]) = Chosen(Asked(p), choices)
        BY <2>2, <4>2, ConditionalMeans DEF AllAsked
      <4> QED  BY <2>2, <3>2, <4>1, <4>3 DEF Stored
    <3> QED  BY <3>1, <3>2
  <2> QED  BY <1>2, <2>2, <2>3 DEF MeansPlain
<1> QED  BY <1>1, <1>2

(* Every template that was evaluated has the values it means.              *)
LEMMA MeaningIs ==
  ASSUME Ended, NEW id \in DOMAIN tpl, times[id] = 1
  PROVE  vals[id] = Meaning(id)
<1>1. vals[id] # <<>> /\ ~OnStack(id)
  BY EndedIs
<1>2. CASE tpl[id] = Parameter
  <2>1. Own(id)
    BY <1>2 DEF Ended, EvInv, MarksRight, MarkedRight
  <2>2. vals[id] = given[id.name] \/ (given[id.name] = <<>> /\ vals[id] = <<<<>>>>)
    BY <1>2, <2>1 DEF Ended, GivenRight
  <2>3. Meaning(id) = IF given[id.name] = <<>> THEN <<<<>>>> ELSE given[id.name]
    BY <1>2 DEF Meaning
  <2> QED  BY <1>1, <2>2, <2>3
<1>3. CASE tpl[id] # Parameter
  <2> DEFINE means == [n \in DOMAIN tpl[id].ph |-> MeaningOfPlaceholder(tpl[id].ph[n])]
  <2>1. vals[id] = BuildValues(tpl[id], ListsOf(id))
    BY <1>1, <1>3 DEF Ended, EvInv, Built
  <2>2. Meaning(id) = Filled(tpl[id], means)
    BY <1>3 DEF Meaning, Filled
  <2>3. DOMAIN tpl[id].ph = 1 .. Len(tpl[id].ph) /\ Len(tpl[id].ph) \in Nat
    BY PlaceholdersAre DEF Ended
  <2>4. ListsFor(tpl[id], ListsOf(id))
    BY <2>3, PlaceholderMeans DEF ListsFor, ListsOf
  <2>5. \A n \in DOMAIN tpl[id].ph : means[n] = MeaningOfPlaceholder(Ph(id, n))
    BY DEF Ph
  <2>6. DOMAIN means = DOMAIN tpl[id].ph
    OBVIOUS
  <2> HIDE DEF means
  <2>7. \A n \in DOMAIN tpl[id].ph :
          ListsOf(id)[n] # <<>> /\ MeansPlain(tpl[id].ph[n], ListsOf(id)[n], means[n])
    <3> SUFFICES ASSUME NEW n \in DOMAIN tpl[id].ph
                 PROVE  ListsOf(id)[n] # <<>> /\ MeansPlain(tpl[id].ph[n], ListsOf(id)[n], means[n])
      OBVIOUS
    <3>1. ListsOf(id)[n] = vals[Ph(id, n).tpl] /\ tpl[id].ph[n] = Ph(id, n)
      BY DEF ListsOf, Ph
    <3> QED  BY <2>5, <3>1, PlaceholderMeans
  <2>8. BuildValues(tpl[id], ListsOf(id)) = Filled(tpl[id], means)
    BY <2>4, <2>6, <2>7, TemplateMeans
  <2> QED  BY <2>1, <2>2, <2>8
<1> QED  BY <1>2, <1>3
-----------------------------------------------------------------------------
(* Theorems. *)

(* The memory, the stack and the values given keep their kinds, and a      *)
(* template is evaluated at most once.                                     *)
THEOREM TypeCorrect == Spec => []Typed
<1>1. IInv => Typed
  BY DEF IInv
<1> QED  BY <1>1, Invariant, PTL

(* "Each template will be evaluated no more than once", with recursion     *)
(* and however many templates and placeholders refer to it.                *)
THEOREM OnceEvaluated == Spec => []EvaluatedOnce
<1>1. IInv => EvaluatedOnce
  <2> SUFFICES ASSUME IInv
               PROVE  EvaluatedOnce
    OBVIOUS
  <2>1. CASE tpl = None
    <3>1. DOMAIN times = {}
      BY <2>1, EmptySeq DEF IInv, ResultRight
    <3> QED  BY <3>1 DEF EvaluatedOnce
  <2>2. CASE tpl # None
    BY <2>2 DEF IInv, Typed, MemoryTyped, EvaluatedOnce
  <2> QED  BY <2>1, <2>2
<1> QED  BY <1>1, Invariant, PTL

(* No template is evaluated inside its own evaluation: recursion of        *)
(* templates does not become recursion of mist_template_evaluate.          *)
THEOREM NotInsideItself ==
  Spec => [](\A j, k \in DOMAIN stack : stack[j].id = stack[k].id => j = k)
<1>1. IInv => \A j, k \in DOMAIN stack : stack[j].id = stack[k].id => j = k
  <2> SUFFICES ASSUME IInv
               PROVE  \A j, k \in DOMAIN stack : stack[j].id = stack[k].id => j = k
    OBVIOUS
  <2>1. CASE stack = <<>>
    BY <2>1, EmptySeq
  <2>2. CASE stack # <<>>
    BY <2>2 DEF IInv, InEvaluation, EvInv, StackRight, StackMarked
  <2> QED  BY <2>1, <2>2
<1> QED  BY <1>1, Invariant, PTL

(* The branches that a conditional is about to copy values from.           *)
BranchesThere(p) ==
  AskedBranch(p, NumBranches(p, Asked(p)) + 1) =>
    \A i \in 1 .. NumBranches(p, Asked(p)) :
      Branch(p, Asked(p), i) \in evaluated /\ vals[Branch(p, Asked(p), i)] # <<>>

LEMMA BranchFinished ==
  ASSUME TopRight, NEW p, IsCond(Top.id, Top.ph), p = Ph(Top.id, Top.ph),
         NEW x \in {p.tpl_then, p.tpl_else}, times[x] = 1,
         AskedBranch(p, NumBranches(p, Asked(p)) + 1)
  PROVE  x \in evaluated /\ vals[x] # <<>>
<1>1. Conditional(p, Top.id.name)
  BY ConditionalIs DEF TopRight
<1>2. x \in DOMAIN tpl /\ ~Own(x) /\ x \in Parts(p)
  BY <1>1 DEF Conditional
<1>3. ~OnStack(x)
  <2> SUFFICES ASSUME NEW k \in DOMAIN stack, stack[k].id = x
               PROVE  FALSE
    BY DEF OnStack
  <2>1. k # 1 /\ k - 1 \in DOMAIN stack /\ BranchCalled(stack[k - 1], x)
    BY <1>2 DEF TopRight, EvInv, StackRight, Chain, CalledBy, OwnCalled
  <2> PICK f : f = stack[k - 1]
    OBVIOUS
  <2>2. /\ f.id \in DOMAIN tpl /\ IsCond(f.id, f.ph) /\ x \in Parts(Ph(f.id, f.ph))
    BY <2>1 DEF BranchCalled, TopRight, Typed, StackTyped, Frames
  <2>3. f.id = Top.id
    BY <1>2, <2>2, SamePart DEF TopRight
  <2>4. k - 1 = Len(stack)
    BY <2>1, <2>3 DEF TopRight, EvInv, StackRight, StackMarked, Top
  <2> QED  BY <2>4 DEF TopRight
<1> QED  BY <1>2, <1>3 DEF TopRight, EvInv, MarksRight, MarkedRight, ValuesRight, ValuesThere

(* What the engine asserts of branches (assert(nvals >= 1) and             *)
(* assert(branch->is_evaluated)): those that a conditional copies values   *)
(* from were evaluated and have values, with recursion too.                *)
THEOREM BranchesHaveValues ==
  Spec => [](Running /\ Top.ph \in DOMAIN Body.ph /\ Body.ph[Top.ph].type = "cond"
               => BranchesThere(Body.ph[Top.ph]))
<1>1. ASSUME IInv, Running, Top.ph \in DOMAIN Body.ph, Body.ph[Top.ph].type = "cond"
      PROVE  BranchesThere(Body.ph[Top.ph])
  <2> PICK p : p = Ph(Top.id, Top.ph)
    OBVIOUS
  <2>1. TopRight /\ Body.ph[Top.ph] = p /\ IsCond(Top.id, Top.ph) /\ FrameAsked(Top, p)
    BY <1>1, TopIs, TopPlaceholder DEF Body, Ph, IsCond
  <2> DEFINE n == NumBranches(p, Asked(p))
  <2>2. SUFFICES ASSUME AskedBranch(p, n + 1), NEW i \in 1 .. n
                 PROVE  /\ Branch(p, Asked(p), i) \in evaluated
                        /\ vals[Branch(p, Asked(p), i)] # <<>>
    BY <2>1 DEF BranchesThere
  <2>3. Conditional(p, Top.id.name)
    BY <2>1, ConditionalIs DEF TopRight
  <2>4. n \in Nat \ {0}
    BY <2>1, <2>2, <2>3, AskedIs DEF Conditional, AskedBranch
  <2>5. Top.asked = n + 1
    BY <2>2 DEF AskedBranch
  <2>6. times[Branch(p, Asked(p), i)] = 1
    <3> HIDE DEF n
    <3>1. Top.asked > 1 /\ i < Top.asked
      BY <2>4, <2>5
    <3> QED  BY <2>1, <3>1 DEF FrameAsked, BranchesAsked, n
  <2> QED  BY <2>1, <2>2, <2>3, <2>6, BranchIs, BranchFinished
<1> QED  BY <1>1, Invariant, PTL

(* The assertion that a condition has values fails in recursion only.      *)
THEOREM FailsInRecursionOnly == Spec => [](~Recursion => NeverCrashes)
<1>1. IInv => (~Recursion => NeverCrashes)
  BY DEF IInv, ResultRight, NeverCrashes, Alive
<1> QED  BY <1>1, Invariant, PTL

(* A group that was cleared before it got its values is evaluated to what  *)
(* its templates mean, whatever it was evaluated to before.                *)
THEOREM EvaluatedRight == Spec => []EvaluatesRight
<1>1. IInv => EvaluatesRight
  <2> SUFFICES ASSUME IInv, result # Nothing, given # None, ~Recursion
               PROVE  /\ result = Done(vals[Named(Main)]) /\ Named(Main) \in Evaluated
                      /\ \A id \in Evaluated :
                           AskedFor(id) \subseteq Evaluated /\ vals[id] = Meaning(id)
    BY DEF EvaluatesRight
  <2>1. tpl # None /\ stack = <<>> /\ result = Done(vals[Named(Main)])
    BY DEF IInv, ResultRight
  <2>2. Ended
    BY <2>1, GroupIs DEF IInv, InEvaluation, Ended
  <2>3. Named(Main) \in DOMAIN tpl /\ times[Named(Main)] = 1
    BY <2>2 DEF Ended, IsGroup, EvInv
  <2>4. \A id \in DOMAIN tpl : times[id] \in {0, 1}
    BY <2>2, <2>1 DEF Ended, Typed, MemoryTyped
  <2>5. \A id \in Evaluated : id \in DOMAIN tpl /\ times[id] = 1
    BY <2>4 DEF Evaluated
  <2>6. Named(Main) \in Evaluated
    BY <2>3 DEF Evaluated
  <2>7. \A id \in Evaluated : AskedFor(id) \subseteq Evaluated
    BY <2>2, <2>5, AskedForEvaluated
  <2>8. \A id \in Evaluated : vals[id] = Meaning(id)
    BY <2>2, <2>5, MeaningIs
  <2> QED  BY <2>1, <2>6, <2>7, <2>8
<1> QED  BY <1>1, Invariant, PTL
=============================================================================
