------------------------- MODULE TemplateEvaluation -------------------------
(***************************************************************************)
(* A group of templates of MiST engine is given values of the parameters   *)
(* and is evaluated, any number of times. A template is evaluated when it  *)
(* is first asked for. Evaluation is recursive: every step here is one of  *)
(* the function that is on top of the stack of calls.                      *)
(***************************************************************************)
EXTENDS Templates, Naturals, Sequences, SequencesExt

CONSTANTS
  Main,        \* name of the main template
  Groups,      \* groups that may be created
  Parameters,  \* what one call may set: lists of values by name
  MaxCalls     \* bound: calls to a group

VARIABLES
  tpl,        \* templates in memory, or None if there is no group
  vals,       \* the values of each template
  evaluated,  \* templates with is_evaluated set
  stack,      \* calls of mist_template_evaluate that have not returned
  result,     \* of the last evaluation
  times,      \* history: how many times each template was evaluated
  given,      \* history: values set since the last clear, or None if some
              \* were set after an evaluation
  calls       \* calls made to the group

memory == <<vals, evaluated, times>>
vars == <<tpl, memory, stack, result, given, calls>>
-----------------------------------------------------------------------------
(* Templates in memory. A template of the group has a name that leads to   *)
(* it; the others belong to a conditional: its branches, and the template  *)
(* which keeps its values.                                                 *)
Named(name) == [name |-> name, path |-> <<>>]
Own(id)     == id.path = <<>>
Parts(p)    == IF p.type = "cond" THEN {p.tpl, p.tpl_then, p.tpl_else} ELSE {}

IsList(s) == s \in Seq(ToSet(s))

IsTemplate(t) ==
  \/ t = Parameter
  \/ IsList(t.sch) /\ IsList(t.ph) /\ Len(t.sch) = Len(t.ph) + 1

(* Placeholder p of a template of group g at id. *)
IsPlaceholder(g, id, p) ==
  IF p.type = "cond"
  THEN /\ p.is_concat \in BOOLEAN
       /\ p.tpl_cond \in DOMAIN g /\ Own(p.tpl_cond)
       /\ p.tpl_then # p.tpl_else /\ p.tpl \notin {p.tpl_then, p.tpl_else}
       /\ g[p.tpl] = Parameter /\ g[p.tpl_then] # Parameter /\ g[p.tpl_else] # Parameter
       /\ \A part \in Parts(p) : part \in DOMAIN g /\ ~Own(part) /\ part.name = id.name
  ELSE p.type \in {"plain", "join"} /\ p.tpl \in DOMAIN g /\ Own(p.tpl)

(* Placeholders share no parts. *)
IsGroup(g) ==
  /\ Named(Main) \in DOMAIN g
  /\ \A id \in DOMAIN g :
       /\ Own(id) => id = Named(id.name)
       /\ IsTemplate(g[id])
       /\ \A n \in DOMAIN g[id].ph : IsPlaceholder(g, id, g[id].ph[n])
  /\ \A id1, id2 \in DOMAIN g :
       \A n1 \in DOMAIN g[id1].ph, n2 \in DOMAIN g[id2].ph :
         Parts(g[id1].ph[n1]) \cap Parts(g[id2].ph[n2]) # {} => id1 = id2 /\ n1 = n2

ASSUME GroupAssumption == None \notin Groups /\ \A g \in Groups : IsGroup(g)
ASSUME ParameterAssumption ==
  \A values \in Parameters : \A m \in DOMAIN values : IsList(values[m])
-----------------------------------------------------------------------------
(* What templates are made into. *)

(* Value i of a list: the last one when there are no more. *)
Value(s, i) == IF i <= Len(s) THEN s[i] ELSE Last(s)
Nonempty(v) == v # <<>>

JoinValues(s, sep) ==
  FoldLeft(LAMBDA joined, v : joined \o sep \o v, Head(s), Tail(s))

(* What placeholder p adds to value i of its template. *)
CopyPlaceholderValue(p, s, i) ==
  IF s = <<>> THEN <<>> ELSE IF p.type = "join" THEN JoinValues(s, p.sep) ELSE Value(s, i)

NumValues(t, lists) ==
  Max({1} \cup {Len(lists[n]) : n \in {n \in DOMAIN t.ph : t.ph[n].type # "join"}})

(* The values of template t whose placeholders have these lists of values. *)
Text(t, texts) == FlattenSeq(<<t.sch[1]>> \o FlattenSeq(
                    [n \in DOMAIN t.ph |-> <<texts[n], t.sch[n + 1]>>]))
BuildValues(t, lists) ==
  [i \in 1 .. NumValues(t, lists) |->
     Text(t, [n \in DOMAIN t.ph |-> CopyPlaceholderValue(t.ph[n], lists[n], i)])]

(* Values of a conditional when each condition chooses a branch.           *)
(* Mistake: there are as many as conditions.                               *)
ConditionalValuesFew(cond, then, else) ==
  [i \in DOMAIN cond |-> Value(IF Nonempty(Value(cond, i)) THEN then ELSE else, i)]
ConditionalValues(cond, then, else) ==
  LET chosen == {IF Nonempty(c) THEN then ELSE else : c \in ToSet(cond)}
  IN  [i \in 1 .. Max({Len(cond)} \cup {Len(s) : s \in chosen}) |->
         Value(IF Nonempty(Value(cond, i)) THEN then ELSE else, i)]
-----------------------------------------------------------------------------
(* Calls. A caller may have changed memory to m before, and goes on with   *)
(* the stack frames after.                                                 *)
Memory == [vals |-> vals, evaluated |-> evaluated, times |-> times]

Clear(m, ids) ==
  [vals      |-> [id \in DOMAIN m.vals |-> IF id \in ids THEN <<>> ELSE m.vals[id]],
   evaluated |-> m.evaluated \ ids,
   times     |-> m.times]

(* A call for the template at id, which is at placeholder ph. If that is a *)
(* conditional, asked is 0 before its condition is evaluated, and then     *)
(* tells which branch is next.                                             *)
Frame(id) == [id |-> id, ph |-> 1, asked |-> 0]

Unchanged(m, id, frames) ==
  /\ id \in m.evaluated
  /\ vals' = m.vals /\ evaluated' = m.evaluated /\ times' = m.times /\ stack' = frames

Mark(m, id) ==
  /\ id \notin m.evaluated
  /\ evaluated' = m.evaluated \cup {id}
  /\ times' = [m.times EXCEPT ![id] = @ + 1]

(* Mistake: a parameter is not marked. *)
EvaluateParameterUnmarked(m, id, frames) ==
  /\ tpl[id] = Parameter /\ id \notin m.evaluated
  /\ vals' = [m.vals EXCEPT ![id] = IF @ = <<>> THEN <<<<>>>> ELSE @]
  /\ evaluated' = m.evaluated /\ times' = [m.times EXCEPT ![id] = @ + 1]
  /\ stack' = frames

(* A parameter without values gets the empty one. *)
EvaluateParameter(m, id, frames) ==
  /\ tpl[id] = Parameter /\ Mark(m, id)
  /\ vals' = [m.vals EXCEPT ![id] = IF @ = <<>> THEN <<<<>>>> ELSE @]
  /\ stack' = frames

(* The mark is set first, so that recursion ends: the template has no      *)
(* values then.                                                            *)
BeginTemplate(m, id, frames) ==
  /\ tpl[id] # Parameter /\ Mark(m, id)
  /\ vals' = [m.vals EXCEPT ![id] = <<>>]
  /\ stack' = Append(frames, Frame(id))

TemplateEvaluate(m, id, frames) ==
  Unchanged(m, id, frames) \/ EvaluateParameter(m, id, frames) \/ BeginTemplate(m, id, frames)
-----------------------------------------------------------------------------
(* Evaluation. Its result is there until values are cleared or it is       *)
(* evaluated again.                                                        *)
Nothing      == [status |-> "nothing", values |-> <<>>]
Failed       == [status |-> "failed", values |-> <<>>]
Done(values) == [status |-> "done", values |-> values]

Alive   == result # Failed
Running == stack # <<>> /\ Alive
Top     == stack[Len(stack)]
Body    == tpl[Top.id]

GoOn(frame) == [stack EXCEPT ![Len(stack)] = frame]
NextPlaceholder == GoOn([Top EXCEPT !.ph = @ + 1, !.asked = 0])
NextBranch      == GoOn([Top EXCEPT !.asked = @ + 1])

(* The branches that the condition with these values asks for. *)
NumBranches(p, cond) == IF p.is_concat THEN 1 ELSE Len(cond)
Branch(p, cond, i) ==
  IF IF p.is_concat THEN \E c \in ToSet(cond) : Nonempty(c) ELSE Nonempty(cond[i])
  THEN p.tpl_then ELSE p.tpl_else

Asked(p) == vals[p.tpl_cond]
AskedBranch(p, i) == p.type = "cond" /\ Top.asked = i /\ Asked(p) # <<>>

EvaluatePlaceholder(p) ==
  /\ p.type # "cond"
  /\ TemplateEvaluate(Memory, p.tpl, NextPlaceholder)
  /\ UNCHANGED result

EvaluateCondition(p) ==
  /\ p.type = "cond" /\ Top.asked = 0
  /\ TemplateEvaluate(Clear(Memory, Parts(p)), p.tpl_cond, NextBranch)
  /\ UNCHANGED result

(* The condition is under evaluation and so has no values. *)
FailAssertion(p) ==
  /\ p.type = "cond" /\ Top.asked = 1 /\ Asked(p) = <<>>
  /\ result' = Failed
  /\ UNCHANGED <<memory, stack>>

EvaluateBranch(p, i) ==
  /\ AskedBranch(p, i) /\ i \in 1 .. NumBranches(p, Asked(p))
  /\ TemplateEvaluate(Memory, Branch(p, Asked(p), i), NextBranch)
  /\ UNCHANGED result

StoreValues(p, i) ==
  /\ AskedBranch(p, i) /\ i = NumBranches(p, Asked(p)) + 1
  /\ vals' = [vals EXCEPT ![p.tpl] =
                IF p.is_concat THEN vals[Branch(p, Asked(p), 1)]
                ELSE ConditionalValues(Asked(p), vals[p.tpl_then], vals[p.tpl_else])]
  /\ evaluated' = evaluated \cup {p.tpl}
  /\ stack' = NextPlaceholder
  /\ UNCHANGED <<times, result>>

PlaceholderEvaluate(p) ==
  \/ EvaluatePlaceholder(p) \/ EvaluateCondition(p) \/ FailAssertion(p)
  \/ EvaluateBranch(p, Top.asked) \/ StoreValues(p, Top.asked)

(* The evaluation ends with its first call. *)
Returned ==
  result' = IF stack' = <<>> THEN Done(vals'[Named(Main)]) ELSE Nothing

ReturnTemplate ==
  /\ Top.ph = Len(Body.ph) + 1
  /\ vals' = [vals EXCEPT ![Top.id] =
                BuildValues(Body, [n \in DOMAIN Body.ph |-> vals[Body.ph[n].tpl]])]
  /\ stack' = Front(stack)
  /\ Returned
  /\ UNCHANGED <<evaluated, times>>

EvaluateStep ==
  /\ Running
  /\ \/ Top.ph \in DOMAIN Body.ph /\ PlaceholderEvaluate(Body.ph[Top.ph])
     \/ ReturnTemplate
  /\ UNCHANGED <<tpl, given, calls>>
-----------------------------------------------------------------------------
(* Calls of the program.                                                   *)
Init ==
  /\ tpl = None /\ vals = <<>> /\ evaluated = {} /\ stack = <<>>
  /\ result = Nothing /\ times = <<>> /\ given = <<>> /\ calls = 0

OwnNames(group) == {id.name : id \in {id \in DOMAIN group : Own(id)}}

(* mist_tg_create_impl *)
Create(group) ==
  /\ tpl' = group
  /\ vals' = [id \in DOMAIN group |-> <<>>] /\ times' = [id \in DOMAIN group |-> 0]
  /\ given' = [m \in OwnNames(group) |-> <<>>]
  /\ UNCHANGED <<evaluated, stack, result, calls>>

Called ==
  /\ tpl # None /\ stack = <<>> /\ Alive
  /\ calls < MaxCalls /\ calls' = calls + 1
  /\ UNCHANGED tpl

(* mist_tg_set_values_impl, and mist_tg_add_value_impl for one value. A    *)
(* value of a name that the group does not have is dropped.                *)
Added(list, values, m) == IF m \in DOMAIN values THEN list \o values[m] ELSE list
SetValues(values) ==
  /\ Called
  /\ vals' = [id \in DOMAIN vals |-> IF Own(id) THEN Added(vals[id], values, id.name)
                                                ELSE vals[id]]
  /\ given' = IF given = None \/ result # Nothing THEN None
              ELSE [m \in DOMAIN given |-> Added(given[m], values, m)]
  /\ UNCHANGED <<evaluated, stack, result, times>>

(* mist_tg_clear_values_impl. Parts of conditionals are left. *)
OwnTemplates == {id \in DOMAIN tpl : Own(id)}
ClearValues ==
  /\ Called
  /\ LET m == Clear(Memory, OwnTemplates)
     IN  vals' = m.vals /\ evaluated' = m.evaluated
  /\ result' = Nothing /\ given' = [m \in OwnNames(tpl) |-> <<>>]
  /\ UNCHANGED <<stack, times>>

(* mist_tg_evaluate_impl. The marks of the templates of the group are      *)
(* removed first.                                                          *)
Evaluate ==
  /\ Called
  /\ TemplateEvaluate([vals |-> vals, evaluated |-> evaluated \ OwnTemplates,
                       times |-> [id \in DOMAIN tpl |-> 0]], Named(Main), <<>>)
  /\ Returned
  /\ UNCHANGED given

Destroy ==
  /\ tpl # None /\ stack = <<>> /\ Alive
  /\ tpl' = None /\ vals' = <<>> /\ evaluated' = {} /\ result' = Nothing
  /\ times' = <<>> /\ given' = <<>> /\ calls' = 0 /\ UNCHANGED stack

Next ==
  \/ tpl = None /\ \E group \in Groups : Create(group)
  \/ \E values \in Parameters : SetValues(values)
  \/ ClearValues \/ Evaluate \/ EvaluateStep \/ Destroy

Spec == Init /\ [][Next]_vars
-----------------------------------------------------------------------------
(* What the header of the engine says templates mean: equations which the  *)
(* values of a template solve together with those of what it refers to.    *)
MeaningOfPlaceholder(p) ==
  LET list    == vals[IF p.type = "cond" THEN p.tpl_cond ELSE p.tpl]
      Choice(yes) == vals[IF yes THEN p.tpl_then ELSE p.tpl_else]
      choices == [i \in DOMAIN list |-> Choice(Nonempty(list[i]))]
  IN  CASE p.type = "plain" -> list
        [] p.type = "join"  -> <<JoinValues(list, p.sep)>>
        [] p.type = "cond" /\ p.is_concat -> Choice(\E v \in ToSet(list) : Nonempty(v))
        [] OTHER -> [i \in 1 .. Max({Len(list)} \cup {Len(choices[k]) : k \in DOMAIN list})
                       |-> Value(Value(choices, i), i)]

Meaning(id) ==
  LET t     == tpl[id]
      lists == [n \in DOMAIN t.ph |-> MeaningOfPlaceholder(t.ph[n])]
  IN  IF t = Parameter THEN IF given[id.name] = <<>> THEN <<<<>>>> ELSE given[id.name]
      ELSE [i \in 1 .. Max({1} \cup {Len(lists[n]) : n \in DOMAIN lists}) |->
              Text(t, [n \in DOMAIN lists |-> Value(lists[n], i)])]

(* What a template refers to: the templates of its placeholders, the       *)
(* conditions, and those branches that conditions choose.                  *)
AskedFor(id) ==
  UNION {LET p == tpl[id].ph[n] IN
         IF p.type # "cond" THEN {p.tpl}
         ELSE {p.tpl_cond} \cup {Branch(p, vals[p.tpl_cond], i)
                                  : i \in 1 .. NumBranches(p, vals[p.tpl_cond])}
           : n \in DOMAIN tpl[id].ph}

Evaluated == {id \in DOMAIN tpl : times[id] > 0}

(* Templates that refer to one another, branches included. *)
Reference(p)  == IF p.type = "cond" THEN p.tpl_cond ELSE p.tpl
References(m) ==
  UNION {{Reference(tpl[id].ph[n]).name : n \in DOMAIN tpl[id].ph}
           : id \in {id \in DOMAIN tpl : id.name = m}}
Recursion ==
  \E names \in SUBSET OwnNames(tpl) :
    names # {} /\ \A m \in names : References(m) \cap names # {}

(* Without recursion a group that was cleared before it got its values     *)
(* evaluates to what its templates mean, whatever was set and evaluated    *)
(* before and in whatever order the templates are evaluated, and no        *)
(* assertion fails.                                                        *)
EvaluatesRight ==
  result # Nothing /\ given # None /\ ~Recursion =>
    /\ result = Done(vals[Named(Main)]) /\ Named(Main) \in Evaluated
    /\ \A id \in Evaluated : AskedFor(id) \subseteq Evaluated /\ vals[id] = Meaning(id)

(* "When the group is evaluated, each template will be evaluated no more   *)
(* than once", with recursion too.                                         *)
EvaluatedOnce == \A id \in DOMAIN times : times[id] <= 1

(* "The functions will neither hang nor crash", with recursion too. It     *)
(* does not hold: a condition that is under evaluation has no values.      *)
NeverCrashes == Alive
=============================================================================
