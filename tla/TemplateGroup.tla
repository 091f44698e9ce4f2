---------------------------- MODULE TemplateGroup ----------------------------
(***************************************************************************)
(* A group of templates of MiST engine: it is created from the strings of  *)
(* the templates, and then evaluated.                                      *)
(***************************************************************************)
EXTENDS TemplateParser, TemplateEvaluation, FiniteSets, Functions

CONSTANTS
  Pieces,      \* what strings are put together from
  MaxPieces    \* bound: pieces in a string

VARIABLE source  \* pieces of a string that is tried as a template
-----------------------------------------------------------------------------
(* Creation: the templates with these strings by name, and the parameters. *)
Branches(p) == IF p.type = "cond" THEN {p.tpl_then, p.tpl_else} ELSE {}

RECURSIVE CollectAttrs(_, _)
CollectAttrs(templates, t) ==
  UNION {({p.name} \ DOMAIN templates)
           \cup UNION {CollectAttrs(templates, b) : b \in Branches(p)} : p \in ToSet(t.ph)}

CreateAttrs(templates) ==
  [a \in UNION {CollectAttrs(templates, templates[m]) : m \in DOMAIN templates} |-> Parameter]

(* Parts of placeholder n of the template at id. *)
Inner(id, n, who) == [id EXCEPT !.path = @ \o <<n, who>>]

(* Placeholder p, with the templates it refers to. *)
Connected(id, n, p) ==
  LET there == [type |-> p.type, sep |-> p.sep, is_concat |-> p.is_concat]
  IN  IF p.type # "cond" THEN there @@ [tpl |-> Named(p.name)]
      ELSE there @@ [tpl      |-> Inner(id, n, "tpl"),  tpl_cond |-> Named(p.name),
                     tpl_then |-> Inner(id, n, "then"), tpl_else |-> Inner(id, n, "else")]

(* Template t at id, and those of its conditionals. *)
RECURSIVE Connect(_, _)
Connect(id, t) ==
  {<<id, Template(t.sch, [n \in DOMAIN t.ph |-> Connected(id, n, t.ph[n])])>>} \cup UNION {
    {<<Inner(id, n, "tpl"), Parameter>>}
      \cup Connect(Inner(id, n, "then"), t.ph[n].tpl_then)
      \cup Connect(Inner(id, n, "else"), t.ph[n].tpl_else)
      : n \in {n \in DOMAIN t.ph : t.ph[n].type = "cond"}}

InMemory(templates) ==
  LET placed == UNION {Connect(Named(m), templates[m]) : m \in DOMAIN templates}
  IN  [id \in {q[1] : q \in placed} |-> (CHOOSE q \in placed : q[1] = id)[2]]

(* A string that is not a template, and the absence of the main template,  *)
(* make the creation fail, which leaves nothing behind.                    *)
Complete(templates) == templates @@ CreateAttrs(templates)
Accepted(templates) ==
  /\ \A m \in DOMAIN templates : templates[m] # None
  /\ Main \in DOMAIN Complete(templates)
Created(strings) ==
  LET read == {[m \in DOMAIN s |-> FromString(s[m])] : s \in strings}
  IN  {InMemory(Complete(templates)) : templates \in {t \in read : Accepted(t)}}
-----------------------------------------------------------------------------
(* A string to be read gets longer. *)
Write(p) ==
  /\ tpl = None /\ calls = 0 /\ Len(source) < MaxPieces
  /\ source' = Append(source, p)
  /\ UNCHANGED vars

(* No string is read any more while there is a group. *)
GroupInit == source = <<>> /\ Init
GroupNext ==
  \/ \E p \in Pieces : Write(p)
  \/ source = <<>> /\ Next /\ UNCHANGED source
GroupSpec == GroupInit /\ [][GroupNext]_<<vars, source>>
-----------------------------------------------------------------------------
(* What a string says: its markers in pairs, what is before, in and behind *)
(* each, and the conditionals.                                             *)
Places(s, P(_)) == SelectSeq([n \in DOMAIN s |-> n], P)
Marks(s) == Places(s, LAMBDA n : s[n] \in {BeginMarker, EndMarker})
Segment(s, k) ==
  LET marks == <<0>> \o Marks(s) \o <<Len(s) + 1>>
  IN  SubSeq(s, marks[k] + 1, marks[k + 1] - 1)
Tokens(s) ==
  [k \in 1 .. Len(Marks(s)) + 1 |->
     IF k % 2 = 1 THEN Chunk(Segment(s, k)) ELSE TokenFromPhString(Segment(s, k))]
Paired(s) ==
  /\ Len(Marks(s)) % 2 = 0
  /\ \A k \in DOMAIN Marks(s) : s[Marks(s)[k]] = IF k % 2 = 1 THEN BeginMarker ELSE EndMarker

Keywords(tokens, types) == {k \in DOMAIN tokens : tokens[k].type \in types}
Depth(tokens, k) == Cardinality({j \in Keywords(tokens, {"IF"}) : j <= k})
                  - Cardinality({j \in Keywords(tokens, {"ENDIF"}) : j <= k})

(* Every "endif" ends an "if", every "if" is ended, and an "else" is in an
   "if" which has no other one. *)
Balanced(tokens) ==
  /\ \A k \in DOMAIN tokens : Depth(tokens, k) >= 0
  /\ Depth(tokens, Len(tokens)) = 0
  /\ \A k \in Keywords(tokens, {"ELSE"}) :
       /\ Depth(tokens, k) > 0
       /\ \A j \in Keywords(tokens, {"ELSE"}) :
            j < k /\ Depth(tokens, j) = Depth(tokens, k) =>
              \E i \in j .. k : Depth(tokens, i) < Depth(tokens, k)

ReferenceTo(token) == IF token.type = "IF" THEN MatchIf(<<token>>, 1)
                                         ELSE ParsePlaceholder(<<token>>, 1)
PlaceholderTokens(tokens) == Keywords(tokens, {"PH", "IF"})

WellFormed(tokens) ==
  /\ None \notin ToSet(tokens)
  /\ \A k \in PlaceholderTokens(tokens) : ReferenceTo(tokens[k]) # SyntaxError
  /\ Balanced(tokens)

(* The tokens as <<type, contents>>, without "else" before an empty branch. *)
Essence(tokens) ==
  LET empty == {k \in Keywords(tokens, {"ELSE"}) :
                  tokens[k + 1].text = <<>> /\ tokens[k + 2].type = "ENDIF"}
      kept  == Places(tokens, LAMBDA k : k \notin empty /\ k - 1 \notin empty)
  IN  [k \in DOMAIN kept |->
         LET t == tokens[kept[k]]
         IN  <<t.type, IF t.type = "SCH" THEN t.text
                       ELSE IF t.type \in {"PH", "IF"} THEN ReferenceTo(t).node ELSE <<>> >>]

(* What a template was parsed from, in the same form. *)
RECURSIVE Unparse(_)
Unparse(t) ==
  FoldLeft(LAMBDA s, n :
             LET p == t.ph[n]
             IN  s \o (IF p.type # "cond" THEN <<<<"PH", p>>>>
                       ELSE <<<<"IF", [p EXCEPT !.tpl_then = None, !.tpl_else = None]>>>>
                              \o Unparse(p.tpl_then)
                              \o (IF p.tpl_else = Template(<<<<>>>>, <<>>) THEN <<>>
                                  ELSE <<<<"ELSE", <<>>>>>> \o Unparse(p.tpl_else))
                              \o <<<<"ENDIF", <<>>>>>>)
                   \o <<<<"SCH", t.sch[n + 1]>>>>,
           <<<<"SCH", t.sch[1]>>>>, [n \in DOMAIN t.ph |-> n])

(* A string is accepted if it is well-formed and only then, and nothing of
   it is lost, added or moved: each branch has what stands between its
   keywords, however conditionals are nested. *)
ReadsRight(s, t) ==
  /\ t # None <=> Paired(s) /\ WellFormed(Tokens(s))
  /\ t # None => Unparse(t) = Essence(Tokens(s))
ParsesRight ==
  tpl = None => ReadsRight(FlattenSeq(source), FromString(FlattenSeq(source)))
=============================================================================
