--------------------------- MODULE TemplateParser ---------------------------
(***************************************************************************)
(* How MiST engine, the engine of kedr_gen, reads a template: the string   *)
(* is broken into tokens, and the tokens are parsed into chunks of text    *)
(* and placeholders between them.                                          *)
(*                                                                         *)
(* A string is a sequence of lexemes: markers, keywords, punctuation,      *)
(* blanks and other words, none of which is a part of another.             *)
(***************************************************************************)
EXTENDS Templates, Naturals, Sequences, SequencesExt

CONSTANTS
  Words,        \* lexemes made of characters that names may have
  BeginMarker,  \* begin of a placeholder, "<$"
  EndMarker     \* end of a placeholder, "$>"

Blank == " "
Words0 == Words \cup {"if", "else", "endif", "concat", "join"}
-----------------------------------------------------------------------------
(* Strings. *)
Suffix(s, n) == SubSeq(s, n, Len(s))
Prefix(s, n) == SubSeq(s, 1, n - 1)

(* Place of the first lexeme x in s, behind the end if there is none. *)
Find(s, x) ==
  IF x \in ToSet(s) THEN CHOOSE n \in DOMAIN s : s[n] = x /\ x \notin ToSet(Prefix(s, n))
                    ELSE Len(s) + 1

Trim(s) ==
  LET solid == {n \in DOMAIN s : s[n] # Blank}
  IN  IF solid = {} THEN <<>>
      ELSE SubSeq(s, CHOOSE n \in solid : \A m \in solid : n <= m,
                     CHOOSE n \in solid : \A m \in solid : n >= m)

NameIsBad(s) ==
  \/ s = <<>> \/ Head(s) = Blank
  \/ ~(ToSet(s) \subseteq Words0 \cup {Blank})
-----------------------------------------------------------------------------
(* Tokens. *)
Token(type, text) == [type |-> type, text |-> text]
Chunk(s) == Token("SCH", s)

(* What stands between a begin and an end marker. *)
TokenFromPhString(s) ==
  LET t     == Trim(s)
      first == Prefix(t, Find(t, Blank))
      rest  == Trim(Suffix(t, Find(t, Blank)))
  IN  CASE t = <<>>             -> None
        [] first = <<"if">>     -> IF rest = <<>> THEN None ELSE Token("IF", rest)
        [] first = <<"else">>   -> IF rest # <<>> THEN None ELSE Token("ELSE", t)
        [] first = <<"endif">>  -> IF rest # <<>> THEN None ELSE Token("ENDIF", t)
        [] OTHER                -> Token("PH", t)

(* The chunks and the placeholders between them, or nothing: a marker has
   no pair or a placeholder makes no sense. *)
RECURSIVE Tokenize(_), TokenizeAfterBegin(_, _), TokenizeAfterEnd(_, _, _)
Tokenize(s) ==
  IF BeginMarker \in ToSet(s)
  THEN TokenizeAfterBegin(Prefix(s, Find(s, BeginMarker)), Suffix(s, Find(s, BeginMarker) + 1))
  ELSE IF EndMarker \in ToSet(s) THEN <<>> ELSE <<Chunk(s)>>

TokenizeAfterBegin(before, s) ==
  IF EndMarker \in ToSet(before) \/ EndMarker \notin ToSet(s) THEN <<>>
  ELSE TokenizeAfterEnd(before, Prefix(s, Find(s, EndMarker)), Suffix(s, Find(s, EndMarker) + 1))

AddTokens(before, token, tokens) ==
  IF token = None \/ tokens = <<>> THEN <<>> ELSE <<Chunk(before), token>> \o tokens

TokenizeAfterEnd(before, contents, s) ==
  IF BeginMarker \in ToSet(contents) THEN <<>>
  ELSE AddTokens(before, TokenFromPhString(contents), Tokenize(s))
-----------------------------------------------------------------------------
(* Parsing. Every function starts at a token and returns the place of the  *)
(* first token it has left and what it has made of the others.             *)
Parsed(next, node) == [next |-> next, node |-> node]
SyntaxError == Parsed(0, None)

Placeholder(type, name, sep) ==
  [type |-> type, name |-> name, sep |-> sep,
   is_concat |-> FALSE, tpl_then |-> None, tpl_else |-> None]

MatchStringChunk(tokens, start, t) ==
  Parsed(start + 1, [t EXCEPT !.sch = Append(@, tokens[start].text)])

(* "name" or "name : join(separator)" *)
ParsePlaceholder(tokens, start) ==
  LET expr      == tokens[start].text
      name      == Trim(Prefix(expr, Find(expr, ":")))
      directive == Trim(Suffix(expr, Find(expr, ":") + 1))
      argument  == Trim(Suffix(directive, 2))
  IN  IF NameIsBad(name) THEN SyntaxError
      ELSE IF ":" \notin ToSet(expr)
      THEN Parsed(start + 1, Placeholder("plain", name, None))
      ELSE IF /\ directive # <<>> /\ Head(directive) = "join"
              /\ argument # <<>> /\ Head(argument) = "(" /\ Last(argument) = ")"
      THEN Parsed(start + 1, Placeholder("join", name, Prefix(Suffix(argument, 2),
                                                              Len(argument) - 1)))
      ELSE SyntaxError

(* "concat(name)", or else it is all a name. *)
ParseCondExpr(expr) ==
  LET argument == Trim(Suffix(expr, 2))
      name     == Trim(SubSeq(argument, 2, Len(argument) - 1))
  IN  IF /\ Head(expr) = "concat" /\ Last(expr) = ")"
         /\ Head(argument) = "(" /\ name # <<>>
      THEN [is_concat |-> TRUE, name |-> name]
      ELSE [is_concat |-> FALSE, name |-> expr]

Condition(next, cond) ==
  IF NameIsBad(cond.name) THEN SyntaxError
  ELSE Parsed(next, [Placeholder("cond", cond.name, None) EXCEPT !.is_concat = cond.is_concat])

MatchIf(tokens, start) == Condition(start + 1, ParseCondExpr(tokens[start].text))

RECURSIVE ParseTemplate(_, _), ParseRest(_, _, _), AddPlaceholder(_, _, _),
          ParsePhExpression(_, _), ParseThen(_, _), ParseElse(_, _, _)

ParseTemplate(tokens, start) ==
  LET p == MatchStringChunk(tokens, start, Template(<<>>, <<>>))
  IN  ParseRest(tokens, p.next, p.node)

(* Placeholders, each with the chunk after it, up to the end, "else" or
   "endif". *)
ParseRest(tokens, start, t) ==
  IF start > Len(tokens) \/ tokens[start].type \in {"ELSE", "ENDIF"}
  THEN Parsed(start, t)
  ELSE AddPlaceholder(tokens, t, ParsePhExpression(tokens, start))

AddPlaceholder(tokens, t, p) ==
  LET q == MatchStringChunk(tokens, p.next, [t EXCEPT !.ph = Append(@, p.node)])
  IN  IF p = SyntaxError THEN SyntaxError ELSE ParseRest(tokens, q.next, q.node)

ParsePhExpression(tokens, start) ==
  IF tokens[start].type = "IF" THEN ParseThen(tokens, MatchIf(tokens, start))
                               ELSE ParsePlaceholder(tokens, start)

(* A conditional: "if", a branch, "else" and a branch if there is one,
   "endif". Without "else" the branch is the empty text. *)
ParseThen(tokens, if) ==
  IF if = SyntaxError THEN SyntaxError
  ELSE ParseElse(tokens, if.node, ParseTemplate(tokens, if.next))

(* Mistake: what ends the branch of "else" is not looked at. *)
MatchEndifTwoElse(tokens, node, then, else) ==
  IF else.next \in DOMAIN tokens
  THEN Parsed(else.next + 1, [node EXCEPT !.tpl_then = then, !.tpl_else = else.node])
  ELSE SyntaxError

MatchEndif(tokens, node, then, else) ==
  IF else.next \in DOMAIN tokens /\ tokens[else.next].type = "ENDIF"
  THEN Parsed(else.next + 1, [node EXCEPT !.tpl_then = then, !.tpl_else = else.node])
  ELSE SyntaxError

ParseElse(tokens, node, then) ==
  IF then.next \notin DOMAIN tokens THEN SyntaxError
  ELSE MatchEndif(tokens, node, then.node,
                  IF tokens[then.next].type = "ELSE" THEN ParseTemplate(tokens, then.next + 1)
                  ELSE Parsed(then.next, Template(<<<<>>>>, <<>>)))

(* The template that string s describes, None if it describes none. *)
AllParsed(tokens, p) == IF p.next = Len(tokens) + 1 THEN p.node ELSE None
FromTokens(tokens)   == IF tokens = <<>> THEN None ELSE AllParsed(tokens, ParseTemplate(tokens, 1))
FromString(s)        == FromTokens(Tokenize(s))
=============================================================================
