--------------------------- MODULE MCTemplateGroup ---------------------------
(***************************************************************************)
(* Strings of some pieces, most of which are no templates, and groups of a *)
(* main template a with a template b that has several values, has them in  *)
(* a conditional, refers to a, or is missing, which makes it a parameter.  *)
(***************************************************************************)
EXTENDS TemplateGroup

A == <<"a">>
B == <<"b">>

RefA   == <<"<$", "a", "$>">>
RefB   == <<"<$", "b", "$>">>
JoinB  == <<"<$", "b", ":", "join", "(", "x", ")", "$>">>
IfB    == <<"<$", "if", " ", "b", "$>">>
ConcatB == <<"<$", "if", " ", "concat", "(", "b", ")", "$>">>
Else   == <<"<$", "else", "$>">>
Endif  == <<"<$", "endif", "$>">>
RefC   == <<"<$", "c", "$>">>
RefD   == <<"<$", "d", "$>">>
IfC    == <<"<$", "if", " ", "c", "$>">>
IfA    == <<"<$", "if", " ", "a", "$>">>

MCPieces == {<<"x">>, <<"<$">>, <<"$>">>, <<"else">>, JoinB, IfB, Else, Endif}

(* What a, and b, may have. *)
Items ==
  {<<"x">>, RefB, JoinB, RefD, IfB \o Endif,
   IfB \o RefD \o Else \o RefB \o Endif,
   IfB \o RefC \o Else \o IfC \o RefD \o Else \o <<"y">> \o Endif \o Endif,
   ConcatB \o RefD \o Else \o <<"y">> \o Endif}
Bodies ==
  {RefC, RefA, RefC \o <<"x">> \o RefD, IfC \o <<"y">> \o Else \o RefD \o Endif,
   IfA \o RefC \o Endif}

MCStrings ==
  {A :> (i \o j) : i \in Items, j \in Items}
    \cup {(A :> (i \o j)) @@ (B :> b) : i \in Items, j \in Items, b \in Bodies}

MCGroups == Created(MCStrings)

MCParameters ==
  {B :> <<<<"x">>>>,
   (<<"c">> :> <<<<>>>>) @@ (<<"d">> :> <<<<"z">>, <<"y">>>>),
   (<<"c">> :> <<<<"x">>>>) @@ (A :> <<<<"z">>>>)}
=============================================================================
