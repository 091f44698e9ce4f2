--------------------------- MODULE MCInstrumentor ---------------------------
(***************************************************************************)
(* Two indirect interceptors, which instrument some structures at place    *)
(* and copy the others, and two objects that share or exchange structures. *)
(***************************************************************************)
EXTENDS Instrumentor, TLC

CONSTANTS i1, i2, f1, f2, fn1, fn2, s1, s2

MCMode ==
  i1 :> (f1 :> "replace_all" @@ f2 :> "replace_null") @@
  i2 :> (f1 :> "replace_not_null" @@ f2 :> "no_replacement")

MCAtPlace == i1 :> {s1} @@ i2 :> {s1, s2}

MCContent == s1 :> (f1 :> fn1 @@ f2 :> NULL) @@ s2 :> (f1 :> fn2 @@ f2 :> fn1)
=============================================================================
