------------------------ MODULE MCInstrumentorDirect ------------------------
(***************************************************************************)
(* Two direct interceptors for the same type of objects, which contain     *)
(* their operations.                                                       *)
(***************************************************************************)
EXTENDS Instrumentor, TLC

CONSTANTS i1, i2, f1, f2, fn1, fn2, d1, d2, d3

MCMode ==
  i1 :> (f1 :> "replace_all" @@ f2 :> "replace_null") @@
  i2 :> (f1 :> "replace_not_null" @@ f2 :> "no_replacement")

MCAtPlace == [i \in Interceptor |-> DirectObject]

MCContent ==
  d1 :> (f1 :> fn1 @@ f2 :> NULL) @@
  d2 :> (f1 :> NULL @@ f2 :> fn2) @@
  d3 :> (f1 :> fn2 @@ f2 :> NULL)
=============================================================================
