----------------------- MODULE MCForeignInstrumentor -----------------------
(***************************************************************************)
(* Two foreign interceptors bound to one normal interceptor, a factory and *)
(* an object created from it, which may be watched as a factory as well.   *)
(* The two watches have ties of their own.                                 *)
(***************************************************************************)
EXTENDS ForeignInstrumentor, TLC

CONSTANTS i, g1, g2, f1, fn1, fn2, s1, s2, p1, o1, id1, id2, t1, t2

MCMode ==
  i :> (f1 :> "replace_not_null") @@
  g1 :> (f1 :> "replace_all") @@ g2 :> (f1 :> "replace_all")

MCAtPlace == i :> {s1} @@ g1 :> {} @@ g2 :> {}

MCContent == s1 :> (f1 :> fn1) @@ s2 :> (f1 :> fn2)

MCWatching ==
  {[id |-> id1, tie |-> t1, ops_p |-> p1], [id |-> id2, tie |-> t2, ops_p |-> o1]}

MCSymmetry == Permutations({g1, g2})
=============================================================================
