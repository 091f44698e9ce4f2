-------------------------- MODULE MCOpsTableGlobal --------------------------
(***************************************************************************)
(* Interceptors that contend for one structure of two operations, one of   *)
(* which only the first interceptor replaces.                              *)
(***************************************************************************)
EXTENDS OpsTableGlobal, TLC

CONSTANTS i1, i2, f1, f2, fn1, fn2, s1, s2

MCMode ==
  i1 :> (f1 :> "replace_all" @@ f2 :> "replace_not_null") @@
  i2 :> (f1 :> "replace_not_null" @@ f2 :> "replace_null")

MCContent == s1 :> (f1 :> fn1 @@ f2 :> fn2) @@ s2 :> (f1 :> fn2 @@ f2 :> NULL)

(* The default selector decides by the address: the same for both. *)
SameMechanism == [i \in Interceptor |-> {s1}]
=============================================================================
