---------------------------- MODULE MCInterceptors ----------------------------
(***************************************************************************)
(* A normal interceptor with two factory interceptors, an object that the  *)
(* program watches and one that has the same operations structure and that *)
(* it does not, and a factory.                                             *)
(***************************************************************************)
EXTENDS Interceptors, TLC

CONSTANTS n, g1, g2, o1, o2, a1

MCWatchable == n :> {o1} @@ g1 :> {a1} @@ g2 :> {}

MCOpsOf == o1 :> "s1" @@ o2 :> "s1" @@ a1 :> "s2"
=============================================================================
