----------------------------- MODULE MCPayloads -----------------------------
(***************************************************************************)
(* Two payloads of a module and others of the kernel itself, for           *)
(* operations of which two are in a group and one has no default.  Payload *)
(* p4 is not acceptable: it asks for this one when it is NULL.             *)
(***************************************************************************)
EXTENDS Payloads, TLC

CONSTANTS p1, p2, p3, p4, m1, open, read, lock

Handler(op, external) == [op |-> op, external |-> external]

MCModuleOf == p1 :> m1 @@ p2 :> m1 @@ p3 :> NULL @@ p4 :> NULL

MCPreHandlers ==
  p1 :> <<Handler(open, FALSE), Handler(lock, FALSE)>> @@
  p2 :> <<Handler(open, TRUE)>> @@
  p3 :> <<>> @@
  p4 :> <<Handler(lock, TRUE)>>

MCPostHandlers ==
  p1 :> <<Handler(open, TRUE)>> @@
  p2 :> <<>> @@
  p3 :> <<Handler(read, FALSE), Handler(open, FALSE)>> @@
  p4 :> <<>>

MCGroup == open :> 1 @@ read :> 1 @@ lock :> 0
=============================================================================
