------------------------------ MODULE Templates ------------------------------
(***************************************************************************)
(* What a template of MiST engine, the engine of kedr_gen, consists of:    *)
(* chunks of text, and a placeholder between each two of them.             *)
(***************************************************************************)
CONSTANT None  \* NULL

Template(chunks, placeholders) == [sch |-> chunks, ph |-> placeholders]

(* A parameter is a template without chunks, and so is the template in     *)
(* which a conditional keeps its values.                                   *)
Parameter == Template(<<>>, <<>>)
=============================================================================
