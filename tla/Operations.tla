------------------------------ MODULE Operations ------------------------------
(***************************************************************************)
(* Operations structures and what a replacement does to one.               *)
(*                                                                         *)
(* An operations structure (struct file_operations and the like) is a      *)
(* function from its fields to operations.  An operation is a function of  *)
(* the program, NULL, or the intermediate operation that an interceptor    *)
(* puts there.  The fields an interceptor replaces, and when, are its      *)
(* array of struct kedr_coi_replacement.                                   *)
(***************************************************************************)

CONSTANTS
  Interceptor,  \* interceptors, each with its own instrumentor
  Field,        \* offsets of the operations in an operations structure
  Function,     \* callback functions of the program
  NULL,         \* the null pointer: no operation, or no operations structure
  Mode          \* Mode[i][f]: how interceptor i replaces field f

Modes == {"replace_all", "replace_null", "replace_not_null", "no_replacement"}

ASSUME ModeAssumption == Mode \in [Interceptor -> [Field -> Modes]]

(* The intermediate operation of interceptor i for field f. *)
Intermediate(i, f) == <<i, f>>
Intermediates == Interceptor \X Field

ASSUME FunctionAssumption == (Function \cup {NULL}) \cap Intermediates = {}

(* What the program puts in a structure, and what may be found in one. *)
ProgramOps == [Field -> Function \cup {NULL}]
AnyOps     == [Field -> Function \cup {NULL} \cup Intermediates]

(* An object without operations: every operation is NULL. *)
NoOps == [f \in Field |-> NULL]

Replaces(i, f, op) ==
  \/ Mode[i][f] = "replace_all"
  \/ Mode[i][f] = "replace_not_null" /\ op # NULL
  \/ Mode[i][f] = "replace_null" /\ op = NULL

(* Structure ops with the replacements of interceptor i. *)
Patch(i, ops) ==
  [f \in Field |-> IF Replaces(i, f, ops[f]) THEN Intermediate(i, f) ELSE ops[f]]

(* Structure ops with the operations of orig where i's replacement is still
   in place; a field changed by somebody else is left alone. *)
Restore(i, ops, orig) ==
  [f \in Field |-> IF /\ Mode[i][f] # "no_replacement"
                      /\ ops[f] = Intermediate(i, f)
                   THEN orig[f] ELSE ops[f]]

(* Operation op is one of the replacements of interceptor i. *)
OwnReplacement(i, op) ==
  \E f \in Field : Mode[i][f] # "no_replacement" /\ op = Intermediate(i, f)

=============================================================================
