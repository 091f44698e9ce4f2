-------------------------- MODULE MCFsInterception --------------------------
(***************************************************************************)
(* A file system with a root, a directory, a named pipe, two names for     *)
(* them and a file: a name may be in the root or in the other directory.   *)
(***************************************************************************)
EXTENDS FsInterception, TLC

CONSTANTS root, d, d2, iroot, idir, n

MCRoot == [dentry |-> root, inode |-> iroot]

MCSymmetry == Permutations({d, d2})
=============================================================================
