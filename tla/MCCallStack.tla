---------------------------- MODULE MCCallStack ----------------------------
(* Small instances of CallStack. *)
EXTENDS CallStack, TLC

CONSTANTS t1, t2
Symmetric == Permutations(Func)
=============================================================================
