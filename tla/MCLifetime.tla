----------------------------- MODULE MCLifetime -----------------------------
(* Instance of Lifetime for TLC: the main module and one that it uses, which   *)
(* declare one library in common and one each that the other lacks.            *)
EXTENDS Lifetime, TLC

CONSTANTS t1, t2, x, y

MCDeclares == <<{x}, {x, y}>>
=============================================================================
