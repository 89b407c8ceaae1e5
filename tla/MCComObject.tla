---------------------------- MODULE MCComObject ----------------------------
(* Small instances of ComObject, in which nothing tells one object from        *)
(* another nor one variable WithEvents from another, and of ComValues.  Each   *)
(* behaviour is one part's; the other stays as it begins.                      *)
EXTENDS ComObject, ComValues

VARIABLE part

MCTexts == {<<"x">>, <<"x", NUL>>}

ASSUME MCAssumption == ValuesAssumption

MCInit == part \in {"objects", "values"} /\ Init /\ ValuesInit

MCNext ==
    /\ UNCHANGED part
    /\ \/ part = "objects" /\ Next /\ UNCHANGED values
       \/ part = "values" /\ ValuesNext /\ UNCHANGED vars

MCSpec == MCInit /\ [][MCNext]_<<part, vars, values>>

Symmetric ==
    Permutations(Object) \cup Permutations(EventVar) \cup Permutations(StrVar)
=============================================================================
