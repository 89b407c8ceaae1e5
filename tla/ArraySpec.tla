------------------------------ MODULE ArraySpec ------------------------------
(***************************************************************************)
(* What the arrays of a BASIC program promise: a table from the index      *)
(* tuples within the bounds to values, however it is stored.               *)
(***************************************************************************)
EXTENDS Integers, Sequences, FiniteSets

CONSTANTS Var,          \* array variables
          Value,        \* values of the elements
          Zero,         \* the value of a new element
          Index         \* bound: the integers that are ever an index

VARIABLES bnd,          \* bnd[v]: the bounds of each dimension
          at            \* at[v]: the value at each index tuple

vars == <<bnd, at>>

Interval == [lo: Index, hi: Index]
IsBounds(b) == \E n \in 1..4 : b \in [1..n -> Interval]

Indexes(b) == {i \in [DOMAIN b -> Index] :
                  \A k \in DOMAIN b : b[k].lo <= i[k] /\ i[k] <= b[k].hi}

Empty(b) == [i \in Indexes(b) |-> Zero]

TypeOK == /\ \A v \in Var : IsBounds(bnd[v])
          /\ \A v \in Var : at[v] \in [Indexes(bnd[v]) -> Value]

\* An array that is declared without bounds has the elements 0 and 1.
Init == /\ bnd = [v \in Var |-> <<[lo |-> 0, hi |-> 1]>>]
        /\ at = [v \in Var |-> Empty(<<[lo |-> 0, hi |-> 1]>>)]

Redim(v) ==
    /\ IsBounds(bnd'[v])
    /\ bnd' = [bnd EXCEPT ![v] = bnd'[v]]
    /\ at' = [at EXCEPT ![v] = Empty(bnd'[v])]

\* ReDim Preserve moves the upper bound of the first dimension; every element
\* that is still within the bounds keeps its value.
Preserve(v) ==
    \E h \in Index :
       LET b == [bnd[v] EXCEPT ![1].hi = h] IN
       /\ bnd' = [bnd EXCEPT ![v] = b]
       /\ at' = [at EXCEPT ![v] = [i \in Indexes(b) |->
                    IF i \in DOMAIN at[v] THEN at[v][i] ELSE Zero]]

Put(v) ==
    /\ UNCHANGED bnd
    /\ \E i \in DOMAIN at[v], x \in Value : at' = [at EXCEPT ![v][i] = x]

\* ar << items: the array grows at its upper bound, and what it had stays.
Extend(v) ==
    /\ Len(bnd[v]) = 1
    /\ \E h \in Index :
          /\ h > bnd[v][1].hi
          /\ bnd' = [bnd EXCEPT ![v][1].hi = h]
    /\ at'[v] \in [Indexes(bnd'[v]) -> Value]
    /\ \A i \in DOMAIN at[v] : at'[v][i] = at[v][i]
    /\ at' = [at EXCEPT ![v] = at'[v]]

\* ar >> items: every element with one of these values goes, the others keep
\* their order and move down to the lower bound.
Delete(v) ==
    /\ Len(bnd[v]) = 1
    /\ \E gone \in SUBSET Value :
          LET keep == {i \in DOMAIN at[v] : at[v][i] \notin gone}
              rank(i) == Cardinality({k \in keep : k[1] < i[1]})
              b == [bnd[v] EXCEPT ![1].hi = @ - Cardinality(DOMAIN at[v] \ keep)]
          IN /\ bnd' = [bnd EXCEPT ![v] = b]
             /\ at' = [at EXCEPT ![v] = [j \in Indexes(b) |->
                    at[v][CHOOSE i \in keep : rank(i) = j[1] - b[1].lo]]]

\* v = u copies the elements: later changes of v leave u alone.
Copy(v) ==
    \E u \in Var \ {v} :
       /\ bnd' = [bnd EXCEPT ![v] = bnd[u]]
       /\ at' = [at EXCEPT ![v] = at[u]]

Next == \E v \in Var : \/ Redim(v) \/ Preserve(v) \/ Put(v)
                       \/ Extend(v) \/ Delete(v) \/ Copy(v)

Spec == Init /\ [][Next]_vars
=============================================================================
