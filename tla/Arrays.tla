------------------------------- MODULE Arrays -------------------------------
(***************************************************************************)
(* array<T> of the runtime library (src/lib/core/core.h): a std::vector    *)
(* with the bounds of one to four dimensions, for the array variables of   *)
(* a BASIC program.                                                        *)
(***************************************************************************)
EXTENDS Integers, Sequences, SequencesExt

CONSTANTS Var,          \* array variables
          Value,        \* values of the elements
          Zero,         \* T()
          Program,      \* bound: which arrays a program uses, with how many
                        \* dimensions and which bounds in Dim and ReDim
          Index,        \* the indexes it uses; bound for what grows
          MaxSize,      \* bound: elements of an array
          Careful       \* the program gives a ReDim Preserve the lower bound
                        \* the array has, keeps the indexes of arrays with
                        \* several dimensions within the bounds and passes
                        \* no element but the first one to the array's own >>

ArrayAssumption ==
    /\ Zero \in Value
    /\ Program \subseteq [arrays: SUBSET Var, rank: 1..4,
                   bounds: SUBSET [lo: Index, hi: Index]]
    /\ Index \subseteq Int /\ 0 .. 1 \subseteq Index /\ \A x, y \in Index : x .. y \subseteq Index
    /\ MaxSize \in Nat
    /\ Careful \in BOOLEAN

VARIABLES dim,      \* dim[v]: lo, hi and d of each of the four dimensions
          data,     \* data[v]: the vector
          prog      \* the program that runs

vars == <<dim, data, prog>>

Dimension == [lo: Int, hi: Int, d: Nat]

Unused == [lo |-> 0, hi |-> 0, d |-> 0]

\* swap( l, h ) when h < l
Ordered(r) == IF r.hi < r.lo THEN [lo |-> r.hi, hi |-> r.lo, d |-> r.lo - r.hi + 1]
              ELSE [lo |-> r.lo, hi |-> r.hi, d |-> r.hi - r.lo + 1]

\* The product of the dimensions that are in use.
Size(dm) == LET factor(k) == IF dm[k].d = 0 THEN 1 ELSE dm[k].d
            IN dm[1].d * factor(2) * factor(3) * factor(4)

\* vector::resize
Resize(s, n) == [i \in 1..n |-> IF i <= Len(s) THEN s[i] ELSE Zero]

\* The dimensions in use.
Rank(dm) == IF dm[2].d = 0 THEN 1 ELSE IF dm[3].d = 0 THEN 2
            ELSE IF dm[4].d = 0 THEN 3 ELSE 4

\* array() calls redim(0,1).
Default == [k \in 1..4 |-> IF k = 1 THEN [lo |-> 0, hi |-> 1, d |-> 2] ELSE Unused]

Init == /\ dim = [v \in Var |-> Default]
        /\ data = [v \in Var |-> <<Zero, Zero>>]
        /\ prog \in Program

Set(v, dm, s) == /\ Len(s) <= MaxSize
                 /\ dm[1].hi \in Index
                 /\ dim' = [dim EXCEPT ![v] = dm]
                 /\ data' = [data EXCEPT ![v] = s]

-----------------------------------------------------------------------------
(* redim, for 1 to prog.rank pairs of bounds. *)

Pairs == UNION {[1..n -> prog.bounds] : n \in 1..prog.rank}

\* preserve is false: the other dimensions are reset.
RedimDimensions(dm, b) ==
    [k \in 1..4 |-> IF k <= Len(b) THEN Ordered(b[k]) ELSE Unused]

\* Dim and ReDim
Redim(v, b) ==
    LET dm == RedimDimensions(dim[v], b) IN
    Set(v, dm, Resize(<<>>, Size(dm)))

\* preserve is true: only the first dimension changes, and with several pairs
\* the dimensions beyond them are reset.
PreserveDimensions(dm, b) ==
    [k \in 1..4 |-> IF k = 1 THEN Ordered(b[1])
                    ELSE IF Len(b) > 1 /\ k > Len(b) THEN Unused ELSE dm[k]]

\* ReDim Preserve, with all bounds or with those of the first dimension alone
RedimPreserve(v, b) ==
    LET dm == PreserveDimensions(dim[v], b) IN
    /\ Len(b) \in {1, Rank(dim[v])}
    /\ Careful => dm[1].lo = dim[v][1].lo
    /\ Set(v, dm, Resize(data[v], Size(dm)))

-----------------------------------------------------------------------------
(* Element access. *)

\* Where operator() finds an element, with one to four indexes.
Offset(dm, i) ==
    LET from(k) == i[k] - dm[k].lo IN
    CASE Len(i) = 1 -> from(1)
      [] Len(i) = 2 -> from(1) * dm[2].d + from(2)
      [] Len(i) = 3 -> from(1) * dm[2].d * dm[3].d + from(2) * dm[3].d + from(3)
      [] Len(i) = 4 -> from(1) * dm[2].d * dm[3].d * dm[4].d
                       + from(2) * dm[3].d * dm[4].d + from(3) * dm[4].d + from(4)

Within(dm, i) == \A k \in DOMAIN i : dm[k].lo <= i[k] /\ i[k] <= dm[k].hi

\* ar(i) = x: at() throws when the offset is not one of the vector.
Put(v, i, x) ==
    /\ Careful /\ Len(i) > 1 => Within(dim[v], i)
    /\ LET o == Offset(dim[v], i) IN
       data' = IF o \in 0 .. Len(data[v]) - 1
               THEN [data EXCEPT ![v][o + 1] = x] ELSE data
    /\ UNCHANGED dim

-----------------------------------------------------------------------------
(* << and >>, which throw when there is a second dimension. *)

OneDimension(v) == dim[v][2].d = 0

\* d += n and hi += n
Grow(dm, n) == [dm EXCEPT ![1].hi = @ + n, ![1].d = @ + n]

\* Mutant: the upper bound is not moved.
AppendItemsOnly(v, items) ==
    /\ OneDimension(v)
    /\ Set(v, [dim[v] EXCEPT ![1].d = @ + Len(items)], data[v] \o items)

\* ar << x, and ar << other, item by item
AppendItems(v, items) ==
    /\ OneDimension(v)
    /\ Set(v, Grow(dim[v], Len(items)), data[v] \o items)

\* vector::erase: the elements behind position i move down; the last place
\* keeps what was in it.
Erase(s, i) == [mem |-> [k \in DOMAIN s.mem |-> IF i <= k /\ k < s.len
                                                THEN s.mem[k + 1] ELSE s.mem[k]],
                len |-> s.len - 1]

\* What the item refers to: a value from outside, or the place pos of the vector.
Outside(x) == [value |-> x, pos |-> 0]
Own(s, p) == [value |-> s[p], pos |-> p]
Deref(mem, item) == IF item.pos = 0 THEN item.value ELSE mem[item.pos]

\* Mutant: the scan runs upwards and steps over what moves down.
ScanUpwards(s, item) ==
    LET n == Len(s)
        after[i \in 0..n] ==
            IF i = 0 THEN [mem |-> s, len |-> n]
            ELSE IF i <= after[i - 1].len
                    /\ after[i - 1].mem[i] = Deref(after[i - 1].mem, item)
                 THEN Erase(after[i - 1], i) ELSE after[i - 1]
    IN SubSeq(after[n].mem, 1, after[n].len)

\* it = end() - 1 down to begin(): erase what equals the item, a reference.
Scan(s, item) ==
    LET n == Len(s)
        after[i \in 0..n] ==
            IF i = 0 THEN [mem |-> s, len |-> n]
            ELSE LET before == after[i - 1]
                     it == n - i + 1
                 IN IF before.mem[it] = Deref(before.mem, item)
                    THEN Erase(before, it) ELSE before
    IN SubSeq(after[n].mem, 1, after[n].len)

\* The vector and the dimension after the scan.
RemoveWith(v, item) ==
    LET s == Scan(data[v], item) IN
    /\ OneDimension(v)
    /\ Set(v, Grow(dim[v], Len(s) - Len(data[v])), s)

\* ar >> x
RemoveValue(v, x) == RemoveWith(v, Outside(x))

\* ar >> ar(i), with the element at position p of the vector: the scan comes
\* to the first element last.
RemoveElement(v, p) == (Careful => p = 1) /\ RemoveWith(v, Own(data[v], p))

\* ar >> other: the items of the other array one after the other
RemoveItems(v, u) ==
    LET n == Len(data[u])
        left[i \in 0..n] == IF i = 0 THEN data[v]
                            ELSE Scan(left[i - 1], Outside(data[u][i]))
    IN /\ OneDimension(v)
       /\ Set(v, Grow(dim[v], Len(left[n]) - Len(data[v])), left[n])

\* v = u
Assign(v, u) == Set(v, dim[u], data[u])

Operation(v) ==
    \/ \E b \in Pairs : Redim(v, b) \/ RedimPreserve(v, b)
    \/ \E i \in [1..Rank(dim[v]) -> Index], x \in Value : Put(v, i, x)
    \/ \E x \in Value : AppendItems(v, <<x>>) \/ RemoveValue(v, x)
    \/ \E p \in DOMAIN data[v] : RemoveElement(v, p)
    \/ \E u \in prog.arrays \ {v} : \/ AppendItems(v, data[u])
                                    \/ RemoveItems(v, u)
                                    \/ Assign(v, u)

Next == (\E v \in prog.arrays : Operation(v)) /\ UNCHANGED prog

Spec == Init /\ [][Next]_vars

-----------------------------------------------------------------------------
(* Properties. *)

TypeOK ==
    /\ dim \in [Var -> [1..4 -> Dimension]]
    /\ data \in [Var -> Seq(Value)]

\* The vector has an element for every place the dimensions describe, and the
\* bounds and the length of each dimension agree.
SizeMatches ==
    /\ TypeOK
    /\ \A v \in Var :
        /\ Len(data[v]) = Size(dim[v])
        /\ dim[v][1].d = dim[v][1].hi - dim[v][1].lo + 1
        /\ \A k \in 2..4 : dim[v][k].d \in {0, dim[v][k].hi - dim[v][k].lo + 1}

\* The index tuples within the bounds.
Indexes(dm) == {i \in [1..Rank(dm) -> Index] : Within(dm, i)}

\* Different indexes within the bounds are different elements of the vector.
IndexesDistinct ==
    \A v \in Var : \A i, j \in Indexes(dim[v]) :
        /\ Offset(dim[v], i) \in 0 .. Len(data[v]) - 1
        /\ Offset(dim[v], i) = Offset(dim[v], j) => i = j

\* The array is the table of ArraySpec.
Table == INSTANCE ArraySpec
    WITH bnd <- [v \in Var |-> [k \in 1..Rank(dim[v]) |->
                    [lo |-> dim[v][k].lo, hi |-> dim[v][k].hi]]],
         at <- [v \in Var |-> [i \in Indexes(dim[v]) |->
                    data[v][Offset(dim[v], i) + 1]]]

\* Every operation on an array does to the table what ArraySpec says.
RefinesTable == Table!Spec
=============================================================================
