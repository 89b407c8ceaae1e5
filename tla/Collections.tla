---------------------------- MODULE Collections ----------------------------
(* collection<T> and dictionary<T> of the runtime library (lib/core/core.h): a *)
(* std::list and a std::unordered_map, whose nodes stay where they are until   *)
(* they are erased, and the For Each loops that go through them with an        *)
(* iterator while their bodies change them.                                    *)
EXTENDS Integers, Sequences, SequencesExt, FiniteSets

CONSTANTS Col,          \* collections
          Dict,         \* a dictionary
          Item, Zero,   \* the items; T()
          Key, NoKey,   \* keys of the dictionary; that of a collection's nodes
          MaxNodes,     \* bound: nodes of a behaviour
          MaxLoops      \* bound: loops within each other

CollectionsAssumption ==
    /\ Dict \notin Col /\ Zero \in Item /\ NoKey \notin Key /\ {MaxNodes, MaxLoops} \subseteq Nat

VARIABLES list,     \* the nodes of each, in the order in which an iterator finds them
          made,     \* how many nodes there have been
          loops,    \* the For Each loops under way, the innermost last
          missed,   \* history: nodes that were there throughout a loop which did not give them
          wild,     \* a node that is gone, or the end of a list, has been used
          careful   \* the program uses only indexes below the length, removes no node at
                    \* which a loop stands, adds no key to a dictionary in a loop over it
                    \* and never gives a collection to its own << and >>

vars == <<list, made, loops, missed, wild, careful>>

Node(id, k, x) == [id |-> id, key |-> k, item |-> x]
Ids(s) == {s[i].id : i \in DOMAIN s}
Items(s) == [i \in DOMAIN s |-> s[i].item]

Init ==
    /\ list = [c \in Col \cup {Dict} |-> <<>>] /\ made = 0
    /\ loops = <<>> /\ missed = {}
    /\ wild = FALSE /\ careful \in BOOLEAN

\* The nodes of c at which loops stand.
Current(c) == {n \in ToSet(list[c]) : \E i \in DOMAIN loops : loops[i].in = c /\ loops[i].at = n.id}
Over(c) == \E i \in DOMAIN loops : loops[i].in = c

Set(c, s) == list' = [list EXCEPT ![c] = s]
Makes(n) == made + n <= MaxNodes /\ made' = made + n
Erase(c, i) == Set(c, RemoveAt(list[c], i)) /\ UNCHANGED <<made, loops, missed, wild, careful>>
Nothing == UNCHANGED vars
Wild == ~careful /\ wild' = TRUE /\ UNCHANGED <<list, made, loops, missed, careful>>

\* throw "index error.": the loops within the Try that catches it are left.
IndexError ==
    /\ \E n \in 0 .. Len(loops) : loops' = SubSeq(loops, 1, n)
    /\ UNCHANGED <<list, made, missed, wild, careful>>
-----------------------------------------------------------------------------
(* collection<T>                                                               *)

\* Mutant: the node before the one of index n.
PlaceBefore(c, n) == IF n = 0 THEN 1 ELSE n

\* where n-- leaves the iterator, the end included.
Place(c, n) == n + 1
Reaches(c, n) == n \in 0 .. Len(list[c])

Add(c, x) ==
    /\ Makes(1)
    /\ Set(c, Append(list[c], Node(made + 1, NoKey, x)))
    /\ UNCHANGED <<loops, missed, wild, careful>>

Insert(c, x, n) ==
    IF Reaches(c, n)
    THEN /\ Makes(1)
         /\ Set(c, InsertAt(list[c], Place(c, n), Node(made + 1, NoKey, x)))
         /\ UNCHANGED <<loops, missed, wild, careful>>
    ELSE IndexError

\* The place behind the last node is accepted.
RemoveIndex(c, n) ==
    /\ careful => n \in 0 .. Len(list[c]) - 1 /\ list[c][n + 1] \notin Current(c)
    /\ IF ~Reaches(c, n) THEN IndexError
       ELSE IF Place(c, n) > Len(list[c]) THEN Wild
       ELSE Erase(c, Place(c, n))

\* operator() of an index, which the program assigns to.
Assign(c, n, x) ==
    /\ careful => n \in 0 .. Len(list[c]) - 1
    /\ IF ~Reaches(c, n) THEN IndexError
       ELSE IF Place(c, n) > Len(list[c]) THEN Wild
       ELSE /\ list' = [list EXCEPT ![c][Place(c, n)].item = x]
            /\ UNCHANGED <<made, loops, missed, wild, careful>>

\* removeitem() of a list: without its first node that holds x.
Without(s, x) == RemoveFirstMatch(s, LAMBDA n : n.item = x)

RemoveItem(c, x) ==
    /\ careful => x \notin {n.item : n \in Current(c)}
    /\ Set(c, Without(list[c], x))
    /\ UNCHANGED <<made, loops, missed, wild, careful>>

\* << and >> of a collection.  Of its own, << never ends and >> goes on from a node that
\* is gone.
Appended(s, t) == s \o [i \in DOMAIN t |-> Node(made + i, NoKey, t[i].item)]
Removed(s, t) == FoldLeft(LAMBDA u, n : Without(u, n.item), s, t)

AppendAll(c, d) ==
    /\ c # d
    /\ Makes(Len(list[d]))
    /\ Set(c, Appended(list[c], list[d]))
    /\ UNCHANGED <<loops, missed, wild, careful>>

RemoveAll(c, d) ==
    IF c = d
    THEN list[c] # <<>> /\ Wild
    ELSE /\ careful => {n.item : n \in Current(c)} \cap ToSet(Items(list[d])) = {}
         /\ Set(c, Removed(list[c], list[d]))
         /\ UNCHANGED <<made, loops, missed, wild, careful>>
-----------------------------------------------------------------------------
(* dictionary<T>: where a new key comes is the map's affair, and it may put    *)
(* all of them into another order.                                             *)
At(k) == SelectInSeq(list[Dict], LAMBDA n : n.key = k)
HasKey(k) == At(k) # 0

\* operator(): a key that is missing is added, whether the program assigns to it or not.
Lookup(k) ==
    IF HasKey(k) THEN Nothing
    ELSE /\ careful => ~Over(Dict)
         /\ Makes(1)
         /\ \E s \in SetToSeqs(ToSet(list[Dict]) \cup {Node(made + 1, k, Zero)}) : Set(Dict, s)
         /\ UNCHANGED <<loops, missed, wild, careful>>

AssignKey(k, x) ==
    /\ HasKey(k)
    /\ list' = [list EXCEPT ![Dict][At(k)].item = x]
    /\ UNCHANGED <<made, loops, missed, wild, careful>>

RemoveKey(k) ==
    /\ careful => k \notin {n.key : n \in Current(Dict)}
    /\ IF HasKey(k) THEN Erase(Dict, At(k)) ELSE Nothing

RemoveValue(x) ==
    /\ careful => x \notin {n.item : n \in Current(Dict)}
    /\ Set(Dict, Without(list[Dict], x))
    /\ UNCHANGED <<made, loops, missed, wild, careful>>
-----------------------------------------------------------------------------
(* For Each: for ( auto it : c ).                                              *)

ForEach(c) ==
    /\ Len(loops) < MaxLoops /\ list[c] # <<>>
    /\ loops' = Append(loops, [in |-> c, at |-> Head(list[c]).id, given |-> <<Head(list[c]).id>>,
                               there |-> Ids(list[c])])
    /\ UNCHANGED <<list, made, missed, wild, careful>>

\* The iterator of the innermost loop goes on from its node, or the loop ends.
NextItem ==
    /\ loops # <<>>
    /\ LET l == Last(loops)
           s == list[l.in]
           i == SelectInSeq(s, LAMBDA n : n.id = l.at)
       IN  IF i = 0 THEN Wild
           ELSE IF i = Len(s)
           THEN /\ loops' = Front(loops)
                /\ missed' = missed \cup ((l.there \cap Ids(s)) \ ToSet(l.given))
                /\ UNCHANGED <<list, made, wild, careful>>
           ELSE /\ loops' = [loops EXCEPT ![Len(loops)].at = s[i + 1].id,
                                          ![Len(loops)].given = Append(@, s[i + 1].id)]
                /\ UNCHANGED <<list, made, missed, wild, careful>>

\* Exit For.
ExitFor ==
    /\ loops # <<>>
    /\ loops' = Front(loops)
    /\ UNCHANGED <<list, made, missed, wild, careful>>

Next ==
    /\ ~wild
    /\ \/ \E c \in Col, x \in Item : Add(c, x) \/ RemoveItem(c, x)
       \/ \E c \in Col : \E n \in -1 .. Len(list[c]) + 1 :
            RemoveIndex(c, n) \/ \E x \in Item : Insert(c, x, n) \/ Assign(c, n, x)
       \/ \E c, d \in Col : AppendAll(c, d) \/ RemoveAll(c, d)
       \/ \E k \in Key : Lookup(k) \/ RemoveKey(k)
       \/ \E k \in Key, x \in Item : AssignKey(k, x)
       \/ \E x \in Item : RemoveValue(x)
       \/ \E c \in Col \cup {Dict} : ForEach(c)
       \/ NextItem \/ ExitFor

Spec == Init /\ [][Next]_vars
-----------------------------------------------------------------------------
\* A careful program never uses a node that is gone or the end of a list, and each of its
\* loops gives every node that is there from its beginning to its end, and none twice,
\* whatever else its body and the loops within it add and remove (collection, dictionary).
LoopsRight ==
    careful =>
        /\ ~wild /\ missed = {}
        /\ \A i \in DOMAIN loops :
            /\ IsInjective(loops[i].given)
            /\ loops[i].at \in Ids(list[loops[i].in])

\* list >> d takes back what list << d has added: the items are the same again, and so is
\* their order when none of them was there before (samples/basic/Collections.bas).
AppendUndone ==
    \A c, d \in Col : c # d =>
        LET back == Removed(Appended(list[c], list[d]), list[d])
            Count(s, x) == Cardinality({i \in DOMAIN s : s[i].item = x})
        IN  /\ \A x \in Item : Count(back, x) = Count(list[c], x)
            /\ ToSet(Items(list[c])) \cap ToSet(Items(list[d])) = {} => back = list[c]

\* A key is in the dictionary once.
KeysDistinct == \A i, j \in DOMAIN list[Dict] : list[Dict][i].key = list[Dict][j].key => i = j
=============================================================================
