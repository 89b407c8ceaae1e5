----------------------------- MODULE MCRuntime ------------------------------
(* Small instances of the parts of the runtime that one thread uses for itself *)
(* and that share nothing: references, arrays, collections, string functions   *)
(* that take steps and those that only give a result, listings of directories. *)
(* Each behaviour is one part's; the others stay as they begin.                *)
EXTENDS RefCount, TLC

CONSTANTS o1, o2, o3, g, h, ar, br, t1, c1, c2, dict, k1, k2

MCObj == {o1, o2, o3}
MCVar == {g, h}

VARIABLES part,
          dim, data, prog,
          list, made, loops, missed, wild, careful,
          fun, text, old, new, pc, item, pos, dest, result, emptied, outside,
          args,
          levels, frames, printed, opened, abandoned, fault

Between(S) == [lo: S, hi: S]

\* One array of up to four dimensions; two arrays of one dimension that are copied,
\* appended and removed; two of up to two dimensions.
MCProgram ==
    {[arrays |-> {ar}, rank |-> 4, bounds |-> {[lo |-> 0, hi |-> 0], [lo |-> 0, hi |-> 1]}],
     [arrays |-> {ar, br}, rank |-> 1, bounds |-> Between(-1 .. 1)],
     [arrays |-> {ar, br}, rank |-> 2, bounds |-> Between({0, 1})]}

Array == INSTANCE Arrays WITH
    Var <- {ar, br}, Value <- {0, 1}, Zero <- 0, Program <- MCProgram, Index <- -1 .. 2,
    MaxSize <- 4, Careful <- TRUE

\* Two collections and a dictionary of up to three nodes, and a loop within a loop.
Collection == INSTANCE Collections WITH
    Col <- {c1, c2}, Dict <- dict, Item <- {0, 1}, Zero <- 0, Key <- {k1, k2}, NoKey <- "",
    MaxNodes <- 3, MaxLoops <- 2

\* The digit 1 and a letter; no other digit occurs in an argument.
MCDigit == [d \in 0 .. 9 |-> IF d = 1 THEN "1" ELSE "other digit"]

String == INSTANCE Strings WITH
    Char <- {"1", "x"}, Digit <- MCDigit, MaxSource <- 6, MaxArg <- 2, MaxItems <- 4

\* Every short text, another one and a number; numbers of up to seven digits and masks.
Arguments(s, t, n) == [s |-> s, t |-> t, n |-> n, negative |-> FALSE, mask |-> <<>>]
MCArguments ==
    {Arguments(s, t, n) : s \in String!BoundedSeq({"x", "y", " ", String!NUL}, 3),
                          t \in String!BoundedSeq({"x", "y"}, 2), n \in -1 .. 5}
    \cup {[s |-> [i \in 1 .. n |-> "1"], t |-> <<>>, n |-> 0, negative |-> b, mask |-> m] :
            n \in 1 .. 7, b \in BOOLEAN, m \in String!BoundedSeq({" ", "#", "$", "."}, 4) \ {<<>>}}

\* top holds a and x, a holds b, and b a link to a: the tree is as deep as one likes.
MCEntries == "top" :> {"a", "x"} @@ "a" :> {"b", "y"} @@ "b" :> {"a"}

Listing == INSTANCE DirStack WITH
    Thread <- {t1}, Directory <- {"top", "a", "b"}, Entries <- MCEntries, Root <- t1 :> "top",
    MayFail <- {"a", "b", "top"}, NoEntry <- "", MAX_DIR_LEVEL <- 4,
    ClosesAlways <- FALSE, MayThrow <- TRUE

ASSUME MCAssumption ==
    /\ Array!ArrayAssumption /\ Collection!CollectionsAssumption
    /\ String!StringAssumption /\ Listing!DirAssumption

arrays == <<dim, data, prog>>
collections == <<list, made, loops, missed, wild, careful>>
strings == <<fun, text, old, new, pc, item, pos, dest, result, emptied, outside>>
listing == <<levels, frames, printed, opened, abandoned, fault>>

MCInit ==
    /\ part \in {"references", "astray", "arrays", "collections", "strings", "functions", "listing"}
    /\ Init
    /\ part # "arrays" => prog = CHOOSE p \in MCProgram : TRUE
    /\ Array!Init
    /\ part # "collections" => careful = TRUE
    /\ Collection!Init
    /\ part # "strings" => fun = "Replace" /\ text = <<>> /\ old = <<>>
    /\ String!Init
    /\ IF part = "functions" THEN args \in MCArguments ELSE args = Arguments(<<>>, <<>>, 0)
    /\ Listing!Init

\* Three objects as long as every handler leaves alone what is going on under it, and two
\* whatever the handlers do.
References == Next /\ \/ part = "references" /\ strayed' = {}
                      \/ part = "astray" /\ live' \subseteq {o1, o2}

MCNext ==
    /\ UNCHANGED <<part, args>>
    /\ \/ References /\ UNCHANGED <<arrays, collections, strings, listing>>
       \/ part = "arrays" /\ Array!Next /\ UNCHANGED <<vars, collections, strings, listing>>
       \/ /\ part = "collections" /\ Collection!Next
          /\ UNCHANGED <<vars, arrays, strings, listing>>
       \/ part = "strings" /\ String!Next /\ UNCHANGED <<vars, arrays, collections, listing>>
       \/ part = "listing" /\ Listing!Next /\ UNCHANGED <<vars, arrays, collections, strings>>

MCSpec ==
    /\ MCInit /\ [][MCNext]_<<part, args, vars, arrays, collections, strings, listing>>
    /\ WF_vars(part \in {"references", "astray"} /\ ~faulted /\ Return)
    /\ WF_strings(part = "strings" /\ String!Next)

\* What an array does is what the table of ArraySpec does (class array of core.h).
RefinesTable ==
    /\ Array!Table!Init
    /\ [][part # "arrays" \/ Array!Table!Next]_Array!Table!vars

\* The dimensions of an array agree with its vector, and different indexes within them
\* are different elements (redim, operator() of core.h).
ArraysSound == part = "arrays" => Array!SizeMatches /\ Array!IndexesDistinct

\* The loops over collections and dictionaries give what is there, and nothing that is
\* gone is used; >> takes back what << has added (collection, dictionary of core.h).
CollectionsRight == part = "collections" =>
    Collection!LoopsRight /\ Collection!AppendUndone /\ Collection!KeysDistinct

\* The string functions give what they promise, those with loops and the others
\* (System.cpp).
StringsRight ==
    /\ part = "strings" =>
        String!ReplaceRight /\ String!SplitRight /\ String!JoinUndoesSplit /\ String!TallyRight
    /\ part = "functions" =>
        /\ String!CutsRight(args.s, args.t, args.n) /\ String!SearchesRight(args.s, args.t, args.n)
        /\ String!TrimsRight(args.s) /\ String!PadsRight(args.s, args.t, args.n)
        /\ args.mask # <<>> => String!FormatsRight(args.negative, args.s, args.mask)

\* Every cascade of Terminate handlers ends, and has called that of each object it frees
\* once, unless a handler did not leave alone what was going on under it (release); so
\* does every call of a string function but those named in Strings (Replace, Split); a
\* listing prints everything and gives its levels back (Dir, CloseDir).
EverythingEnds == CascadeEnds /\ TerminateOnce /\ String!CallEnds /\ Listing!ListsAll

\* The levels of Dir are those of the listings under way, there is one for each readdir,
\* and the array overflows only for calls and for levels that exceptions have left
\* (Dir, CloseDir of System.cpp).
ListingSound == part = "listing" => Listing!LevelsMatch /\ Listing!FaultForReason
=============================================================================
