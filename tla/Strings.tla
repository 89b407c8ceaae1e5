------------------------------ MODULE Strings -------------------------------
(* The string functions of the runtime library that loop: Replace, Split,      *)
(* SplitAny, Join and Tally (src/lib/System.cpp), on those of StringFunctions. *)
(* A behaviour is one call; a turn of its loop is a step.  What Split gives is *)
(* joined again.                                                               *)
EXTENDS StringFunctions

CONSTANTS Char,         \* the characters of the arguments
          Digit,        \* Digit[d]: the character of the digit d
          MaxSource,    \* bound: length of the text
          MaxArg,       \* bound: length of the other arguments
          MaxItems      \* what Split has room for, 1025 in the code

StringAssumption ==
    /\ DOMAIN Digit = 0 .. 9
    /\ {MaxSource, MaxArg, MaxItems} \subseteq Nat

VARIABLES fun,      \* the function that is called
          text,     \* its arguments: the text,
          old,      \* the string or the characters to look for,
          new,      \* and what to put there (Replace, Join)
          pc,       \* loop, join, done; thrown: no room; crashed: read behind the text
          item,     \* strSource of Replace, item of Split, the text left of p in Tally
          pos,      \* intStart, iPos; n of Tally
          dest,     \* the items that Split has found
          result,   \* the result of Join and Tally
          emptied,  \* history: item was empty when InStr looked at it
          outside   \* history: Tally has read behind the end of the text

arguments == <<fun, text, old, new>>
vars == <<arguments, pc, item, pos, dest, result, emptied, outside>>

Text == UNION {[1 .. n -> Char] : n \in 0 .. MaxSource}
Arg == UNION {[1 .. n -> Char] : n \in 0 .. MaxArg}
-----------------------------------------------------------------------------
\* A number as variant makes a string of it.
Decimal(n) == IF n < 10 THEN <<Digit[n]>> ELSE <<Digit[n \div 10], Digit[n % 10]>>

\* InStr( start, sub, s ): when s is empty it takes its arguments for the two of
\* InStr( sub, s ), and the start for what to look for.
InStr(start, sub, s) ==
    IF s = <<>> THEN Find(sub, Decimal(start), 1) ELSE Find(s, sub, start)
InStr2(sub, s) == Find(s, sub, 1)
InStrAny2(chars, s) == FindAny(s, chars, 1)
-----------------------------------------------------------------------------
TypeOK ==
    /\ pc \in {"loop", "join", "done", "thrown", "crashed"}
    /\ item \in Seq(Char) /\ pos \in Int
    /\ Len(dest) <= MaxItems /\ \A i \in 1 .. Len(dest) : dest[i] \in Seq(Char)
    /\ IF fun = "Tally" THEN result \in 0 .. Len(text) + 1 ELSE result \in Seq(Char)
    /\ emptied \in BOOLEAN /\ outside \in BOOLEAN

\* The first search of Replace, Split and SplitAny; n of Tally.
Start ==
    CASE fun = "Replace"  -> InStr(1, old, text)
      [] fun = "Split"    -> InStr2(old, text)
      [] fun = "SplitAny" -> InStrAny2(old, text)
      [] fun = "Tally"    -> Len(text) - Len(old) + 1

Init ==
    /\ fun \in {"Replace", "Split", "SplitAny", "Tally"}
    /\ text \in Text /\ old \in Arg /\ new \in Arg
    /\ fun \notin {"Replace", "Split"} => new = <<>>
    /\ fun = "Replace" /\ old = <<>> => new = <<>>     \* else the text grows for ever
    /\ pc = "loop" /\ item = text /\ pos = Start
    /\ dest = <<>> /\ result = IF fun = "Tally" THEN 0 ELSE <<>>
    /\ emptied = (fun = "Replace" /\ text = <<>>) /\ outside = FALSE

\* Mutant: the search goes on at the start of what was put in.
ReplaceStepAgain ==
    /\ fun = "Replace" /\ pc = "loop" /\ pos > 0
    /\ LET source == Left(item, pos - 1) \o new \o Mid(item, Len(old) + pos, -1)
       IN  /\ item' = source
           /\ pos' = InStr(pos, old, source)
           /\ emptied' = (emptied \/ source = <<>>)
    /\ UNCHANGED <<arguments, pc, dest, result, outside>>

ReplaceStep ==
    /\ fun = "Replace" /\ pc = "loop" /\ pos > 0
    /\ LET source == Left(item, pos - 1) \o new \o Mid(item, Len(old) + pos, -1)
       IN  /\ item' = source
           /\ pos' = InStr(pos + Len(new), old, source)
           /\ emptied' = (emptied \/ source = <<>>)
    /\ UNCHANGED <<arguments, pc, dest, result, outside>>

ReplaceEnds ==
    /\ fun = "Replace" /\ pc = "loop" /\ pos <= 0
    /\ pc' = "done" /\ result' = item
    /\ UNCHANGED <<arguments, item, pos, dest, emptied, outside>>

\* dest( idx ) = s; the array has room for MaxItems.
Store(s) ==
    IF Len(dest) < MaxItems THEN dest' = Append(dest, s) /\ UNCHANGED pc
                            ELSE pc' = "thrown" /\ UNCHANGED dest

SplitStep ==
    /\ fun \in {"Split", "SplitAny"} /\ pc = "loop" /\ pos > 0
    /\ Store(IF pos = 1 THEN <<>> ELSE Left(item, pos - 1))
    /\ LET rest == Mid(item, pos + IF fun = "Split" THEN Len(old) ELSE 1, -1)
       IN  /\ item' = rest
           /\ pos' = IF fun = "Split" THEN InStr2(old, rest) ELSE InStrAny2(old, rest)
    /\ UNCHANGED <<arguments, result, emptied, outside>>

\* Mutant: an empty last item is dropped.
SplitEndsShort ==
    /\ fun \in {"Split", "SplitAny"} /\ pc = "loop" /\ pos <= 0
    /\ IF item = <<>> THEN pc' = "join" /\ UNCHANGED dest
       ELSE IF Len(dest) < MaxItems THEN dest' = Append(dest, item) /\ pc' = "join"
       ELSE pc' = "thrown" /\ UNCHANGED dest
    /\ pos' = 0
    /\ UNCHANGED <<arguments, item, result, emptied, outside>>

SplitEnds ==
    /\ fun \in {"Split", "SplitAny"} /\ pc = "loop" /\ pos <= 0
    /\ IF Len(dest) < MaxItems THEN dest' = Append(dest, item) /\ pc' = "join"
                               ELSE pc' = "thrown" /\ UNCHANGED dest
    /\ pos' = 0
    /\ UNCHANGED <<arguments, item, result, emptied, outside>>

\* Join( dest, new ): idx runs from the lower bound of the array, which is 0.
JoinStep ==
    /\ pc = "join" /\ pos < Len(dest)
    /\ result' = result \o (IF pos > 0 THEN new ELSE <<>>) \o dest[pos + 1]
    /\ pos' = pos + 1
    /\ UNCHANGED <<arguments, pc, item, dest, emptied, outside>>

JoinEnds ==
    /\ pc = "join" /\ pos = Len(dest)
    /\ pc' = "done"
    /\ UNCHANGED <<arguments, item, pos, dest, result, emptied, outside>>

\* while ( n-- ) if ( !memcmp( p++, sub, length ) ).  With a string to look for that is
\* longer than the text by two or more n is negative and the loop leaves the text.
TallyStep ==
    /\ fun = "Tally" /\ pc = "loop" /\ pos # 0 /\ ~outside
    /\ outside' = (Len(old) > Len(item) + 1)
    /\ result' = result + IF ~outside' /\ 1 \in Matches(item, old) THEN 1 ELSE 0
    /\ pos' = pos - 1
    /\ item' = Mid(item, 2, -1)
    /\ UNCHANGED <<arguments, pc, dest, emptied>>

TallyEnds ==
    /\ fun = "Tally" /\ pc = "loop" /\ (pos = 0 \/ outside)
    /\ pc' = IF outside THEN "crashed" ELSE "done"
    /\ UNCHANGED <<arguments, item, pos, dest, result, emptied, outside>>

Next ==
    \/ ReplaceStep \/ ReplaceEnds \/ SplitStep \/ SplitEnds \/ JoinStep \/ JoinEnds
    \/ TallyStep \/ TallyEnds
    \/ pc \in {"done", "thrown", "crashed"} /\ UNCHANGED vars

Spec == Init /\ [][Next]_vars /\ WF_vars(Next)

-----------------------------------------------------------------------------
(* What the functions promise, said without their loops.                       *)
RECURSIVE Replaced(_), Pieces(_)

\* s with every old, found from the left, made new.
Replaced(s) ==
    IF old = <<>> \/ Matches(s, old) = {} THEN s
    ELSE LET i == Min(Matches(s, old))
         IN  SubSeq(s, 1, i - 1) \o new \o Replaced(SubSeq(s, i + Len(old), Len(s)))

\* The parts of s between the characters of old.
Pieces(s) ==
    LET I == {i \in 1 .. Len(s) : Contains(old, s[i])}
    IN  IF I = {} THEN <<s>>
        ELSE <<SubSeq(s, 1, Min(I) - 1)>> \o Pieces(SubSeq(s, Min(I) + 1, Len(s)))

\* The calls InStr gives a place in the string to look for, not in the text.
Mistaken == emptied /\ Find(old, Decimal(1), 1) # 0

\* Replace (System.cpp:570) gives the text with every old replaced from the left, what
\* was put in is not searched again, unless the text was or becomes empty and old
\* has the digit 1: then InStr looks for the place in old.
ReplaceRight ==
    /\ TypeOK
    /\ fun = "Replace" /\ pc = "done" /\ ~Mistaken => result = Replaced(text)

\* Split (System.cpp:961) cuts the text at every separator from the left: with the
\* separator between them the items are the text, none has it, and those of SplitAny
\* are the parts between its characters.  Only a text of more items than the array
\* has room for, or an empty separator, throws.
SplitRight ==
    fun \in {"Split", "SplitAny"} =>
        /\ pc \in {"join", "done"} => dest # <<>> /\
            IF fun = "SplitAny" THEN dest = Pieces(text) ELSE
                /\ FoldLeftDomain(LAMBDA s, i : s \o (IF i = 1 THEN <<>> ELSE old) \o dest[i],
                                  <<>>, dest) = text
                /\ \A i \in 1 .. Len(dest) - 1 :
                       Find(dest[i] \o old, old, 1) = Len(dest[i]) + 1
                /\ Matches(Last(dest), old) = {}
        /\ pc = "thrown" =>
            IF fun = "SplitAny" THEN Len(Pieces(text)) > MaxItems
            ELSE old = <<>> \/ Len(text) >= MaxItems * Len(old)

\* Join (System.cpp:1027) undoes Split: the items of Split joined with another string are
\* the text with the separator replaced by it, and with the separator itself the text.
JoinUndoesSplit ==
    fun = "Split" /\ pc = "done" => result = Replaced(text)

\* Tally (System.cpp:748) counts the places, overlapping ones too, at which the string
\* is found, and leaves the text only when the string is longer by two.
TallyRight ==
    fun = "Tally" =>
        /\ pc = "done" => result = Cardinality(Matches(text, old))
        /\ pc = "crashed" => Len(old) >= Len(text) + 2

\* Every call ends, except Replace of nothing and Replace of a text that is empty by
\* then of a string with the digit 1 by nothing.
CallEnds == <>(pc \notin {"loop", "join"} \/ (fun = "Replace" /\ (old = <<>> \/ Mistaken)))
=============================================================================
