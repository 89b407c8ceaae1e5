-------------------------- MODULE StringFunctions ---------------------------
(* The string functions of the runtime library (src/lib/System.cpp) that only  *)
(* work out a result.  A text is a sequence of characters; places are counted  *)
(* from 1, and 0 is for none.                                                  *)
EXTENDS Integers, Sequences, FiniteSets, FiniteSetsExt, SequencesExt

NUL == "NUL"
Blank == {" ", "TAB", "CR", "LF"}

\* What a call gives that throws out_of_range or length_error.
Thrown == <<"thrown">>
-----------------------------------------------------------------------------
(* std::string.                                                                *)
Matches(s, sub) == {i \in 1 .. Len(s) - Len(sub) + 1 : SubSeq(s, i, i + Len(sub) - 1) = sub}
First(places, start) ==
    LET P == {i \in places : i >= start} IN IF start < 1 \/ P = {} THEN 0 ELSE Min(P)
Latest(places, start) ==
    LET P == {i \in places : start < 1 \/ i <= start} IN IF P = {} THEN 0 ELSE Max(P)
AnyOf(s, chars) == {i \in 1 .. Len(s) : Contains(chars, s[i])}

\* find() and find_first_of().
Find(s, sub, start) == First(Matches(s, sub), start)
FindAny(s, chars, start) == First(AnyOf(s, chars), start)

\* A C string ends at its first NUL.
CStr(s) == IF Contains(s, NUL) THEN SubSeq(s, 1, SelectInSeq(s, LAMBDA c : c = NUL) - 1) ELSE s
-----------------------------------------------------------------------------
InStrRev(sub, s, start) == Latest(Matches(s, sub), start)
InStrRevAny(sub, s, start) == Latest(AnyOf(s, sub), start)

Insert(s, sub, pos) ==
    IF pos \in 1 .. Len(s) + 1 THEN SubSeq(s, 1, pos - 1) \o sub \o SubSeq(s, pos, Len(s)) ELSE Thrown

\* A count below 0 is a large one where it is compared with a length, which has no sign.
Left(s, count) == SubSeq(s, 1, IF count < 0 \/ count > Len(s) THEN Len(s) ELSE count)

Right(s, count) ==
    IF count < 0 THEN Thrown ELSE SubSeq(s, Len(s) - Min({count, Len(s)}) + 1, Len(s))

Mid(s, start, count) ==
    IF start < 1 \/ start > Len(s) THEN <<>>
    ELSE SubSeq(s, start, IF count < 0 THEN Len(s) ELSE Min({Len(s), start + count - 1}))

LTrim(s) ==
    LET P == {i \in DOMAIN CStr(s) : s[i] \notin Blank}
    IN  IF P = {} THEN <<>> ELSE SubSeq(CStr(s), Min(P), Len(CStr(s)))

RTrim(s) == SubSeq(s, 1, Max({0} \cup {i \in DOMAIN s : s[i] \notin Blank}))

Trim(s) == CStr(RTrim(LTrim(s)))

Reversed(s) == [i \in 1 .. Len(s) |-> s[Len(s) - i + 1]]

\* reserve( s.length() * count + 1 ), and one s for each turn of the loop.
String(count, s) ==
    IF Len(s) * count + 1 < 0 THEN Thrown ELSE FlattenSeq([i \in 1 .. count |-> s])

PadC(s, len, c) ==
    IF len < Len(s) THEN s
    ELSE LET pad == String((len - Len(s)) \div 2, c)
         IN  pad \o s \o pad \o IF (len - Len(s)) % 2 = 1 THEN c ELSE <<>>
PadL(s, len, c) == IF len < Len(s) THEN s ELSE String(len - Len(s), c) \o s
PadR(s, len, c) == IF len < Len(s) THEN s ELSE s \o String(len - Len(s), c)

\* sprintf() of a number that rounds to whole, a text of digits, with decimals of them more.
Printed(negative, whole, decimals) ==
    (IF negative THEN <<"-">> ELSE <<>>) \o whole \o
        IF decimals > 0 THEN <<".">> \o [i \in 1 .. decimals |-> "0"] ELSE <<>>

Times(mask, c) == Cardinality({i \in DOMAIN mask : mask[i] = c})

\* Blanks and # behind the point of the mask.
Decimals(mask) ==
    Cardinality({i \in DOMAIN mask : mask[i] \in {" ", "#"} /\ \E j \in 1 .. i - 1 : mask[j] = "."})

\* Format( Num, Mask ) leaves room for each blank and each $ before the number, writes one
\* $ behind the blanks, and gives the C string; len counts down what is before the point.
Format(negative, whole, mask) ==
    LET buf == Printed(negative, whole, Decimals(mask))
        before == Len(whole) + IF negative THEN 1 ELSE 0
        Put(i) == LET len == before - i
                  IN  <<buf[i]>> \o IF len > 2 /\ buf[i] # "-" /\ len % 3 = 0 THEN <<",">> ELSE <<>>
        spaces == Times(mask, " ")
        dollars == Times(mask, "$")
    IN  CStr([i \in 1 .. spaces |-> " "] \o [i \in 1 .. dollars |-> IF i = 1 THEN "$" ELSE NUL]
             \o FlattenSeq([i \in DOMAIN buf |-> Put(i)]))
-----------------------------------------------------------------------------
(* What the functions promise, for a text s, another one t and a number n.     *)

\* A text is what is left, and what is right of any place; what Insert puts in can be cut
\* out again; Left and Mid take any number, Right and Insert throw for one that is no
\* length or place (Left, Right, Mid, Insert).
CutsRight(s, t, n) ==
    /\ n \in 0 .. Len(s) =>
        Left(s, n) \o Right(s, Len(s) - n) = s /\ Left(s, n) \o Mid(s, n + 1, -1) = s
    /\ n > 0 => Mid(s, n, 1) \o Mid(s, n + 1, -1) = Mid(s, n, -1)
    /\ (Right(s, n) = Thrown) <=> n < 0
    /\ IF n \in 1 .. Len(s) + 1
       THEN /\ Mid(Insert(s, t, n), n, Len(t)) = t
            /\ Left(Insert(s, t, n), n - 1) \o Mid(Insert(s, t, n), n + Len(t), -1) = s
       ELSE Insert(s, t, n) = Thrown

\* Looking from the end of a text is looking from the beginning of its reverse, and from a
\* place on it is looking in what begins there or before (InStrRev, InStrRevAny, Reverse).
SearchesRight(s, t, n) ==
    LET Mirror(i, len) == IF i = 0 THEN 0 ELSE Len(s) - len + 2 - i
    IN  /\ Reversed(Reversed(s)) = s
        /\ InStrRev(t, s, 0) = Mirror(Find(Reversed(s), Reversed(t), 1), Len(t))
        /\ InStrRevAny(t, s, 0) = Mirror(FindAny(Reversed(s), t, 1), 1)
        /\ n > 0 => InStrRev(t, s, n) = InStrRev(t, Left(s, n - 1 + Len(t)), 0)

\* Trim takes the blanks from both ends, nothing else, up to a NUL (LTrim, RTrim, Trim).
TrimsRight(s) ==
    /\ \E i, j \in 0 .. Len(CStr(s)) :
        /\ i <= j /\ Trim(s) = SubSeq(CStr(s), i + 1, j)
        /\ \A k \in (1 .. i) \cup (j + 1 .. Len(CStr(s))) : s[k] \in Blank
    /\ Trim(s) # <<>> => Head(Trim(s)) \notin Blank /\ Last(Trim(s)) \notin Blank

\* A padded text has one t for each place that is missing, the text at its end, at its
\* beginning, or in its middle with at most one t less before it than behind it (PadL,
\* PadR, PadC, String).
PadsRight(s, t, n) ==
    LET missing == IF n > Len(s) THEN n - Len(s) ELSE 0
    IN  /\ n >= 0 => Len(String(n, t)) = n * Len(t)
        /\ IsSuffix(s, PadL(s, n, t)) /\ IsPrefix(s, PadR(s, n, t))
        /\ \A p \in {PadL(s, n, t), PadR(s, n, t), PadC(s, n, t)} :
                Len(p) = Len(s) + missing * Len(t)
        /\ \E k \in 0 .. missing :
            2 * k \in {missing, missing - 1}
            /\ Mid(PadC(s, n, t) \o <<NUL>>, k * Len(t) + 1, Len(s)) = s

\* A formatted number is that number with a comma before every three digits, behind the
\* blanks of the mask and its $; a second $ leaves nothing of the number (Format).
FormatsRight(negative, whole, mask) ==
    LET f == Format(negative, whole, mask)
        front == Times(mask, " ") + Min({1, Times(mask, "$")})
        number == SubSeq(f, front + 1, Len(f))
        point == Len(number) - (IF Decimals(mask) > 0 THEN Decimals(mask) + 1 ELSE 0)
    IN  IF Times(mask, "$") > 1 THEN Len(f) = front
        ELSE /\ SelectSeq(number, LAMBDA c : c # ",") = Printed(negative, whole, Decimals(mask))
             /\ {i \in DOMAIN number : number[i] = ","} =
                    {i \in (IF negative THEN 3 ELSE 2) .. point : (point - i) % 4 = 3}
=============================================================================
