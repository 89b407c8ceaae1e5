------------------------------ MODULE HttpText ------------------------------
(* The texts of include/httplib.h: what is written into the lines of a message *)
(* and read from them.  A text is the sequence of its characters, each the     *)
(* number of its byte.  Params are a sequence of <<key, value>>, in the order  *)
(* in which they are written or read.                                          *)
EXTENDS Integers, Sequences, SequencesExt, FiniteSetsExt

Tab == 9
Space == 32
Percent == 37
Ampersand == 38
Plus == 43
Comma == 44
Minus == 45
Dot == 46
Slash == 47
Colon == 58
Equals == 61
SmallU == 117
Digits == 48 .. 57
Letters == (65 .. 90) \cup (97 .. 122)

HexValue(c) ==
    CASE c \in Digits -> c - 48
      [] c \in 65 .. 70 -> c - 55
      [] c \in 97 .. 102 -> c - 87
      [] OTHER -> -1

HexDigit(n) == IF n < 10 THEN 48 + n ELSE 55 + n

\* The number of the n hexadecimal digits from i on, or -1 when they are not there.
FromHex(s, i, n) ==
    IF i + n - 1 > Len(s) \/ \E k \in i .. i + n - 1 : HexValue(s[k]) < 0
    THEN -1
    ELSE FoldLeft(LAMBDA v, c : 16 * v + HexValue(c), 0, SubSeq(s, i, i + n - 1))

\* The bytes of a code, and none for the half of a pair.
ToUtf8(code) ==
    LET Rest(n) == 128 + ((code \div (64 ^ n)) % 64)
    IN  CASE code < 128 -> <<code>>
          [] code \in 128 .. 2047 -> <<192 + code \div 64, Rest(0)>>
          [] code \in 2048 .. 55295 \/ code \in 57344 .. 65535 ->
                <<224 + code \div 4096, Rest(1), Rest(0)>>
          [] code \in 65536 .. 1114111 ->
                <<240 + code \div 262144, Rest(2), Rest(1), Rest(0)>>
          [] OTHER -> <<>>

Escape(c) == <<Percent, HexDigit(c \div 16), HexDigit(c % 16)>>

\* Digits, letters and -_.!~*'().
EncodeQueryParam(s) ==
    LET plain == Digits \cup Letters \cup {Minus, 95, Dot, 33, 126, 42, 39, 40, 41}
    IN  FlattenSeq([i \in DOMAIN s |-> IF s[i] \in plain THEN <<s[i]>> ELSE Escape(s[i])])

\* The text up to its first NUL, with an escape for what ends a word or a line, for + ' , ;
\* and for what is no ASCII character; a % stays.
EncodeUrl(s) ==
    LET t == IF Contains(s, 0) THEN SubSeq(s, 1, SelectInSeq(s, LAMBDA c : c = 0) - 1) ELSE s
        escaped == {Space, Plus, 13, 10, 39, Comma, 59} \cup 128 .. 255
    IN  FlattenSeq([i \in DOMAIN t |-> IF t[i] \in escaped THEN Escape(t[i]) ELSE <<t[i]>>])

\* Mutant: the % is skipped and the first digit is not.
DecodeUrlShort(s, plus) ==
    LET Code(i) == FromHex(s, i + 1, 2)
        decoded[i \in 1 .. Len(s) + 6] ==
            IF i > Len(s) THEN <<>>
            ELSE IF s[i] = Percent /\ Code(i) >= 0 THEN <<Code(i)>> \o decoded[i + 2]
            ELSE <<IF plus /\ s[i] = Plus THEN Space ELSE s[i]>> \o decoded[i + 1]
    IN  decoded[1]

\* %XX and %uXXXX are what they stand for; other % stay.
DecodeUrl(s, plus) ==
    LET Unicode(i) == i < Len(s) /\ s[i + 1] = SmallU
        Code(i) == IF Unicode(i) THEN FromHex(s, i + 2, 4) ELSE FromHex(s, i + 1, 2)
        decoded[i \in 1 .. Len(s) + 6] ==
            IF i > Len(s) THEN <<>>
            ELSE IF s[i] = Percent /\ Code(i) >= 0
            THEN IF Unicode(i) THEN ToUtf8(Code(i)) \o decoded[i + 6]
                               ELSE <<Code(i)>> \o decoded[i + 3]
            ELSE <<IF plus /\ s[i] = Plus THEN Space ELSE s[i]>> \o decoded[i + 1]
    IN  decoded[1]

\* base64_encode() shifts the bytes into val and takes six bits at a time out of it; valb is
\* how many are there less six.
Base64 ==
    [n \in 0 .. 63 |-> CASE n < 26 -> 65 + n [] n \in 26 .. 51 -> 71 + n [] n \in 52 .. 61 -> n - 4
                         [] n = 62 -> Plus [] n = 63 -> Slash]
Base64Encode(s) ==
    LET Take(val, valb) == Base64[(val \div (2 ^ valb)) % 64]
        Push(x, c) ==
            LET val == (x.val * 256 + c) % 65536
                valb == x.valb + 8
            IN  IF valb < 6
                THEN [val |-> val, valb |-> valb - 6, out |-> Append(x.out, Take(val, valb))]
                ELSE [val |-> val, valb |-> valb - 12,
                      out |-> x.out \o <<Take(val, valb), Take(val, valb - 6)>>]
        all == FoldLeft(Push, [val |-> 0, valb |-> -6, out |-> <<>>], s)
        out == IF all.valb = -6 THEN all.out
               ELSE Append(all.out, Base64[((all.val * 256) \div (2 ^ (all.valb + 8))) % 64])
    IN  out \o [i \in 1 .. (-Len(out)) % 4 |-> Equals]
-----------------------------------------------------------------------------
TrimLeft(s) ==
    LET P == {i \in DOMAIN s : s[i] \notin {Space, Tab}}
    IN  IF P = {} THEN <<>> ELSE SubSeq(s, Min(P), Len(s))

Trim(s) == Reverse(TrimLeft(Reverse(TrimLeft(s))))

\* The texts between the d, from the one before the first to the one behind the last.
Pieces(s, d) ==
    LET cuts == <<0>> \o SetToSortSeq({i \in DOMAIN s : s[i] = d}, <) \o <<Len(s) + 1>>
    IN  [k \in 1 .. Len(cuts) - 1 |-> SubSeq(s, cuts[k] + 1, cuts[k + 1] - 1)]

\* split() calls fn with each of them, trimmed, that is not empty.
Split(s, d) ==
    LET pieces == Pieces(s, d)
    IN  SelectSeq([k \in DOMAIN pieces |-> Trim(pieces[k])], LAMBDA p : p # <<>>)

\* The key is not encoded.
ParamsToQueryStr(params) ==
    LET Item(p) == p[1] \o <<Equals>> \o EncodeQueryParam(p[2])
    IN  FlattenSeq([i \in DOMAIN params |->
            (IF i = 1 THEN <<>> ELSE <<Ampersand>>) \o Item(params[i])])

\* The first text that is not empty is the key, and the last behind it the value.
ParseQueryText(s) ==
    LET Item(p) == LET parts == Split(p, Equals)
                   IN  IF parts = <<>> THEN <<>>
                       ELSE << <<DecodeUrl(parts[1], TRUE),
                                 IF Len(parts) = 1 THEN <<>> ELSE DecodeUrl(Last(parts), TRUE)>> >>
        items == Split(s, Ampersand)
    IN  FlattenSeq([i \in DOMAIN items |-> Item(items[i])])

\* parse_header() of a line: << >>, or the header as a sequence of one.
ParseHeader(line) ==
    LET colon == SelectInSeq(line, LAMBDA c : c = Colon)
        value == Trim(SubSeq(line, colon + 1, Len(line)))
    IN  IF colon = 0 \/ value = <<>> THEN <<>>
        ELSE << <<SubSeq(line, 1, colon - 1), DecodeUrl(value, FALSE)>> >>

\* is_valid_path(): the path never leads above where it begins.
IsValidPath(path) ==
    LET Enter(level, p) ==
            CASE level < 0 \/ p \in {<<>>, <<Dot>>} -> level
              [] p = <<Dot, Dot>> -> level - 1
              [] OTHER -> level + 1
    IN  FoldLeft(Enter, 0, Pieces(path, Slash)) >= 0

\* A range <<first, last>> of a request, with -1 for what it leaves open.  The bounds are
\* numbers of one digit here.
MakeRange(ranges) ==
    LET Number(n) == IF n = -1 THEN <<>> ELSE <<48 + n>>
        Item(r) == Number(r[1]) \o <<Minus>> \o Number(r[2])
    IN  FlattenSeq([i \in DOMAIN ranges |->
            (IF i = 1 THEN <<>> ELSE <<Comma, Space>>) \o Item(ranges[i])])

\* parse_range_header(), of what is behind "bytes=": <<the answer, the ranges>>.  There may
\* be blanks behind a comma.
ParseRange(s) ==
    LET texts == Pieces(s, Comma)
        items == [k \in DOMAIN texts |->
                    Pieces(IF k = 1 THEN texts[k] ELSE TrimLeft(texts[k]), Minus)]
        Matches(p) == Len(p) = 2 /\ \A i \in 1 .. 2 : \A k \in DOMAIN p[i] : p[i][k] \in Digits
        Number(t) == IF t = <<>> THEN -1 ELSE t[1] - 48
        range == [k \in DOMAIN items |-> <<Number(items[k][1]), Number(items[k][2])>>]
        backwards == {k \in DOMAIN items : range[k][2] # -1 /\ range[k][1] > range[k][2]}
    IN  IF \E k \in DOMAIN items : ~Matches(items[k]) THEN <<FALSE, <<>>>>
        ELSE IF backwards # {} THEN <<FALSE, SubSeq(range, 1, Min(backwards) - 1)>>
        ELSE <<TRUE, range>>
-----------------------------------------------------------------------------
(* What the functions promise, for a text t and another u.                     *)

\* t stays the same when it is decoded.
Literal(t) == \A i \in DOMAIN t : t[i] = Percent =>
    FromHex(t, i + 1, 2) < 0 /\ ~(i < Len(t) /\ t[i + 1] = SmallU /\ FromHex(t, i + 2, 4) >= 0)

\* A value, a path and credentials come back as they were sent; a path just when it has no
\* escapes of its own (encode_query_param, encode_url, decode_url, base64_encode).
CodesRight(t) ==
    /\ DecodeUrl(EncodeQueryParam(t), TRUE) = t
    /\ (DecodeUrl(EncodeUrl(t), FALSE) = t) <=> (Literal(t) /\ ~Contains(t, 0))
    /\ LET code == SelectSeq(Base64Encode(t), LAMBDA c : c # Equals)
           Value(c) == CHOOSE n \in 0 .. 63 : Base64[n] = c
           Bit(i) == (Value(code[(i \div 6) + 1]) \div (2 ^ (5 - (i % 6)))) % 2
       IN  /\ Len(Base64Encode(t)) = 4 * ((Len(t) + 2) \div 3)
           /\ \A k \in DOMAIN t :
                t[k] = FoldFunctionOnSet(+, 0, [b \in 0 .. 7 |-> 2 ^ (7 - b) * Bit(8 * (k - 1) + b)], 0 .. 7)

\* A parameter is read as it was written just when its key has nothing in it that means
\* something in a query, and a header when its value has no escapes (params_to_query_str,
\* parse_query_text, parse_header).
PairsRight(t, u) ==
    /\ (ParseQueryText(ParamsToQueryStr(<<<<t, u>>>>)) = <<<<t, u>>>>) <=>
        /\ t # <<>> /\ Trim(t) = t /\ Literal(t)
        /\ \A i \in DOMAIN t : t[i] \notin {Ampersand, Equals, Plus}
    /\ (ParseHeader(t \o <<Colon, Space>> \o u) = <<<<t, u>>>>) <=>
        u # <<>> /\ Trim(u) = u /\ Literal(u) /\ ~Contains(t, Colon)

\* A path is accepted just when each of its beginnings has at least as many names as steps
\* upwards (is_valid_path).
PathRight(t) ==
    LET p == Pieces(t, Slash)
        Ups(n) == Cardinality({k \in 1 .. n : p[k] = <<Dot, Dot>>})
        Names(n) == Cardinality({k \in 1 .. n : p[k] \notin {<<>>, <<Dot>>, <<Dot, Dot>>}})
    IN  IsValidPath(t) <=> \A n \in DOMAIN p : Ups(n) <= Names(n)

\* Ranges are read as they were made, and refused when one goes backwards
\* (make_range_header, parse_range_header).
RangesRight(ranges) ==
    LET backwards == \E i \in DOMAIN ranges : ranges[i][2] # -1 /\ ranges[i][1] > ranges[i][2]
    IN  ParseRange(MakeRange(ranges))[1] = ~backwards
        /\ (~backwards => ParseRange(MakeRange(ranges))[2] = ranges)
=============================================================================
