----------------------------- MODULE HttpAnswer -----------------------------
(* How the server of include/httplib.h makes one answer: process_request()     *)
(* reads the ranges, the handler gives a content, an error handler may give    *)
(* another, apply_ranges() says how long the answer will be, and what is then  *)
(* written has to be as long.  A content is known by its length; a piece of it *)
(* is a pair of offset and length.                                             *)
EXTENDS Integers, Sequences, FiniteSets, SequencesExt, FiniteSetsExt

CONSTANTS MaxSize,      \* bound: bytes of a content
          Ranges,       \* the ranges that a request may ask for, -1 for no number
          MaxRanges,    \* bound: how many of them
          Word,         \* size_t counts modulo Word
          PartHead,     \* bytes around a part of a multipart/byteranges answer
          LastBoundary  \* bytes behind the last one

AnswerAssumption ==
    /\ {MaxSize, MaxRanges, PartHead, LastBoundary} \subseteq Nat
    /\ Ranges \subseteq (Nat \cup {-1}) \X (Nat \cup {-1})
    /\ Word \in Nat /\ \A r \in Ranges : 2 * (r[1] + r[2] + MaxSize + 2) < Word
    /\ (MaxRanges + 1) * (MaxSize + PartHead) + LastBoundary < Word

VARIABLES method,       \* GET or HEAD
          header,       \* the ranges in the Range header, empty without one
          ranges,       \* req.ranges
          at,           \* where the worker is
          status,       \* res.status, -1 until it is set
          content,      \* what res has: nothing, a body, or a provider of a kind
          size,         \* bytes of it: res.body.size() or content_length_
          behind,       \* the provider behind a body, with its length; or none
          thrown,       \* history: the handler threw an exception
          apply,        \* need_apply_ranges
          pieces,       \* the pieces of the content that res.body has
          length,       \* the Content-Length header, -1 without one
          range,        \* the Content-Range header: first, last, of; or empty
          sent,         \* the pieces that were written
          written,      \* the bytes of them with what is around them
          ret           \* what write_response_core() returns: the connection goes on

request == <<method, header, ranges>>
answer == <<status, content, size, behind, thrown, apply>>
heads == <<pieces, length, range>>
output == <<sent, written, ret>>
vars == <<request, at, answer, heads, output>>

Piece == (0 .. Word) \X (0 .. Word)

TypeOK ==
    /\ method \in {"GET", "HEAD"} /\ ranges \in Seq(Ranges) /\ IsPrefix(ranges, header)
    /\ at \in {"parse", "routing", "error", "apply", "head", "body", "done"}
    /\ status \in {-1, 200, 206, 404, 416, 500}
    /\ content \in {"none", "body", "length", "chunked", "open"} /\ size \in 0 .. MaxSize
    /\ behind \in {"none", "length", "chunked", "open"} \X (0 .. MaxSize)
    /\ thrown \in BOOLEAN /\ apply \in BOOLEAN /\ ret \in BOOLEAN
    /\ pieces \in Seq(Piece) /\ length \in -1 .. Word - 1
    /\ sent \in Seq(Piece) /\ written \in Nat

Init ==
    /\ method \in {"GET", "HEAD"} /\ header \in BoundedSeq(Ranges, MaxRanges) /\ ranges = <<>>
    /\ at = "parse"
    /\ status = -1 /\ content = "none" /\ size = 0 /\ behind = <<"none", 0>>
    /\ thrown = FALSE /\ apply = FALSE
    /\ pieces = <<>> /\ length = -1 /\ range = <<>>
    /\ sent = <<>> /\ written = 0 /\ ret = TRUE
-----------------------------------------------------------------------------
Goes(to) == at' = to

Backwards(r) == r[1] # -1 /\ r[2] # -1 /\ r[1] > r[2]

\* parse_range_header() keeps the ranges before one that runs backwards.
Parse ==
    /\ at = "parse"
    /\ \E n \in 0 .. Len(header) :
        /\ \A i \in 1 .. n : ~Backwards(header[i])
        /\ n < Len(header) => Backwards(header[n + 1])
        /\ ranges' = SubSeq(header, 1, n)
        /\ IF n = Len(header) THEN status' = -1 /\ Goes("routing")
                              ELSE status' = 416 /\ Goes("error")
    /\ UNCHANGED <<method, header, content, size, behind, thrown, apply, heads, output>>

\* A content of kind c and, where its length is known, of n bytes.
Sets(c, n) ==
    /\ n > 0 <=> c \in {"body", "length"}
    /\ content' = c /\ size' = n

\* No handler matches.
NotFound ==
    /\ at = "routing"
    /\ status' = 404 /\ Goes("error")
    /\ UNCHANGED <<request, content, size, behind, thrown, apply, heads, output>>

\* The handler gives a content and returns, or throws behind it.
Handled(c, n) ==
    /\ at = "routing"
    /\ Sets(c, n)
    /\ status' = IF ranges = <<>> THEN 200 ELSE 206
    /\ apply' = TRUE /\ Goes("apply")
    /\ UNCHANGED <<request, behind, thrown, heads, output>>

Throws(c, n) ==
    /\ at = "routing"
    /\ Sets(c, n)
    /\ status' = 500 /\ thrown' = TRUE /\ Goes("error")
    /\ UNCHANGED <<request, behind, apply, heads, output>>

\* There is no error handler, or it returns false.
NoErrorHandler ==
    /\ at = "error"
    /\ Goes("apply")
    /\ UNCHANGED <<request, answer, heads, output>>

\* set_content() leaves a provider in the answer, behind the body.
SetsBody(n) ==
    /\ Sets("body", n)
    /\ behind' = IF content \in {"none", "body"} THEN <<"none", 0>> ELSE <<content, size>>

\* The error handler gives a body, or leaves the answer as it is.
ErrorHandled(n) ==
    /\ at = "error"
    /\ IF n > 0 THEN SetsBody(n) ELSE UNCHANGED <<content, size, behind>>
    /\ apply' = TRUE /\ Goes("apply")
    /\ UNCHANGED <<request, status, thrown, heads, output>>
-----------------------------------------------------------------------------
(* apply_ranges().                                                             *)

\* Mutant: the last byte of a range is left out.
OffsetAndLengthShort(r, n) ==
    LET first == IF r[1] = -1 THEN Max({0, n - r[2]}) ELSE r[1]
        last == IF r[1] = -1 \/ r[2] = -1 THEN n - 1 ELSE r[2]
    IN  IF r = <<-1, -1>> THEN <<0, n>> ELSE <<first, (last - first) % Word>>

\* get_range_offset_and_length() for a content of n bytes.
OffsetAndLength(r, n) ==
    LET first == IF r[1] = -1 THEN Max({0, n - r[2]}) ELSE r[1]
        last == IF r[1] = -1 \/ r[2] = -1 THEN n - 1 ELSE r[2]
    IN  IF r = <<-1, -1>> THEN <<0, n>> ELSE <<first, (last - first + 1) % Word>>

Asked(n) == [i \in DOMAIN ranges |-> OffsetAndLength(ranges[i], n)]

Bytes(ps) == FoldLeft(LAMBDA n, p : n + p[2], 0, ps)
\* process_multipart_ranges_data() writes the same around the parts each time.
Around == IF Len(ranges) > 1 THEN Len(ranges) * PartHead + LastBoundary ELSE 0

\* make_content_range_header_field()
ContentRange(p) == <<p[1], (p[1] + p[2] - 1) % Word, size>>

Clip(p) == <<p[1], Min({p[2], size - p[1]})>>

Inside(p) == p[1] < size

ApplyToBody ==
    LET ps == IF ranges = <<>> THEN <<<<0, size>>>> ELSE Asked(size)
        good == \A i \in DOMAIN ps : Inside(ps[i])
    IN  /\ content = "body"
        /\ pieces' = IF good THEN [i \in DOMAIN ps |-> Clip(ps[i])] ELSE <<>>
        /\ content' = IF good THEN "body" ELSE behind[1]
        /\ size' = IF good \/ behind[1] = "none" THEN size ELSE behind[2]
        /\ status' = IF good THEN status ELSE 416
        /\ length' = IF good THEN Bytes(pieces') + Around ELSE 0
        /\ range' = IF Len(ranges) = 1 THEN ContentRange(ps[1]) ELSE <<>>

\* For several ranges of a provider the length is taken of res.body, which is empty.
AskedOfProvider == IF ranges = <<>> THEN <<<<0, size>>>>
                   ELSE Asked(IF Len(ranges) = 1 THEN size ELSE 0)

ApplyToProvider ==
    /\ content = "length"
    /\ length' = (Bytes(AskedOfProvider) + Around) % Word
    /\ range' = IF Len(ranges) = 1 THEN ContentRange(AskedOfProvider[1]) ELSE <<>>
    /\ UNCHANGED <<pieces, content, size, status>>

\* Nothing, or a provider that does not know its length.
ApplyToOther ==
    /\ content \in {"none", "chunked", "open"}
    /\ UNCHANGED <<pieces, content, size, status, length, range>>

ApplyRanges ==
    /\ at = "apply" /\ apply
    /\ ApplyToBody \/ ApplyToProvider \/ ApplyToOther
    /\ Goes("head")
    /\ UNCHANGED <<request, behind, thrown, apply, output>>

\* write_response(): the content stays as it is.
NoRanges ==
    /\ at = "apply" /\ ~apply
    /\ pieces' = IF content = "body" THEN <<<<0, size>>>> ELSE <<>>
    /\ Goes("head")
    /\ UNCHANGED <<request, answer, length, range, output>>

Headers ==
    /\ at = "head"
    /\ length' = IF length = -1 /\ content = "none" THEN 0 ELSE length
    /\ Goes(IF method = "HEAD" THEN "done" ELSE "body")
    /\ UNCHANGED <<request, answer, pieces, range, output>>
-----------------------------------------------------------------------------
WriteBody ==
    /\ at = "body" /\ content \in {"none", "body"}
    /\ sent' = pieces
    /\ written' = Bytes(pieces) + IF content = "body" /\ apply THEN Around ELSE 0
    /\ Goes("done")
    /\ UNCHANGED <<request, answer, heads, ret>>

\* write_content() asks the provider until the end is reached, and the provider returns
\* false when it is asked for a byte that it does not have.
End(p) == (p[1] + p[2]) % Word
Gives(p) == <<p[1], Max({0, Min({End(p), size}) - p[1]})>>
Gets(p) == p[1] >= End(p) \/ End(p) <= size

WriteProvider ==
    LET ps == AskedOfProvider
        ok == \A i \in DOMAIN ps : Gets(ps[i])
    IN  /\ at = "body" /\ content = "length"
        /\ sent' = IF ok THEN [i \in DOMAIN ps |-> Gives(ps[i])] ELSE <<>>
        /\ written' = IF ok THEN Bytes(sent') + Around ELSE 0
        /\ ret' = ok
        /\ Goes("done")
        /\ UNCHANGED <<request, answer, heads>>

\* In chunks, or as it comes.
WriteOther ==
    /\ at = "body" /\ content \in {"chunked", "open"}
    /\ written' \in 0 .. MaxSize
    /\ Goes("done")
    /\ UNCHANGED <<request, answer, heads, sent, ret>>

Next ==
    \/ Parse \/ NotFound \/ NoErrorHandler
    \/ \E c \in {"none", "body", "length", "chunked", "open"}, n \in 0 .. MaxSize :
            Handled(c, n) \/ Throws(c, n)
    \/ \E n \in 0 .. MaxSize : ErrorHandled(n)
    \/ ApplyRanges \/ NoRanges \/ Headers
    \/ WriteBody \/ WriteProvider \/ WriteOther

Spec == Init /\ [][Next]_vars
-----------------------------------------------------------------------------
(* What a range stands for, in a content of n bytes.                           *)
Positions(r, n) ==
    {i \in 0 .. n - 1 : IF r = <<-1, -1>> THEN TRUE
                        ELSE IF r[1] = -1 THEN i >= n - r[2]
                        ELSE i >= r[1] /\ (r[2] = -1 \/ i <= r[2])}

Covers(p) == p[1] .. p[1] + p[2] - 1

\* Ranges of a provider whose length wraps around: open at the end and beyond the content,
\* or one of several and open at the end.
Wraps(r) == r[1] # -1 /\ r[2] = -1 /\ r[1] > IF Len(ranges) = 1 THEN size ELSE 0

\* An answer on a connection that goes on says how long it is, and is as long
\* (write_response_core).  Not so when the handler has thrown behind its content and no
\* error handler is there, for a provider that ends when it likes and has no chunks, for
\* ranges of a provider whose length wraps around, and when the body of an error handler
\* is dropped for its ranges and the provider behind it is written in its place.
Framed ==
    /\ TypeOK
    /\ at = "done" /\ method = "GET" /\ ret =>
        \/ length = written
        \/ content = "chunked" /\ apply
        \/ content = "open"
        \/ thrown /\ ~apply /\ length = -1
        \/ status = 416 /\ behind[1] # "none"
        \/ content = "length" /\ apply /\ \E i \in DOMAIN ranges : Wraps(ranges[i])

\* A 206 answer has for each range the bytes that it stands for, and the Content-Range
\* header names them (apply_ranges, write_content_with_provider).  The header is wrong when
\* a range goes on behind the end of a body, and one of several ranges of a provider is
\* empty unless both its ends are given.
RangesRight ==
    at = "done" /\ method = "GET" /\ ret /\ status = 206 /\ sent # <<>> =>
        /\ Len(sent) = Len(ranges)
        /\ \A i \in DOMAIN ranges :
            \/ Covers(sent[i]) = Positions(ranges[i], size)
            \/ content = "length" /\ Len(ranges) > 1 /\ -1 \in {ranges[i][1], ranges[i][2]}
        /\ Len(ranges) = 1 /\ ranges[1][2] < size /\ sent[1][2] > 0 =>
            range = <<sent[1][1], sent[1][1] + sent[1][2] - 1, size>>

\* Ranges of a body that stand for no byte are answered with 416 and without a body, and
\* those that all stand for some never are (Server::apply_ranges).
RefusesEmptyRanges ==
    at \in {"head", "body", "done"} /\ status \in {206, 416} /\ ranges = header
        /\ content \in {"none", "body"} /\ size > 0 =>
        (status = 416 <=> \E i \in DOMAIN ranges : Positions(ranges[i], size) = {})
=============================================================================
