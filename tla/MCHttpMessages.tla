--------------------------- MODULE MCHttpMessages ---------------------------
(* Small instances of what HTTP messages are made of: form data, a body and    *)
(* its framing, an answer with its ranges, the requests of one connection on   *)
(* their way to their handlers, the texts in the lines of a message, a call    *)
(* from its arguments to its result, and the compression of a content.  Each   *)
(* behaviour is one part's; the others stay as they begin.                     *)
EXTENDS Multipart

CONSTANTS MaxContent, MaxSecond     \* bounds: lengths of a first and a second content

MCBoundary == <<"b", "c">>

\* The short texts over the characters that the parser looks at.
Contents(n) ==
    {c \in BoundedSeq({CR, LF, Dash, "b"}, n) : Places(crlf \o dashes \o MCBoundary, c \o crlf) = {}}

MCMessages ==
    [parts : {<<Part("x", TRUE, c)>> : c \in Contents(MaxContent)}, ending : {"whole"}]
    \cup [parts : {<<Part("x", TRUE, c)>> : c \in Contents(MaxSecond)},
          ending : {"bare", "more", "other", "cut"}]
    \cup [parts : {<<Part("x", TRUE, c), Part("y", FALSE, d)>> :
                    c \in Contents(MaxSecond), d \in {<<>>, <<Dash>>}}, ending : {"whole"}]
-----------------------------------------------------------------------------
VARIABLES part,
          form, size, encoded, offset, available, wr, stopping, net, wire, rd, left, got,
          disturbed,
          method, header, ranges, stage, status, content, bytes, behind, thrown, apply,
          pieces, length, range, sent, written, ret,
          script, head, owes, line, at, cur, reads, answers, late,
          texts,
          client, server, setups, call, request, handed, answered, returned,
          zip, chunked, total, given, writer, last, kept, payload, chunks, reader, input, held,
          ended, received, odd

transfer == <<form, size, encoded, offset, available, wr, stopping, net, wire, rd, left, got,
              disturbed>>
answer == <<method, header, ranges, stage, status, content, bytes, behind, thrown, apply,
            pieces, length, range, sent, written, ret>>
requests == <<script, head, owes, line, at, cur, reads, answers, late>>
calls == <<client, server, setups, call, request, handed, answered, returned>>
zipping == <<zip, chunked, total, given, writer, last, kept, payload, chunks, reader, input, held,
             ended, received, odd>>

Transfer == INSTANCE HttpBody WITH MaxBody <- 4, MaxPiece <- 2, Limit <- 3

Zipping == INSTANCE Gzip WITH MaxBytes <- 4, MaxPiece <- 2, Buffer <- 2

\* Ranges with and without ends, inside, at the end of and behind a content.
Answer == INSTANCE HttpAnswer WITH
    at <- stage, size <- bytes, MaxSize <- 2, Ranges <- (-1 .. 3) \X (-1 .. 3), MaxRanges <- 2,
    Word <- 64, PartHead <- 3, LastBoundary <- 2

Plain(m, b) == [method |-> m, body |-> b, expect |-> "no",
                match |-> {"regular"}, reads |-> 0, throws |-> "none"]

\* Every first request, and behind it one without and one with a body.
MCScripts ==
    LET Requests == [method : {"GET", "POST", "DELETE", "OPTIONS", "TRACE"},
                     body : {"none", "empty", "chunked", "length", "long", "refused"},
                     expect : {"no", "100", "417", "401"},
                     match : SUBSET {"pre", "file", "reader", "regular"},
                     reads : 0 .. 2,
                     throws : {"none", "expect", "pre", "file", "reader", "regular",
                               "error", "post", "log"}]
    IN  {<<q, s>> : q \in {p \in Requests :
                            /\ p.expect # "no" => p.body \in {"none", "length", "chunked"}
                            /\ p.reads > 0 => "reader" \in p.match
                            /\ p.throws = "expect" => p.expect # "no"
                            /\ p.throws \in {"file", "reader", "regular"} => p.throws \in p.match
                            /\ p.throws = "reader" => p.method \in {"POST", "DELETE"}
                            /\ p.throws \notin {"none", "reader", "regular"} =>
                                p.body = "length" /\ p.reads = 0},
                    s \in {Plain("GET", "none"), Plain("POST", "length")}}

Routing == INSTANCE HttpRouting WITH Scripts <- MCScripts, wire <- line

Texts == INSTANCE HttpText

\* Every short text over the characters that mean something; pairs of shorter ones; paths;
\* ranges; what may stand for four digits of a code.
Pair(first, second) == [first |-> first, second |-> second, ranges |-> <<>>]
NoTexts == Pair(<<>>, <<>>)
MCTexts ==
    LET Chars == {32, 37, 38, 43, 61, 50, 66, 117, 0, 200, 58}
    IN  {Pair(t, <<>>) : t \in BoundedSeq(Chars, 3) \cup BoundedSeq({47, 46, 97}, 6)
                                \cup {<<37, 117>> \o s : s \in [1 .. 4 -> {48, 67}]}}
        \cup {Pair(t, u) : t \in BoundedSeq(Chars, 2), u \in BoundedSeq(Chars, 2)}
        \cup {[NoTexts EXCEPT !.ranges = r] : r \in BoundedSeq((-1 .. 2) \X (-1 .. 2), 2)}

\* Calls of every method and form to the paths /a, /ab, one with a blank and one with a query.
PathA == <<47, 97>>
PathAB == <<47, 97, 98>>
Query == PathA \o <<63, 107, 61, 43>>
MCCalls ==
    LET WithContent == {"POST", "PUT", "PATCH"}
        New(m, f, p) ==
            [method |-> m, form |-> f, path |-> p, type |-> "", params |-> <<>>,
             items |-> <<>>, pieces |-> <<>>, fails |-> FALSE, accepts |-> FALSE]
        Bare == {New(m, "none", p) : m \in {"GET", "HEAD", "OPTIONS", "DELETE"} \cup WithContent,
                                     p \in {PathA, PathAB, Query, <<47, 32>>}}
    IN  Bare \cup {[c EXCEPT !.accepts = TRUE] : c \in {d \in Bare : d.path = PathA}}
        \cup {[New(m, "text", PathA) EXCEPT !.pieces = <<t>>, !.type = y] :
                m \in WithContent \cup {"DELETE"}, t \in {<<>>, <<120>>},
                y \in {"", "text/plain", "multipart"}}
        \cup {[New(m, "params", Query) EXCEPT !.params = q] : m \in {"POST", "PUT"},
                q \in {<<>>, << <<<<107>>, <<38, 32>>>> >>,
                       << <<<<107>>, <<>>>>, <<<<107, 107>>, <<43, 61>>>> >>}}
        \cup {[New("POST", "items", PathA) EXCEPT !.items = i] : i \in {<<>>, <<"x">>, <<"x", "y">>}}
        \cup {[New(m, f, PathA) EXCEPT !.pieces = p, !.fails = b, !.accepts = f = "chunked"] :
                m \in WithContent, f \in {"provider", "chunked"}, b \in BOOLEAN,
                p \in {<<>>, <<<<120>>>>, <<<<120>>, <<121, 122>>>>}}

MCHandlers ==
    [list : {"Get", "Options"}, reads : {FALSE}, paths : {{PathA}}, answer : {"text", "chunked"}]
    \cup [list : {"Post", "Put", "Delete"}, reads : BOOLEAN, paths : {{PathA}},
          answer : {"image", "provider"}]
    \cup [list : {"Post", "Patch"}, reads : BOOLEAN, paths : {{PathA, PathAB}},
          answer : {"text", "nothing"}]

\* Two directories; that of /a has files that both /ab and /a/ reach.
Called == INSTANCE HttpCalls WITH
    Calls <- MCCalls, Handlers <- MCHandlers, IndexHtml <- <<105>>,
    Mounts <- {[point |-> <<47>>, dir |-> "d"], [point |-> PathA, dir |-> "e"]},
    Files <- {<<"d", PathAB>>} \cup {<<"e", p>> : p \in {<<47, 98>>, <<47, 105>>, <<47, 47, 105>>}},
    MaxSetup <- 2, MaxHandlers <- 2,
    wire <- request, got <- handed, answer <- answered, result <- returned

ASSUME MCAssumption ==
    /\ Transfer!BodyAssumption /\ Answer!AnswerAssumption /\ Routing!RoutingAssumption
    /\ Called!CallsAssumption /\ Zipping!GzipAssumption
-----------------------------------------------------------------------------
MCInit ==
    /\ part \in {"data", "transfer", "answer", "requests", "texts", "calls", "zipping"}
    /\ part # "data" => message = CHOOSE m \in Messages : TRUE
    /\ Init
    /\ part # "transfer" => form = "open" /\ size = 0 /\ encoded = TRUE
    /\ Transfer!Init
    /\ part # "answer" => method = "GET" /\ header = <<>>
    /\ Answer!Init
    /\ part # "requests" => script = <<Plain("GET", "none"), Plain("GET", "none")>>
    /\ Routing!Init
    /\ IF part = "texts" THEN texts \in MCTexts ELSE texts = NoTexts
    /\ Called!Init
    /\ part # "zipping" => zip = TRUE /\ chunked = TRUE
    /\ Zipping!Init

MCNext ==
    /\ UNCHANGED <<part, texts>>
    /\ \/ part = "data" /\ Next /\ UNCHANGED <<transfer, answer, requests, calls, zipping>>
       \/ /\ part = "transfer" /\ Transfer!Next
          /\ UNCHANGED <<vars, answer, requests, calls, zipping>>
       \/ part = "answer" /\ Answer!Next /\ UNCHANGED <<vars, transfer, requests, calls, zipping>>
       \/ /\ part = "requests" /\ Routing!Next
          /\ UNCHANGED <<vars, transfer, answer, calls, zipping>>
       \/ part = "calls" /\ Called!Next /\ UNCHANGED <<vars, transfer, answer, requests, zipping>>
       \/ part = "zipping" /\ Zipping!Next /\ UNCHANGED <<vars, transfer, answer, requests, calls>>

MCSpec ==
    /\ MCInit /\ [][MCNext]_<<part, vars, transfer, answer, requests, texts, calls, zipping>>
    /\ WF_vars(part = "data" /\ Parse) /\ WF_vars(part = "data" /\ BodyRead)
    /\ WF_transfer(part = "transfer" /\ Transfer!Provider)
    /\ WF_transfer(part = "transfer" /\ Transfer!LoopEnds)
    /\ WF_transfer(part = "transfer" /\ Transfer!Close)
    /\ WF_transfer(part = "transfer" /\ Transfer!Reader)
    /\ WF_zipping(part = "zipping" /\ Zipping!Step)
-----------------------------------------------------------------------------
\* The parts of form data reach their handlers whole, and a body is accepted just when it
\* is whole (MultipartFormDataParser).
FormDataRight == part = "data" => PartsRight /\ AcceptedExactly

\* A body that is reported as read is the body that was written, compressed on its way or
\* not, nothing of it is left for the next message, and it is refused only for a reason
\* (read_content, write_content, gzip_compressor, gzip_decompressor).
BodiesWhole ==
    /\ part = "transfer" =>
        Transfer!SuccessIsWhole /\ Transfer!LeavesNothing /\ Transfer!FailsForReason
    /\ part = "zipping" => Zipping!ContentWhole

\* The parser never spins over what it has, a transfer that nothing disturbs succeeds, and
\* compression ends but for what Gzip names (MultipartFormDataParser, read_content,
\* write_content, gzip_decompressor).
ReadingEnds ==
    /\ ParseEnds
    /\ part = "transfer" => Transfer!Succeeds
    /\ part = "zipping" => Zipping!ContentEnds

\* An answer is as long as it says and has the bytes its ranges stand for
\* (write_response_core, apply_ranges).
AnswersFramed == part = "answer" =>
    Answer!Framed /\ Answer!RangesRight /\ Answer!RefusesEmptyRanges

\* The server takes heads for heads and bodies for bodies, gives each request its answer,
\* and is ended by exceptions of callbacks outside of the one try block only
\* (process_request, routing, dispatch_request).
RequestsInStep == part = "requests" =>
    Routing!InStep /\ Routing!OneAnswer /\ Routing!StaysUp

\* What is written into a line is read from it again, and a path that is accepted stays
\* below where it begins (encode_url, decode_url, parse_query_text, is_valid_path).
TextsRight == part = "texts" =>
    /\ Texts!CodesRight(texts.first) /\ Texts!PairsRight(texts.first, texts.second)
    /\ Texts!PathRight(texts.first)
    /\ texts.ranges # <<>> => Texts!RangesRight(texts.ranges)

\* A call reaches the handler that it is for with what it was given, or fails for a reason
\* (Client::Post and the others, Server::routing).
CallsArrive == part = "calls" =>
    Called!HandlerIsFor /\ Called!TextsArrive /\ Called!FileIsMounted /\ Called!ResultForReason
=============================================================================
