------------------------------ MODULE HttpBody ------------------------------
(* The body of one message on a connection (include/httplib.h): a content      *)
(* provider writes it piece by piece, with a length, in chunks, or until the   *)
(* connection ends, and the other side reads what has come so far, however the *)
(* network cuts it into reads.  Neither side sends its next message before it  *)
(* has the answer to this one, so nothing follows the body on the wire.        *)
EXTENDS Integers, Sequences, SequencesExt

CONSTANTS MaxBody,      \* bound: bytes of a body
          MaxPiece,     \* bound: bytes a provider writes at a time; one hex digit
          Limit         \* payload_max_length_

BodyAssumption == {MaxBody, MaxPiece, Limit} \subseteq Nat /\ MaxPiece < 16

VARIABLES form,         \* what the headers say: Content-Length, chunked, neither
          size,         \* the Content-Length
          encoded,      \* Content-Encoding is one that this build cannot decode
          offset,       \* bytes the provider has written
          available,    \* data_available
          wr,           \* the loop of write_content..(): running, or what it returned
          stopping,     \* is_shutting_down()
          net,          \* the connection: up, closed in order, or cut
          wire,         \* what was sent and has not been read
          rd,           \* where the reader is, or what read_content() returned
          left,         \* bytes it still wants of the chunk or the body
          got,          \* what it gave to the receiver
          disturbed     \* history: what else made the transfer fail

written == <<offset, available, wr, stopping>>
headers == <<form, size, encoded>>
vars == <<headers, written, net, wire, rd, left, got, disturbed>>

Data(i) == <<"data", i>>
Hex(n) == <<"hex", n>>
CR == <<"cr">>
LF == <<"lf">>
CRLF == <<CR, LF>>
Byte == {CR, LF} \cup {Data(i) : i \in 1 .. MaxBody} \cup {Hex(n) : n \in 0 .. MaxPiece}

TypeOK ==
    /\ form \in {"length", "chunked", "open"} /\ size \in 0 .. MaxBody /\ encoded \in BOOLEAN
    /\ offset \in 0 .. MaxBody /\ available \in BOOLEAN /\ stopping \in BOOLEAN
    /\ wr \in {"loop", "true", "false"}
    /\ net \in {"up", "closed", "cut"} /\ wire \in Seq(Byte)
    /\ rd \in {"start", "data", "size", "crlf", "trailer", "skip", "true", "400", "413", "415"}
    /\ left \in 0 .. MaxBody /\ got \in Seq(Byte)
    /\ disturbed \subseteq {"late", "refused", "canceled", "empty"}

Init ==
    /\ form \in {"length", "chunked", "open"}
    /\ size \in IF form = "length" THEN 0 .. MaxBody ELSE {0}
    /\ encoded \in BOOLEAN
    /\ offset = 0 /\ available = TRUE /\ wr = "loop" /\ stopping = FALSE
    /\ net = "up" /\ wire = <<>>
    /\ rd = "start" /\ left = 0 /\ got = <<>>
    /\ disturbed = {}
-----------------------------------------------------------------------------
(* The writer: write_content() for a length, write_content_chunked(),          *)
(* write_content_without_length().  Each step is one turn of its loop.         *)

Loops == /\ wr = "loop" /\ ~stopping
         /\ IF form = "length" THEN offset < size ELSE available

Pieces(n) == [i \in 1 .. n |-> Data(offset + i)]

\* What is sent on a connection that was cut is lost; send() may not notice it yet.
Sends(bytes) == wire' = IF net = "up" THEN wire \o bytes ELSE wire

Framed(n) == IF form = "chunked" THEN <<Hex(n)>> \o CRLF \o Pieces(n) \o CRLF ELSE Pieces(n)

\* The provider has n more bytes; no more than the length that it was given.
Has(n) == n <= (IF form = "length" THEN size ELSE MaxBody) - offset

\* The provider calls sink.write( d, n ).
Write(n) ==
    /\ Loops /\ Has(n)
    /\ Sends(Framed(n))
    /\ offset' = offset + n
    /\ UNCHANGED <<headers, available, wr, stopping, net, rd, left, got, disturbed>>

\* sink.write( d, 0 ) ends a chunked body, and without its last chunk.
WriteEmpty ==
    /\ Loops /\ form = "chunked"
    /\ available' = FALSE
    /\ disturbed' = disturbed \cup {"empty"}
    /\ UNCHANGED <<headers, offset, wr, stopping, net, wire, rd, left, got>>

\* sink.done(), which a body with a length does not have.
Done ==
    /\ Loops /\ form # "length"
    /\ available' = FALSE
    /\ Sends(IF form = "chunked" THEN <<Hex(0)>> \o CRLF \o CRLF ELSE <<>>)
    /\ UNCHANGED <<headers, offset, wr, stopping, net, rd, left, got, disturbed>>

\* The provider returns false.
Cancel ==
    /\ Loops
    /\ wr' = "false"
    /\ disturbed' = disturbed \cup {"canceled"}
    /\ UNCHANGED <<headers, offset, available, stopping, net, wire, rd, left, got>>

\* write_data() fails, on a connection that was cut or because nobody reads, and some
\* of the bytes may be sent.
WriteFails(n) ==
    /\ Loops /\ Has(n)
    /\ \E k \in 0 .. Len(Framed(n)) - 1 : Sends(SubSeq(Framed(n), 1, k))
    /\ wr' = "false"
    /\ disturbed' = disturbed \cup {"late"}
    /\ UNCHANGED <<headers, offset, available, stopping, net, rd, left, got>>

LoopEnds ==
    /\ wr = "loop" /\ ~Loops
    /\ wr' = "true"
    /\ UNCHANGED <<headers, offset, available, stopping, net, wire, rd, left, got, disturbed>>

\* Server::stop(), seen between two turns of the loop.
Stop ==
    /\ wr = "loop" /\ ~stopping
    /\ stopping' = TRUE
    /\ UNCHANGED <<headers, offset, available, wr, net, wire, rd, left, got, disturbed>>

\* The connection is closed behind the body: after a failure, by the count of answers,
\* or by a timeout of the writer, who waits for the next message.
Close ==
    /\ wr # "loop" /\ net = "up"
    /\ net' = "closed"
    /\ UNCHANGED <<headers, written, wire, rd, left, got, disturbed>>

\* The connection is lost, and with it the end of what was on the way.
Cut ==
    /\ net = "up"
    /\ net' = "cut"
    /\ \E n \in 0 .. Len(wire) : wire' = SubSeq(wire, 1, n)
    /\ UNCHANGED <<headers, written, rd, left, got, disturbed>>
-----------------------------------------------------------------------------
(* The reader: read_content() with its four loops.  What SocketStream::read()  *)
(* may return: some bytes of the wire; 0 behind the last one of a connection   *)
(* that has ended; -1 there when it was cut, and anywhere when the time is up. *)

Takes(n) == wire' = SubSeq(wire, n + 1, Len(wire))
Ended == wire = <<>> /\ net # "up"

\* The reader goes on at another place, or returns.
Reads(to) ==
    /\ rd' = to
    /\ UNCHANGED <<headers, written, net>>

Begin ==
    /\ rd = "start"
    /\ Reads(IF encoded THEN "415"
             ELSE IF form = "chunked" THEN "size"
             ELSE IF form = "length" /\ size > Limit THEN "skip"
             ELSE IF form = "length" /\ size = 0 THEN "true" ELSE "data")
    /\ left' = size
    /\ UNCHANGED <<wire, got, disturbed>>

\* Where a reader of data stands when it wants n more bytes.
After(n) == IF n > 0 THEN "data" ELSE IF form = "chunked" THEN "crlf" ELSE "true"

\* Mutant: the bytes read are not taken off what is wanted.
ReadDataAgain ==
    /\ rd = "data"
    /\ \E n \in 1 .. Len(wire) :
        /\ form # "open" => n <= left
        /\ got' = got \o SubSeq(wire, 1, n)
        /\ Takes(n)
        /\ left' = IF form = "open" THEN 0 ELSE left - 1
        /\ Reads(IF form = "open" THEN "data" ELSE After(left'))
    /\ UNCHANGED disturbed

\* read_content_with_length(), of a body or of a chunk, and ..._without_length().
ReadData ==
    /\ rd = "data"
    /\ \E n \in 1 .. Len(wire) :
        /\ form # "open" => n <= left
        /\ got' = got \o SubSeq(wire, 1, n)
        /\ Takes(n)
        /\ left' = IF form = "open" THEN 0 ELSE left - n
        /\ Reads(IF form = "open" THEN "data" ELSE After(left'))
    /\ UNCHANGED disturbed

\* The receiver or the progress callback returns false.
Refuse ==
    /\ rd = "data"
    /\ \E n \in 1 .. Len(wire) : Takes(n)
    /\ Reads("400")
    /\ disturbed' = disturbed \cup {"refused"}
    /\ UNCHANGED <<left, got>>

\* skip_content_with_length()
Skip ==
    /\ rd = "skip"
    /\ \E n \in 1 .. Len(wire) :
        /\ n <= left
        /\ Takes(n)
        /\ left' = left - n
        /\ Reads(IF left' = 0 THEN "413" ELSE "skip")
    /\ UNCHANGED <<got, disturbed>>

\* A line goes to its LF, or to the end of a connection that has ended.
Line ==
    LET L == SelectInSeq(wire, LAMBDA b : b = LF)
    IN  IF L > 0 THEN SubSeq(wire, 1, L) ELSE IF net # "up" THEN wire ELSE <<>>

\* The line with the length of a chunk: strtoul() takes the digits it begins with.
ReadSize ==
    /\ rd = "size" /\ Line # <<>>
    /\ Takes(Len(Line))
    /\ left' = IF Line[1] \in {Hex(n) : n \in 0 .. MaxPiece} THEN Line[1][2] ELSE 0
    /\ Reads(IF Line[1] \notin {Hex(n) : n \in 0 .. MaxPiece} THEN "400"
             ELSE IF left' = 0 THEN "trailer" ELSE "data")
    /\ UNCHANGED <<got, disturbed>>

\* The line behind the data; another one than CRLF ends the loop as a success.
ReadCrlf ==
    /\ rd = "crlf" /\ Line # <<>>
    /\ Takes(Len(Line))
    /\ Reads(IF Line = CRLF THEN "size" ELSE "true")
    /\ UNCHANGED <<left, got, disturbed>>

\* Mutant: the line behind the last chunk is left on the connection.
ReadTrailerLate ==
    /\ rd = "trailer"
    /\ Reads("true")
    /\ UNCHANGED <<wire, left, got, disturbed>>

ReadTrailer ==
    /\ rd = "trailer" /\ Line # <<>>
    /\ Takes(Len(Line))
    /\ Reads(IF Line = CRLF THEN "true" ELSE "400")
    /\ UNCHANGED <<left, got, disturbed>>

Reading == {"data", "size", "crlf", "trailer", "skip"}
Fails == IF rd = "skip" THEN "413" ELSE "400"

\* read() returns 0: the end of a body without a length.
ReadEnds ==
    /\ rd \in Reading
    /\ Ended
    /\ Reads(IF form = "open" THEN "true" ELSE Fails)
    /\ UNCHANGED <<wire, left, got, disturbed>>

\* A line of which n bytes have been read, or data before a byte has.
Unfinished(n) == n = 0 \/ (rd \notin {"data", "skip"} /\ \A i \in 1 .. n : wire[i] # LF)

\* read() returns -1 behind the last byte of a connection that was cut.
ReadError ==
    /\ rd \in Reading
    /\ net = "cut" /\ Unfinished(Len(wire))
    /\ Reads(Fails)
    /\ wire' = <<>>
    /\ UNCHANGED <<left, got, disturbed>>

\* It returns -1 because nothing more has arrived in time.
ReadLate ==
    /\ rd \in Reading /\ net = "up"
    /\ \E n \in 0 .. Len(wire) : Unfinished(n) /\ Takes(n)
    /\ Reads(Fails)
    /\ disturbed' = disturbed \cup {"late"}
    /\ UNCHANGED <<left, got>>
-----------------------------------------------------------------------------
Provider == Done \/ \E n \in 1 .. MaxPiece : Write(n)
Reader == \/ Begin \/ ReadData \/ Skip \/ ReadSize \/ ReadCrlf \/ ReadTrailer
          \/ ReadEnds \/ ReadError

Next ==
    \/ Provider \/ WriteEmpty \/ Cancel \/ (\E n \in 1 .. MaxPiece : WriteFails(n)) \/ LoopEnds \/ Stop
    \/ Close \/ Cut
    \/ Reader \/ Refuse \/ ReadLate

Spec == Init /\ [][Next]_vars

(* Providers and readers that are called run on, and a connection that nobody  *)
(* uses any more is closed in the end.  Nothing makes a timeout come.          *)
FairSpec == Spec /\ WF_vars(Provider) /\ WF_vars(LoopEnds) /\ WF_vars(Close) /\ WF_vars(Reader)
-----------------------------------------------------------------------------
Whole == got = [i \in 1 .. offset |-> Data(i)] /\ wr # "false"
           /\ IF form = "length" THEN offset = size ELSE ~available /\ "empty" \notin disturbed

\* The receiver gets the bytes of the provider in their order, never a byte of the
\* framing; and a body that is reported as read is the whole body.  Not so without a
\* length, where every end of the connection looks like the end of the body, and when a
\* connection ends between the CR and the LF behind a chunk (read_content_chunked).
SuccessIsWhole ==
    /\ TypeOK
    /\ \A i \in 1 .. Len(got) : got[i] = Data(i)
    /\ rd = "true" /\ ~Whole =>
        \/ form = "open" /\ net # "up"
        \/ form = "chunked" /\ net # "up" /\ wire = <<>>

\* A body that was read to its end, or skipped because it is too long, leaves nothing
\* behind on the connection that the next message would be taken for (read_content).
LeavesNothing ==
    \/ rd = "true"
    \/ rd = "413" /\ net = "up" /\ "late" \notin disturbed
    => wire = <<>>

Disturbed == net = "cut" \/ stopping \/ disturbed # {} \/ encoded \/ size > Limit

\* A body is refused only for a reason: the connection or the time, the provider or
\* the receiver, the server's stop, or what the headers say.
FailsForReason == rd \in {"400", "413", "415"} => Disturbed

\* A transfer that nothing disturbs succeeds, with however many reads.
Succeeds == <>(rd = "true" \/ Disturbed)
=============================================================================
