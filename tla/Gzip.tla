-------------------------------- MODULE Gzip --------------------------------
(* The loops around zlib in include/httplib.h: gzip_compressor between a       *)
(* content provider and the chunks or the body that it fills, and              *)
(* gzip_decompressor between the pieces that are read and the receiver.  zlib  *)
(* may keep back what it has been given and put it out later; its stream is    *)
(* here a code for each byte and one for the end.                              *)
EXTENDS Integers, Sequences, SequencesExt, FiniteSetsExt

CONSTANTS MaxBytes,     \* bound: bytes of a content
          MaxPiece,     \* bound: bytes that the provider writes at a time
          Buffer        \* CPPHTTPLIB_COMPRESSION_BUFSIZ

GzipAssumption == {MaxBytes, MaxPiece} \subseteq Nat /\ Buffer \in Nat \ {0}

VARIABLES zip,          \* Content-Encoding is gzip
          chunked,      \* the body goes in chunks, or else with its length when it is whole
          total,        \* the length that the provider was given
          given,        \* bytes that it has written
          writer,       \* the loop of the writer: asks the provider, compresses, is over
          last,         \* the flag of compress()
          kept,         \* what deflate() has and has not put out
          payload,      \* what the callback of compress() has appended
          chunks,       \* what was sent and not read; an empty chunk ends the body
          reader,       \* reads, decompresses, or what read_content() has returned
          input,        \* what inflate() may take
          held,         \* what it has taken and not put out
          ended,        \* it has met the end of its stream
          received,     \* what the receiver has got
          odd           \* what other programs do: the stream is cut, more follows, it is no
                        \* stream; the receiver refuses

headers == <<zip, chunked, total>>
writing == <<given, writer, last, kept, payload>>
reading == <<reader, input, held, ended, received>>
vars == <<headers, writing, reading, chunks, odd>>

End == 0
Other == -1
Data(n) == [i \in 1 .. n |-> i]
Codes(n) == [i \in 1 .. n |-> given + i]

Init ==
    /\ zip \in BOOLEAN /\ chunked \in BOOLEAN
    /\ total \in IF chunked THEN {0} ELSE 0 .. MaxBytes
    /\ writer = "loop" /\ last = FALSE /\ kept = <<>> /\ payload = <<>> /\ given = 0
    /\ reader = "read" /\ input = <<>> /\ held = <<>> /\ ended = FALSE /\ received = <<>>
    /\ chunks = <<>> /\ odd = "no"

\* Another program sends a stream without its end, with another one behind it, or none.
Foreign ==
    /\ zip /\ writer = "loop" /\ given = 0
    /\ \E n \in 1 .. MaxBytes, o \in {"cut", "more", "none"} :
        /\ given' = n /\ odd' = o
        /\ chunks' = << CASE o = "cut" -> Data(n) [] o = "more" -> Data(n) \o <<End, Other>>
                          [] o = "none" -> <<Other>>, <<>> >>
    /\ writer' = "over"
    /\ UNCHANGED <<headers, last, kept, payload, reading>>
-----------------------------------------------------------------------------
(* The writer: write_content_chunked(), send_with_content_provider().          *)

Sends(bytes, over) ==
    chunks' = chunks \o (IF bytes = <<>> THEN <<>> ELSE <<bytes>>) \o (IF over THEN <<<<>>>> ELSE <<>>)

\* The provider calls sink.write( d, n ); without compression the bytes are the payload.
Write(n) ==
    /\ writer = "loop" /\ given + n <= IF chunked THEN MaxBytes ELSE total
    /\ given' = given + n
    /\ IF zip
       THEN /\ last' = (~chunked /\ given' = total)
            /\ kept' = kept \o Codes(n) \o (IF last' THEN <<End>> ELSE <<>>)
            /\ writer' = "compress"
            /\ UNCHANGED <<payload, chunks>>
       ELSE /\ IF chunked THEN Sends(Codes(n), FALSE) /\ UNCHANGED payload
                          ELSE payload' = payload \o Codes(n) /\ UNCHANGED chunks
            /\ UNCHANGED <<last, kept, writer>>
    /\ UNCHANGED <<headers, reading, odd>>

\* sink.done() of a body in chunks.
Done ==
    /\ writer = "loop" /\ chunked
    /\ IF zip
       THEN last' = TRUE /\ kept' = Append(kept, End) /\ writer' = "compress" /\ UNCHANGED chunks
       ELSE writer' = "over" /\ Sends(<<>>, TRUE) /\ UNCHANGED <<last, kept>>
    /\ UNCHANGED <<headers, given, payload, reading, odd>>

CompressReturns(bytes) ==
    IF chunked
    THEN /\ Sends(bytes, last)
         /\ payload' = <<>>
         /\ writer' = IF last THEN "over" ELSE "loop"
    ELSE payload' = bytes /\ writer' = "loop" /\ UNCHANGED chunks

\* A turn of the loop in compress(): deflate() puts out what it likes of what it has, but
\* all of it, as far as the buffer goes, for Z_FINISH.
Compress ==
    /\ writer = "compress"
    /\ LET most == Min({Buffer, Len(kept)})
       IN  \E n \in IF last THEN {most} ELSE 0 .. most :
            LET bytes == payload \o SubSeq(kept, 1, n)
            IN  /\ kept' = SubSeq(kept, n + 1, Len(kept))
                /\ IF n = Buffer THEN payload' = bytes /\ UNCHANGED <<writer, chunks>>
                                 ELSE CompressReturns(bytes)
    /\ UNCHANGED <<headers, given, last, reading, odd>>

\* A body with a length is sent when the provider has written it all.
SendsBody ==
    /\ writer = "loop" /\ ~chunked /\ given = total
    /\ Sends(payload, TRUE)
    /\ writer' = "over"
    /\ UNCHANGED <<headers, given, last, kept, payload, reading, odd>>
-----------------------------------------------------------------------------
(* The reader: read_content() with the receiver of prepare_content_receiver(). *)

\* A piece of the body is read, and given to decompress() or to the receiver.
Arrives ==
    /\ reader = "read" /\ chunks # <<>> /\ Head(chunks) # <<>>
    /\ LET chunk == Head(chunks)
       IN  \E n \in 1 .. Len(chunk) :
            /\ chunks' = (IF n = Len(chunk) THEN <<>> ELSE <<SubSeq(chunk, n + 1, Len(chunk))>>)
                         \o Tail(chunks)
            /\ IF zip THEN reader' = "decompress" /\ input' = SubSeq(chunk, 1, n) /\ UNCHANGED received
                      ELSE received' = received \o SubSeq(chunk, 1, n) /\ UNCHANGED <<reader, input>>
    /\ UNCHANGED <<headers, writing, held, ended, odd>>

BodyEnds ==
    /\ reader = "read" /\ chunks # <<>> /\ Head(chunks) = <<>>
    /\ reader' = "true" /\ chunks' = Tail(chunks)
    /\ UNCHANGED <<headers, writing, input, held, ended, received, odd>>

\* inflate() takes n codes of its input and puts bytes out, to the receiver.
Puts(bytes, n) ==
    /\ received' = received \o bytes
    /\ held' = SubSeq(held \o SubSeq(input, 1, n), Len(bytes) + 1, Len(held) + n)
    /\ input' = SubSeq(input, n + 1, Len(input))
    /\ reader' = IF input' = <<>> THEN "read" ELSE "decompress"
    /\ UNCHANGED <<headers, writing, chunks, odd>>

\* A turn of the loop in decompress(), while there is input: the buffer gets full, and
\* inflate() may have taken more codes, or all the codes are put out; then the end is met,
\* or something that is no code.  Behind its end inflate() takes nothing, and the loop
\* turns for ever.
Decompress ==
    /\ reader = "decompress" /\ ~ended
    /\ LET all == held \o input
           data == SelectInSeq(Append(all, End), LAMBDA c : c \in {End, Other}) - 1
       IN  IF data >= Buffer
           THEN /\ \E n \in 0 .. data - Len(held) :
                    Len(held) + n >= Buffer /\ Puts(SubSeq(all, 1, Buffer), n)
                /\ UNCHANGED ended
           ELSE IF data = Len(all)
           THEN Puts(all, Len(input)) /\ UNCHANGED ended
           ELSE IF all[data + 1] = End
           THEN /\ ended' = TRUE
                /\ received' = received \o SubSeq(all, 1, data)
                /\ held' = <<>> /\ input' = SubSeq(all, data + 2, Len(all))
                /\ reader' = IF input' = <<>> THEN "read" ELSE "decompress"
                /\ UNCHANGED <<headers, writing, chunks, odd>>
           ELSE /\ reader' = "false"
                /\ UNCHANGED <<headers, writing, chunks, input, held, ended, received, odd>>

\* The receiver returns false.
Refuse ==
    /\ reader = "decompress" /\ odd = "no"
    /\ reader' = "false" /\ odd' = "refused"
    /\ UNCHANGED <<headers, writing, chunks, input, held, ended, received>>

Step ==
    \/ (\E n \in 1 .. MaxPiece : Write(n)) \/ Done \/ Compress \/ SendsBody
    \/ Arrives \/ BodyEnds \/ Decompress

Next == Foreign \/ Step \/ Refuse

\* The provider and the reader go on.
FairSpec == Init /\ [][Next]_vars /\ WF_vars(Step)
-----------------------------------------------------------------------------
\* However zlib and the network cut a content, the receiver gets its bytes in their order,
\* a body that is read to its end is the whole content and leaves nothing behind, and it
\* fails for a reason.  A stream whose end is missing is taken for whole (gzip_compressor,
\* gzip_decompressor, write_content_chunked).
ContentWhole ==
    /\ IsPrefix(received, Data(given))
    /\ reader = "true" =>
        /\ writer = "over" /\ chunks = <<>>
        /\ received = Data(given) \/ odd = "cut"
    /\ reader = "false" => odd \in {"none", "refused"}

\* Every content is read to its end or refused, but one with more behind the end of its
\* stream, over which decompress() never ends.
ContentEnds == <>(reader \in {"true", "false"} \/ odd = "more")
=============================================================================
