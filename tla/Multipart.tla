----------------------------- MODULE Multipart -----------------------------
(* A multipart/form-data body on its way through Server::read_content() and    *)
(* the MultipartFormDataParser (include/httplib.h).  The body arrives in reads *)
(* of any size, and parse() goes through its states with what has come so far. *)
(* A line of a part's head is one character here.                              *)
EXTENDS Integers, Sequences, SequencesExt, FiniteSetsExt

CONSTANTS Messages,     \* the bodies: [parts, ending], the parts as Part gives them
          Boundary      \* the boundary_ that the head of the request names

CR == "cr"
LF == "lf"
Dash == "dash"
crlf == <<CR, LF>>
dashes == <<Dash, Dash>>
delimiter == crlf \o dashes \o Boundary

\* What a part is for its sender, and what the handler of the request gets.
Part(name, typed, content) == [name |-> name, typed |-> typed, content |-> content]
NoFile == [name |-> "", typed |-> FALSE]

\* Where p begins in s, counted from 0.
Places(p, s) == {i \in 0 .. Len(s) - Len(p) : SubSeq(s, i + 1, i + Len(p)) = p}

ASSUME MultipartAssumption ==
    /\ Boundary # <<>>
    /\ \A m \in Messages :
        /\ m.parts # <<>>
        /\ m.ending \in {"whole", "bare", "more", "other", "cut"}
        /\ \A i \in 1 .. Len(m.parts) : Places(delimiter, m.parts[i].content \o crlf) = {}

VARIABLES message,      \* what the client sends
          rest,         \* the part of it that has not been read
          buf,          \* buf_
          state,        \* state_
          is_valid,     \* is_valid_
          file,         \* file_
          parts,        \* req.files: what the callbacks have made of it
          result,       \* reading, parsing, or the status: true, 400
          refused,      \* history: a callback said no
          swallowed     \* history: the beginning of a delimiter went into a content

vars == <<message, rest, buf, state, is_valid, file, parts, result, refused, swallowed>>

Lines(p) == <<p.name>> \o crlf \o (IF p.typed THEN <<"type">> \o crlf ELSE <<>>)

\* The bytes on the wire; an ending that the parser does not know, or more behind it.
Body(m) ==
    LET Entry(p) == crlf \o Lines(p) \o crlf \o p.content \o delimiter
        Ending == CASE m.ending = "whole" -> dashes \o crlf
                    [] m.ending = "bare"  -> dashes
                    [] m.ending = "more"  -> dashes \o crlf \o <<"text">>
                    [] m.ending = "other" -> <<"text">> \o dashes \o crlf
                    [] m.ending = "cut"   -> <<>>
    IN  dashes \o Boundary \o FlattenSeq([i \in 1 .. Len(m.parts) |-> Entry(m.parts[i])]) \o Ending

TypeOK ==
    /\ message \in Messages
    /\ state \in 0 .. 5 /\ is_valid \in BOOLEAN
    /\ result \in {"reading", "parsing", "true", "400"}
    /\ refused \in BOOLEAN /\ swallowed \in BOOLEAN

Init ==
    /\ message \in Messages
    /\ rest = Body(message)
    /\ buf = <<>> /\ state = 0 /\ is_valid = FALSE /\ file = NoFile
    /\ parts = <<>> /\ result = "reading"
    /\ refused = FALSE /\ swallowed = FALSE
-----------------------------------------------------------------------------
From(s, n) == SubSeq(s, n + 1, Len(s))
Begins(p) == IsPrefix(p, buf)
history == <<refused, swallowed>>

\* A read of n bytes goes to parse().
Arrive(n) ==
    /\ result = "reading" /\ n <= Len(rest)
    /\ buf' = buf \o SubSeq(rest, 1, n) /\ rest' = From(rest, n)
    /\ result' = "parsing"
    /\ UNCHANGED <<message, state, is_valid, file, parts, history>>

\* read_content() has read the body; is_valid() decides.
BodyRead ==
    /\ result = "reading" /\ rest = <<>>
    /\ result' = IF is_valid THEN "true" ELSE "400"
    /\ UNCHANGED <<message, rest, buf, state, is_valid, file, parts, history>>

\* One turn of the loop in parse() in state s; parse() itself returns with Returns.
Turn(s) ==
    /\ result = "parsing" /\ buf # <<>> /\ state = s
    /\ UNCHANGED <<message, rest>>

Goes(s, n) ==
    /\ state' = s /\ buf' = From(buf, n)
    /\ UNCHANGED result

InitialBoundary ==
    LET pattern == dashes \o Boundary \o crlf
    IN  /\ Turn(0) /\ Len(pattern) <= Len(buf)
        /\ IF Begins(pattern)
           THEN Goes(1, Len(pattern))
           ELSE result' = "400" /\ UNCHANGED <<state, buf>>
        /\ UNCHANGED <<is_valid, file, parts, history>>

NewEntry ==
    /\ Turn(1)
    /\ Goes(2, 0)
    /\ file' = NoFile
    /\ UNCHANGED <<is_valid, parts, history>>

\* A line of the head that has arrived with its end; whatever it is, it is taken.
Header ==
    /\ Turn(2)
    /\ \E n \in Places(crlf, buf) :
        /\ n > 0 /\ \A i \in Places(crlf, buf) : n <= i
        /\ Goes(2, n + 2)
        /\ file' = IF n > 1 THEN file
                   ELSE IF buf[1] = "type" THEN [file EXCEPT !.typed = TRUE]
                   ELSE [file EXCEPT !.name = buf[1]]
    /\ UNCHANGED <<is_valid, parts, history>>

\* The empty line: header_callback() makes the part.
HeadersEnd ==
    /\ Turn(2) /\ Begins(crlf)
    /\ Goes(3, 2)
    /\ parts' = Append(parts, Part(file.name, file.typed, <<>>))
    /\ UNCHANGED <<is_valid, file, history>>

\* find_string(): the first place where p is, or may be when more has arrived.
FindString(p) ==
    Min({Len(buf)} \cup {i \in 0 .. Len(buf) - 1 :
            buf[i + 1] = p[1] /\ (Len(p) > Len(buf) - i \/ i \in Places(p, buf))})

\* content_callback() gets the first n bytes of the buffer.
Delivers(n) ==
    parts' = [parts EXCEPT ![Len(parts)].content = @ \o SubSeq(buf, 1, n)]

InBody == Turn(3) /\ Len(buf) >= 4

\* Mutant: a CR LF at the end of what has arrived is taken for content.
BodyPlainAll ==
    LET Found == Places(crlf \o dashes, buf)
        n == IF Found = {} THEN Len(buf) ELSE Min(Found)
    IN  /\ InBody /\ n > 0
        /\ Delivers(n) /\ Goes(3, n)
        /\ UNCHANGED <<is_valid, file, history>>

\* Content up to what may be a delimiter.
BodyPlain ==
    LET n == FindString(crlf \o dashes)
    IN  /\ InBody /\ n > 0
        /\ Delivers(n) /\ Goes(3, n)
        /\ UNCHANGED <<is_valid, file, history>>

\* The buffer begins with what may be a delimiter, and is long enough for one.
AtDelimiter == InBody /\ FindString(crlf \o dashes) = 0 /\ Len(buf) >= Len(delimiter)

BodyEnds ==
    /\ AtDelimiter
    /\ \E n \in Places(delimiter, buf) :
        /\ \A i \in Places(delimiter, buf) : n <= i
        /\ Delivers(n) /\ Goes(4, n + Len(delimiter))
    /\ UNCHANGED <<is_valid, file, history>>

\* The delimiter has not arrived: as many bytes as it has are content.
BodyGoesOn ==
    LET n == Len(delimiter)
    IN  /\ AtDelimiter /\ Places(delimiter, buf) = {}
        /\ Delivers(n) /\ Goes(3, n)
        /\ swallowed' = (swallowed \/ \E i \in Places(delimiter, buf \o rest) : i < n)
        /\ UNCHANGED <<is_valid, file, refused>>

NextEntry ==
    /\ Turn(4) /\ Begins(crlf)
    /\ Goes(1, 2)
    /\ UNCHANGED <<is_valid, file, parts, history>>

LastBoundary ==
    /\ Turn(4) /\ Begins(dashes \o crlf)
    /\ Goes(5, 4)
    /\ is_valid' = TRUE
    /\ UNCHANGED <<file, parts, history>>

\* Something follows the last boundary.
Epilogue ==
    /\ Turn(5)
    /\ is_valid' = FALSE /\ result' = "400"
    /\ UNCHANGED <<state, buf, file, parts, history>>

\* header_callback() or content_callback() says no: a content receiver of the program.
Refuse ==
    /\ (Turn(2) /\ Begins(crlf)) \/ InBody
    /\ is_valid' = FALSE /\ result' = "400" /\ refused' = TRUE
    /\ UNCHANGED <<message, rest, state, buf, file, parts, swallowed>>

\* The buffer is empty, or has too little of what the state looks for.
Waits ==
    CASE buf = <<>> -> TRUE
      [] state = 0 -> Len(buf) < Len(dashes \o Boundary \o crlf)
      [] state = 2 -> Places(crlf, buf) = {}
      [] state = 3 -> Len(buf) < 4 \/ (FindString(crlf \o dashes) = 0 /\ Len(buf) < Len(delimiter))
      [] state = 4 -> ~Begins(crlf) /\ ~Begins(dashes \o crlf)
      [] OTHER -> FALSE

Returns ==
    /\ result = "parsing" /\ Waits
    /\ result' = "reading"
    /\ UNCHANGED <<message, rest, buf, state, is_valid, file, parts, history>>
-----------------------------------------------------------------------------
Parse == \/ InitialBoundary \/ NewEntry \/ Header \/ HeadersEnd
         \/ BodyPlain \/ BodyEnds \/ BodyGoesOn
         \/ NextEntry \/ LastBoundary \/ Epilogue \/ Returns

Next == Parse \/ Refuse \/ BodyRead \/ \E n \in 1 .. Len(rest) : Arrive(n)

Spec == Init /\ [][Next]_vars

(* parse() runs on when it is called; the connection need not bring anything.  *)
FairSpec == Spec /\ WF_vars(Parse) /\ WF_vars(BodyRead)
-----------------------------------------------------------------------------
\* What the callbacks have got so far agrees with what the client sends, however it is
\* cut into reads: the parts before the last with their whole content, and the last one
\* with a beginning of it (MultipartFormDataParser::parse).  Not so behind a delimiter
\* whose beginning was taken for content, and that happens only when the content holds
\* a CR LF and two dashes and the delimiter came in two reads.
PartsRight ==
    /\ TypeOK
    /\ swallowed => \E i \in 1 .. Len(message.parts) :
                        Places(crlf \o dashes, message.parts[i].content) # {}
    /\ ~swallowed =>
        /\ Len(parts) <= Len(message.parts)
        /\ \A i \in 1 .. Len(parts) :
            /\ parts[i].name = message.parts[i].name /\ parts[i].typed = message.parts[i].typed
            /\ IsPrefix(parts[i].content, message.parts[i].content)
            /\ i < Len(parts) => parts[i] = message.parts[i]

\* A body is accepted just when it is whole and nothing stands behind its last boundary,
\* and with all of its parts, however it was cut into reads (Server::read_content_core).
AcceptedExactly ==
    ~refused /\ ~swallowed =>
        /\ result = "true" => message.ending = "whole" /\ parts = message.parts
        /\ result = "400" => message.ending # "whole"

\* parse() returns from every piece that it gets.
ParseEnds == (result = "parsing") ~> (result # "parsing")
=============================================================================
