---------------------------- MODULE HttpRouting ----------------------------
(* One connection of the server in include/httplib.h and the requests that a   *)
(* client sends on it, each when it has the answer to the one before: what of  *)
(* a request process_request(), routing() and the handlers read, and what is   *)
(* left of it for the next.  A head and a body are one piece each.             *)
EXTENDS Integers, Sequences, SequencesExt, FiniteSets

CONSTANT Scripts        \* the sequences of requests that a client may send

(* body: no length is given, it is 0, the body is in chunks, it has a length,  *)
(*       it is longer than the limit, or it is refused in its middle           *)
(* expect: what expect_100_continue_handler_ says, or no such header           *)
(* match: the kinds of handlers that the path and the method have              *)
(* reads: how often a handler that reads the content itself does so            *)
(* throws: the callback of the program that throws an exception at it, if it   *)
(*       is called: what answers "Expect", the one before routing, the one of  *)
(*       files, a handler of either kind, and those of errors, of every answer *)
(*       and of the log                                                        *)
Request == [method : {"GET", "POST", "DELETE", "OPTIONS", "TRACE"},
            body : {"none", "empty", "chunked", "length", "long", "refused"},
            expect : {"no", "100", "417", "401"},
            match : SUBSET {"pre", "file", "reader", "regular"},
            reads : 0 .. 2,
            throws : {"none", "expect", "pre", "file", "reader", "regular",
                      "error", "post", "log"}]

RoutingAssumption == \A s \in Scripts : s \in Seq(Request) /\ s # <<>>

VARIABLES script,       \* the requests of this behaviour
          head,         \* how many of them the client has begun
          owes,         \* it has still to send the body of the last
          wire,         \* what it has sent and the server has not read
          at,           \* where the worker is
          cur,          \* the request that it is at
          reads,        \* how often the handler has read the content
          answers,      \* the answers: [req, status]
          late          \* history: requests whose body did not come in time

client == <<script, head, owes>>
vars == <<client, wire, at, cur, reads, answers, late>>

r == script[cur]
HasBody(q) == q.body \in {"chunked", "length", "long", "refused"}

TypeOK ==
    /\ head \in 0 .. Len(script) /\ cur \in 0 .. head /\ owes \in BOOLEAN
    /\ at \in {"keep", "head", "routing", "reader", "content", "handler",
               "closed", "lost", "terminated"}
    /\ reads \in 0 .. 2 /\ late \subseteq 1 .. Len(script)
    /\ \A i \in 1 .. Len(answers) :
        answers[i].req \in 1 .. head /\ answers[i].status \in {100, 200, 400, 401, 404, 417, 500}

Init ==
    /\ script \in Scripts
    /\ head = 0 /\ owes = FALSE /\ wire = <<>>
    /\ at = "keep" /\ cur = 0 /\ reads = 0 /\ answers = <<>> /\ late = {}
-----------------------------------------------------------------------------
Finals(i) == {n \in 1 .. Len(answers) : answers[n].req = i /\ answers[n].status # 100}
Up == at \notin {"closed", "lost", "terminated"}

SendHead ==
    /\ Up /\ head < Len(script)
    /\ \A i \in 1 .. head : Finals(i) # {}
    /\ head' = head + 1
    /\ owes' = HasBody(script[head + 1])
    /\ wire' = Append(wire, <<"head", head + 1>>)
    /\ UNCHANGED <<script, at, cur, reads, answers, late>>

\* The body follows at once, or a client that expects 100 waits for it, or no longer.
SendBody ==
    /\ Up /\ owes
    /\ owes' = FALSE
    /\ wire' = Append(wire, <<"body", head>>)
    /\ UNCHANGED <<script, head, at, cur, reads, answers, late>>

\* A client that has a final answer before it has sent the body keeps it, if it may:
\* without "Expect" the server waits for the bytes that the head has announced.
KeepBody ==
    /\ owes /\ script[head].expect # "no" /\ Finals(head) # {}
    /\ owes' = FALSE
    /\ UNCHANGED <<script, head, wire, at, cur, reads, answers, late>>
-----------------------------------------------------------------------------
Goes(to) == at' = to /\ UNCHANGED client

Answers(status) == answers' = Append(answers, [req |-> cur, status |-> status])

\* Only dispatch_request() has a try block: an exception of any other callback leaves
\* the worker's thread, and std::terminate() ends the process.
Terminates == UNCHANGED answers /\ Goes("terminated")

\* write_response_core(): the request is done, and the worker waits for another.
Finishes(status) ==
    IF r.throws = "post" \/ (r.throws = "error" /\ status >= 400)
    THEN Terminates
    ELSE Answers(status) /\ Goes(IF r.throws = "log" THEN "terminated" ELSE "keep")

TakeHead ==
    /\ at = "keep" /\ wire # <<>>
    /\ IF wire[1][1] = "head"
       THEN Goes("head") /\ cur' = wire[1][2] /\ wire' = Tail(wire)
       ELSE Goes("lost") /\ UNCHANGED <<cur, wire>>
    /\ reads' = 0
    /\ UNCHANGED <<answers, late>>

KeepAliveEnds ==
    /\ at = "keep" /\ wire = <<>>
    /\ Goes("closed")
    /\ UNCHANGED <<wire, cur, reads, answers, late>>

\* After 417 the code goes on as after 100; any other status ends the request.
Expect ==
    /\ at = "head"
    /\ IF r.expect = "no" THEN Goes("routing") /\ UNCHANGED answers
       ELSE IF r.throws = "expect" THEN Terminates
       ELSE IF r.expect = "401" THEN Finishes(401)
       ELSE Answers(IF r.expect = "100" THEN 100 ELSE 417) /\ Goes("routing")
    /\ UNCHANGED <<wire, cur, reads, late>>

Expects == r.method \in {"POST", "DELETE"}
Pre == "pre" \in r.match
File == "file" \in r.match /\ r.method = "GET"
Reader == "reader" \in r.match /\ Expects
EarlyThrows == r.throws = "pre" \/ (r.throws = "file" /\ File /\ ~Pre)

\* Mutant: no content is read for a request that no handler waits for.
RouteUnread ==
    /\ at = "routing"
    /\ IF EarlyThrows THEN Terminates
       ELSE IF Pre \/ File THEN Finishes(200)
       ELSE /\ Goes(IF Reader THEN "reader"
                    ELSE IF Expects /\ "regular" \in r.match THEN "content" ELSE "handler")
            /\ UNCHANGED answers
    /\ UNCHANGED <<wire, cur, reads, late>>

\* routing(): the handler before it and files answer at once.
Route ==
    /\ at = "routing"
    /\ IF EarlyThrows THEN Terminates
       ELSE IF Pre \/ File THEN Finishes(200)
       ELSE /\ Goes(IF Reader THEN "reader" ELSE IF Expects THEN "content" ELSE "handler")
            /\ UNCHANGED answers
    /\ UNCHANGED <<wire, cur, reads, late>>

(* read_content_core(): there is nothing to read, what is read is another      *)
(* request's, the content comes, or it does not come in time.                  *)
ReadsNothing == r.body = "empty" \/ (r.method = "DELETE" /\ r.body \in {"none", "chunked"})

Foreign ==
    /\ ~ReadsNothing /\ wire # <<>> /\ wire[1] # <<"body", cur>>
    /\ Goes("lost")
    /\ UNCHANGED <<wire, answers, late>>

\* Of a body that is refused a rest stays on the connection.
Own ==
    /\ ~ReadsNothing /\ wire # <<>> /\ wire[1] = <<"body", cur>>
    /\ wire' = IF r.body = "refused" THEN wire ELSE Tail(wire)
    /\ UNCHANGED late

Late ==
    /\ ~ReadsNothing /\ wire = <<>>
    /\ late' = late \cup {cur}
    /\ UNCHANGED wire

Nothing == ReadsNothing /\ UNCHANGED <<wire, late>>
Fits == r.body \notin {"long", "refused"}

Content ==
    /\ at = "content"
    /\ \/ Foreign
       \/ Nothing /\ Goes("handler") /\ UNCHANGED answers
       \/ Own /\ Fits /\ Goes("handler") /\ UNCHANGED answers
       \/ Own /\ ~Fits /\ Finishes(400)
       \/ Late /\ Finishes(400)
    /\ UNCHANGED <<cur, reads>>

\* A handler calls its content reader, and goes on whatever that says.
ReaderReads ==
    /\ at = "reader" /\ reads < r.reads
    /\ Foreign \/ ((Nothing \/ Own \/ Late) /\ Goes("reader") /\ UNCHANGED answers)
    /\ reads' = reads + 1
    /\ UNCHANGED cur

ReaderReturns ==
    /\ at = "reader" /\ reads = r.reads /\ r.throws # "reader"
    /\ Finishes(200)
    /\ UNCHANGED <<wire, cur, reads, late>>

ReaderThrows ==
    /\ at = "reader" /\ reads = r.reads /\ r.throws = "reader"
    /\ Terminates
    /\ UNCHANGED <<wire, cur, reads, late>>

\* dispatch_request() with the handlers of the method.
Handle ==
    /\ at = "handler"
    /\ Finishes(IF r.method = "TRACE" THEN 400
                ELSE IF "regular" \notin r.match THEN 404
                ELSE IF r.throws = "regular" THEN 500 ELSE 200)
    /\ UNCHANGED <<wire, cur, reads, late>>

Next ==
    \/ SendHead \/ SendBody \/ KeepBody
    \/ TakeHead \/ KeepAliveEnds
    \/ Expect \/ Route
    \/ Content \/ ReaderReads \/ ReaderReturns \/ ReaderThrows \/ Handle

Spec == Init /\ [][Next]_vars
-----------------------------------------------------------------------------
Dispatched(q, kind) == kind \in q.match /\ "pre" \notin q.match

\* Whether request i leaves its body, or a part of it, on the connection, or is read on
\* behind its end.
Leaves(i) ==
    LET q == script[i]
        refused == q.body = "refused"
        reader == Dispatched(q, "reader") /\ q.method \in {"POST", "DELETE"}
    IN  \/ HasBody(q) /\
           \/ q.method \notin {"POST", "DELETE"}    \* nobody expects one
           \/ q.expect \in {"401", "417"}           \* the client need not send it
           \/ "pre" \in q.match                     \* the handler before routing answers
           \/ reader /\ q.reads = 0                 \* the handler does not read it
           \/ q.method = "DELETE" /\ q.body = "chunked"
           \/ refused
           \/ i \in late
        \* behind its answer the code waits for a body, and reads the next request
        \/ q.expect = "417" /\ q.body = "none" /\ q.method = "POST"

\* The server takes a head for a head and a body for the body of its request, unless an
\* earlier request was one of those that leave something behind (routing, read_content).
InStep == TypeOK /\ (at = "lost" => \E i \in 1 .. cur : Leaves(i))

\* Each request gets one final answer before the next is read, and no second one but
\* after 417, when the code goes on (process_request).
OneAnswer ==
    \A i \in 1 .. cur :
        /\ Cardinality(Finals(i)) <= IF script[i].expect = "417" THEN 2 ELSE 1
        /\ i < cur \/ at \in {"keep", "closed"} => Finals(i) # {}

\* What a regular handler throws ends its request.  What ends the process is thrown by
\* one of the callbacks outside of the try block, and one that this request has: a
\* handler that reads the content itself, the callback of "Expect", of files, before
\* routing, of errors, of every answer, or of the log (dispatch_request, routing,
\* process_request, write_response_core).
StaysUp ==
    at = "terminated" =>
        \/ r.throws \in {"pre", "error", "post", "log"}
        \/ r.throws \in {"file", "reader"} /\ Dispatched(r, r.throws)
        \/ r.throws = "expect" /\ r.expect # "no"
=============================================================================
