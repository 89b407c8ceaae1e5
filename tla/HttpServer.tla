----------------------------- MODULE HttpServer -----------------------------
(* The HTTP server of include/httplib.h as samples/adv/HttpServer.bas uses it: *)
(* the thread that called listen() accepts connections and hands each to the   *)
(* thread pool as one closure; a worker reads the requests of its connection   *)
(* one after the other and writes an answer to each; stop() may be called from *)
(* any thread, a handler's included.                                           *)
(*                                                                             *)
(* A client writes requests as pieces (line, headers, body); what a piece says *)
(* is the kind of its request.  Job is a connection, its closure is            *)
(* process_and_close_socket( sock ).                                           *)
EXTENDS ThreadPool

CONSTANTS Stopper,      \* threads outside of the server, each may call stop() once
          Scripts,      \* functions from the connections that come to the requests each sends
          Difficult,    \* connections whose client may be slow, or not get what is written
          MaxCount,     \* keep_alive_max_count_
          Chunks        \* how often a content provider is called for one answer

Kind == {"get", "post", "close", "old", "throw", "stop", "stream", "badline", "badrange"}

ASSUME ServerAssumption ==
    /\ MaxCount \in Nat \ {0} /\ Chunks \in Nat
    /\ \A s \in Scripts : DOMAIN s \subseteq Job /\ s \in [DOMAIN s -> Seq(Kind)]
    /\ Stopper \cap Job = {} /\ Difficult \subseteq Job

VARIABLES svr,          \* svr_sock_: "open" or "INVALID"
          closes,       \* how often the listening descriptor has been closed
          running,      \* is_running_
          acc,          \* where the thread in listen() is
          ret,          \* what listen() will return
          stop,         \* where each call of stop() is
          script,       \* the requests of this behaviour
          conn,         \* each connection: the client's side and its worker's
          out           \* the answers written to each connection

serverVars == <<svr, closes, running, acc, ret, stop>>
connVars == <<script, conn, out>>
vars == <<poolVars, serverVars, connVars>>

Connection == [phase : {"none", "queued", "keep", "head", "body", "handler",
                        "reply", "stream", "closing", "closed"},
               sent : Nat, taken : Nat, slow : BOOLEAN,
               req : Nat, last : BOOLEAN, count : 0 .. MaxCount, left : 0 .. Chunks]

\* whole: every byte of it was written; lost: a write of it failed and nobody noticed
Answer == [req : Nat, status : {200, 400, 416, 500}, close : BOOLEAN,
           whole : BOOLEAN, lost : BOOLEAN]

TypeOK ==
    /\ PoolTypeOK
    /\ svr \in {"open", "INVALID"} /\ closes \in 0 .. 2
    /\ running \in BOOLEAN /\ ret \in BOOLEAN
    /\ acc \in {"bound", "test", "accept", "failed", "down", "returned"}
    /\ stop \in [Stopper \cup Job -> {"idle", "entered", "exchanged", "done"}]
    /\ script \in Scripts
    /\ conn \in [Job -> Connection]
    /\ \A c \in Job : \A i \in 1 .. Len(out[c]) : out[c][i] \in Answer

Init ==
    /\ PoolInit
    /\ svr = "open" /\ closes = 0 /\ running = FALSE /\ acc = "bound" /\ ret = TRUE
    /\ stop = [s \in Stopper \cup Job |-> "idle"]
    /\ script \in Scripts
    /\ conn = [c \in Job |-> [phase |-> "none", sent |-> 0, taken |-> 0, slow |-> FALSE, req |-> 0,
                              last |-> FALSE, count |-> MaxCount, left |-> 0]]
    /\ out = [c \in Job |-> <<>>]
-----------------------------------------------------------------------------
(* What a client sends.  Piece i of a request is its line, its headers, its    *)
(* body; every request is three pieces long in the counters sent and taken,    *)
(* and a request without a body skips the third.  A client may stop after any  *)
(* piece, for good or for longer than the server waits: the steps KeepAliveEnds*)
(* and ...Cut stand for a timeout and for a connection the client has closed.  *)
(* Or it is slow: getline() and read_headers() read byte by byte and line by   *)
(* line, each byte has a timeout of its own, and nothing limits their number;  *)
(* and send() waits, without a timeout, for a client that does not read.       *)
HasBody(k) == k \in {"post", "badline", "badrange"}
ReqOf(n) == (n \div 3) + 1
PartOf(n) == n % 3
KindOf(c, n) == script[c][ReqOf(n)]
After(c, n) == IF PartOf(n) = 1 /\ ~HasBody(KindOf(c, n)) THEN n + 2 ELSE n + 1

Readable(c) == conn[c].taken < conn[c].sent

\* A client may send before it has the answers to what it sent.
Send(c) ==
    /\ conn[c].phase \notin {"none", "closed"}
    /\ conn[c].sent < 3 * Len(script[c]) /\ ~conn[c].slow
    /\ conn' = [conn EXCEPT ![c].sent = After(c, @)]
    /\ UNCHANGED <<poolVars, serverVars, script, out>>

\* The worker reads a piece that comes and does not end, or writes what is not read.
Dawdles(c) ==
    /\ c \in Difficult /\ ~conn[c].slow
    /\ \/ conn[c].phase \in {"keep", "head", "body"} /\ ~Readable(c)
       \/ conn[c].phase = "handler" /\ script[c][conn[c].req] # "stop"
       \/ conn[c].phase \in {"reply", "stream"}
    /\ conn' = [conn EXCEPT ![c].slow = TRUE]
    /\ UNCHANGED <<poolVars, serverVars, script, out>>

Hurries(c) ==
    /\ conn[c].slow
    /\ conn' = [conn EXCEPT ![c].slow = FALSE]
    /\ UNCHANGED <<poolVars, serverVars, script, out>>
-----------------------------------------------------------------------------
(* listen_internal().                                                          *)
Listen ==
    /\ acc = "bound"
    /\ running' = TRUE /\ acc' = "test"
    /\ UNCHANGED <<poolVars, svr, closes, ret, stop, connVars>>

TestSocket ==
    /\ acc = "test"
    /\ acc' = IF svr = "open" THEN "accept" ELSE "down"
    /\ UNCHANGED <<poolVars, svr, closes, running, ret, stop, connVars>>

\* A client connects and accept() gives its connection.  It may still do so between
\* the exchange in stop() and the close: the thread is blocked with the descriptor it
\* read before.
Accept(c) ==
    /\ acc = "accept" /\ closes = 0
    /\ c \in DOMAIN script /\ conn[c].phase = "none"
    /\ Enqueue(c)
    /\ conn' = [conn EXCEPT ![c].phase = "queued"]
    /\ acc' = "test"
    /\ UNCHANGED <<svr, closes, running, ret, stop, script, out>>

\* EMFILE: sleep and test again.
NoDescriptor ==
    /\ acc = "accept" /\ closes = 0
    /\ acc' = "test"
    /\ UNCHANGED <<poolVars, svr, closes, running, ret, stop, connVars>>

\* accept() fails: because the socket was closed by stop(), or by itself.
AcceptFails ==
    /\ acc = "accept"
    /\ acc' = IF svr = "INVALID" THEN "down" ELSE "failed"
    /\ UNCHANGED <<poolVars, svr, closes, running, ret, stop, connVars>>

\* close_socket( svr_sock_ ) reads svr_sock_ again and does not reset it.
CloseFailed ==
    /\ acc = "failed"
    /\ closes' = IF svr = "open" THEN closes + 1 ELSE closes
    /\ ret' = FALSE /\ acc' = "down"
    /\ UNCHANGED <<poolVars, svr, running, stop, connVars>>

Shutdown ==
    /\ acc = "down"
    /\ Flag \/ NotifyAll \/ Join
    /\ UNCHANGED <<serverVars, connVars>>

ListenReturns ==
    /\ acc = "down" /\ down = "joined"
    /\ running' = FALSE /\ acc' = "returned"
    /\ UNCHANGED <<poolVars, svr, closes, ret, stop, connVars>>
-----------------------------------------------------------------------------
(* stop(), by a thread outside or by the handler of connection s.              *)
InHandler(s) == s \in Job /\ conn[s].phase = "handler" /\ script[s][conn[s].req] = "stop"
StopReturns(s) ==
    IF s \in Job
    THEN stop' = [stop EXCEPT ![s] = "idle"] /\ conn' = [conn EXCEPT ![s].phase = "reply"]
    ELSE stop' = [stop EXCEPT ![s] = "done"] /\ UNCHANGED conn

StopEnters(s) ==
    /\ stop[s] = "idle"
    /\ s \in Stopper \/ InHandler(s)
    /\ IF running THEN stop' = [stop EXCEPT ![s] = "entered"] /\ UNCHANGED conn
                  ELSE StopReturns(s)
    /\ UNCHANGED <<poolVars, svr, closes, running, acc, ret, script, out>>

\* Mutant: svr_sock_ is read and not taken.
ExchangesNothing(s) ==
    /\ stop[s] = "entered"
    /\ stop' = [stop EXCEPT ![s] = "exchanged"]
    /\ UNCHANGED <<poolVars, svr, closes, running, acc, ret, connVars>>

\* The second of two calls gets INVALID_SOCKET, and its shutdown and close do nothing;
\* with assertions in the build it ends the process one line before (httplib.h:4247).
Exchanges(s) ==
    /\ stop[s] = "entered"
    /\ svr' = "INVALID"
    /\ IF svr = "open" THEN stop' = [stop EXCEPT ![s] = "exchanged"] /\ UNCHANGED conn
                       ELSE StopReturns(s)
    /\ UNCHANGED <<poolVars, closes, running, acc, ret, script, out>>

Closes(s) ==
    /\ stop[s] = "exchanged"
    /\ closes' = closes + 1
    /\ StopReturns(s)
    /\ UNCHANGED <<poolVars, svr, running, acc, ret, script, out>>

StopSteps(s) == Exchanges(s) \/ Closes(s)
-----------------------------------------------------------------------------
(* A worker in process_and_close_socket( c ): process_server_socket_core() and *)
(* process_request().                                                          *)
WorkerTakes(w) ==
    /\ Takes(w)
    /\ conn' = [conn EXCEPT ![Head(jobs)].phase = "keep"]
    /\ UNCHANGED <<serverVars, script, out>>

\* The callback has returned ok: break, or count-- and the test of the loop.
Continue(c, r, ok) ==
    conn' = [conn EXCEPT ![c] =
        IF ok /\ ~r.last /\ r.count > 1
        THEN [r EXCEPT !.phase = "keep", !.count = @ - 1, !.left = 0]
        ELSE [r EXCEPT !.phase = "closing", !.left = 0]]

\* write_response_core(): the answer to request i.  It announces the close on the last
\* answer the count allows, or when the client asked for it in a header it read (asked).
\* The result of writing the headers is not looked at, and -1 for a body kept in memory
\* is not 0: an answer may be lost, or a part of it, and the caller hears of success.
Written(c, i, status, asked, whole, lost) ==
    [req |-> i, status |-> status, close |-> conn[c].count = 1 \/ asked,
     whole |-> whole /\ ~lost, lost |-> lost]

Writes(c, i, status, asked, whole) ==
    \E lost \in BOOLEAN :
        /\ lost => c \in Difficult
        /\ out' = [out EXCEPT ![c] = Append(@, Written(c, i, status, asked, whole, lost))]

Asked(c) == script[c][conn[c].req] = "close"

\* keep_alive() finds data, and the first line is read and parsed.
TakeLine(c) ==
    /\ conn[c].phase = "keep" /\ Readable(c)
    /\ LET n == conn[c].taken
           r == [conn[c] EXCEPT !.taken = After(c, n), !.req = ReqOf(n), !.last = FALSE]
       IN  IF PartOf(n) = 0 /\ KindOf(c, n) # "badline"
           THEN conn' = [conn EXCEPT ![c] = [r EXCEPT !.phase = "head"]] /\ UNCHANGED out
           ELSE Writes(c, ReqOf(n), 400, FALSE, TRUE) /\ Continue(c, r, TRUE)
    /\ UNCHANGED <<poolVars, serverVars, script>>

\* keep_alive() times out, or getline() finds the client gone.
KeepAliveEnds(c) ==
    /\ conn[c].phase = "keep" /\ ~Readable(c)
    /\ conn' = [conn EXCEPT ![c].phase = "closing"]
    /\ UNCHANGED <<poolVars, serverVars, script, out>>

\* read_headers(), connection_closed, and the Range header that does not parse.
TakeHead(c) ==
    /\ conn[c].phase = "head" /\ Readable(c)
    /\ LET k == script[c][conn[c].req]
           r == [conn[c] EXCEPT !.taken = After(c, @), !.last = k \in {"close", "old"}]
       IN  IF k = "badrange"
           THEN Writes(c, conn[c].req, 416, FALSE, TRUE) /\ Continue(c, r, TRUE)
           ELSE /\ conn' = [conn EXCEPT ![c] =
                       [r EXCEPT !.phase = IF k = "post" THEN "body" ELSE "handler"]]
                /\ UNCHANGED out
    /\ UNCHANGED <<poolVars, serverVars, script>>

\* The headers end early: 400.  Whether "Connection: close" had come is open, and
\* connection_closed is not set in either case.
HeadCut(c) ==
    /\ conn[c].phase = "head" /\ ~Readable(c)
    /\ \E asked \in {FALSE, Asked(c)} : Writes(c, conn[c].req, 400, asked, TRUE)
    /\ Continue(c, conn[c], TRUE)
    /\ UNCHANGED <<poolVars, serverVars, script>>

\* read_content(), for a regular handler into req.body.
TakeBody(c) ==
    /\ conn[c].phase = "body" /\ Readable(c)
    /\ conn' = [conn EXCEPT ![c].taken = After(c, @), ![c].phase = "handler"]
    /\ UNCHANGED <<poolVars, serverVars, script, out>>

BodyCut(c) ==
    /\ conn[c].phase = "body" /\ ~Readable(c)
    /\ Writes(c, conn[c].req, 400, FALSE, TRUE)
    /\ Continue(c, conn[c], TRUE)
    /\ UNCHANGED <<poolVars, serverVars, script>>

\* dispatch_request(): the handler returns or throws.
Handle(c) ==
    /\ conn[c].phase = "handler"
    /\ LET k == script[c][conn[c].req]
       IN  CASE k = "stream" -> /\ Writes(c, conn[c].req, 200, FALSE, FALSE)
                                /\ conn' = [conn EXCEPT ![c].phase = "stream", ![c].left = Chunks]
             [] k = "throw"  -> Writes(c, conn[c].req, 500, FALSE, TRUE) /\ Continue(c, conn[c], TRUE)
             [] k \notin {"stream", "throw", "stop"} ->
                    Writes(c, conn[c].req, 200, Asked(c), TRUE) /\ Continue(c, conn[c], TRUE)
             [] OTHER        -> FALSE
    /\ UNCHANGED <<poolVars, serverVars, script>>

\* The handler that called stop() has returned.
Reply(c) ==
    /\ conn[c].phase = "reply"
    /\ Writes(c, conn[c].req, 200, FALSE, TRUE) /\ Continue(c, conn[c], TRUE)
    /\ UNCHANGED <<poolVars, serverVars, script>>

\* write_content() and its two variants: one call of the provider.  It ends when
\* everything is written, and also, as a success, when the server is stopping.
Chunk(c) ==
    /\ conn[c].phase = "stream" /\ conn[c].left > 0 /\ svr = "open"
    /\ conn' = [conn EXCEPT ![c].left = @ - 1]
    /\ UNCHANGED <<poolVars, serverVars, script, out>>

StreamEnds(c) ==
    /\ conn[c].phase = "stream" /\ (conn[c].left = 0 \/ svr = "INVALID")
    /\ out' = [out EXCEPT ![c][Len(out[c])].whole = (conn[c].left = 0 /\ ~out[c][Len(out[c])].lost)]
    /\ Continue(c, conn[c], TRUE)
    /\ UNCHANGED <<poolVars, serverVars, script>>

\* Mutant: a provider that cancels counts as one that ended.
StreamFailsGoesOn(c) ==
    /\ conn[c].phase = "stream" /\ conn[c].left > 0 /\ svr = "open"
    /\ Continue(c, conn[c], TRUE)
    /\ UNCHANGED <<poolVars, serverVars, script, out>>

\* The provider cancels, or the write fails because the client is gone.
StreamFails(c) ==
    /\ conn[c].phase = "stream" /\ conn[c].left > 0 /\ svr = "open"
    /\ Continue(c, conn[c], FALSE)
    /\ UNCHANGED <<poolVars, serverVars, script, out>>

CloseConnection(w) ==
    /\ Returns(w)
    /\ conn[fn[w]].phase = "closing"
    /\ conn' = [conn EXCEPT ![fn[w]].phase = "closed"]
    /\ UNCHANGED <<serverVars, script, out>>

Serve(c) ==
    /\ ~conn[c].slow
    /\ \/ TakeLine(c) \/ KeepAliveEnds(c) \/ TakeHead(c) \/ HeadCut(c) \/ TakeBody(c) \/ BodyCut(c)
       \/ Handle(c) \/ Reply(c) \/ Chunk(c) \/ StreamEnds(c) \/ StreamFails(c)

Idle(w) == (Blocks(w) \/ Leaves(w)) /\ UNCHANGED <<serverVars, connVars>>
Spurious(w) == Wakes(w) /\ UNCHANGED <<serverVars, connVars>>
-----------------------------------------------------------------------------
Acceptor ==
    \/ Listen \/ TestSocket \/ NoDescriptor \/ AcceptFails \/ CloseFailed \/ Shutdown \/ ListenReturns
    \/ \E c \in Job : Accept(c)

Work(w) == WorkerTakes(w) \/ Idle(w) \/ CloseConnection(w)

Next ==
    \/ Acceptor
    \/ \E c \in Job : Send(c) \/ Dawdles(c) \/ Hurries(c) \/ Serve(c)
    \/ \E s \in Stopper \cup Job : StopEnters(s) \/ StopSteps(s)
    \/ \E w \in Worker : Work(w) \/ Spurious(w)

Spec == Init /\ [][Next]_vars

(* Threads that are not blocked run.  The steps of a worker in a connection    *)
(* include its timeouts, so only a slow client blocks it there; handlers and   *)
(* content providers return.  The thread in accept() goes on when the socket   *)
(* is closed; nothing makes a client connect, send, hurry or leave.            *)
Fairness ==
    /\ WF_vars(\/ Listen \/ TestSocket \/ CloseFailed \/ Shutdown \/ ListenReturns
               \/ svr = "INVALID" /\ AcceptFails)
    /\ \A c \in Job : WF_vars(Serve(c) \/ StopSteps(c) \/ StopEnters(c))
    /\ \A s \in Stopper : WF_vars(StopSteps(s))
    /\ \A w \in Worker : WF_vars(Work(w))

FairSpec == Spec /\ Fairness
-----------------------------------------------------------------------------
(* Properties.                                                                 *)

InOrder ==
    \A c \in Job : \A i \in 1 .. Len(out[c]) :
        /\ (\A j \in 1 .. i - 1 : out[c][j].status \notin {400, 416}) => out[c][i].req = i
        /\ \A j \in 1 .. i : out[c][j].req <= out[c][i].req

Cut(c) == {i \in 1 .. Len(out[c]) : ~out[c][i].whole}
CutIsKnown ==
    \A c \in Job : \A i \in Cut(c) :
        \/ svr = "INVALID"
        \/ out[c][i].lost
        \/ i = Len(out[c]) /\ conn[c].phase \in {"stream", "closing", "closed"}

\* Until a request was refused unread or cut off, the n-th answer on a connection
\* answers the n-th request, for clients that pipeline too; after that a rest may be
\* answered as if it were a request, but never an earlier request (process_request,
\* which leaves what it has not read in the stream).  And a connection goes on behind
\* an answer that was not written to its end for two reasons only: stop() has cut a
\* body that is streamed (write_content returns true for that), or a write of the
\* headers or of a body in memory has failed, which write_response_core does not
\* notice.  A provider that cancels, or whose write fails, ends the connection.
AnswersInOrder == TypeOK /\ InOrder /\ CutIsKnown

AnnouncedIsLast ==
    \A c \in Job : \A i \in 1 .. Len(out[c]) - 1 : out[c][i].close => out[c][i].status = 400

CountAnnounced ==
    \A c \in Job : /\ Len(out[c]) <= MaxCount
                   /\ Len(out[c]) = MaxCount => out[c][MaxCount].close

\* Nothing is written after an answer that announces the close of the connection, but
\* after a 400 for headers that were cut off behind "Connection: close"; and a
\* connection gets at most keep_alive_max_count_ answers, the last of which announces
\* the close (process_server_socket_core, close_connection).
CloseAnnounced == AnnouncedIsLast /\ CountAnnounced

\* The two together: what a client sees on its connection.
AnswersSound == AnswersInOrder /\ CloseAnnounced

\* However many threads stop the server, its socket is closed once, unless accept()
\* had failed by itself before: then listen_internal closes it without resetting
\* svr_sock_, and a stop() while the workers finish closes the same number again.
ClosedOnce == closes > 1 => ~ret

\* Once stop() has taken the socket, listen() returns: a client that sends request after
\* request cannot prevent it, the queue is drained and no worker sleeps on.
StopEndsListen == svr = "INVALID" ~> acc = "returned"

\* Every accepted connection is served and closed, also one that waits in the queue
\* behind connections that are kept alive.
AcceptedAreClosed == \A c \in Job : conn[c].phase = "queued" ~> conn[c].phase = "closed"

\* In the end no client is slow.
Patient == <>[](\A c \in Job : ~conn[c].slow)

\* The two together: neither a client nor listen() waits for ever, unless some client is
\* slow for ever: one that sends a byte of a header, or of a line of one, before each
\* timeout, or reads nothing of a long answer, holds its worker, and with it listen()
\* and the connections behind it (getline, read_headers, SocketStream::write).
ServerEnds == Patient => StopEndsListen /\ AcceptedAreClosed

=============================================================================
