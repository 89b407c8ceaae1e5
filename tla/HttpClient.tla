----------------------------- MODULE HttpClient -----------------------------
(* One HTTP client of include/httplib.h (class ClientImpl, without SSL) that   *)
(* several threads share, as samples/adv/HttpClient.bas and StdCPP.bas could:  *)
(* send() runs under request_mutex_, takes or connects the one socket, and     *)
(* calls itself for a redirect to the same host; stop() may come at any time.  *)
(*                                                                             *)
(* What happens under socket_mutex_ is one step: nothing waits there for       *)
(* another thread.  Descriptors are numbers that the rest of the program       *)
(* opens and closes too.                                                       *)
EXTENDS Integers, Sequences

CONSTANTS Thread,       \* threads that use the client
          NoThread,     \* std::thread::id()
          Fd,           \* descriptor numbers
          NoFd,         \* INVALID_SOCKET
          KeepAlive,    \* keep_alive_
          Redirects,    \* CPPHTTPLIB_REDIRECT_MAX_COUNT
          MaxSends,     \* bound on the calls of send()
          MaxStops      \* bound on the calls of stop()

ASSUME ClientAssumption ==
    /\ NoThread \notin Thread /\ NoFd \notin Fd
    /\ KeepAlive \in BOOLEAN
    /\ {Redirects, MaxSends, MaxStops} \subseteq Nat

VARIABLES sock,     \* socket_.sock
          flight,   \* socket_requests_in_flight_
          from,     \* socket_requests_are_from_thread_
          flag,     \* socket_should_be_closed_when_request_is_done_
          holder,   \* the thread that holds request_mutex_
          calls,    \* its calls of send(), the innermost last
          table,    \* the descriptors of the process
          answers,  \* requests whose answer has not been read from a descriptor
          made,     \* requests made so far
          sends,    \* calls of send() so far, the nested ones not counted
          stops,    \* calls of stop() so far
          unwound,  \* history: calls of send() left by an exception of a callback
          misused,  \* history: an assertion was evaluated to false
          strayed,  \* history: the client used a descriptor of somebody else
          mixed,    \* history: a call has read the answer to another request
          asked     \* history: stop() has come since the last call of send() began

socketVars == <<sock, flight, from, flag>>
counts == <<made, sends, stops>>
history == <<unwound, misused, strayed, mixed, asked>>
vars == <<socketVars, holder, calls, table, answers, counts, history>>

\* Where an answer redirects to: nowhere (no redirect, or follow_location_ is off), to
\* this host, to another one, to what cannot be followed.
Target == {"none", "here", "away", "broken"}

Call == [fd : Fd, id : Nat \ {0}, left : 0 .. Redirects, ret : BOOLEAN,
         at : {"write", "read", "body", "answered", "status", "ends"}, to : Target]

TypeOK ==
    /\ sock \in Fd \cup {NoFd} /\ flight \in Nat /\ from \in Thread \cup {NoThread}
    /\ flag \in BOOLEAN /\ holder \in Thread \cup {NoThread}
    /\ calls \in Seq(Call) /\ Len(calls) <= Redirects + 1
    /\ table \in [Fd -> {"free", "other", "open", "shut"}]
    /\ answers \in [Fd -> Seq(Nat \ {0})]
    /\ made \in Nat /\ sends \in 0 .. MaxSends /\ stops \in 0 .. MaxStops
    /\ unwound \in Nat
    /\ {misused, strayed, mixed, asked} \subseteq BOOLEAN

Init ==
    /\ sock = NoFd /\ flight = 0 /\ from = NoThread /\ flag = FALSE
    /\ holder = NoThread /\ calls = <<>>
    /\ table = [f \in Fd |-> "free"] /\ answers = [f \in Fd |-> <<>>]
    /\ made = 0 /\ sends = 0 /\ stops = 0
    /\ unwound = 0 /\ misused = FALSE /\ strayed = FALSE /\ mixed = FALSE /\ asked = FALSE
-----------------------------------------------------------------------------
Depth == Len(calls)
Top == calls[Depth]
\* The innermost call goes on with the given fields.
Goes(call) == calls' = [calls EXCEPT ![Depth] = call]
Fails == Goes([Top EXCEPT !.at = "ends", !.ret = FALSE])

Running(at) == Depth > 0 /\ Top.at = at

Foreign(f) == f # NoFd /\ table[f] = "other"
Shut(tab, f) == IF f # NoFd /\ tab[f] = "open" THEN [tab EXCEPT ![f] = "shut"] ELSE tab
Closed(tab, f) == IF f # NoFd THEN [tab EXCEPT ![f] = "free"] ELSE tab

\* What shutdown_ssl() and close_socket() assert, with n requests in flight.
MayClose(n, t) == n = 0 \/ from = t

\* shutdown_ssl(), shutdown_socket() and close_socket() on socket_.
CloseSocket(n, t) ==
    /\ misused' = (misused \/ ~MayClose(n, t))
    /\ strayed' = (strayed \/ Foreign(sock))
    /\ table' = Closed(table, sock)
    /\ sock' = NoFd

LeaveSocket == UNCHANGED <<misused, strayed, table, sock>>
-----------------------------------------------------------------------------
(* send(): the first block.  It keeps the socket when select_write() says it   *)
(* can be written, which it says of one that was shut down too; else it closes *)
(* it and connects.  `stack` is the calls of t that go on below the new one.   *)
Keeps(t, stack, left) ==
    /\ sock # NoFd
    /\ calls' = Append(stack, [fd |-> sock, id |-> made + 1, left |-> left, ret |-> FALSE,
                               at |-> "write", to |-> "none"])
    /\ misused' = (misused \/ (flight > 1 /\ from # t))
    /\ strayed' = (strayed \/ Foreign(sock))
    /\ UNCHANGED <<sock, table, answers>>

Connects(t, stack, left) ==
    /\ sock # NoFd => table[sock] # "shut"
    /\ \E f \in Fd :
        /\ Closed(table, sock)[f] = "free"
        /\ sock' = f
        /\ table' = [Closed(table, sock) EXCEPT ![f] = "open"]
        /\ answers' = [answers EXCEPT ![f] = <<>>]
        /\ calls' = Append(stack, [fd |-> f, id |-> made + 1, left |-> left, ret |-> FALSE,
                                   at |-> "write", to |-> "none"])
    /\ misused' = (\/ misused
                   \/ sock # NoFd /\ ~MayClose(flight, t)
                   \/ flight > 1 /\ from # t)
    /\ strayed' = (strayed \/ Foreign(sock))

Enters(t, stack, left) ==
    /\ Keeps(t, stack, left) \/ Connects(t, stack, left)
    /\ flight' = flight + 1 /\ from' = t
    /\ flag' = FALSE
    /\ made' = made + 1

\* No connection: send() returns false from the first block, and the call below,
\* if there is one, ends with that.
NotConnected(t, stack) ==
    /\ sock # NoFd => table[sock] # "shut"
    /\ IF sock = NoFd THEN LeaveSocket ELSE CloseSocket(flight, t)
    /\ calls' = stack
    /\ flag' = FALSE
    /\ UNCHANGED <<flight, from, answers, made>>

Send(t) ==
    /\ holder = NoThread /\ sends < MaxSends
    /\ sends' = sends + 1
    /\ \/ Enters(t, <<>>, Redirects) /\ holder' = t
       \/ NotConnected(t, <<>>) /\ UNCHANGED holder
    /\ asked' = FALSE
    /\ UNCHANGED <<stops, unwound, mixed>>
-----------------------------------------------------------------------------
(* process_request().  The stream keeps the number socket_ had at the start of *)
(* the call.                                                                   *)
Uses == strayed' = (strayed \/ Foreign(Top.fd))

WriteRequest ==
    /\ Running("write")
    /\ Uses
    /\ \/ /\ table[Top.fd] = "open"
          /\ answers' = [answers EXCEPT ![Top.fd] = Append(@, Top.id)]
          /\ Goes([Top EXCEPT !.at = "read"])
       \/ Fails /\ UNCHANGED answers
    /\ UNCHANGED <<socketVars, holder, table, counts, unwound, misused, mixed, asked>>

\* read_response_line() and read_headers().  What has arrived can be read after a
\* shutdown; the read fails when the connection ends or the time is up.
ReadHead ==
    /\ Running("read")
    /\ Uses
    /\ \/ /\ answers[Top.fd] # <<>> /\ table[Top.fd] # "free"
          /\ mixed' = (mixed \/ Head(answers[Top.fd]) # Top.id)
          /\ Goes([Top EXCEPT !.at = "body"])
       \/ Fails /\ UNCHANGED mixed
    /\ UNCHANGED <<socketVars, holder, table, answers, counts, unwound, misused, asked>>

\* read_content(): to its end; or it fails, or one of the callbacks cancels.
ReadBody ==
    /\ Running("body")
    /\ Uses
    /\ \/ /\ table[Top.fd] # "free" /\ answers[Top.fd] # <<>>
          /\ answers' = [answers EXCEPT ![Top.fd] = Tail(@)]
          /\ Goes([Top EXCEPT !.at = "answered"])
       \/ Fails /\ UNCHANGED answers
    /\ UNCHANGED <<socketVars, holder, table, counts, unwound, misused, mixed, asked>>

\* The answer says "Connection: close", or is of HTTP/1.0.
CloseByServer ==
    /\ Running("answered")
    /\ \/ CloseSocket(flight, holder)
       \/ LeaveSocket
    /\ \E to \in Target : Goes([Top EXCEPT !.at = "status", !.to = to])
    /\ UNCHANGED <<flight, from, flag, holder, answers, counts, unwound, mixed, asked>>

\* A callback throws (response_handler_, the receiver, progress_, the provider of the
\* body): every call of the thread is left, request_mutex_ with them, and nobody takes
\* the calls off socket_requests_in_flight_.
Throws ==
    /\ Running("write") \/ Running("body")
    /\ unwound' = unwound + Depth
    /\ calls' = <<>> /\ holder' = NoThread
    /\ UNCHANGED <<socketVars, table, answers, counts, misused, strayed, mixed, asked>>
-----------------------------------------------------------------------------
(* handle_request() and redirect().                                            *)
NoRedirect ==
    /\ Running("status") /\ Top.to = "none"
    /\ Goes([Top EXCEPT !.at = "ends", !.ret = TRUE])
    /\ UNCHANGED <<socketVars, holder, table, answers, counts, history>>

\* ExceedRedirectCount, or no location that can be followed.
RedirectFails ==
    /\ Running("status") /\ (Top.to = "broken" \/ (Top.to # "none" /\ Top.left = 0))
    /\ Fails
    /\ UNCHANGED <<socketVars, holder, table, answers, counts, history>>

\* To this host: send() again, on this client and under this thread's request_mutex_.
Redirect ==
    /\ Running("status") /\ Top.to = "here" /\ Top.left > 0
    /\ LET stack == [calls EXCEPT ![Depth].at = "ends"]
       IN  Enters(holder, stack, Top.left - 1) \/ NotConnected(holder, stack)
    /\ asked' = FALSE
    /\ UNCHANGED <<holder, sends, stops, unwound, mixed>>

\* To another host: a client of its own, which has its own socket and request_mutex_.
RedirectElsewhere ==
    /\ Running("status") /\ Top.to = "away" /\ Top.left > 0
    /\ \E ret \in BOOLEAN : Goes([Top EXCEPT !.at = "ends", !.ret = ret])
    /\ UNCHANGED <<socketVars, holder, table, answers, counts, history>>
-----------------------------------------------------------------------------
(* send(): the last block, and the return to the call below.                   *)
Returns ==
    LET stack == SubSeq(calls, 1, Depth - 1)
    IN  /\ calls' = IF stack = <<>> THEN <<>>
                    ELSE [stack EXCEPT ![Depth - 1].ret = Top.ret]
        /\ holder' = IF stack = <<>> THEN NoThread ELSE holder

Leaves == flight' = flight - 1 /\ from' = IF flight = 1 THEN NoThread ELSE from

\* Mutant: the flag is not looked at.
EndsDeaf ==
    /\ Running("ends")
    /\ Leaves
    /\ IF ~KeepAlive \/ ~Top.ret
       THEN CloseSocket(flight - 1, holder)
       ELSE LeaveSocket
    /\ Returns
    /\ UNCHANGED <<flag, answers, counts, unwound, mixed, asked>>

\* Mutant: a failed call returns without the last block.
EndsEarly ==
    /\ Running("ends")
    /\ IF Top.ret THEN Leaves ELSE UNCHANGED <<flight, from>>
    /\ IF flag \/ ~KeepAlive \/ ~Top.ret
       THEN CloseSocket(flight - 1, holder)
       ELSE LeaveSocket
    /\ Returns
    /\ UNCHANGED <<flag, answers, counts, unwound, mixed, asked>>

Ends ==
    /\ Running("ends")
    /\ Leaves
    /\ IF flag \/ ~KeepAlive \/ ~Top.ret
       THEN CloseSocket(flight - 1, holder)
       ELSE LeaveSocket
    /\ Returns
    /\ UNCHANGED <<flag, answers, counts, unwound, mixed, asked>>
-----------------------------------------------------------------------------
\* stop() can run whenever nobody holds socket_mutex_: from any thread, and from the
\* thread of the request only while a callback runs.
MayStop(t) == t # holder \/ Running("write") \/ Running("body")

\* Mutant: the socket is closed though requests are in flight.
StopCloses(t) ==
    /\ stops < MaxStops /\ MayStop(t)
    /\ stops' = stops + 1
    /\ IF sock = NoFd THEN LeaveSocket ELSE CloseSocket(flight, t)
    /\ asked' = (asked \/ Depth > 0)
    /\ UNCHANGED <<flight, from, flag, holder, calls, answers, made, sends, unwound, mixed>>

Stop(t) ==
    /\ stops < MaxStops /\ MayStop(t)
    /\ stops' = stops + 1
    /\ IF flight > 0
       THEN /\ flag' = TRUE
            /\ table' = Shut(table, sock)
            /\ strayed' = (strayed \/ Foreign(sock))
            /\ UNCHANGED <<sock, misused>>
       ELSE CloseSocket(0, t) /\ UNCHANGED flag
    /\ asked' = (asked \/ Depth > 0)
    /\ UNCHANGED <<flight, from, holder, calls, answers, made, sends, unwound, mixed>>

\* The rest of the program opens and closes descriptors of its own.
OtherOpens(f) ==
    /\ table[f] = "free"
    /\ table' = [table EXCEPT ![f] = "other"]
    /\ UNCHANGED <<socketVars, holder, calls, answers, counts, history>>

OtherCloses(f) ==
    /\ table[f] = "other"
    /\ table' = [table EXCEPT ![f] = "free"]
    /\ UNCHANGED <<socketVars, holder, calls, answers, counts, history>>
-----------------------------------------------------------------------------
Request ==
    \/ WriteRequest \/ ReadHead \/ ReadBody \/ CloseByServer \/ Throws
    \/ NoRedirect \/ RedirectFails \/ Redirect \/ RedirectElsewhere \/ Ends

Next ==
    \/ Request
    \/ \E t \in Thread : Send(t) \/ Stop(t)
    \/ \E f \in Fd : OtherOpens(f) \/ OtherCloses(f)

Spec == Init /\ [][Next]_vars

(* A thread inside of send() runs: its reads, writes and the connect have      *)
(* timeouts, and its callbacks return.  request_mutex_ is not fair, so nothing *)
(* says that a thread that waits for it gets it.                               *)
FairSpec == Spec /\ WF_vars(Request)
-----------------------------------------------------------------------------
\* socket_requests_in_flight_ is the number of calls that use the socket, so that
\* stop() closes it when and only when nobody does, and the assertions on who closes it
\* hold (httplib.h:5038, 5054, 5152); every call that an exception of a callback has
\* left stays in the number for good, and the assertions can fail then (send).  No chain
\* of redirects has more calls than redirect_count_ allows.
FlightExact ==
    /\ TypeOK
    /\ flight = Depth + unwound
    /\ Depth > 0 => from = holder
    /\ misused => unwound > 0

\* The connections that are open are the client's one socket: none is leaked, none is
\* closed while a call uses it, and no call uses a number that somebody else has got
\* in the meantime (the bug close_socket() warns of, httplib.h:5048).
SocketIsMine ==
    /\ {f \in Fd : table[f] \in {"open", "shut"}} = {sock} \ {NoFd}
    /\ ~strayed
    /\ Running("write") \/ Running("read") \/ Running("body") => Top.fd = sock

\* As long as no exception has left a call, an answer belongs to the request of the
\* call that reads it, and between two requests the socket is closed or good for the
\* next one: nobody has shut it down, and nothing that a failed or cancelled call left
\* unread is on it (the close at the end of send).  A stop() during a request has the
\* socket closed by then, as the comment at httplib.h:5110 says, unless a redirect has
\* called send() once more since, which takes the flag back.
AnswerIsMine ==
    unwound = 0 =>
        /\ ~mixed
        /\ Depth = 0 /\ sock # NoFd => table[sock] = "open" /\ answers[sock] = <<>> /\ ~asked

\* Each call of send() ends: with redirects, a stop() or a silent server on the way.
SendEnds == Depth > 0 ~> Depth = 0
=============================================================================
