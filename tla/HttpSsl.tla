------------------------------ MODULE HttpSsl ------------------------------
(* How class SSLClient of include/httplib.h makes and ends its connection:     *)
(* the socket, the CONNECT to a proxy, the SSL object and its verification,    *)
(* under socket_mutex_; requests with digest authentication and redirects,     *)
(* which call send() again, of this client or of one made for it; the setting  *)
(* of the verification between calls; stop() of another thread; and the        *)
(* destructor.  Threads that share a client are in HttpClient.                 *)
EXTENDS Integers, Sequences, SequencesExt

CONSTANTS Authorizations,       \* how often a request may be authorized: 5
          Redirects,            \* redirect_count_ of a new request: 20
          MaxSends, MaxStops    \* bounds

SslAssumption == {Authorizations, Redirects, MaxSends, MaxStops} \subseteq Nat

VARIABLES config,       \* how the client is set
          certs,        \* initialize_cert_: not yet, or whether they could be loaded
          mutex,        \* socket_mutex_
          sock,         \* whom socket_.sock goes to: nobody, the proxy, the host
          shut,         \* it has been shut down
          ssl,          \* socket_.ssl: none, not verified, verified
          flight, flag, \* socket_requests_in_flight_, ..._should_be_closed_...
          calls,        \* the calls of send(), the innermost last
          error,        \* the `error ' they share
          objects,      \* SSL objects there are
          sends, stops,
          ended,        \* history: how the last call of the program has ended
          unmade,       \* history: SSL_new gave no object in the last call
          unverified,   \* history: how answers came that nobody had verified
          changed,      \* history: verification was asked for with an unverified connection open
          denied,       \* history: a proxy asked for what this client has not
          failed        \* history: the assertions that were evaluated to false

connection == <<mutex, sock, shut, ssl, objects, certs>>
inFlight == <<flight, flag>>
history == <<ended, unmade, unverified, changed, denied, failed>>
vars == <<config, connection, inFlight, calls, error, sends, stops, history>>

Errors == {"Success", "Unknown", "Connection", "Read", "SSLConnection", "SSLLoadingCerts",
           "SSLServerVerification", "ExceedRedirectCount"}
Stages == {"lock", "connect", "tunnel", "again", "ssl", "process", "request", "redirect",
           "redirecting", "redirected", "away", "done", "stuck"}
Settings == [proxied : BOOLEAN, digest : BOOLEAN, verify : BOOLEAN, valid : BOOLEAN,
             keep : BOOLEAN, follow : BOOLEAN]

TypeOK ==
    /\ config \in Settings
    /\ certs \in {"no", "loaded", "missing"}
    /\ mutex \in {"free", "held"} /\ sock \in {"none", "proxy", "host"} /\ shut \in BOOLEAN
    /\ ssl \in {"none", "unverified", "verified"} /\ flight \in Nat /\ flag \in BOOLEAN
    /\ calls \in Seq([at : Stages, ret : BOOLEAN, auth : 0 .. Authorizations,
                     redirects : 0 .. Redirects])
    /\ error \in Errors /\ objects \in Nat /\ sends \in 0 .. MaxSends /\ stops \in 0 .. MaxStops
    /\ ended \in {"none", "answered"} \cup Errors \cup {"destroyed"}
    /\ {unmade, changed, denied} \subseteq BOOLEAN /\ unverified \subseteq {"kept", "proxy", "plain"}
    /\ failed \subseteq {"process_socket", "close_socket", "shutdown_ssl"}

Init ==
    /\ config \in Settings
    /\ certs = "no" /\ mutex = "free" /\ sock = "none" /\ shut = FALSE /\ ssl = "none"
    /\ flight = 0 /\ flag = FALSE /\ calls = <<>> /\ error = "Success" /\ objects = 0
    /\ sends = 0 /\ stops = 0
    /\ ended = "none" /\ unmade = FALSE /\ unverified = {} /\ changed = FALSE /\ denied = FALSE
    /\ failed = {}
-----------------------------------------------------------------------------
Top == Last(calls)
At(stage) == failed = {} /\ calls # <<>> /\ Top.at = stage
Goes(stage) == calls' = [calls EXCEPT ![Len(calls)].at = stage]

\* ssl_delete and the three steps that every end of a connection takes.
DeleteSsl == ssl' = "none" /\ objects' = IF ssl = "none" THEN objects ELSE objects - 1

Closes ==
    /\ IF sock = "none" THEN UNCHANGED <<ssl, objects>> ELSE DeleteSsl
    /\ failed' = IF ssl' # "none" THEN failed \cup {"close_socket"} ELSE failed
    /\ sock' = "none" /\ shut' = FALSE

KeepsConnection == UNCHANGED <<sock, shut, ssl, objects, failed>>

\* Where handle_request() goes on behind the call of send() it has made.
Behind(stage) == IF stage = "redirecting" THEN "redirected" ELSE "done"

\* send() goes back to its caller: the program, or handle_request() of the call below.
Returns(ret, e) ==
    /\ calls' = IF Len(calls) = 1 THEN <<>>
                ELSE [Front(calls) EXCEPT ![Len(calls) - 1].at = Behind(@),
                                          ![Len(calls) - 1].ret = ret]
    /\ ended' = IF Len(calls) > 1 THEN ended ELSE IF ret THEN "answered" ELSE e
    /\ error' = e

\* An early return out of the block under socket_mutex_.
Leaves(ret, e) == mutex' = "free" /\ Returns(ret, e)
-----------------------------------------------------------------------------
NewCall(auth, redirects) == [at |-> "lock", ret |-> FALSE, auth |-> auth, redirects |-> redirects]

Send ==
    /\ failed = {} /\ calls = <<>> /\ sends < MaxSends /\ ended # "destroyed"
    /\ calls' = <<NewCall(0, Redirects)>> /\ sends' = sends + 1 /\ error' = "Success"
    /\ ended' = "none" /\ unmade' = FALSE
    /\ UNCHANGED <<config, connection, inFlight, stops, unverified, changed, denied, failed>>

\* The first block of send().  A connection that looks alive is used again; one that
\* does not is closed, and another one made.
Lock ==
    /\ At("lock") /\ mutex = "free"
    /\ flag' = FALSE
    /\ \/ /\ sock # "none" /\ Goes("process")
          /\ flight' = flight + 1
          /\ KeepsConnection /\ UNCHANGED mutex
       \/ /\ ~shut
          /\ Closes /\ mutex' = "held" /\ Goes("connect") /\ UNCHANGED flight
    /\ UNCHANGED <<config, certs, error, sends, stops, ended, unmade, unverified, changed, denied>>

\* create_and_connect_socket(): nothing without an SSL_CTX, and then no error is named.
Connect ==
    /\ At("connect")
    /\ \/ ~config.valid /\ Leaves(FALSE, error) /\ UNCHANGED sock
       \/ config.valid /\ Leaves(FALSE, "Connection") /\ UNCHANGED sock
       \/ /\ config.valid
          /\ sock' = IF config.proxied THEN "proxy" ELSE "host"
          /\ Goes(IF config.proxied THEN "tunnel" ELSE "ssl")
          /\ UNCHANGED <<mutex, error, ended>>
    /\ UNCHANGED <<config, certs, shut, ssl, objects, inFlight, sends, stops, unmade, unverified,
                   changed, denied, failed>>

\* Mutant: the connection stays open.
TunnelFailsOpen ==
    /\ At("tunnel") \/ At("again")
    /\ KeepsConnection /\ Leaves(FALSE, "Read")
    /\ UNCHANGED <<config, certs, inFlight, sends, stops, unmade, unverified, changed, denied>>

\* connect_with_proxy(): a CONNECT that fails closes the connection.
TunnelFails ==
    /\ At("tunnel") \/ At("again")
    /\ Closes /\ Leaves(FALSE, "Read")
    /\ UNCHANGED <<config, certs, inFlight, sends, stops, unmade, unverified, changed, denied>>

\* An answer that closes the connection has process_request() lock socket_mutex_,
\* which this thread holds: std::mutex does not let it go on.
TunnelCloses ==
    /\ At("tunnel") \/ At("again")
    /\ Goes("stuck")
    /\ UNCHANGED <<config, connection, inFlight, error, sends, stops, history>>

\* An answer is taken that nobody has verified, in this way.
Takes(way) == unverified' = IF config.verify THEN unverified \cup {way} ELSE unverified

\* 407: with credentials and a challenge that can be read, CONNECT once more; without
\* credentials the answer goes to the caller and the socket stays as it is.
Denied ==
    /\ KeepsConnection
    /\ \/ /\ config.digest
          /\ \E to \in {"again", "ssl"} : Goes(to)
          /\ UNCHANGED <<mutex, error, ended, unverified, denied>>
       \/ ~config.digest /\ Leaves(TRUE, error) /\ Takes("proxy") /\ denied' = TRUE

Tunnel ==
    /\ At("tunnel")
    /\ \/ Denied
       \/ /\ \E through \in {"proxy", "host"} : sock' = through
          /\ Goes("ssl")
          /\ UNCHANGED <<mutex, shut, ssl, objects, failed, error, ended, unverified, denied>>
    /\ UNCHANGED <<config, certs, inFlight, sends, stops, unmade, changed>>

\* Mutant: as long as the answer is 407, CONNECT is sent again.
TunnelAsksOn ==
    /\ At("again")
    /\ \/ (\E through \in {"proxy", "host"} : sock' = through) /\ Goes("ssl")
       \/ Goes("tunnel") /\ UNCHANGED sock
    /\ UNCHANGED <<config, certs, mutex, shut, ssl, objects, inFlight, error, sends, stops, history>>

\* The second answer is not looked at.
TunnelAgain ==
    /\ At("again")
    /\ \E through \in {"proxy", "host"} : sock' = through
    /\ Goes("ssl")
    /\ UNCHANGED <<config, certs, mutex, shut, ssl, objects, inFlight, error, sends, stops, history>>
-----------------------------------------------------------------------------
\* load_certs(), called once: what it found is told to the first caller only.
LoadCerts(ok) ==
    IF certs # "no" THEN ok /\ UNCHANGED certs
    ELSE certs' = IF ok THEN "loaded" ELSE "missing"

\* Mutant: what load_certs() sets up is needed, and looked at, the first time only.
VerifiesFirst == config.verify /\ certs = "no"

Verifies == config.verify

\* initialize_ssl() fails: SSL_new, the certificates, the handshake, or the name of
\* the host.  ssl_new() frees the object, and the socket is closed.
InitializeFails(e) ==
    /\ unmade' = (e = error)
    /\ \/ e = error /\ UNCHANGED certs
       \/ e = "SSLLoadingCerts" /\ config.verify /\ LoadCerts(FALSE)
       \/ e = "SSLConnection" /\ IF config.verify THEN LoadCerts(TRUE) ELSE UNCHANGED certs
       \/ e = "SSLServerVerification" /\ config.verify /\ sock = "host" /\ LoadCerts(TRUE)
    /\ Closes /\ Leaves(FALSE, e)

\* Only a host completes a handshake, and only with the certificates can it be verified.
Initialize ==
    /\ At("ssl")
    /\ \/ /\ sock = "host"
          /\ IF Verifies THEN LoadCerts(TRUE) /\ certs' = "loaded" ELSE UNCHANGED certs
          /\ ssl' = IF Verifies THEN "verified" ELSE "unverified"
          /\ objects' = objects + 1
          /\ mutex' = "free" /\ flight' = flight + 1 /\ Goes("process")
          /\ UNCHANGED <<sock, shut, error, ended, unmade, failed>>
       \/ (\E e \in Errors : InitializeFails(e)) /\ UNCHANGED flight
    /\ UNCHANGED <<config, flag, sends, stops, unverified, changed, denied>>

\* process_socket() of SSLClient asserts socket.ssl.
ProcessSocket ==
    /\ At("process")
    /\ failed' = IF ssl = "none" THEN failed \cup {"process_socket"} ELSE failed
    /\ Goes("request")
    /\ UNCHANGED <<config, connection, inFlight, error, sends, stops, ended, unmade, unverified, changed, denied>>
-----------------------------------------------------------------------------
EndsWith(ret) == calls' = [calls EXCEPT ![Len(calls)].at = "done", ![Len(calls)].ret = ret]

\* Digest authentication: send() of this client with the request once more.
Authorizes ==
    /\ config.digest /\ Top.auth < Authorizations
    /\ calls' = Append([calls EXCEPT ![Len(calls)].at = "request"], NewCall(Top.auth + 1, Top.redirects))

\* handle_request(): the request fails (a body that cannot be written names no error), or
\* is answered; an answer may end the connection, one of 3xx is followed when the client
\* is set so, and one of 401 or 407 is tried again with what it asks for.
Request ==
    /\ At("request") /\ mutex = "free"
    /\ \/ EndsWith(FALSE) /\ error' \in {"Read", error} /\ KeepsConnection /\ UNCHANGED unverified
       \/ /\ ~shut
          /\ IF ssl # "verified" THEN Takes("kept") ELSE UNCHANGED unverified
          /\ Closes \/ KeepsConnection
          /\ EndsWith(TRUE) \/ Authorizes \/ (config.follow /\ Goes("redirect"))
          /\ UNCHANGED error
    /\ UNCHANGED <<config, certs, mutex, inFlight, sends, stops, ended, unmade, changed, denied>>

\* Another host, port or scheme: a client is made with the settings of this one, its call
\* of send() follows redirects as well, and what it answers is the answer.  It is a
\* SSLClient for https, and verifies; its proxy may deny it, or stop it as in
\* TunnelCloses.  For http it is a ClientImpl, which has nothing to verify.
Elsewhere ==
    \/ EndsWith(FALSE) /\ error' \in Errors /\ UNCHANGED unverified
    \/ config.proxied /\ Goes("away") /\ UNCHANGED <<error, unverified>>
    \/ /\ calls' = [calls EXCEPT ![Len(calls)].at = "redirected", ![Len(calls)].ret = TRUE]
       /\ \/ UNCHANGED unverified
          \/ config.proxied /\ ~config.digest /\ Takes("proxy")
          \/ Takes("plain")
       /\ UNCHANGED error

\* redirect(): not more often than redirect_count_ says, and to a location that can be
\* read; one of the same scheme, host and port goes through this client.
Redirect ==
    /\ At("redirect")
    /\ \/ Top.redirects = 0 /\ EndsWith(FALSE) /\ error' = "ExceedRedirectCount" /\ UNCHANGED unverified
       \/ Top.redirects > 0 /\ EndsWith(FALSE) /\ UNCHANGED <<error, unverified>>
       \/ /\ Top.redirects > 0
          /\ calls' = Append([calls EXCEPT ![Len(calls)].at = "redirecting"],
                             NewCall(Top.auth, Top.redirects - 1))
          /\ UNCHANGED <<error, unverified>>
       \/ Top.redirects > 0 /\ Elsewhere
    /\ UNCHANGED <<config, connection, inFlight, sends, stops, ended, unmade, changed, denied, failed>>

\* The answer it has led to may ask for an authorization of the first request.
Redirected ==
    /\ At("redirected")
    /\ Goes("done") \/ (Top.ret /\ Authorizes)
    /\ UNCHANGED <<config, connection, inFlight, error, sends, stops, history>>

Named == IF ~Top.ret /\ error = "Success" THEN "Unknown" ELSE error

\* The last block of send().
Done ==
    /\ At("done") /\ mutex = "free"
    /\ flight' = flight - 1
    /\ IF flag \/ ~config.keep \/ ~Top.ret THEN Closes ELSE KeepsConnection
    /\ Returns(Top.ret, Named)
    /\ UNCHANGED <<config, certs, mutex, flag, sends, stops, unmade, unverified, changed, denied>>

\* enable_server_certificate_verification(), between two calls: a connection that is kept
\* open stays as it was made.
SetVerification ==
    /\ failed = {} /\ calls = <<>> /\ ended # "destroyed"
    /\ config' = [config EXCEPT !.verify = ~@]
    /\ changed' = (changed \/ (~config.verify /\ ssl = "unverified"))
    /\ UNCHANGED <<connection, inFlight, calls, error, sends, stops, ended, unmade, unverified,
                   denied, failed>>

\* stop() in another thread.
Stop ==
    /\ failed = {} /\ mutex = "free" /\ stops < MaxStops /\ ended # "destroyed"
    /\ stops' = stops + 1
    /\ IF flight > 0 THEN shut' = (sock # "none") /\ flag' = TRUE /\ UNCHANGED <<sock, ssl, objects, failed>>
       ELSE Closes /\ UNCHANGED flag
    /\ UNCHANGED <<config, certs, mutex, flight, calls, error, sends, ended, unmade, unverified, changed, denied>>

\* ~SSLClient: in the destructor of the base class shutdown_ssl() would do nothing.
DestroySsl == Closes

Destroy ==
    /\ failed = {} /\ calls = <<>> /\ mutex = "free" /\ ended # "destroyed"
    /\ DestroySsl /\ ended' = "destroyed"
    /\ UNCHANGED <<config, certs, mutex, inFlight, calls, error, sends, stops, unmade, unverified, changed, denied>>
-----------------------------------------------------------------------------
Step ==
    \/ Lock \/ Connect \/ TunnelFails \/ TunnelCloses \/ Tunnel \/ TunnelAgain
    \/ Initialize \/ ProcessSocket \/ Request \/ Redirect \/ Redirected \/ Done
Next == Send \/ Step \/ SetVerification \/ Stop \/ Destroy

Spec == Init /\ [][Next]_vars
FairSpec == Spec /\ WF_vars(Step)
-----------------------------------------------------------------------------
\* Every SSL object that was made is the socket's or has been freed, and no socket is
\* closed while its SSL object is there (close_socket: "It is also a bug if this happens
\* while SSL is still active").
SslFreed ==
    /\ objects = (IF ssl = "none" THEN 0 ELSE 1)
    /\ ssl # "none" => sock # "none"
    /\ "close_socket" \notin failed
    /\ ended = "destroyed" => objects = 0

\* With server_certificate_verification_ an answer that nobody has verified comes in three
\* ways only: over a connection that was open when the verification was asked for, from a
\* proxy that asks for credentials the client has not (connect_with_proxy, `res = res2'),
\* and from where a redirect has led (redirect, which makes a ClientImpl for http).
AnswersVerified ==
    /\ "kept" \in unverified => changed
    /\ "proxy" \in unverified => config.proxied /\ ~config.digest
    /\ "plain" \in unverified => config.follow

\* A call that fails names its error, unless there is no SSL_CTX or no SSL object could
\* be made.
ErrorNamed == ended = "Success" => ~config.valid \/ unmade

\* Between two calls an open socket has its SSL object, unless a proxy asked for
\* credentials that the client has not (process_socket asserts it).
OpenHasSsl == calls = <<>> /\ sock # "none" /\ ssl = "none" => denied

\* SSL objects are freed with their sockets, and what is kept open between two calls can
\* be used (ssl_delete, close_socket).
SslSound == SslFreed /\ OpenHasSsl

\* Every answer comes from a host whose certificate was verified, over a connection kept
\* from another request and after an authorized retry as well, but for those three ways;
\* and a call that fails says why (initialize_ssl).
Verified == AnswersVerified /\ ErrorNamed

\* process_socket(): assert(socket.ssl).
SslWhenUsed == "process_socket" \notin failed

\* process_request() on a connection to end: "This is safe to call because
\* process_request is only called by handle_request".
SafeToClose == ~At("stuck")

\* Every call of send() returns, unless a proxy's answer to CONNECT ends the connection
\* or an assertion stops the program: a server that refuses every authorization, or sends
\* the client from place to place, is asked no more often than Authorizations and
\* Redirects allow.  That a read or a write ends is assumed: each has its timeout, and a
\* peer that sends a byte before every one of them is not modelled.
SendEnds == calls # <<>> ~> calls = <<>> \/ At("stuck") \/ At("away") \/ failed # {}
=============================================================================
