----------------------------- MODULE MCClients ------------------------------
(* Small instances of the clients and their connections: a client that threads *)
(* share, the sockets of two threads, and a client of SSL in every setting.    *)
(* Each behaviour is one part's; the others stay as they begin.                *)
EXTENDS HttpClient, TLC

CONSTANTS a, b, NoOne, Program

VARIABLES part,
          fds, at, role, rp, mine, told, tries, robbed,
          config, certs, mutex, peer, shut, ssl, inflight, closing, sending, error, objects,
          requests, stopped, ended, unmade, unverified, changed, denied, failed

socket == <<fds, at, role, rp, mine, told, tries, robbed>>
secure == <<config, certs, mutex, peer, shut, ssl, inflight, closing, sending, error, objects,
            requests, stopped, ended, unmade, unverified, changed, denied, failed>>

Socket == INSTANCE Sockets WITH
    table <- fds, sock <- mine, error <- told, calls <- tries,
    MaxFd <- 2, Addresses <- 2, MaxCalls <- 1

Secure == INSTANCE HttpSsl WITH
    sock <- peer, calls <- sending, flight <- inflight, flag <- closing,
    sends <- requests, stops <- stopped,
    Authorizations <- 2, Redirects <- 1, MaxSends <- 2, MaxStops <- 2

ASSUME MCAssumption == Socket!SocketsAssumption /\ Secure!SslAssumption

MCInit ==
    /\ part \in {"client", "socket", "secure"}
    /\ Init /\ Socket!Init
    /\ part # "secure" =>
        config = [proxied |-> FALSE, digest |-> FALSE, verify |-> TRUE, valid |-> TRUE, keep |-> TRUE,
                   follow |-> FALSE]
    /\ Secure!Init

MCNext ==
    /\ UNCHANGED part
    /\ \/ part = "client" /\ Next /\ UNCHANGED <<socket, secure>>
       \/ part = "socket" /\ Socket!Next /\ UNCHANGED <<vars, secure>>
       \/ part = "secure" /\ Secure!Next /\ UNCHANGED <<vars, socket>>

MCSpec ==
    /\ MCInit /\ [][MCNext]_<<part, vars, socket, secure>>
    /\ WF_vars(part = "client" /\ Request)
    /\ \A t \in Thread : WF_socket(part = "socket" /\ Socket!Step(t))
    /\ WF_secure(part = "secure" /\ Secure!Step)

\* A thread has the descriptor that it was given and no other, and only the second close
\* of a socket whose connect has failed can close another's (create_socket).
SocketsSound == Socket!SocketsSound

\* SSL objects are freed with their sockets, and what is kept open between two calls can
\* be used (ssl_delete, close_socket).
SslSound == Secure!SslSound

\* Every answer comes from a host whose certificate was verified, over a connection kept
\* from another request and after an authorized retry as well, but for a connection older
\* than the verification, a proxy's 407 and what a redirect has led to; and a call that
\* fails says why (initialize_ssl).
Verified == Secure!Verified

\* Every call of send() ends, with redirects, a stop() or a silent server on the way, but
\* for what a proxy can do (connect_with_proxy) and for a peer that sends a byte before
\* each timeout, which is not modelled; so does every call that looks for a socket
\* (create_socket).
EveryCallEnds == SendEnds /\ Socket!CallsReturn /\ Secure!SendEnds
=============================================================================
