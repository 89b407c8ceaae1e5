---------------------------- MODULE MCHttpServer ----------------------------
EXTENDS HttpServer, TLC

CONSTANTS w1, w2, c1, c2, c3

One(c, requests) == (c :> requests)
Two(first, second) == One(c1, first) @@ One(c2, second)

\* The ways to read and to refuse a request, on a connection of its own.
MCSingle ==
    {One(c1, requests) : requests \in {<<"badrange">>, <<"badline", "get">>, <<"throw", "old", "get">>,
                                       <<"close", "get">>, <<"post", "get">>}}

\* Two connections whose handlers both stop the server.
MCStops == {Two(<<"stop">>, <<"stop">>)}

\* A handler stops the server while another connection is kept alive, is in the middle
\* of a streamed answer, or waits in the queue behind one that is silent.
MCStopping ==
    {Two(<<"get">>, <<"stop">>), Two(<<"stream", "get">>, <<"stop">>),
     Two(<<"stop">>, <<>>) @@ One(c3, <<>>)}

MCScripts == MCSingle \cup MCStops \cup MCStopping
=============================================================================
