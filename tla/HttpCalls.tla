----------------------------- MODULE HttpCalls ------------------------------
(* A call of a client in include/httplib.h on its way to a handler of a server *)
(* and back: what Get, Head, Post, Put, Patch, Delete and Options make of      *)
(* their arguments and of the client's settings, what the server reads from    *)
(* it, whom it gives it to, and what the client makes of the answer.  How a    *)
(* message travels is in HttpBody, HttpServer and HttpClient; it is whole here *)
(* unless its provider gives up.                                               *)
EXTENDS HttpText

CONSTANTS Calls,        \* the calls a program makes, as Call gives them
          Handlers,     \* the handlers it registers: [list, reads, paths, answer]
          Mounts,       \* the directories it mounts: [point, dir]
          Files,        \* the files: <<dir, path>>
          IndexHtml,    \* the file that stands for a directory
          MaxSetup,     \* bound: settings and registrations before the call
          MaxHandlers   \* bound: handlers

None == [none |-> TRUE]

(* form: nothing, a text, params, form data, or a provider with a length or without *)
(* pieces: the text, or what each call of the provider writes; fails: it gives up    *)
Call(method, form, path) ==
    [method |-> method, form |-> form, path |-> path, type |-> "", params |-> <<>>,
     items |-> <<>>, pieces |-> <<>>, fails |-> FALSE, accepts |-> FALSE]

WithContent == {"POST", "PUT", "PATCH"}

CallsAssumption ==
    /\ \A c \in Calls :
        /\ c.method \in {"GET", "HEAD", "DELETE", "OPTIONS"} \cup WithContent
        /\ c.form \in {"none", "text", "params", "items", "provider", "chunked"}
        /\ c.form = "text" => c.method \in WithContent \cup {"DELETE"} /\ Len(c.pieces) = 1
        /\ c.form = "params" => c.method \in {"POST", "PUT"}
        /\ c.form = "items" => c.method = "POST"
        /\ c.form \in {"provider", "chunked"} => c.method \in WithContent
        /\ c.fails => c.form \in {"provider", "chunked"}
        /\ c.path # <<>> /\ Head(c.path) = Slash
        /\ c.pieces \in Seq(Seq(Nat)) /\ c.fails \in BOOLEAN
        /\ c.form = "none" => c.pieces = <<>>
        /\ c.form = "provider" => \A i \in DOMAIN c.pieces : c.pieces[i] # <<>>
    /\ None \notin Calls
    /\ \A h \in Handlers :
        /\ h.list \in {"Get", "Post", "Put", "Patch", "Delete", "Options"}
        /\ h.reads => h.list \notin {"Get", "Options"}
        /\ h.answer \in {"text", "image", "provider", "chunked", "nothing"}
    /\ \A m \in Mounts : m.point # <<>> /\ Head(m.point) = Slash
    /\ {MaxSetup, MaxHandlers} \subseteq Nat

VARIABLES client,       \* its settings
          server,       \* its handlers and mount points
          setups,       \* how often these were set
          call,         \* the call
          wire,         \* the message on its way
          got,          \* what the handler has got
          answer,       \* what the server answers
          result        \* what the call returns

vars == <<client, server, setups, call, wire, got, answer, result>>

(* Headers: each name with its values in the order in which they came. *)
Name == {"Content-Type", "Content-Encoding", "Content-Length", "Transfer-Encoding",
         "Accept-Encoding", "Authorization", "Proxy-Authorization"}
NoHeaders == [n \in Name |-> <<>>]
Emplace(h, n, v) == [h EXCEPT ![n] = Append(@, v)]
HasHeader(h, n) == h[n] # <<>>
Header(h, n) == IF h[n] = <<>> THEN "" ELSE Head(h[n])

\* A body is a text, or form data; gzip when it is compressed, cut when its end is missing.
Body(text) == [text |-> text, items |-> <<>>, multipart |-> FALSE, gzip |-> FALSE, cut |-> FALSE]
IsEmpty(b) == b.text = <<>> /\ ~b.multipart /\ ~b.gzip

Init ==
    /\ client = [default |-> NoHeaders, auth |-> {}, compress |-> FALSE, decompress |-> TRUE, zlib |-> TRUE]
    /\ server = [handlers |-> <<>>, mounts |-> <<>>, zlib |-> TRUE]
    /\ setups = 0
    /\ call = None /\ wire = None /\ got = None /\ answer = None /\ result = None
-----------------------------------------------------------------------------
(* What the program sets up.                                                   *)

Setup == call = None /\ setups < MaxSetup /\ setups' = setups + 1

\* Either program may have been built without zlib.
Builds ==
    /\ Setup
    /\ \/ client' = [client EXCEPT !.zlib = FALSE] /\ UNCHANGED server
       \/ server' = [server EXCEPT !.zlib = FALSE] /\ UNCHANGED client
    /\ UNCHANGED <<call, wire, got, answer, result>>

\* set_default_headers(), set_compress(), set_decompress(), set_basic_auth() and the others.
Configure ==
    /\ Setup
    /\ \E c \in {[client EXCEPT !.default = Emplace(NoHeaders, "Content-Type", "text/plain")],
                 [client EXCEPT !.default = Emplace(NoHeaders, "Accept-Encoding", "gzip")],
                 [client EXCEPT !.compress = TRUE], [client EXCEPT !.decompress = FALSE]}
                \cup {[client EXCEPT !.auth = @ \cup {a}] :
                        a \in {"basic", "bearer", "proxy basic", "proxy bearer"}} : client' = c
    /\ UNCHANGED <<server, call, wire, got, answer, result>>

\* Get( pattern, handler ) of a Server, and Post, Put, Patch, Delete and Options.
Register ==
    /\ Setup /\ Len(server.handlers) < MaxHandlers
    /\ \E h \in Handlers : server' = [server EXCEPT !.handlers = Append(@, h)]
    /\ UNCHANGED <<client, call, wire, got, answer, result>>

\* set_mount_point() of a directory, and remove_mount_point(), which takes the first.
Mount ==
    /\ Setup
    /\ \E m \in Mounts : server' = [server EXCEPT !.mounts = Append(@, m)]
    /\ UNCHANGED <<client, call, wire, got, answer, result>>

Unmount ==
    /\ Setup
    /\ \E i \in DOMAIN server.mounts :
        /\ \A j \in 1 .. i - 1 : server.mounts[j].point # server.mounts[i].point
        /\ server' = [server EXCEPT !.mounts = RemoveAt(@, i)]
    /\ UNCHANGED <<client, call, wire, got, answer, result>>
-----------------------------------------------------------------------------
(* What the client makes of a call.                                            *)

Text(c) == FlattenSeq(c.pieces)
Compresses == client.compress /\ client.zlib
OwnHeaders(c) == IF c.accepts THEN Emplace(client.default, "Accept-Encoding", "gzip") ELSE client.default
Typed(h, type) == IF type = "" THEN h ELSE Emplace(h, "Content-Type", type)

\* provider: content_provider_ is set, and gives stream.
Request(c, headers, body) ==
    [method |-> c.method, path |-> c.path, headers |-> headers, body |-> body,
     provider |-> FALSE, stream |-> Body(<<>>)]

\* The end of a gzip stream is written with the piece that ends at the content's length.
CompressPieces(c) ==
    LET Before(i) == Len(FlattenSeq(SubSeq(c.pieces, 1, i)))
    IN  [Body(Text(c)) EXCEPT !.gzip = \E i \in DOMAIN c.pieces : Before(i) = Len(Text(c))]

\* send_with_content_provider(); None for a call that the provider has cancelled already.
SendWithContentProvider(c, body, type) ==
    LET typed == Typed(OwnHeaders(c), type)
        h == IF Compresses THEN Emplace(typed, "Content-Encoding", "gzip") ELSE typed
        Streams(headers, zipped) ==
            [Request(c, headers, Body(<<>>)) EXCEPT !.provider = TRUE,
                !.stream = [Body(Text(c)) EXCEPT !.gzip = zipped, !.cut = c.fails]]
    IN  CASE c.form = "chunked" -> Streams(Emplace(h, "Transfer-Encoding", "chunked"), Compresses)
          [] c.form = "provider" /\ ~Compresses -> Streams(h, FALSE)
          [] c.form = "provider" /\ Compresses ->
                IF c.fails THEN None ELSE Request(c, h, CompressPieces(c))
          [] OTHER -> Request(c, h, [body EXCEPT !.gzip = Compresses])

\* Get, with a receiver of the content or without; Head; Options.
Get(c) == Request(c, OwnHeaders(c), Body(<<>>))
HeadOf(c) == Request(c, OwnHeaders(c), Body(<<>>))
Options(c) == Request(c, OwnHeaders(c), Body(<<>>))

\* A body of Delete is not compressed.
Delete(c) == Request(c, Typed(OwnHeaders(c), c.type), Body(Text(c)))

\* Mutant: the values of the parameters are not encoded.
PostBare(c) ==
    IF c.form = "params" /\ c.params # <<>>
    THEN SendWithContentProvider(c, Body(c.params[1][1] \o <<Equals>> \o c.params[1][2]), "form")
    ELSE SendWithContentProvider(c, Body(Text(c)), c.type)

Post(c) ==
    CASE c.form = "params" ->
            SendWithContentProvider(c, Body(ParamsToQueryStr(c.params)), "form")
      [] c.form = "items" ->
            SendWithContentProvider(c, [Body(<<>>) EXCEPT !.items = c.items, !.multipart = TRUE],
                                    "multipart")
      [] OTHER -> SendWithContentProvider(c, Body(Text(c)), c.type)

Put(c) ==
    IF c.form = "params"
    THEN SendWithContentProvider(c, Body(ParamsToQueryStr(c.params)), "form")
    ELSE SendWithContentProvider(c, Body(Text(c)), c.type)

Patch(c) == SendWithContentProvider(c, Body(Text(c)), c.type)

\* A Client has the method pass the call on to that of its ClientImpl.
Made(c) ==
    CASE c.method = "GET" -> Get(c)
      [] c.method = "HEAD" -> HeadOf(c)
      [] c.method = "OPTIONS" -> Options(c)
      [] c.method = "DELETE" -> Delete(c)
      [] c.method = "POST" -> Post(c)
      [] c.method = "PUT" -> Put(c)
      [] c.method = "PATCH" -> Patch(c)

\* write_request(): the headers behind those of the request, and the path in its line.
Authorized(h, name, a) == IF a \in client.auth THEN Emplace(h, name, a) ELSE h
WriteRequest(r) ==
    LET plain == IF IsEmpty(r.body) \/ HasHeader(r.headers, "Content-Type") THEN r.headers
                 ELSE Emplace(r.headers, "Content-Type", "text/plain")
        sized == \/ ~IsEmpty(r.body)
                 \/ r.provider /\ ~HasHeader(r.headers, "Transfer-Encoding")
                 \/ ~r.provider /\ r.method \in WithContent
        framed == IF sized THEN Emplace(plain, "Content-Length", "length") ELSE plain
        basic == Authorized(framed, "Authorization", "basic")
        proxy == Authorized(basic, "Proxy-Authorization", "proxy basic")
        bearer == Authorized(proxy, "Authorization", "bearer")
    IN  [method |-> r.method, path |-> EncodeUrl(r.path),
         headers |-> Authorized(bearer, "Proxy-Authorization", "proxy bearer"),
         body |-> IF IsEmpty(r.body) THEN r.stream ELSE r.body]

Result(error, status, text, raw) == [error |-> error, status |-> status, text |-> text, raw |-> raw]

Send ==
    /\ call = None
    /\ \E c \in Calls :
        /\ call' = c
        /\ wire' = IF Made(c) = None THEN None ELSE WriteRequest(Made(c))
        /\ result' = IF c.fails THEN Result("Canceled", 0, <<>>, FALSE) ELSE None
    /\ UNCHANGED <<client, server, setups, got, answer>>
-----------------------------------------------------------------------------
(* What the server makes of the message.                                       *)

Read(ok, status, text, items) == [ok |-> ok, status |-> status, text |-> text, items |-> items]
FormBytes == <<0>>      \* the bytes of form data for one who does not know that it is

\* read_content_core() and what it reads through.
ReadContent(w) ==
    LET zipped == Header(w.headers, "Content-Encoding") = "gzip"
        multipart == Header(w.headers, "Content-Type") = "multipart"
        Refused(status) == Read(FALSE, status, <<>>, <<>>)
    IN  IF w.method = "DELETE" /\ ~HasHeader(w.headers, "Content-Length")
        THEN Read(TRUE, 0, <<>>, <<>>)
        ELSE IF zipped /\ ~server.zlib THEN Refused(415)
        ELSE IF w.body.cut \/ (w.body.gzip # zipped /\ ~IsEmpty(w.body)) THEN Refused(400)
        ELSE IF multipart /\ w.body.items = <<>> THEN Refused(400)
        ELSE IF multipart THEN Read(TRUE, 0, <<>>, w.body.items)
        ELSE Read(TRUE, 0, IF w.body.multipart THEN FormBytes ELSE w.body.text, <<>>)

ListOf(method) ==
    CASE method \in {"GET", "HEAD"} -> "Get" [] method = "POST" -> "Post" [] method = "PUT" -> "Put"
      [] method = "PATCH" -> "Patch" [] method = "DELETE" -> "Delete" [] method = "OPTIONS" -> "Options"

\* The handlers of the list whose pattern is that of the path; the first of them is taken.
Matching(method, reads, path) ==
    {i \in DOMAIN server.handlers : /\ server.handlers[i].list = ListOf(method)
                                   /\ server.handlers[i].reads = reads
                                   /\ path \in server.handlers[i].paths}

\* handle_file_request(): the file of the first mount point with which the path begins.
FileOf(path) ==
    LET Sub(m) == <<Slash>> \o SubSeq(path, Len(m.point) + 1, Len(path))
        Named(m) == IF Last(Sub(m)) = Slash THEN Sub(m) \o IndexHtml ELSE Sub(m)
        found == SelectSeq(server.mounts, LAMBDA m : /\ IsPrefix(m.point, path)
                                                     /\ IsValidPath(Sub(m))
                                                     /\ <<m.dir, Named(m)>> \in Files)
    IN  IF found = <<>> THEN None ELSE [dir |-> Head(found).dir, path |-> Named(Head(found))]

\* parse_request_line(): what is before the first ? and behind it.
Question == 63
ParseRequestLine(target) ==
    LET at == SelectInSeq(target, LAMBDA c : c = Question)
        end == IF at = 0 THEN Len(target) ELSE at - 1
    IN  [path |-> DecodeUrl(SubSeq(target, 1, end), FALSE),
         params |-> IF at = 0 THEN <<>> ELSE ParseQueryText(SubSeq(target, at + 1, Len(target)))]

\* apply_ranges() without ranges: the encoding, for a body and for a provider in chunks.
Encoded(w, kind, text) ==
    LET gzip == /\ kind # "image" /\ server.zlib
                /\ Header(w.headers, "Accept-Encoding") = "gzip"
                /\ kind = "chunked" \/ (kind # "provider" /\ text # <<>>)
    IN  [status |-> 200, text |-> text, gzip |-> gzip]
Refuses(status) == [status |-> status, text |-> <<>>, gzip |-> FALSE]

Answered == <<111, 107>>
Runs(i, w, line, content, params) ==
    /\ got' = [handler |-> i, path |-> line.path, params |-> line.params \o params,
               read |-> content, auth |-> Header(w.headers, "Authorization")]
    /\ answer' = LET kind == server.handlers[i].answer
                 IN  Encoded(w, kind, IF kind = "nothing" THEN <<>> ELSE Answered)

\* find_content_type(): what the name of a file says, in a table of the program's or in
\* that of the library; a name that says nothing is like that of an image here.
FileKind == {"text", "image"}

\* routing(): a file, whose name says what kind it is, a handler that reads the content
\* itself, or one that is given it.
Routing(w) ==
    LET line == ParseRequestLine(w.path)
        readers == Matching(w.method, TRUE, line.path)
        regular == Matching(w.method, FALSE, line.path)
        expects == w.method \in WithContent \cup {"DELETE"}
        content == IF expects THEN ReadContent(w) ELSE Read(TRUE, 0, <<>>, <<>>)
        form == IF Header(w.headers, "Content-Type") = "form" THEN ParseQueryText(content.text)
                ELSE <<>>
    IN  IF ListOf(w.method) = "Get" /\ FileOf(line.path) # None
        THEN /\ got' = FileOf(line.path)
             /\ \E kind \in FileKind : answer' = Encoded(w, kind, Answered)
        ELSE IF readers # {} /\ expects
        THEN IF content.ok THEN Runs(Min(readers), w, line, content, <<>>)
             ELSE /\ answer' = Refuses(content.status)
                  /\ got' = [handler |-> Min(readers), path |-> line.path, params |-> line.params,
                             read |-> content, auth |-> Header(w.headers, "Authorization")]
        ELSE IF ~content.ok THEN answer' = Refuses(content.status) /\ UNCHANGED got
        ELSE IF regular # {} THEN Runs(Min(regular), w, line, content, form)
        ELSE answer' = Refuses(404) /\ UNCHANGED got

Serve ==
    /\ wire # None /\ answer = None
    /\ Routing(wire)
    /\ UNCHANGED <<client, server, setups, call, wire, result>>

\* process_request() of the client: the content of the answer, as it came or decompressed.
Receive ==
    /\ answer # None /\ result = None
    /\ result' =
        IF call.method = "HEAD" THEN Result("Success", answer.status, <<>>, FALSE)
        ELSE IF answer.gzip /\ client.decompress
        THEN IF client.zlib THEN Result("Success", answer.status, answer.text, FALSE)
             ELSE Result("Read", 0, <<>>, FALSE)
        ELSE Result("Success", answer.status, answer.text, answer.gzip)
    /\ UNCHANGED <<client, server, setups, call, wire, got, answer>>

Next == Builds \/ Configure \/ Register \/ Mount \/ Unmount \/ Send \/ Serve \/ Receive

Spec == Init /\ [][Next]_vars
-----------------------------------------------------------------------------
(* What arrives.                                                               *)

\* A content type of the default headers comes before that of a call.
Retyped == HasHeader(client.default, "Content-Type")

PathOf(c) == LET at == SelectInSeq(c.path, LAMBDA ch : ch = Question)
             IN  IF at = 0 THEN c.path ELSE SubSeq(c.path, 1, at - 1)

\* A call is given to the first handler of its list that has its path, of those that read
\* for themselves or of the others, with the credentials of the client; the handler gets
\* the content whole or not at all, and form data of which the default headers hide the
\* type as a text (Client::Post and the others, Server::routing).
HandlerIsFor ==
    got # None /\ "handler" \in DOMAIN got =>
        LET h == server.handlers[got.handler]
        IN  /\ h.list = ListOf(call.method) /\ got.path \in h.paths
            /\ \A i \in 1 .. got.handler - 1 :
                LET g == server.handlers[i]
                IN  ~(g.list = h.list /\ g.reads = h.reads /\ got.path \in g.paths)
            /\ ~h.reads => ~call.fails
            /\ got.read.ok =>
                CASE call.form = "params" -> TRUE
                  [] call.form = "items" -> IF Retyped THEN got.read.text = FormBytes
                                            ELSE got.read.items = call.items
                  [] OTHER -> got.read.text = Text(call)
            /\ got.auth = (IF "basic" \in client.auth THEN "basic"
                           ELSE IF "bearer" \in client.auth THEN "bearer" ELSE "")

\* It gets the path and the parameters that the call was made with.
TextsArrive ==
    got # None /\ "handler" \in DOMAIN got =>
        /\ Literal(PathOf(call)) => got.path = PathOf(call)
        /\ call.form = "params" /\ got.read.ok =>
            Retyped \/ server.handlers[got.handler].reads \/ IsSuffix(call.params, got.params)

\* A file is answered for a path that begins with its mount point, from inside its directory.
FileIsMounted ==
    got # None /\ "dir" \in DOMAIN got =>
        \E i \in DOMAIN server.mounts :
            /\ server.mounts[i].dir = got.dir /\ IsPrefix(server.mounts[i].point, PathOf(call))
            /\ <<got.dir, got.path>> \in Files

\* A call fails only when its provider gives up, when one of the two programs has no zlib
\* and the other compresses, when there is no handler, or for form data without a part, which
\* a text is that was given the type of form data; it returns what the handler answers,
\* compressed only when it was told to leave it so.
ResultForReason ==
    result # None =>
        /\ (result.error = "Canceled") <=> call.fails
        /\ result.error = "Read" => ~client.zlib /\ server.zlib
        /\ result.status = 415 => Compresses /\ ~server.zlib
        /\ result.status = 404 => got = None
        /\ result.status = 400 =>
            IF call.form = "items" THEN call.items = <<>> ELSE call.type = "multipart"
        /\ result.status = 200 => got # None
        /\ result.raw => ~client.decompress
        /\ result.status = 200 /\ call.method # "HEAD" =>
            result.text = IF "dir" \in DOMAIN got \/ server.handlers[got.handler].answer # "nothing"
                          THEN Answered ELSE <<>>
=============================================================================
