# KayaBASIC runtime: TLA+ models and proofs

KayaBASIC compiles BASIC to C++. The compiler is delivered as a binary
(`bin/bpp_*`); what the repository has as source is the runtime library that
every compiled program is linked with (`lib/core`, `lib/System.cpp`), the HTTP
library its samples use (`include/httplib.h`), the declarations of the built-in
functions, samples and tests. These modules model the parts with state or with
rules that are easy to get wrong; the generated code, the BASIC programs, the
network and the COM servers are their environment. Paths are relative to the
repository.

## Inventory

| Part | Source | State | Operations | What is hard |
|---|---|---|---|---|
| Counted references | `lib/core/core.h` 97-271 | `ref<T>::ptr`, `object::__refcnt` | copy, `operator=`, destructor, constructor protocol of generated classes | `Terminate` is user code inside `release`; `delete` through a base class; cycles; counts without atomics |
| File table, `Defer` | `lib/System.cpp` 75, 894-953; `core.h` 57 | `OpenFiles[512]`, a closure per `Defer` | `FreeFile`, `FileOpen`, `FileClose`, `FileGetObject` | shared by threads without a lock; a full table; exceptions |
| Directory levels | `lib/System.cpp` 68, 186-231 | `dirIndex`, `tagDirLevel[1024]` | `Dir`, `CloseDir`, `IsDir` | recursion over one global stack, failed `opendir`, exceptions |
| Debug call stack | `lib/core/core.cpp` 237-303 | two vectors per thread | `dbg_func`, `dbg_line`, `dbg_endfunc`, reports | exceptions leave procedures without `dbg_endfunc` |
| Arrays | `lib/core/core.h` 380-708 | a vector and four dimensions | `redim`, `operator()`, `<<`, `>>`, assignment | sizes after a change of dimensions; erasing while scanning |
| Collections, dictionaries | `lib/core/core.h` 713-858 | a list, a hash map | all of them, `For Each` | bodies that change what their loop goes through |
| Start and end | `lib/core/stc.cpp`, `stwQT.cpp`, `core.cpp` 198-235 | `hlib`, the phase of the program | `__init_all`, `Main`, `__final_all`, `loadlib`, `unloadlibs` | exceptions skip `__final_all`; calls into closed libraries |
| String functions | `lib/System.cpp` | none | `Replace`, `Split`, `Join`, `Tally`, `Mid`, `Format`, ... | ends of texts, negative numbers, loops that do not end |
| COM objects | `lib/core/comobject.h`, `comsink.h` | variables, sinks, counts in servers | create, get, assign, call, connect events | events run program code while a call waits |
| COM values | `lib/core/comutil.h` | `BSTR` blocks, `Data_t` | `_bstr_t`, `_variant_t` | who frees what, texts shared by copies |
| HTTP server | `include/httplib.h` 505-573, 1906-1940, 4245-4503, 4852-4957 | sockets, thread pool, connections | `listen`, `stop`, keep-alive loop, `process_request` | wake-ups, stop from handlers, refused requests on a kept connection |
| Routing | 4442-4723, 4835-4940 | where the worker is | handlers of each kind, `Expect`, error and exception handlers | who reads the body |
| Answers, ranges | 3404-3503, 4276-4410, 4715-4864 | the response | `apply_ranges`, `write_response` | width of `size_t`, providers against bodies |
| Bodies, gzip | 2432-2513, 2706-3067 | stream, offset | chunked, length, neither; compress, decompress | the network cuts anywhere; what is left for the next message |
| Form data | 3193-3362 | a buffer and a state | the multipart parser | delimiters cut anywhere |
| Texts of messages | 1350-1640, 3102-3176 | none | encode, decode, queries, headers, ranges, paths | cut escapes, empty parts |
| Calls | 4071-4159, 4254-4274, 5328-6110 | settings of both sides | `Get`, `Post`, ... | settings that act together |
| Sockets | 1980-2168 | the process's descriptors | `create_socket` as server and client | numbers are given out again |
| HTTP client | 5034-5609 | a socket, flags, two mutexes | `send`, redirects, `stop` | threads, descriptors that become another's |
| SSL client | 6443-6688 | socket with an SSL object | connect, proxy, verify, authorize, destroy | half-made connections |
| Variant, class list, input, keyboard, threads, GUI adapters, compiler | see `PROJECT.json` | | | not modelled |

How they interact: generated code calls all of the runtime. A variable of a
class is a `ref<T>`, fields are `ref<T>` members, so releasing one object
releases others. A C++ exception (`Throw`) unwinds `ref<T>` and `Defer` objects
but calls none of the `dbg_` functions and no `CloseDir`. The tables are globals
that threads share. The server hands each accepted connection to the pool as a
closure; the closure reads requests, routes them, and writes answers over the
same stream; a client sends over one socket that `stop()` of another thread may
shut down. A COM call waits for its server, which fires events into handlers
that are program code again.

The hazards of these parts, each with its line and the properties that would
catch it, are in `PROJECT.json`. More of the same kind, which the same
properties cover unless noted: `Me` dropped in `Initialize` (222.cpp:25);
`delete` through a base class (core.h:268); a full file table (System.cpp:952)
and a failed open (897); `tagDirLevel[-1]` (202) and too deep a tree (194); the
downward scan of `>>` (core.h:628); handles kept after `unloadlibs`
(core.cpp:219); `InStr` of an empty text (System.cpp:360); `Tally` of a long
string (751); an answer cut by `stop()` (httplib.h:2935); redirects under the
mutex (5252); bodies without a length (2747); `sink.write(d, 0)` (2999); reads
that time out in the middle (3996); `file_` kept from part to part (3211);
lengths of several ranges (3451); a handler that throws behind `set_content()`
(4716); ranges on error texts (4294); a late body (4681); every failing step of
`create_socket` (2049); variables set while a call waits (comobject.h:203);
`Advise` that fails (comsink.h:83); authorization retries (5219). Without a
property: the insertion into the maps of the call stack by two threads
(core.cpp:242), which is undefined behaviour with every outcome, and two
threads in one directory listing (System.cpp:69).

## Modules

Each module models one part. `MC` modules give small instances. Parts that
share nothing are checked in one run by a sum: the `MC` module instantiates each
part's module, `part` is chosen by the initial state, and a behaviour is that
part's alone while the variables of the others keep one initial value. A
property of the sum says what it says about its part, and nothing about the
others.

### The runtime of one thread (`MCRuntime`, `RefCountProofs`)

**RefCount.** One C++ stack of activations of `operator=` and `~ref`. `live` is
the heap, `ptr` the pointer of each counted cell, `cnt` is `__refcnt`, `stack` the
activations that wait for a handler or a destructor. `AssignVar`, `AssignField`,
`AssignOwnField`, `NewObject` are statements of Main or of the handler on top,
with variables, fields and `Me` as their sources; `InitializeReturns`,
`TerminateReturns`, `DestructorReturns` are continuations of the constructor,
`release` and `delete`. `OperatorAssign` has the order of the code: count the
parameter, release the old object, store. `TerminateReturns` reads `ptr` again, as
`delete ptr` does. `terms`, `lost` and `strayed` are history: `strayed` has the
objects that a handler did not leave alone, by a copy of one that is being given up
(its `Me` in Terminate) or by writing over what is being released under it. The
properties speak of the others, and of all as long as there are none. A step that
would use freed memory sets `faulted` and ends the behaviour.

**Arrays, ArraySpec.** `ArraySpec` is the promise: bounds and a table from index
tuples to values. `Arrays` is the code: four dimensions `lo`, `hi`, `d`, the
vector, `Size`, `Offset`, and the scan of `>>` over a vector it erases from. The
refinement mapping reads bounds off the dimensions and the table off the vector.
`Careful` programs use `ReDim Preserve` with the array's lower bound, indexes
within the bounds, and only the first element as item of the array's own `>>`.

**Collections.** `list` has the nodes of each collection and of the dictionary in
the order an iterator finds them, `loops` the `For Each` loops under way.
`careful` programs use indexes below the length, remove no node at which a loop
stands and add no key to a dictionary that they loop over; the others show what
the code does with a node that is gone (`wild`). A new key may put the nodes of
the dictionary into any order.

**Strings, StringFunctions.** `Strings` has the functions that loop, a turn per
step, on top of `StringFunctions`, which has those that only compute a result;
their promises (`CutsRight`, `SearchesRight`, `TrimsRight`, `PadsRight`,
`FormatsRight`) relate them to each other and to their definitions.

**DirStack.** `levels` is `tagDirLevel[0 .. dirIndex]` with what `readdir` has not
given yet; the caller is the recursive `showdir` of
`samples/coretests/builtin/Buildin.bas`, with its statements as actions. `Dir`
does not test `dirIndex` against `MAX_DIR_LEVEL`: the level behind the last one
is a fault, and `abandoned` counts the levels that exceptions have left, so that
the property can say where the levels have gone.
`IsDir` of a path that does not exist may answer either way, as the
uninitialized `stat` does.

### Files (`MCFileTable`, `FileTableProofs`)

**FileTable.** Every access of `OpenFiles` is a step: the scan of `FreeFile` entry by
entry, making and storing the stream, and in `FileClose` reading, deleting and
clearing. `mine[t][n]` is the ghost of "thread t has opened n". A thread leaves
its procedure by its end or by an exception; with `Deferred` its closes run then.

### The program (`MCLifetime`, `LifetimeProofs`)

**CallStack.** `real[t]` is the C++ stack, `dbg[t]` the two vectors. `Throw` cuts
`real` back to the Try that catches and leaves `dbg` alone. `CatchesCallee` is
the set of threads in which a Try catches what a callee has thrown.
**Lifetime** extends it from `main()` to the exit: `stage` and `module` say which
block runs, `hlib` and `opened` which libraries are loaded, `finals` which
FINALIZATION blocks have run. Blocks are outermost procedures of the thread
Main; every thread may call what a library exports.

### The HTTP server (`MCHttpServer`, `HttpServerProofs`)

**ThreadPool.** What the code does under its mutex is a step; a worker that found
nothing blocks in that step. `given` and `done` are history. **HttpServer**
composes it: the accept loop (`acc`), each call of `stop()` (`stop`), and each
connection (`conn`, `out`) with client and worker. The closure of a connection
is the job. A request is its kind: what the server does with it. A client may
fall silent, and a `Difficult` one may be slow (`Dawdles`), which stops its worker's
steps until it hurries, or not get what is written: then the answer is `lost` and
`write_response_core` returns success all the same.

### Messages (`MCHttpMessages`, `ConnectionProofs`, `HttpClientProofs`, `HttpServerProofs`)

**HttpBody**: a provider writes, `wire` carries, the reader reads however the
network cuts. **Gzip**: the loops around zlib, whose stream is a code for each
byte and one for the end, kept back and put out as zlib likes. **Multipart**:
the parser with `buf` and `state` over pieces of any size; contents that hold
the beginning of a delimiter included. **HttpAnswer**: what a handler sets, what
the error and exception handlers add, ranges over bodies and providers in
numbers of `Word` values, and what is announced against what is written.
**HttpRouting**: a connection with a first request of every kind and a second
behind it; the worker says which bytes it takes for a head, and each callback of
the program may throw, within the try block of `dispatch_request` or outside. **HttpText**: the
functions between texts and lines, over byte values. **HttpCalls**: a call from
its arguments and the client's settings through mounted directories and handlers
to its result.

### Clients (`MCClients`, `HttpClientProofs`, `ConnectionProofs`, `HttpSslProofs`)

**HttpClient**: one client without SSL; `calls` is the stack of nested `send()`,
`table` the process's descriptors, `answers` what is unread on each. **Sockets**:
`create_socket` over the addresses of a host, step by step, among other threads
that open and close. **HttpSsl**: one client with every setting, the proxy, the
certificates, digest authentication, redirects through this client and through
one made for another host (`Elsewhere`, one step), a change of the verification
between calls, `stop()` and the destructor. `unverified` notes each way in which an
answer came that nobody had verified.

### COM (`MCComObject`, `ComObjectProofs`)

**ComObject**: references of each object, what variables and sinks hold, and a
stack of calls, handlers and connections under way; `lost` counts the references
that nobody gives back. **ComValues**: blocks, counted `Data_t`, and the
operations of `_bstr_t` and `_variant_t` with the program's raw `BSTR`s; `meant`
and `value` are what each was given last.

## Runs

| Run | Instance | What it shows |
|---|---|---|
| `filetable` | `single`: a thread with FreeFile, Close of all, exceptions; `deferred`: two threads with 2 and 1 numbers of their own and Defer Close; 3 numbers, 4 streams | The table keeps every stream, also when it is full; a number denotes the stream of who opened it; a procedure that is left has closed what it opened. |
| `runtime` | references: 2 variables (one of a base class), 2 statements per handler, 1 lost field, 3 objects where handlers leave alone what is going on under them and 2 where they do anything; arrays: one with up to 4 dimensions, two with 1, two with 2; collections: 2 and a dictionary, 3 nodes, 2 loops; texts up to 6 characters for loops, up to 3 for the others, numbers of 7 digits, masks of 4; 3 directories that may refuse, with a link back up, an array of 4 levels | Counts are exact and nothing dangles but for objects a handler did not leave alone; only cycles leak; arrays are tables; loops give what stays; the functions keep their promises but for the texts the properties name; listings print their own entries; everything ends. |
| `program` | 2 modules, 2 libraries, 2 threads, depth 2, a GUI program, a thread that catches what callees throw | The vectors never underflow and are exact in the other thread; reports are right; library calls before the end land; finalizers run backwards and once; an uncaught exception ends the process. |
| `http_server` | 2 workers, up to 3 connections, the first of them slow or cut at times, keep-alive count 2, the scripts of `MCHttpServer` | No connection is lost or served twice; answers are in order, match their requests and announce the close; the listening socket is closed once; after `stop()` the queue is drained and `listen()` returns, unless a client is slow for ever. |
| `http_messages` | contents of 4 bytes over CR, LF, dash and a letter; bodies of 4 bytes, limit 3; ranges over contents of 2; every request against every set of handlers, a second request behind it; texts of 3 characters and paths of 6; two settings on both sides; contents of 4 bytes in buffers of 2 | Parts and bodies are whole when accepted; answers are as long as they say; the connection stays in step; texts come back; calls reach their handler, but for the cases the properties name. |
| `clients` | 2 threads, 2 descriptors, 2 redirects, 2 sends, 2 stops; 2 addresses; every SSL setting, 2 authorizations, 1 redirect, 2 sends, 2 stops | No socket is lost or used when it is another's; no answer goes to the wrong call; every answer came from a verified host, but in three ways; every call ends but through what a proxy can do. |
| `com` | 2 objects, 3 variables (2 WithEvents), 3 sinks, 4 statements, depth 3; 2 `_bstr_t`, 2 `_variant_t`, 1 raw `BSTR`, 4 operations | Every reference is accounted for; what a call uses lives; a handler hears its variable's object; a text has one owner and stays what it was given. |
| `filetable_race` | two threads with FreeFile | Violated: two threads get one number. |
| `dirstack_test` | the test's own `showdir` | Violated: CloseDir after a failed Dir closes the caller's level. |
| `callstack_stale` | a thread that catches what callees throw | Violated: procedures that were left stay in the report. |
| `http_ssl_tunnel` | a proxy that ends the connection behind its answer to CONNECT | Violated: the thread locks a mutex that it holds. |
| `http_ssl_denied` | a proxy that asks for credentials the client has not | Violated: the next request finds a socket without SSL. |

Properties of the passing runs name the exceptions the code has, for instance
the texts for which Replace does not end; each exception is a condition on the
inputs in the property and is listed under "What the models found". Every
property of a passing run has a mutant of the code that breaks it.

### Bounds

Three objects are the smallest heap with a chain behind a cycle and two nested
deletes under a handler; two are enough for a handler to copy its dying `Me`, to
hang it into another object, or to write over a variable that is being released.
Four levels are one more than the directories of the tree has without its link. Three file numbers and four streams fill the table and
leave a stream for the Open that finds it full. Four elements make every
combination of dimensions of length one and two. Three nodes leave one on each
side of the one that is removed. Six characters hold a separator of two at
both ends and overlapping in the middle; seven digits have two commas. Two
workers and three connections leave one in the queue. Four bytes of content
hold CR, LF, dash, dash, which is the beginning of a delimiter. Bodies of four
with pieces of two need two chunks and a rest, and cross the limit of three. A
word of 64 values wraps around as one of 2^64 does. Two redirects nest twice.
Two descriptors let one be taken by others while the client holds one. Four
statements make, connect, call and set again. Bounds are in guards and say only
where exploration stops; their names (`HandlerOps`, `MaxTerms`, `MaxLost`,
`MaxDepth`, `MaxSize`, `MaxNodes`, `MaxLoops`, `MaxSource`, `MaxSends`, ...)
are in the constants of each module. The runs allow deadlock: programs, parsers
and connections stop when they are over.

### Fairness

All fairness is weak fairness of code that has been entered: continuations of
`release` (`RefCount!Return`), steps of a file call, of a listing, of a string
function; blocks of the program (`Lifetime!Ending`); the workers, the accept loop
and the calls of `stop()`; the request under way of a client; both ends of a
transfer; the parser when there is something to parse, and the reading of what
has come. Nothing assumes that a program makes another call or that a handler
stops the server. A peer that falls silent is ended by the timeouts that the
code has: the read and keep-alive timeouts of the server and of the transfer,
the limits of connect and of the SSL steps. A peer that sends a byte before each
timeout is ended by nothing: in `HttpServer` it is a slow client, and `ServerEnds`
says what holds when no client stays slow (`Patient`); nothing makes one hurry.
For the clients and the transfers such a peer is left out.

## Proofs

TLAPS checks these for every value of the constants, from the named
assumptions of each module.

- `FileTableProofs`: `TypeCorrect`; under `Isolated` (numbers of the program's
  text, different in each thread, no Close of all files) `IsolatedNoFault` and
  `IsolatedNumbers`, for any number of threads, with and without Defer. The
  inductive invariant says where each thread is and what it may rely on there
  (`Local`), that streams in the table and in flight are distinct (`Distinct`),
  and that a stream about to be stored is in no entry yet (`Fresh`). With a
  Defer for every Open, `IsolatedKept` adds `EntriesKept`: an address that was
  freed is given out again while an entry still has it, so what counts is that
  every open stream is in an entry that nobody clears or about to be stored
  (`AllPlaced`). `AloneNumbers` and `AloneKept` say the same of a thread alone,
  with the numbers of FreeFile and with Close of all files, which leaves the
  table empty (`AloneInv`); `AloneKept` needs FreeFile or Defer, because an Open
  with a number that an exception left open loses the stream that was there.
  The run `filetable_race` shows that one of the two disciplines is needed.
- `FileTableProofs`, of `DirStack`: `LevelsAreTheCalls` and `ListingIsWhole`, for any
  directory tree, with links back up the tree, failures of `opendir` and
  exceptions, and for any length of the array, which overflows only for the
  calls and the levels that exceptions have left (`FaultForReason`), when one thread lists and closes only what `Dir` has opened for it
  (`ListsAlone`; the run `dirstack_test` shows what happens otherwise). Only the
  innermost call may be without a level (`ShowdirCall`), below the levels of the
  calls are those that exceptions have left (`LevelStack`), and every entry of a
  directory that was opened is printed, unread, or in the variable of a call that is
  about to print it (`Printing`).
- `LifetimeProofs`, of the call stack: `TypeCorrect`, `NeverUnderflows`, `StaysExact`,
  `ReportsRight`, from one invariant: the vectors are at least as long as the C++
  stack (`Calls`), and equal to it, or to the stack at the throw, in a thread that
  catches only its own throws (`Own`).
- `LifetimeProofs`, of the program: `LifeKeepsStack` (a program's steps are steps of CallStack or
  leave it alone: a refinement), from which `LifeReportsRight` follows,
  `LibraryCallsLand`, and `BlocksEndBackwards` with what each stage knows of the
  blocks that have ended and of the libraries, for any modules and libraries.
- `RefCountProofs`: `CountsAreExact`, `CyclesOnlyLeak` and `TerminatesOnce`, for
  any variables and objects and any nesting of handlers, as long as no handler
  strays (`strayed = {}`); the run says in addition that a handler which does harms
  only the objects in `strayed` until freed memory is used. The invariant
  (`Undisturbed`) holds up to the first step that strays. A count is compared
  with the cardinality of the cells and parameters that hold the object (`Exact`);
  that stays true through a `release` only because each activation knows what
  its part of the stack may still touch: an assignment has counted its
  parameter, a release that calls Terminate owns an object of count 0 that no
  cell holds, a destructor waits for the release of its field or has an empty
  one (`Activations`, `Destructors`), and Terminate was called for exactly the
  objects that are being given up (`Lives`).
- `RefCountProofs`, of Collections: `LoopsGiveAll` and `ListsKept`, for any collections,
  items, keys and nesting of loops, from `ListsInv`. Nodes are distinct and of those
  made so far, and a loop of a careful program stands at a node up to which it has
  given all that were there when it began (`Walks`); that survives a change because
  every change keeps what stays in its order (`Follows`), or, for a new key of the
  dictionary, because careful programs add none under a loop. What `col >> d` leaves is
  a fold over `d`: a set of numbers that holds 0 and with each number the next holds
  all (`Reached`, from the least of those that are missing), which shows that the
  fold is defined and what it has taken after each item.
- `RefCountProofs`, of Arrays: `ArraysAreSound`, for any arrays, elements and bounds of
  one to four dimensions, and `ArraysAreTables`, the refinement of `ArraySpec`, for
  careful programs. The invariant has more than the length of the vector: only
  dimensions behind the last one in use are unused (`Shaped`). The position of an
  index tuple is then one digit behind the other, each below its base
  (`DigitsFit`), and has one way to be written so (`DigitsDistinct`). What a scan
  leaves is what the vector had without the value, in its order (`Thinned`), so
  the number of index tuples before one that is kept is its new position
  (`KeptPlaces`). The indexes are assumed to be an interval around 0 and 1.
- `ComObjectProofs`: `ReferencesAccounted` and `EventsReachHandlers`, for any
  servers, variables and depth of events, from `ComInv`. The counts are exact
  (`Exact`) given who owns which sink (`Owned`) and which point knows it (`Known`).
  A sink that a point knows has two references (`Referred`), so that the stray
  `Unadvise` behind a failed `Advise` takes it from the point and never from
  the variable. Only the activation on top connects (`Activations`), so between
  two connections a variable holds the object of its sink (`Connected`), and a
  handler that hears an event is one of that object (`Heard`). The
  proofs need the variables to be finitely many.
- `ComObjectProofs`, of ComValues: `OneOwnerAlways` and `ValuesKeptAlways`, from
  `ValuesInv`. The owners of a block are counted over `Data_t`, `_variant_t` and raw
  pointers, and the `_bstr_t` of a `Data_t` against its count (`Sound`); a value that is
  replaced gives up its block only when it was the last to have it, so that what the
  others were given stays (`StrKept`, `VarKept`), except the narrow text of
  sharers after GetBSTR (`poked`).
- `HttpServerProofs`, of the pool: `PoolCorrect` for any workers and closures: each closure is
  in one place, workers leave only an empty queue, `shutdown` returns after the
  last closure, no wake-up is lost. `PoolSound` needs only types and `HasJob` to be
  inductive; two lemmas say what a queue's ends do to its set.
- `HttpServerProofs`, of the server: `ServerUsesPool` (the server's steps are the pool's or
  leave it alone) and with it `ServerPoolSound`; `SocketClosedOnce` and
  `AnswersRight` from `ServerInv`. At most one call of `stop()` has taken the
  socket out of `svr_sock_`, and as long as it has nobody has closed it (`SocketInv`). For
  answers the invariant has, beyond `AnswersSound`, which lets a connection go on
  behind a cut answer for `stop()` and for a write that failed unnoticed: how far the worker has read
  when it is about to answer (`ReadTo`, which is why an answer is the one to its
  request as long as nothing was refused unread), the count of the connection
  against the number of answers (`Counted`), where an announced close can stand
  (`Announces`), and that a handler which calls `stop()` is the request's own.
- `HttpClientProofs`: `ClientFlightExact`, `ClientSocketIsMine`,
  `ClientAnswerIsMine` for any threads, descriptors, redirects and stops, from
  `IInv == TypeOK /\ Chain /\ Held /\ Count /\ SocketIsMine /\ Clean`: nested calls
  are linked (`Chain`), calls are under way only under the mutex (`Held`), the
  count is their number (`Count`), and what is unread on the socket is what
  the innermost call waits for (`Clean`).
- `HttpClientProofs`, of the bodies: `BodiesAreWhole`, for any lengths, chunks and reads, from
  `BodyInv`. Of a chunked body it says that what is on the wire stands at consecutive
  places of frames (`Labels`: the length of the chunk, the place in its frame, the data
  in front of it), that it begins where the reader is in its loops (`Here`) and ends
  where the writer has come to, unless bytes were lost (`Sent`). Three lemmas do
  the work for every step: what is taken off either end leaves consecutive places
  (`Taken`, `Dropped`), and a frame joins bytes that end between two (`Joined`).
- `HttpServerProofs`, of compressed contents: `ContentsAreWhole`, for any length, pieces,
  buffer and whatever zlib keeps back, from `ZipInv`. The stream has one code at each
  place (`Code`: a byte, then the end, then what is none of it), and all that is
  under way stands in it without a gap: what the receiver has and what inflate()
  holds (`ReaderPlaces`), its input (`StreamRead`), the chunks sent (`StreamRuns`), the
  payload and what deflate() keeps (`StreamKept`). `WriterWell` says when the flag of
  compress() is up, and with that nothing is kept behind a body that is over;
  a stream without its end can be a foreign one only, which is why `ContentWhole`
  lets "cut" through. With `BodiesAreWhole` this is all of `BodiesWhole`.
- `ConnectionProofs`, of the requests: `ServerInStep` for any scripts, from
  `RoutingInv`. The connection carries the head behind the request in work, if the
  client has begun it, and bodies, each once and behind its head (`Wire`); the
  client begins a request when the one before has a final answer, which only 417
  gives before the worker is done (`Answered`); a body that is unread when
  the worker is done is that of a request which leaves one (`Settled`). The process
  is ended only by a callback outside of the try block (`StaysUp`). The proof
  showed that after 417 a POST without a body is such a request too, which the
  scripts of the run had not had; they do now.
- `ConnectionProofs`, of the sockets: `DescriptorsOwned` for any threads, descriptors and addresses.
  As long as nobody has closed another's descriptor, each thread owns the one in
  its variable at every stage that works on it; behind a failed step it does too,
  unless it is a client whose connect has failed and was closed already (`Local`).
  So only that second close can begin to rob another, and nothing is said of
  what follows. That a new descriptor is one of the process's needs a least
  number in a finite set (`Lowest`), from the well-founded order of its parts.
- `ConnectionProofs`, of the answers: `AnswersAreFramed`, for any ranges, kinds and sizes
  of contents, from `AnswerInv`: which content `apply_ranges()` has cut and how
  (`AnswerCut`), and what Content-Length and Content-Range say of it until the last
  byte is written (`AnswerSaid`). What `get_range_offset_and_length` gives is worked
  out once with its width (`OffsetIs`), and from it what a body and a provider give
  for a range (`BodyRange`, `ProviderRange`). The assumption is that an answer of
  the largest size with the most ranges is one that `size_t` counts.
- `ConnectionProofs`, of the calls: `CallsAreAnswered`, for any calls, handlers, mounts
  and settings, from `CallsInv`: what the request says of its call, its one
  Content-Type, whether it is compressed, and its whole content in the body or the
  stream (`Written`), and which answers can follow from what was handed to
  a handler (`AnswerIs`). The headers that a method emplaces add to the client's
  own and never replace them (`EmplaceSays`), so each is followed through the
  writers of a request (`Tells`). The proof showed a reason for 400 that the
  property had not named and the calls of the run had not had: a text sent with
  the type of form data. It has it now, and the run makes such calls.
- `HttpSslProofs`: `SslFreedOnce` and `AnswersAreVerified`, for any settings,
  authorizations, redirects, calls and stops, from `SslInv`. The calls below the
  innermost one wait in `handle_request` (`Chain`). The stage of the innermost one
  says the rest (`Staged`): the mutex is held in the first block of `send` and
  nowhere else, the count is the number of calls behind that block, there is no
  SSL object while a connection is being made, and a socket without one is
  being made or was denied by its proxy. All of it is needed: `stop()`
  closes the socket only when nothing is in flight, and a kept connection is
  used again only if it has its SSL object. An SSL object that is not verified,
  in a client that verifies, is older than that setting (`changed`).

Only model-checked, and why:

- all liveness (`DeferredClosed`, `EverythingEnds`, `UncaughtEnds`, `ServerEnds`,
  `ReadingEnds`, `EveryCallEnds`): fairness is out of the prover's reach;
- `StringsRight`, `TextsRight`, `FormDataRight`: what loops and recursive
  definitions compute for every length takes induction over data;
- of `CallsArrive`, `TextsArrive` and `FileIsMounted`: that a path and parameters
  are decoded to what was encoded takes induction over their length.

## What the models found

Five disagreements between the code and what the repository says have a run
and an entry under "findings" in `PROJECT.json`. Seen in compiled programs as
well: the stale report, the entries of the parent directory, libraries loaded
too late for the first INITIALIZATION, FINALIZATION after `unloadlibs`, answers
to ranges of a provider, and both SSL findings.

What the modules do as the code does, and a user might not expect:

- Arrays: `ar >> ar(i)` erases by a reference that moves (core.h:632; against
  samples/basic/Arrays.bas:31); `ReDim Preserve` below an empty array swaps its
  bounds; sizes overflow an `int`.
- Collections: index n equal to the length is accepted; `col << col` does not
  end, `col >> col` erases under its own loop; `dict(key)` adds a missing key;
  "index error." is thrown as `const char*`.
- Strings: `InStr` with an empty text takes its arguments for two; Replace of an
  empty string never ends; Split has room for 1025 items; Join assumes lower
  bound 0; Right, Insert and String throw for numbers below 0; PadX pads by
  repetitions of its text; Format with two `$` in the mask prints no number.
- References: a `Terminate` that copies its `Me` counts from 0: the copy dangles
  after the delete, or, when it is dropped, `Terminate` runs and the object is
  deleted again. One that assigns to the variable that is being released has
  `release()` delete the new object, and the old one stays; with Nothing, it leaves
  the old one allocated.
- Directories: `Dir` does not compare `dirIndex` with `MAX_DIR_LEVEL`
  (System.cpp:191-194): a deep tree, a link back up that is followed, or levels that
  exceptions have left make it write behind the array.
- Life cycle: blocks of the main module run before used modules load their
  libraries, and a call then ends in "Unknown error".
- Server: `stop()` before `is_running_` is ignored, a second one fails the
  assertion at httplib.h:4247; the exception of a handler that reads its content,
  or of the callback for `Expect`, before routing, for files, for errors, for every
  answer or of the log ends the process (only 4705-4721 catches); the result of
  writing the headers is not looked at and -1 of a body in memory is not 0, so that
  a connection goes on behind an answer that was cut (4340, 4347, 4010); a client
  that sends a byte before each timeout holds a worker, and `stop()`, for as long as
  it likes (1671-1695); after 417 the request goes on, and one
  without a length takes the next request for its body; a mount point `/a` serves
  `/ab`.
- Ranges: for a provider, lengths are taken of an empty body; a range behind
  its end wraps around.
- Bodies: a line behind a chunk that is not CRLF ends the body as a success; a
  cut between CR and LF too; data behind the end of a gzip stream makes
  `decompress()` loop for ever (against the comment at httplib.h:2474); a
  stream that ends early is accepted; `sink.write(d, 0)` ends a chunked loop
  without its last chunk and with gzip fails an assertion (2456).
- Form data: a delimiter that has not all come is taken for content when the
  content holds CR LF and two dashes (3254, 3279).
- Texts and calls: keys of params are not encoded, an empty key makes the value
  the key, header values are percent-decoded, `+` in a path becomes `%2B`; default
  headers hide the type of form data; a POST of empty form data is answered 400;
  proxy credentials are sent without a proxy; DELETE is not compressed; a client
  that compresses gets 415 from a server without zlib.
- Clients: a socket whose connect failed is closed twice (2151, 2049); a
  redirect sets back the flag of a `stop()` (against the comment at 5110);
  with certificate verification, a proxy's 407 is handed over as the answer (6574),
  a redirect to http is followed (5295), and a connection that is kept outlives the
  call that asked for the verification (6114); `load_certs` tells its failure to the
  first caller only; a failure of
  `SSL_new` gives `Error::Success`.
- COM: a call keeps two references to its object and one to what it answers;
  GetObject and a connection keep one; a call by Nothing goes through a null
  pointer; failures of Advise are not looked at; Set to a non-object keeps the
  old sink; copied arguments may dangle; a NULL `BSTR` read as a string throws;
  `Detach` and `operator==` throw out of `throw()`; GetBSTR leaves the narrow text
  of sharers as it was.

## Not modelled

- The compiler (a binary), built-in declarations and samples (data), wxSQLite3
  and JSON headers (inline wrappers of libraries that are not in the repository).
- Print, Input, keyboard polling, GUI adapters: input and output; the life cycle
  around the GUI loop is in Lifetime. `wxThreadEx.h` only forwards two calls.
- Variant, the class list, one-line wrappers of C and C++ functions, regular
  expressions: no state beyond one assignment.
- Of modelled parts: counts of references under two threads (undefined
  behaviour), arithmetic on arrays, an array appended to itself, numbers outside
  the file table, idle callbacks, patterns of paths, Brotli (the loops of gzip),
  socket options, names in certificates and the bytes of SSL, the SSL server,
  arrays of variants. `PROJECT.json` names them at each component.

## Plan

1. Threads over one HttpSsl client, and the client that a redirect to another host
   makes, in steps.
2. Variant as an algebra, with COM's conversions.
