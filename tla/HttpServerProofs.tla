-------------------------- MODULE HttpServerProofs --------------------------
(* The pool, for any number of workers and closures: a closure that was        *)
(* enqueued is in one place, a worker leaves only when the list is empty and   *)
(* the pool is shutting down, and no wake-up is lost.  The server uses its     *)
(* pool as ThreadPool describes it, so what is proved of the pool holds in the *)
(* server.  Its listening socket is closed once, and the answers of a          *)
(* connection are those to its requests, in their order.  All of it for any    *)
(* number of workers, connections and calls of stop().                         *)
(* Contents that are compressed on their way arrive whole (Gzip).              *)
EXTENDS HttpServer, SequenceTheorems, TLAPS

-----------------------------------------------------------------------------
(* The thread pool. *)

\* A worker that runs has taken a closure.
HasJob == \A w \in Worker : at[w] = "run" => fn[w] \in Job

IInv == PoolTypeOK /\ HasJob /\ PoolSound

\* What Append and Tail do to the set of queued closures and to their order.
LEMMA AppendAdds ==
    ASSUME NEW s \in Seq(Job), NEW j \in Job
    PROVE  /\ Append(s, j) \in Seq(Job)
           /\ Append(s, j) # <<>>
           /\ {Append(s, j)[i] : i \in 1 .. Len(Append(s, j))} = {s[i] : i \in 1 .. Len(s)} \cup {j}
           /\ (/\ \A i, k \in 1 .. Len(s) : s[i] = s[k] => i = k
               /\ j \notin {s[i] : i \in 1 .. Len(s)})
              => \A i, k \in 1 .. Len(Append(s, j)) : Append(s, j)[i] = Append(s, j)[k] => i = k
<1>1. Len(Append(s, j)) = Len(s) + 1 /\ Len(s) \in Nat
  OBVIOUS
<1>2. \A i \in 1 .. Len(s) : Append(s, j)[i] = s[i]
  OBVIOUS
<1>3. Append(s, j)[Len(s) + 1] = j
  OBVIOUS
<1>4. 1 .. Len(s) + 1 = (1 .. Len(s)) \cup {Len(s) + 1}
  BY <1>1
<1>. QED
  BY <1>1, <1>2, <1>3, <1>4

LEMMA TailRemoves ==
    ASSUME NEW s \in Seq(Job), s # <<>>,
           \A i, k \in 1 .. Len(s) : s[i] = s[k] => i = k
    PROVE  /\ Head(s) \in Job
           /\ Tail(s) \in Seq(Job)
           /\ {s[i] : i \in 1 .. Len(s)} = {Tail(s)[i] : i \in 1 .. Len(Tail(s))} \cup {Head(s)}
           /\ Head(s) \notin {Tail(s)[i] : i \in 1 .. Len(Tail(s))}
           /\ \A i, k \in 1 .. Len(Tail(s)) : Tail(s)[i] = Tail(s)[k] => i = k
<1>1. Len(s) \in Nat \ {0} /\ Len(Tail(s)) = Len(s) - 1 /\ Head(s) = s[1]
  OBVIOUS
<1>2. \A i \in 1 .. Len(s) - 1 : Tail(s)[i] = s[i + 1]
  BY <1>1
<1>3. \A k \in 1 .. Len(s) : k = 1 \/ (k - 1 \in 1 .. Len(s) - 1 /\ k = (k - 1) + 1)
  BY <1>1
<1>4. Head(s) \in Job /\ Tail(s) \in Seq(Job)
  BY <1>1
<1>5. Head(s) \notin {Tail(s)[i] : i \in 1 .. Len(Tail(s))}
  BY <1>1, <1>2
<1>6. \A i, k \in 1 .. Len(Tail(s)) : Tail(s)[i] = Tail(s)[k] => i = k
  BY <1>1, <1>2
<1>7. {s[i] : i \in 1 .. Len(s)} \subseteq {Tail(s)[i] : i \in 1 .. Len(Tail(s))} \cup {Head(s)}
  <2>1. ASSUME NEW k \in 1 .. Len(s)
        PROVE  s[k] \in {Tail(s)[i] : i \in 1 .. Len(Tail(s))} \cup {Head(s)}
    <3>1. CASE k = 1
      BY <3>1, <1>1
    <3>2. CASE k - 1 \in 1 .. Len(s) - 1 /\ k = (k - 1) + 1
      BY <3>2, <1>1, <1>2
    <3>. QED BY <3>1, <3>2, <1>3
  <2>. QED BY <2>1
<1>8. {Tail(s)[i] : i \in 1 .. Len(Tail(s))} \cup {Head(s)} \subseteq {s[i] : i \in 1 .. Len(s)}
  BY <1>1, <1>2
<1>. QED
  BY <1>4, <1>5, <1>6, <1>7, <1>8
-----------------------------------------------------------------------------
LEMMA InitInv == PoolInit => IInv
BY PoolAssumption DEF PoolInit, IInv, PoolTypeOK, HasJob, PoolSound, OneOwner, Drained, NeverStuck,
    Queued, Running, Waiting

LEMMA EnqueueInv == ASSUME IInv, NEW j \in Job, Enqueue(j) PROVE IInv'
<1>. USE DEF IInv, PoolTypeOK, HasJob
<1>1. PoolTypeOK' /\ HasJob'
  BY AppendAdds DEF Enqueue, Waiting
<1>2. Queued' = Queued \cup {j}
  BY AppendAdds DEF Enqueue, Queued
<1>3. Running' = Running
  BY DEF Enqueue, Running, Waiting
<1>4. j \notin Queued /\ j \notin Running /\ j \notin done
  BY DEF Enqueue, PoolSound, OneOwner
<1>5. \A i, k \in 1 .. Len(jobs') : jobs'[i] = jobs'[k] => i = k
  BY <1>4, AppendAdds DEF Enqueue, PoolSound, OneOwner, Queued
<1>6. OneOwner'
  <2>1. given' = Queued' \cup Running' \cup done'
    BY <1>2, <1>3 DEF Enqueue, PoolSound, OneOwner
  <2>2. Queued' \cap Running' = {} /\ Queued' \cap done' = {} /\ Running' \cap done' = {}
    BY <1>2, <1>3, <1>4 DEF Enqueue, PoolSound, OneOwner
  <2>3. \A v, w \in Worker : at'[v] = "run" /\ at'[w] = "run" /\ fn'[v] = fn'[w] => v = w
    BY DEF Enqueue, PoolSound, OneOwner, Waiting
  <2>. QED BY <1>5, <2>1, <2>2, <2>3 DEF OneOwner
<1>7. Drained'
  BY DEF Enqueue, PoolSound, Drained, Waiting
<1>8. NeverStuck'
  <2>1. \A w \in Worker : at[w] # "left"
    BY DEF Enqueue, PoolSound, Drained
  <2>2. \E w \in Worker : at'[w] \in {"look", "run"}
    BY <2>1, PoolAssumption DEF Enqueue, Waiting
  <2>. QED BY <2>2 DEF Enqueue, NeverStuck
<1>. QED
  BY <1>1, <1>6, <1>7, <1>8 DEF PoolSound

LEMMA FlagInv == ASSUME IInv, Flag PROVE IInv'
BY DEF IInv, PoolTypeOK, HasJob, Flag, PoolSound, OneOwner, Drained, NeverStuck, Queued, Running, Waiting

LEMMA NotifyAllInv == ASSUME IInv, NotifyAll PROVE IInv'
<1>. USE DEF IInv, PoolTypeOK, HasJob
<1>1. \A w \in Worker : /\ at'[w] = "run" <=> at[w] = "run"
                        /\ at'[w] = "left" <=> at[w] = "left"
                        /\ at'[w] # "wait"
                        /\ at[w] \in {"look", "run"} => at'[w] = at[w]
  BY DEF NotifyAll, Waiting
<1>2. PoolTypeOK' /\ HasJob'
  BY <1>1 DEF NotifyAll, Waiting
<1>3. Queued' = Queued /\ Running' = Running
  BY <1>1 DEF NotifyAll, Queued, Running
<1>4. OneOwner'
  BY <1>1, <1>3 DEF NotifyAll, PoolSound, OneOwner
<1>5. Drained' /\ NeverStuck'
  BY <1>1 DEF NotifyAll, PoolSound, Drained, NeverStuck, Waiting
<1>. QED
  BY <1>2, <1>4, <1>5 DEF PoolSound

\* join() returns when every worker has left: the list is empty, nobody runs.
LEMMA JoinInv == ASSUME IInv, Join PROVE IInv'
<1>. USE DEF IInv, PoolTypeOK, HasJob
<1>1. PoolTypeOK' /\ HasJob' /\ OneOwner' /\ NeverStuck'
  BY DEF Join, PoolSound, OneOwner, NeverStuck, Queued, Running, Waiting
<1>2. jobs = <<>>
  BY PoolAssumption DEF Join, PoolSound, Drained
<1>3. Queued = {} /\ Running = {}
  BY <1>2 DEF Join, Queued, Running
<1>4. given = done
  BY <1>3 DEF PoolSound, OneOwner
<1>. QED
  BY <1>1, <1>2, <1>4 DEF Join, PoolSound, Drained

LEMMA BlocksInv == ASSUME IInv, NEW w \in Worker, Blocks(w) PROVE IInv'
<1>. USE DEF IInv, PoolTypeOK, HasJob
<1>1. PoolTypeOK' /\ HasJob'
  BY DEF Blocks
<1>2. Queued' = Queued /\ Running' = Running
  BY DEF Blocks, Queued, Running
<1>3. OneOwner'
  BY <1>2 DEF Blocks, PoolSound, OneOwner
<1>4. Drained' /\ NeverStuck'
  BY DEF Blocks, PoolSound, Drained, NeverStuck, Waiting
<1>. QED
  BY <1>1, <1>3, <1>4 DEF PoolSound

LEMMA LeavesInv == ASSUME IInv, NEW w \in Worker, Leaves(w) PROVE IInv'
<1>. USE DEF IInv, PoolTypeOK, HasJob
<1>1. PoolTypeOK' /\ HasJob'
  BY DEF Leaves
<1>2. Queued' = Queued /\ Running' = Running
  BY DEF Leaves, Queued, Running
<1>3. OneOwner'
  BY <1>2 DEF Leaves, PoolSound, OneOwner
<1>4. Drained' /\ NeverStuck'
  BY DEF Leaves, PoolSound, Drained, NeverStuck, Waiting
<1>. QED
  BY <1>1, <1>3, <1>4 DEF PoolSound

LEMMA TakesInv == ASSUME IInv, NEW w \in Worker, Takes(w) PROVE IInv'
<1>. USE DEF IInv, PoolTypeOK, HasJob
<1>1. /\ jobs \in Seq(Job) /\ jobs # <<>>
      /\ \A i, k \in 1 .. Len(jobs) : jobs[i] = jobs[k] => i = k
  BY DEF Takes, PoolSound, OneOwner
<1>2. /\ Head(jobs) \in Job /\ jobs' \in Seq(Job)
      /\ Queued = Queued' \cup {Head(jobs)} /\ Head(jobs) \notin Queued'
      /\ \A i, k \in 1 .. Len(jobs') : jobs'[i] = jobs'[k] => i = k
  <2>1. jobs' = Tail(jobs)
    BY DEF Takes
  <2>2. /\ Head(jobs) \in Job /\ Tail(jobs) \in Seq(Job)
        /\ {jobs[i] : i \in 1 .. Len(jobs)}
            = {Tail(jobs)[i] : i \in 1 .. Len(Tail(jobs))} \cup {Head(jobs)}
        /\ Head(jobs) \notin {Tail(jobs)[i] : i \in 1 .. Len(Tail(jobs))}
        /\ \A i, k \in 1 .. Len(Tail(jobs)) : Tail(jobs)[i] = Tail(jobs)[k] => i = k
    BY <1>1, TailRemoves
  <2>3. Queued = {jobs[i] : i \in 1 .. Len(jobs)}
    BY DEF Queued
  <2>4. Queued' = {Tail(jobs)[i] : i \in 1 .. Len(Tail(jobs))}
    BY <2>1 DEF Queued
  <2>5. Queued = Queued' \cup {Head(jobs)} /\ Head(jobs) \notin Queued'
    BY <2>2, <2>3, <2>4, Zenon
  <2>6. \A i, k \in 1 .. Len(jobs') : jobs'[i] = jobs'[k] => i = k
    BY <2>1, <2>2
  <2>7. Head(jobs) \in Job /\ jobs' \in Seq(Job)
    BY <2>1, <2>2
  <2>. QED BY <2>5, <2>6, <2>7, Zenon
<1>3. PoolTypeOK' /\ HasJob'
  BY <1>2 DEF Takes
<1>4. Running' = Running \cup {Head(jobs)}
  BY DEF Takes, Running
<1>5. Head(jobs) \in Queued /\ Head(jobs) \notin Running
  BY <1>2 DEF PoolSound, OneOwner
<1>6. OneOwner'
  <2>1. given' = Queued' \cup Running' \cup done'
    BY <1>2, <1>4 DEF Takes, PoolSound, OneOwner
  <2>2. Queued' \cap Running' = {} /\ Queued' \cap done' = {} /\ Running' \cap done' = {}
    BY <1>2, <1>4, <1>5 DEF Takes, PoolSound, OneOwner
  <2>3. ASSUME NEW u \in Worker, NEW v \in Worker, at'[u] = "run", at'[v] = "run", fn'[u] = fn'[v]
        PROVE  u = v
    <3>1. \A x \in Worker : at[x] = "run" => fn[x] # Head(jobs)
      BY <1>5 DEF Running
    <3>. QED BY <2>3, <3>1 DEF Takes, PoolSound, OneOwner
  <2>. QED BY <1>2, <2>1, <2>2, <2>3 DEF OneOwner
<1>7. Drained'
  BY DEF Takes, PoolSound, Drained
<1>8. NeverStuck'
  BY DEF Takes, PoolSound, NeverStuck, Waiting
<1>. QED
  BY <1>3, <1>6, <1>7, <1>8 DEF PoolSound

LEMMA WakesInv == ASSUME IInv, NEW w \in Worker, Wakes(w) PROVE IInv'
<1>. USE DEF IInv, PoolTypeOK, HasJob
<1>1. PoolTypeOK' /\ HasJob'
  BY DEF Wakes
<1>2. Queued' = Queued /\ Running' = Running
  BY DEF Wakes, Queued, Running
<1>3. OneOwner'
  BY <1>2 DEF Wakes, PoolSound, OneOwner
<1>4. Drained' /\ NeverStuck'
  BY DEF Wakes, PoolSound, Drained, NeverStuck, Waiting
<1>. QED
  BY <1>1, <1>3, <1>4 DEF PoolSound

LEMMA ReturnsInv == ASSUME IInv, NEW w \in Worker, Returns(w) PROVE IInv'
<1>. USE DEF IInv, PoolTypeOK, HasJob
<1>1. PoolTypeOK' /\ HasJob'
  BY DEF Returns
<1>2. Queued' = Queued
  BY DEF Returns, Queued
<1>3. Running = Running' \cup {fn[w]} /\ fn[w] \notin Running' /\ fn[w] \in Running
  <2>1. \A v \in Worker : at'[v] = "run" <=> at[v] = "run" /\ v # w
    BY DEF Returns
  <2>2. \A v \in Worker : v # w => fn'[v] = fn[v]
    BY DEF Returns
  <2>3. \A v \in Worker : at[v] = "run" /\ v # w => fn[v] # fn[w]
    BY DEF Returns, PoolSound, OneOwner
  <2>4. at[w] = "run"
    BY DEF Returns
  <2>. QED BY <2>1, <2>2, <2>3, <2>4 DEF Running
<1>4. OneOwner'
  BY <1>2, <1>3 DEF Returns, PoolSound, OneOwner
<1>5. Drained' /\ NeverStuck'
  BY <1>3 DEF Returns, PoolSound, OneOwner, Drained, NeverStuck, Waiting
<1>. QED
  BY <1>1, <1>4, <1>5 DEF PoolSound

LEMMA StepInv == IInv /\ [PoolNext]_poolVars => IInv'
<1>. SUFFICES ASSUME IInv, [PoolNext]_poolVars PROVE IInv'
  OBVIOUS
<1>1. CASE UNCHANGED poolVars
  <2>1. Queued' = Queued /\ Running' = Running /\ Waiting' = Waiting
    BY <1>1 DEF poolVars, Queued, Running, Waiting
  <2>2. PoolTypeOK' /\ HasJob'
    BY <1>1 DEF poolVars, IInv, PoolTypeOK, HasJob
  <2>. QED BY <1>1, <2>1, <2>2 DEF poolVars, IInv, PoolSound, OneOwner, Drained, NeverStuck
<1>2. CASE PoolNext
  BY <1>2, EnqueueInv, FlagInv, NotifyAllInv, JoinInv, BlocksInv, LeavesInv, TakesInv, WakesInv,
     ReturnsInv DEF PoolNext, Look
<1>. QED
  BY <1>1, <1>2

LEMMA PoolInductive == PoolSpec => []IInv
BY InitInv, StepInv, PTL DEF PoolSpec

\* However enqueue, wake-ups, spurious wake-ups and shutdown are interleaved, the pool
\* keeps every closure in one place, drains before its workers leave, and never
\* leaves a closure to workers that are all blocked.
THEOREM PoolCorrect == PoolSpec => []PoolSound
<1>1. IInv => PoolSound
  BY DEF IInv
<1>. QED
  BY <1>1, PoolInductive, PTL

-----------------------------------------------------------------------------
(* The server. *)

LEMMA InitMaps == Init => PoolInit
BY DEF Init

\* A step of a client, of the listening thread outside of the pool, of stop(), or of a
\* worker inside of a connection leaves the pool alone.
LEMMA ConnectionSteps ==
    ASSUME NEW c \in Job, Send(c) \/ Dawdles(c) \/ Hurries(c) \/ Serve(c)
    PROVE  UNCHANGED poolVars
BY DEF Send, Dawdles, Hurries, Serve, TakeLine, KeepAliveEnds, TakeHead, HeadCut, TakeBody, BodyCut, Handle, Reply,
   Chunk, StreamEnds, StreamFails, poolVars

LEMMA StopKeepsPool ==
    ASSUME NEW s \in Stopper \cup Job, StopEnters(s) \/ StopSteps(s) PROVE UNCHANGED poolVars
BY DEF StopEnters, StopSteps, Exchanges, Closes, poolVars

LEMMA AcceptorMaps == Acceptor => [PoolNext]_poolVars
<1>1. ASSUME Listen \/ TestSocket \/ NoDescriptor \/ AcceptFails \/ CloseFailed \/ ListenReturns
      PROVE  UNCHANGED poolVars
  BY <1>1 DEF Listen, TestSocket, NoDescriptor, AcceptFails, CloseFailed, ListenReturns, poolVars
<1>2. Shutdown => PoolNext
  BY DEF Shutdown, PoolNext
<1>3. \A c \in Job : Accept(c) => PoolNext
  BY DEF Accept, PoolNext
<1>. QED
  BY <1>1, <1>2, <1>3 DEF Acceptor

LEMMA WorkerMaps == ASSUME NEW w \in Worker, Work(w) \/ Spurious(w) PROVE PoolNext
BY DEF Work, WorkerTakes, Idle, CloseConnection, Spurious, PoolNext, Look

\* Every step of the server is a step of the pool or leaves it alone: accepted
\* connections are enqueued once, and before shutdown() (listen_internal).
THEOREM ServerUsesPool == Spec => PoolSpec
<1>1. [Next]_vars => [PoolNext]_poolVars
  <2>1. UNCHANGED vars => UNCHANGED poolVars
    BY DEF vars
  <2>2. Next => [PoolNext]_poolVars
    BY ConnectionSteps, StopKeepsPool, AcceptorMaps, WorkerMaps DEF Next
  <2>. QED BY <2>1, <2>2
<1>. QED
  BY InitMaps, <1>1, PTL DEF Spec, PoolSpec

\* No connection is lost, served twice or left to sleeping workers, and listen()
\* returns only when every accepted connection has been closed.
THEOREM ServerPoolSound == Spec => []PoolSound
BY ServerUsesPool, PoolCorrect

-----------------------------------------------------------------------------
(* The listening socket.                                                       *)

\* The calls of stop() that have taken the socket and not closed it yet.
Holds == {s \in Stopper \cup Job : stop[s] = "exchanged"}

\* The socket is held by one call of stop() at most, and by none as long as svr_sock_
\* still has it; only listen_internal closes it without taking it, and then it fails.
SocketInv ==
    /\ svr \in {"open", "INVALID"} /\ closes \in 0 .. 2
    /\ running \in BOOLEAN /\ ret \in BOOLEAN
    /\ acc \in {"bound", "test", "accept", "failed", "down", "returned"}
    /\ stop \in [Stopper \cup Job -> {"idle", "entered", "exchanged", "done"}]
    /\ svr = "open" => Holds = {}
    /\ svr = "open" \/ Holds # {} => closes <= 1 /\ (ret = TRUE => closes = 0)
    /\ \A s, u \in Holds : s = u
    /\ ret = TRUE => closes <= 1
    /\ ret = FALSE => acc \in {"down", "returned"}

-----------------------------------------------------------------------------
(* The answers of a connection: q is its record in conn, o what was written to *)
(* it so far.                                                                  *)

\* No request was refused before all of it was read.
Clean(o) == \A j \in 1 .. Len(o) : o[j].status \notin {400, 416}

Ordered(o) ==
    \A i \in 1 .. Len(o) :
        /\ (\A j \in 1 .. i - 1 : o[j].status \notin {400, 416}) => o[i].req = i
        /\ \A j \in 1 .. i : o[j].req <= o[i].req

\* How far the worker has read the request it is about to answer.
ReadTo(q, o) ==
    /\ q.phase \in {"none", "queued", "keep", "stream"} => q.taken = 3 * Len(o)
    /\ q.phase \in {"head", "body", "handler", "reply"} => q.req = Len(o) + 1
    /\ q.phase = "head" => q.taken = 3 * Len(o) + 1
    /\ q.phase = "body" => q.taken = 3 * Len(o) + 2
    /\ q.phase \in {"handler", "reply"} => q.taken = 3 * Len(o) + 3

\* An answer to the request will be appended to o.
Answering == {"none", "queued", "keep", "head", "body", "handler", "reply"}

\* What the count of the connection and the answers tell each other.
Counted(q, o) ==
    /\ q.count >= 1
    /\ q.phase \in Answering => Len(o) = MaxCount - q.count
    /\ q.phase \notin Answering => Len(o) <= MaxCount - q.count + 1
    /\ q.phase = "stream" => Len(o) = MaxCount - q.count + 1
    /\ q.phase \in {"none", "queued"} => o = <<>> /\ q.req = 0

Announces(q, o) ==
    \A i \in 1 .. Len(o) :
        /\ i = MaxCount => o[i].close
        /\ o[i].close /\ o[i].status # 400 =>
              i = Len(o) /\ q.phase \notin Answering /\ (q.phase = "stream" => q.count = 1)

\* What the phases know of the kind of the request.
Knows(q, kind) ==
    /\ q.phase = "head" => kind[q.req] # "badline"
    /\ q.phase = "body" => kind[q.req] = "post"
    /\ q.phase = "handler" /\ kind[q.req] = "close" => q.last

Whole(q, o) ==
    \A i \in 1 .. Len(o) : ~o[i].whole /\ ~o[i].lost =>
        i = Len(o) /\ q.phase \in {"stream", "closing", "closed"}

AnswersOK(q, o) ==
    /\ q \in Connection /\ o \in Seq(Answer)
    /\ Ordered(o)
    /\ \A i \in 1 .. Len(o) : o[i].req <= q.req
    /\ q.req <= ReqOf(q.taken)
    /\ Clean(o) => ReadTo(q, o)
    /\ Counted(q, o) /\ Announces(q, o)
    /\ q.phase = "stream" => o # <<>> /\ o[Len(o)].status = 200

ConnectionOK(c) ==
    /\ AnswersOK(conn[c], out[c])
    /\ Knows(conn[c], script[c])
    /\ svr = "open" => Whole(conn[c], out[c])
    /\ stop[c] \in {"entered", "exchanged"} =>
           conn[c].phase = "handler" /\ script[c][conn[c].req] = "stop"

ServerInv ==
    /\ SocketInv
    /\ conn \in [Job -> Connection] /\ out \in [Job -> Seq(Answer)] /\ script \in Scripts
    /\ \A i \in 1 .. Len(jobs) : conn[jobs[i]].phase = "queued"
    /\ \A c \in Job : ConnectionOK(c)

LEMMA AppendAnswer ==
    ASSUME NEW o \in Seq(Answer), NEW a \in Answer
    PROVE  /\ Append(o, a) \in Seq(Answer) /\ Len(Append(o, a)) = Len(o) + 1 /\ Len(o) \in Nat
           /\ Append(o, a)[Len(o) + 1] = a
           /\ \A i \in 1 .. Len(o) : Append(o, a)[i] = o[i] /\ o[i] \in Answer
OBVIOUS

\* What write_response_core() has written, which may be lost.
LEMMA OneAnswer ==
    ASSUME NEW req \in Nat, NEW status \in {200, 400, 416, 500}, NEW close \in BOOLEAN,
           NEW whole \in BOOLEAN, NEW lost \in BOOLEAN, NEW a,
           a = [req |-> req, status |-> status, close |-> close, whole |-> whole, lost |-> lost]
    PROVE  a \in Answer
BY DEF Answer

\* One more answer, to a request that is not an earlier one, and to the next one as long
\* as nothing was refused, keeps the answers in order.
LEMMA AppendOrdered ==
    ASSUME NEW o \in Seq(Answer), NEW a \in Answer, Ordered(o),
           \A i \in 1 .. Len(o) : o[i].req <= a.req,
           Clean(o) => a.req = Len(o) + 1
    PROVE  /\ Ordered(Append(o, a))
           /\ \A i \in 1 .. Len(Append(o, a)) : Append(o, a)[i].req <= a.req
           /\ Clean(Append(o, a)) => Clean(o) /\ a.status \notin {400, 416}
<1> DEFINE p == Append(o, a)
<1>1. /\ p \in Seq(Answer) /\ Len(p) = Len(o) + 1 /\ Len(o) \in Nat
      /\ p[Len(o) + 1] = a
      /\ \A i \in 1 .. Len(o) : p[i] = o[i] /\ o[i] \in Answer
  BY AppendAnswer
<1>2. a.req \in Nat
  BY DEF Answer
<1> HIDE DEF p
<1>3. Clean(p) => Clean(o) /\ a.status \notin {400, 416}
  BY <1>1 DEF Clean
<1>4. \A i \in 1 .. Len(p) : p[i].req <= a.req
  BY <1>1, <1>2
<1>5. Ordered(p)
  <2> SUFFICES ASSUME NEW i \in 1 .. Len(p)
               PROVE  /\ (\A j \in 1 .. i - 1 : p[j].status \notin {400, 416}) => p[i].req = i
                      /\ \A j \in 1 .. i : p[j].req <= p[i].req
    BY DEF Ordered
  <2>1. CASE i = Len(o) + 1
    BY <1>1, <1>2, <2>1 DEF Clean
  <2>2. CASE i \in 1 .. Len(o)
    <3>1. \A j \in 1 .. i : j \in 1 .. Len(o) /\ p[j] = o[j]
      BY <1>1, <2>2
    <3> QED BY <1>1, <2>2, <3>1 DEF Ordered
  <2> QED BY <1>1, <2>1, <2>2
<1> QED BY <1>3, <1>4, <1>5 DEF p

\* The record of a connection whose callback has returned.
Went(r, ok) == IF ok /\ ~r.last /\ r.count > 1
               THEN [r EXCEPT !.phase = "keep", !.count = @ - 1, !.left = 0]
               ELSE [r EXCEPT !.phase = "closing", !.left = 0]

LEMMA WentOn ==
    ASSUME NEW r \in Connection, NEW ok \in BOOLEAN, r.count >= 1
    PROVE  /\ Went(r, ok) \in Connection
           /\ Went(r, ok).req = r.req /\ Went(r, ok).taken = r.taken
           /\ \/ /\ Went(r, ok).phase = "keep" /\ Went(r, ok).count = r.count - 1
                 /\ ok /\ ~r.last /\ r.count > 1
              \/ /\ Went(r, ok).phase = "closing" /\ Went(r, ok).count = r.count
                 /\ ~ok \/ r.last \/ r.count = 1
<1>1. r.count \in 0 .. MaxCount /\ MaxCount \in Nat /\ 0 \in 0 .. Chunks
  BY ServerAssumption DEF Connection
<1>2. CASE ok /\ ~r.last /\ r.count > 1
  <2>1. r.count - 1 \in 0 .. MaxCount
    BY <1>1, <1>2
  <2> DEFINE k == [phase |-> "keep", sent |-> r.sent, taken |-> r.taken, slow |-> r.slow, req |-> r.req,
                   last |-> r.last, count |-> r.count - 1, left |-> 0]
  <2>2. k \in Connection
    BY <1>1, <2>1 DEF Connection
  <2>3. Went(r, ok) = k
    BY <1>2 DEF Went, Connection
  <2>4. k.req = r.req /\ k.taken = r.taken /\ k.phase = "keep" /\ k.count = r.count - 1
    OBVIOUS
  <2> HIDE DEF k
  <2> QED BY <1>2, <2>2, <2>3, <2>4
<1>3. CASE ~(ok /\ ~r.last /\ r.count > 1)
  <2> DEFINE k == [phase |-> "closing", sent |-> r.sent, taken |-> r.taken, slow |-> r.slow, req |-> r.req,
                   last |-> r.last, count |-> r.count, left |-> 0]
  <2>2. k \in Connection
    BY <1>1 DEF Connection
  <2>3. Went(r, ok) = k
    BY <1>3 DEF Went, Connection
  <2> QED BY <1>1, <1>3, <2>2, <2>3
<1> QED BY <1>2, <1>3

\* A connection that has just been given the answer a, written to its end, goes on or is
\* closed (process_request and process_server_socket_core).
LEMMA AnswerGiven ==
    ASSUME NEW q, NEW o, AnswersOK(q, o),
           q.phase \in {"keep", "head", "body", "handler", "reply"},
           NEW r \in Connection, NEW a \in Answer,
           r.count = q.count, a.req = r.req, q.req <= r.req, r.req <= ReqOf(r.taken),
           q.count = 1 => a.close,
           a.close /\ a.status # 400 => q.count = 1 \/ r.last,
           Clean(o) => r.req = Len(o) + 1,
           Clean(o) /\ a.status \notin {400, 416} => r.taken = 3 * Len(o) + 3
    PROVE  /\ AnswersOK(Went(r, TRUE), Append(o, a))
           /\ Went(r, TRUE).phase \in {"keep", "closing"}
           /\ Whole(q, o) /\ (a.whole \/ a.lost) => Whole(Went(r, TRUE), Append(o, a))
<1> DEFINE p == Append(o, a)
           s == Went(r, TRUE)
<1>1. /\ q \in Connection /\ o \in Seq(Answer)
      /\ Ordered(o) /\ Counted(q, o) /\ Announces(q, o)
      /\ \A i \in 1 .. Len(o) : o[i].req <= q.req
  BY DEF AnswersOK
<1>2. /\ p \in Seq(Answer) /\ Len(p) = Len(o) + 1 /\ Len(o) \in Nat
      /\ p[Len(o) + 1] = a
      /\ \A i \in 1 .. Len(o) : p[i] = o[i] /\ o[i] \in Answer
  BY <1>1, AppendAnswer
<1>3. /\ q.count \in 0 .. MaxCount /\ q.count >= 1 /\ MaxCount \in Nat
      /\ Len(o) = MaxCount - q.count /\ q.req \in Nat /\ r.req \in Nat
  BY <1>1, ServerAssumption DEF Connection, Counted, Answering
<1>4. \A i \in 1 .. Len(o) : o[i].req <= a.req
  <2>1. \A i \in 1 .. Len(o) : o[i].req \in Nat
    BY <1>2 DEF Answer
  <2>2. \A i \in 1 .. Len(o) : o[i].req <= q.req
    BY <1>1
  <2>3. q.req \in Nat /\ r.req \in Nat /\ q.req <= r.req /\ a.req = r.req
    BY <1>3
  <2> QED BY ONLY <2>1, <2>2, <2>3
<1>5. /\ Ordered(p)
      /\ \A i \in 1 .. Len(p) : p[i].req <= a.req
      /\ Clean(p) => Clean(o) /\ a.status \notin {400, 416}
  BY <1>1, <1>4, AppendOrdered
<1>6. /\ s \in Connection /\ s.req = r.req /\ s.taken = r.taken
      /\ \/ s.phase = "keep" /\ s.count = r.count - 1 /\ ~r.last /\ r.count > 1
         \/ s.phase = "closing" /\ s.count = r.count
  BY <1>3, WentOn
<1> HIDE DEF p, s
<1>7. Clean(p) => ReadTo(s, p)
  <2> SUFFICES ASSUME Clean(p) PROVE ReadTo(s, p)
    OBVIOUS
  <2>1. r.taken = 3 * Len(o) + 3
    BY <1>5
  <2>2. 3 * Len(p) = 3 * Len(o) + 3
    BY <1>2
  <2>3. s.phase \in {"keep", "closing"} /\ s.taken = 3 * Len(p)
    BY <1>6, <2>1, <2>2
  <2> QED BY <2>3 DEF ReadTo
<1>8. Counted(s, p)
  BY <1>2, <1>3, <1>6 DEF Counted, Answering
<1>9. Announces(s, p)
  <2> SUFFICES ASSUME NEW i \in 1 .. Len(p)
               PROVE  /\ i = MaxCount => p[i].close
                      /\ p[i].close /\ p[i].status # 400 =>
                            /\ i = Len(p) /\ s.phase \notin Answering
                            /\ s.phase = "stream" => s.count = 1
    BY DEF Announces
  <2>1. CASE i = Len(o) + 1
    BY <1>2, <1>3, <1>6, <2>1 DEF Answering
  <2>2. CASE i \in 1 .. Len(o)
    <3>1. p[i] = o[i] /\ i # MaxCount
      BY <1>2, <1>3, <2>2
    <3>2. q.phase \in Answering
      BY DEF Answering
    <3>3. o[i].close => o[i].status = 400
      BY <1>1, <2>2, <3>2 DEF Announces
    <3> QED BY <3>1, <3>3
  <2> QED BY <1>2, <2>1, <2>2
<1>10. Whole(q, o) /\ (a.whole \/ a.lost) => Whole(s, p)
  BY <1>2 DEF Whole
<1>11. AnswersOK(s, p)
  BY <1>2, <1>5, <1>6, <1>7, <1>8, <1>9 DEF AnswersOK
<1> QED BY <1>6, <1>10, <1>11 DEF p, s

\* A step of the worker of c leaves the other connections alone.
LEMMA OneConnection ==
    ASSUME ServerInv, NEW c \in Job, NEW q, NEW o,
           conn' = [conn EXCEPT ![c] = q], out' = [out EXCEPT ![c] = o],
           UNCHANGED <<serverVars, script, jobs>>,
           AnswersOK(q, o), Knows(q, script[c]),
           svr = "open" => Whole(q, o),
           stop[c] \in {"entered", "exchanged"} =>
               q.phase = "handler" /\ script[c][q.req] = "stop",
           conn[c].phase = "queued" => q.phase = "queued"
    PROVE  ServerInv'
<1>1. /\ conn \in [Job -> Connection] /\ out \in [Job -> Seq(Answer)]
      /\ q \in Connection /\ o \in Seq(Answer)
  BY DEF ServerInv, AnswersOK
<1>2. SocketInv'
  BY DEF ServerInv, SocketInv, serverVars, Holds
<1>3. conn' \in [Job -> Connection] /\ out' \in [Job -> Seq(Answer)] /\ script' \in Scripts
  BY <1>1 DEF ServerInv
<1>4. \A i \in 1 .. Len(jobs') : conn'[jobs'[i]].phase = "queued"
  BY <1>1 DEF ServerInv
<1>5. ASSUME NEW d \in Job PROVE ConnectionOK(d)'
  <2>1. CASE d = c
    BY <1>1, <2>1 DEF ConnectionOK, serverVars
  <2>2. CASE d # c
    BY <1>1, <2>2 DEF ServerInv, ConnectionOK, serverVars
  <2> QED BY <2>1, <2>2
<1> QED BY <1>2, <1>3, <1>4, <1>5 DEF ServerInv

\* The pieces of the requests as the counters sent and taken number them.
LEMMA Pieces ==
    ASSUME NEW c, NEW n \in Nat
    PROVE  /\ After(c, n) \in Nat /\ ReqOf(n) \in Nat
           /\ ReqOf(n) <= ReqOf(After(c, n))
           /\ \A k \in Nat :
                 /\ n = 3 * k => /\ PartOf(n) = 0 /\ ReqOf(n) = k + 1
                                 /\ After(c, n) = 3 * k + 1
                 /\ n = 3 * k + 1 =>
                       /\ HasBody(script[c][k + 1]) => After(c, n) = 3 * k + 2
                       /\ ~HasBody(script[c][k + 1]) => After(c, n) = 3 * k + 3
                 /\ n = 3 * k + 2 => After(c, n) = 3 * k + 3
<1>1. PICK q \in Nat, m \in 0 .. 2 : n = 3 * q + m
  <2>1. n \div 3 \in Nat /\ n % 3 \in 0 .. 2 /\ n = 3 * (n \div 3) + (n % 3)
    OBVIOUS
  <2> QED BY <2>1
<1>2. n \div 3 = q /\ n % 3 = m
  BY <1>1
<1>3. (n + 1) \div 3 >= q /\ (n + 2) \div 3 >= q /\ (n + 1) \div 3 \in Nat /\ (n + 2) \div 3 \in Nat
  BY <1>1
<1>4. After(c, n) \in {n + 1, n + 2}
  BY DEF After
<1>5. After(c, n) \in Nat /\ ReqOf(n) \in Nat /\ ReqOf(n) <= ReqOf(After(c, n))
  BY <1>2, <1>3, <1>4 DEF ReqOf
<1>6. ASSUME NEW k \in Nat
      PROVE  /\ n = 3 * k => /\ PartOf(n) = 0 /\ ReqOf(n) = k + 1 /\ After(c, n) = 3 * k + 1
             /\ n = 3 * k + 1 =>
                   /\ HasBody(script[c][k + 1]) => After(c, n) = 3 * k + 2
                   /\ ~HasBody(script[c][k + 1]) => After(c, n) = 3 * k + 3
             /\ n = 3 * k + 2 => After(c, n) = 3 * k + 3
  <2>1. CASE n = 3 * k
    <3>1. n \div 3 = k /\ n % 3 = 0
      BY <2>1
    <3> QED BY <2>1, <3>1 DEF After, PartOf, ReqOf
  <2>2. CASE n = 3 * k + 1
    <3>1. n \div 3 = k /\ n % 3 = 1
      BY <2>2
    <3> QED BY <2>2, <3>1 DEF After, PartOf, ReqOf, KindOf
  <2>3. CASE n = 3 * k + 2
    <3>1. n \div 3 = k /\ n % 3 = 2
      BY <2>3
    <3> QED BY <2>3, <3>1 DEF After, PartOf, ReqOf
  <2> QED BY <2>1, <2>2, <2>3
<1> QED BY <1>5, <1>6

LEMMA BodyPiece ==
    ASSUME NEW c, NEW n \in Nat, NEW m \in Nat, n = 3 * m + 2
    PROVE  After(c, n) = 3 * m + 3
<1>1. n \div 3 = m /\ n % 3 = 2
  OBVIOUS
<1> QED BY <1>1 DEF After, PartOf

\* What the invariant says of one connection.
LEMMA OfConnection ==
    ASSUME ServerInv, NEW c \in Job
    PROVE  /\ conn[c] \in Connection /\ out[c] \in Seq(Answer)
           /\ AnswersOK(conn[c], out[c]) /\ Knows(conn[c], script[c])
           /\ svr = "open" => Whole(conn[c], out[c])
           /\ stop[c] \in {"entered", "exchanged"} =>
                  conn[c].phase = "handler" /\ script[c][conn[c].req] = "stop"
           /\ conn[c].taken \in Nat /\ conn[c].req \in Nat /\ conn[c].count \in 0 .. MaxCount
           /\ conn[c].count >= 1 /\ Len(out[c]) \in Nat
BY DEF ServerInv, ConnectionOK, AnswersOK, Counted, Connection

LEMMA RequestNumber == ASSUME ServerInv, NEW c \in Job PROVE conn[c].req \in Nat
BY OfConnection

\* The worker gives an answer that it takes for written to its end, and the connection goes on or
\* is closed.
LEMMA AnswerKeeps ==
    ASSUME ServerInv, NEW c \in Job,
           conn[c].phase \in {"keep", "head", "body", "handler", "reply"},
           stop[c] \notin {"entered", "exchanged"},
           UNCHANGED <<serverVars, script, jobs>>,
           NEW r \in Connection, NEW a \in Answer,
           out' = [out EXCEPT ![c] = Append(@, a)],
           Continue(c, r, TRUE),
           r.count = conn[c].count, a.req = r.req, a.whole \/ a.lost,
           conn[c].req <= r.req, r.req <= ReqOf(r.taken),
           conn[c].count = 1 => a.close,
           a.close /\ a.status # 400 => conn[c].count = 1 \/ r.last,
           Clean(out[c]) => r.req = Len(out[c]) + 1,
           Clean(out[c]) /\ a.status \notin {400, 416} => r.taken = 3 * Len(out[c]) + 3
    PROVE  ServerInv'
<1> DEFINE q == Went(r, TRUE)
           o == Append(out[c], a)
<1>1. /\ AnswersOK(q, o) /\ q.phase \in {"keep", "closing"}
      /\ Whole(conn[c], out[c]) => Whole(q, o)
  BY OfConnection, AnswerGiven
<1>2. conn' = [conn EXCEPT ![c] = q] /\ out' = [out EXCEPT ![c] = o]
  BY DEF Continue, Went
<1>3. Knows(q, script[c]) /\ conn[c].phase # "queued"
  BY <1>1 DEF Knows
<1> HIDE DEF q, o
<1> QED BY <1>1, <1>2, <1>3, OfConnection, OneConnection

\* keep_alive() and the request line.
LEMMA TakeLineKeeps == ASSUME ServerInv, NEW c \in Job, TakeLine(c) PROVE ServerInv'
<1> DEFINE n == conn[c].taken
           r == [conn[c] EXCEPT !.taken = After(c, n), !.req = ReqOf(n), !.last = FALSE]
<1>1. /\ conn[c].phase = "keep" /\ UNCHANGED <<poolVars, serverVars, script>>
      /\ n \in Nat /\ conn[c] \in Connection
  BY OfConnection DEF TakeLine
<1> HIDE DEF n, r
<1>2. /\ After(c, n) \in Nat /\ ReqOf(n) \in Nat /\ ReqOf(n) <= ReqOf(After(c, n))
      /\ \A k \in Nat : n = 3 * k => /\ PartOf(n) = 0 /\ ReqOf(n) = k + 1
                                     /\ After(c, n) = 3 * k + 1
  <2>1. n \in Nat
    BY <1>1
  <2>2. After(c, n) \in Nat /\ ReqOf(n) \in Nat /\ ReqOf(n) <= ReqOf(After(c, n))
    BY <2>1, Pieces
  <2>3. ASSUME NEW k \in Nat, n = 3 * k
        PROVE  PartOf(n) = 0 /\ ReqOf(n) = k + 1 /\ After(c, n) = 3 * k + 1
    BY <2>1, <2>3, Pieces
  <2> QED BY <2>2, <2>3
<1>3. /\ r \in Connection /\ r.taken = After(c, n) /\ r.req = ReqOf(n) /\ r.last = FALSE
      /\ r.count = conn[c].count /\ r.phase = "keep"
  <2>1. conn[c] \in Connection /\ After(c, n) \in Nat /\ ReqOf(n) \in Nat
    BY <1>1, <1>2
  <2>2. r \in Connection
    BY <2>1 DEF r, Connection
  <2>3. r.phase = conn[c].phase /\ r.count = conn[c].count
    BY <2>1 DEF r, Connection
  <2>4. r.taken = After(c, n) /\ r.req = ReqOf(n) /\ r.last = FALSE
    BY <2>1 DEF r, Connection
  <2> QED BY <1>1, <2>2, <2>3, <2>4
<1>4. /\ conn[c].req <= ReqOf(n)
      /\ Clean(out[c]) => n = 3 * Len(out[c]) /\ ReqOf(n) = Len(out[c]) + 1
                          /\ After(c, n) = 3 * Len(out[c]) + 1
  BY <1>1, <1>2, OfConnection DEF AnswersOK, ReadTo, n
<1>5. stop[c] \notin {"entered", "exchanged"}
  BY <1>1, OfConnection
<1>6. CASE PartOf(n) = 0 /\ KindOf(c, n) # "badline"
  <2> DEFINE q == [r EXCEPT !.phase = "head"]
  <2>1. conn' = [conn EXCEPT ![c] = q] /\ out' = [out EXCEPT ![c] = out[c]]
    BY <1>6, OfConnection DEF TakeLine, ServerInv, n, r
  <2>2. /\ q \in Connection /\ q.taken = After(c, n) /\ q.req = ReqOf(n)
        /\ q.count = conn[c].count /\ q.phase = "head"
    BY <1>3 DEF Connection
  <2> HIDE DEF q
  <2>3. AnswersOK(q, out[c])
    <3>1. Clean(out[c]) => ReadTo(q, out[c])
      BY <1>4, <2>2 DEF ReadTo
    <3>2. Counted(q, out[c]) /\ Announces(q, out[c])
      BY <1>1, <2>2, OfConnection DEF AnswersOK, Counted, Announces, Answering
    <3>3. \A i \in 1 .. Len(out[c]) : out[c][i].req <= q.req
      <4>1. conn[c].req \in Nat /\ q.req \in Nat /\ conn[c].req <= q.req
        BY <1>2, <1>4, <2>2, OfConnection
      <4>2. \A i \in 1 .. Len(out[c]) : out[c][i] \in Answer /\ out[c][i].req <= conn[c].req
        BY OfConnection DEF AnswersOK
      <4> QED BY <4>1, <4>2 DEF Answer
    <3> QED BY <1>2, <2>2, <3>1, <3>2, <3>3, OfConnection DEF AnswersOK
  <2>4. Knows(q, script[c])
    BY <1>6, <2>2 DEF Knows, KindOf
  <2>5. svr = "open" => Whole(q, out[c])
    BY <1>1, OfConnection DEF Whole
  <2> QED BY <1>1, <1>5, <2>1, <2>2, <2>3, <2>4, <2>5, OneConnection DEF poolVars
<1>7. CASE ~(PartOf(n) = 0 /\ KindOf(c, n) # "badline")
  <2>0. Writes(c, ReqOf(n), 400, FALSE, TRUE) /\ Continue(c, r, TRUE)
    BY <1>7 DEF TakeLine, n, r
  <2>1. PICK lost \in BOOLEAN :
            out' = [out EXCEPT ![c] = Append(@, Written(c, ReqOf(n), 400, FALSE, TRUE, lost))]
    BY <2>0 DEF Writes
  <2> DEFINE a == Written(c, ReqOf(n), 400, FALSE, TRUE, lost)
             close == conn[c].count = 1 \/ FALSE
             whole == TRUE /\ ~lost
  <2>2. /\ a.req = r.req /\ (a.whole \/ a.lost) /\ a.status = 400
        /\ conn[c].count = 1 => a.close
        /\ out' = [out EXCEPT ![c] = Append(@, a)]
    BY <1>3, <2>1 DEF Written
  <2>6. a \in Answer
    <3>1. close \in BOOLEAN /\ whole \in BOOLEAN
      OBVIOUS
    <3>2. a = [req |-> ReqOf(n), status |-> 400, close |-> close, whole |-> whole, lost |-> lost]
      BY DEF Written
    <3> HIDE DEF a, close, whole
    <3> QED BY <1>2, <2>1, <3>1, <3>2, OneAnswer
  <2> HIDE DEF a
  <2>3. conn[c].req <= r.req /\ r.req <= ReqOf(r.taken)
    BY <1>2, <1>3, <1>4
  <2>4. Clean(out[c]) => r.req = Len(out[c]) + 1
    BY <1>3, <1>4
  <2>5. UNCHANGED <<serverVars, script, jobs>>
    BY <1>1 DEF poolVars
  <2> QED BY <1>1, <1>3, <1>5, <2>0, <2>2, <2>3, <2>4, <2>5, <2>6, AnswerKeeps
<1> QED BY <1>6, <1>7

\* The worker reads on without an answer, or stops reading.
LEMMA ReadsKeep ==
    ASSUME ServerInv, NEW c \in Job, NEW q \in Connection,
           conn[c].phase \in {"keep", "head", "body"},
           q.phase \in {"body", "handler", "closing"},
           stop[c] \notin {"entered", "exchanged"},
           UNCHANGED <<serverVars, script, jobs, out>>,
           conn' = [conn EXCEPT ![c] = q],
           q.req = conn[c].req, q.count = conn[c].count, q.req <= ReqOf(q.taken),
           Clean(out[c]) => ReadTo(q, out[c]),
           Knows(q, script[c])
    PROVE  ServerInv'
<1>1. out' = [out EXCEPT ![c] = out[c]]
  BY DEF ServerInv
<1>2. Counted(q, out[c]) /\ Announces(q, out[c])
  BY OfConnection, ServerAssumption DEF AnswersOK, Counted, Announces, Answering
<1>3. AnswersOK(q, out[c])
  BY <1>2, OfConnection DEF AnswersOK
<1>4. svr = "open" => Whole(q, out[c])
  BY OfConnection DEF Whole
<1> QED BY <1>1, <1>3, <1>4, OneConnection

LEMMA KeepAliveEndsKeeps == ASSUME ServerInv, NEW c \in Job, KeepAliveEnds(c) PROVE ServerInv'
<1> DEFINE q == [conn[c] EXCEPT !.phase = "closing"]
<1>1. /\ conn[c].phase = "keep" /\ UNCHANGED <<serverVars, script, jobs, out>>
      /\ conn' = [conn EXCEPT ![c] = q]
  BY DEF KeepAliveEnds, poolVars
<1>2. q \in Connection
  BY OfConnection DEF Connection
<1>3. /\ q.phase = "closing" /\ q.req = conn[c].req /\ q.count = conn[c].count
      /\ q.taken = conn[c].taken
  BY OfConnection DEF Connection
<1> HIDE DEF q
<1>4. ReadTo(q, out[c]) /\ Knows(q, script[c]) /\ q.req <= ReqOf(q.taken)
  BY <1>3, OfConnection DEF ReadTo, Knows, AnswersOK
<1>5. stop[c] \notin {"entered", "exchanged"}
  BY <1>1, OfConnection
<1> QED BY <1>1, <1>2, <1>3, <1>4, <1>5, ReadsKeep

\* read_headers() and what follows it.
LEMMA TakeHeadKeeps == ASSUME ServerInv, NEW c \in Job, TakeHead(c) PROVE ServerInv'
<1> DEFINE n == conn[c].taken
           k == script[c][conn[c].req]
           r == [conn[c] EXCEPT !.taken = After(c, n), !.last = k \in {"close", "old"}]
<1>1. /\ conn[c].phase = "head" /\ UNCHANGED <<serverVars, script, jobs>>
      /\ n \in Nat /\ k # "badline" /\ conn[c] \in Connection
      /\ conn[c].req <= ReqOf(n)
      /\ stop[c] \notin {"entered", "exchanged"}
  BY OfConnection DEF TakeHead, poolVars, Knows, AnswersOK
<1>2. /\ Clean(out[c]) => n = 3 * Len(out[c]) + 1 /\ conn[c].req = Len(out[c]) + 1
      /\ Len(out[c]) \in Nat /\ conn[c].req \in Nat
  BY <1>1, OfConnection DEF AnswersOK, ReadTo
<1> HIDE DEF n
<1>3. /\ After(c, n) \in Nat /\ ReqOf(n) \in Nat /\ ReqOf(After(c, n)) \in Nat
      /\ ReqOf(n) <= ReqOf(After(c, n))
  BY <1>1, Pieces
<1>4. Clean(out[c]) => After(c, n) = IF k = "post" \/ k = "badrange" THEN 3 * Len(out[c]) + 2
                                                                     ELSE 3 * Len(out[c]) + 3
  <2> SUFFICES ASSUME Clean(out[c])
               PROVE  After(c, n) = IF HasBody(k) THEN 3 * Len(out[c]) + 2
                                                  ELSE 3 * Len(out[c]) + 3
    BY <1>1 DEF HasBody
  <2>1. n = 3 * Len(out[c]) + 1 /\ k = script[c][Len(out[c]) + 1] /\ Len(out[c]) \in Nat
    BY <1>2
  <2> HIDE DEF k
  <2> QED BY <1>1, <2>1, Pieces
<1>5. r \in Connection
  <2> DEFINE b == k \in {"close", "old"}
  <2>1. b \in BOOLEAN
    OBVIOUS
  <2> HIDE DEF b
  <2>2. [conn[c] EXCEPT !.taken = After(c, n), !.last = b] \in Connection
    BY <1>1, <1>3, <2>1 DEF Connection
  <2> QED BY <2>2 DEF b
<1>6. /\ r.phase = "head" /\ r.taken = After(c, n) /\ r.req = conn[c].req
      /\ r.count = conn[c].count /\ r.last = (k \in {"close", "old"})
  BY <1>1, <1>3 DEF Connection
<1>7. conn[c].req <= ReqOf(After(c, n))
  BY <1>1, <1>2, <1>3
<1>8. CASE k = "badrange"
  <2>0. Writes(c, conn[c].req, 416, FALSE, TRUE) /\ Continue(c, r, TRUE)
    BY <1>8 DEF TakeHead, n
  <2>1. PICK lost \in BOOLEAN :
            out' = [out EXCEPT ![c] = Append(@, Written(c, conn[c].req, 416, FALSE, TRUE, lost))]
    BY <2>0 DEF Writes
  <2> DEFINE a == Written(c, conn[c].req, 416, FALSE, TRUE, lost)
             close == conn[c].count = 1 \/ FALSE
             whole == TRUE /\ ~lost
  <2>2. /\ a.req = r.req /\ (a.whole \/ a.lost) /\ a.status = 416
        /\ a.close <=> conn[c].count = 1
        /\ out' = [out EXCEPT ![c] = Append(@, a)]
    BY <1>6, <2>1 DEF Written
  <2>6. a \in Answer
    <3>1. close \in BOOLEAN /\ whole \in BOOLEAN /\ conn[c].req \in Nat
      BY RequestNumber
    <3>2. a = [req |-> conn[c].req, status |-> 416, close |-> close, whole |-> whole,
               lost |-> lost]
      BY DEF Written
    <3> HIDE DEF a, close, whole
    <3> QED BY <2>1, <3>1, <3>2, OneAnswer
  <2> HIDE DEF r, a
  <2>3. conn[c].req <= r.req /\ r.req <= ReqOf(r.taken)
    BY <1>2, <1>6, <1>7
  <2>4. Clean(out[c]) => r.req = Len(out[c]) + 1
    BY <1>2, <1>6
  <2> QED BY <1>1, <1>5, <1>6, <2>0, <2>2, <2>3, <2>4, <2>6, AnswerKeeps
<1>9. CASE k # "badrange"
  <2> DEFINE q == [r EXCEPT !.phase = IF k = "post" THEN "body" ELSE "handler"]
  <2>1. conn' = [conn EXCEPT ![c] = q] /\ out' = out
    BY <1>9 DEF TakeHead, n
  <2>2. q \in Connection
    BY <1>5 DEF Connection
  <2>3. /\ q.phase = IF k = "post" THEN "body" ELSE "handler"
        /\ q.taken = r.taken /\ q.req = r.req /\ q.count = r.count /\ q.last = r.last
    BY <1>5 DEF Connection
  <2> HIDE DEF q, r
  <2>4. Clean(out[c]) => ReadTo(q, out[c])
    BY <1>2, <1>4, <1>6, <1>9, <2>3 DEF ReadTo
  <2>5. Knows(q, script[c])
    BY <1>6, <2>3 DEF Knows
  <2> QED BY <1>1, <1>6, <1>7, <2>1, <2>2, <2>3, <2>4, <2>5, ReadsKeep
<1> QED BY <1>8, <1>9

\* read_content().
LEMMA TakeBodyKeeps == ASSUME ServerInv, NEW c \in Job, TakeBody(c) PROVE ServerInv'
<1> DEFINE n == conn[c].taken
           q == [conn[c] EXCEPT !.taken = After(c, n), !.phase = "handler"]
<1>0. conn' = [conn EXCEPT ![c] = q]
  BY DEF TakeBody
<1>1. /\ conn[c].phase = "body" /\ UNCHANGED <<serverVars, script, jobs, out>>
      /\ n \in Nat /\ script[c][conn[c].req] = "post" /\ conn[c] \in Connection
      /\ conn[c].req <= ReqOf(n) /\ conn[c].req \in Nat
      /\ stop[c] \notin {"entered", "exchanged"}
  BY OfConnection DEF TakeBody, poolVars, Knows, AnswersOK
<1>2. /\ Clean(out[c]) => n = 3 * Len(out[c]) + 2 /\ conn[c].req = Len(out[c]) + 1
      /\ Len(out[c]) \in Nat
  BY <1>1, OfConnection DEF AnswersOK, ReadTo
<1> HIDE DEF n
<1>3. /\ After(c, n) \in Nat /\ ReqOf(n) \in Nat /\ ReqOf(After(c, n)) \in Nat
      /\ ReqOf(n) <= ReqOf(After(c, n))
      /\ Clean(out[c]) => After(c, n) = 3 * Len(out[c]) + 3
  <2>1. n \in Nat
    BY <1>1
  <2>2. Clean(out[c]) => After(c, n) = 3 * Len(out[c]) + 3
    BY <1>2, <2>1, BodyPiece
  <2> QED BY <1>1, <2>2, Pieces
<1>4. q \in Connection
  BY <1>1, <1>3 DEF Connection
<1>5. /\ q.phase = "handler" /\ q.taken = After(c, n) /\ q.req = conn[c].req
      /\ q.count = conn[c].count
  BY <1>1, <1>3 DEF Connection
<1> HIDE DEF q
<1>6. Clean(out[c]) => ReadTo(q, out[c])
  BY <1>2, <1>3, <1>5 DEF ReadTo
<1>7. Knows(q, script[c]) /\ q.req <= ReqOf(q.taken)
  BY <1>1, <1>3, <1>5 DEF Knows
<1> QED BY <1>0, <1>1, <1>4, <1>5, <1>6, <1>7, ReadsKeep

\* A request that is cut off, one whose handler has returned or thrown, and the one that
\* has stopped the server: the answer goes out and the record stays as it was read.
LEMMA RepliesKeep ==
    ASSUME ServerInv, NEW c \in Job,
           conn[c].phase \in {"head", "body", "handler", "reply"},
           stop[c] \notin {"entered", "exchanged"},
           UNCHANGED <<serverVars, script, jobs>>,
           NEW a \in Answer, out' = [out EXCEPT ![c] = Append(@, a)],
           a.req = conn[c].req, a.whole \/ a.lost, Continue(c, conn[c], TRUE),
           conn[c].count = 1 => a.close,
           a.close /\ a.status # 400 => conn[c].count = 1 \/ conn[c].last,
           a.status \notin {400, 416} => conn[c].phase \in {"handler", "reply"}
    PROVE  ServerInv'
<1>1. /\ conn[c] \in Connection /\ conn[c].req \in Nat /\ conn[c].req <= ReqOf(conn[c].taken)
      /\ Clean(out[c]) => conn[c].req = Len(out[c]) + 1
      /\ Clean(out[c]) /\ conn[c].phase \in {"handler", "reply"} =>
             conn[c].taken = 3 * Len(out[c]) + 3
  BY OfConnection DEF AnswersOK, ReadTo
<1>2. conn[c].req <= conn[c].req
  BY <1>1
<1>3. conn[c].phase \in {"keep", "head", "body", "handler", "reply"}
  OBVIOUS
<1>4. Clean(out[c]) /\ a.status \notin {400, 416} => conn[c].taken = 3 * Len(out[c]) + 3
  BY <1>1
<1> DEFINE r == conn[c]
<1>5. /\ r \in Connection /\ r.count = conn[c].count /\ a.req = r.req
      /\ conn[c].req <= r.req /\ r.req <= ReqOf(r.taken)
      /\ Continue(c, r, TRUE)
  BY <1>1, <1>2
<1>6. a.close /\ a.status # 400 => conn[c].count = 1 \/ r.last
  OBVIOUS
<1>7. /\ Clean(out[c]) => r.req = Len(out[c]) + 1
      /\ Clean(out[c]) /\ a.status \notin {400, 416} => r.taken = 3 * Len(out[c]) + 3
  BY <1>1, <1>4
<1> HIDE DEF r
<1> QED BY <1>3, <1>5, <1>6, <1>7, AnswerKeeps

LEMMA HeadCutKeeps == ASSUME ServerInv, NEW c \in Job, HeadCut(c) PROVE ServerInv'
<1>1. /\ stop[c] \notin {"entered", "exchanged"} /\ conn[c].phase = "head"
      /\ UNCHANGED <<serverVars, script, jobs>> /\ Continue(c, conn[c], TRUE)
      /\ \/ Writes(c, conn[c].req, 400, FALSE, TRUE)
         \/ Writes(c, conn[c].req, 400, Asked(c), TRUE)
  BY OfConnection DEF HeadCut, poolVars
<1>7. PICK asked \in BOOLEAN : Writes(c, conn[c].req, 400, asked, TRUE)
  <2>1. CASE Writes(c, conn[c].req, 400, FALSE, TRUE)
    BY <2>1
  <2>2. CASE Writes(c, conn[c].req, 400, Asked(c), TRUE)
    <3>1. Asked(c) \in BOOLEAN
      BY DEF Asked
    <3> QED BY <2>2, <3>1
  <2> QED BY <1>1, <2>1, <2>2
<1>2. PICK lost \in BOOLEAN :
          out' = [out EXCEPT ![c] = Append(@, Written(c, conn[c].req, 400, asked, TRUE, lost))]
  BY <1>7 DEF Writes
<1> DEFINE a == Written(c, conn[c].req, 400, asked, TRUE, lost)
           close == conn[c].count = 1 \/ asked
           whole == TRUE /\ ~lost
<1>3. /\ a.req = conn[c].req /\ (a.whole \/ a.lost) /\ a.status = 400 /\ a.close = close
      /\ out' = [out EXCEPT ![c] = Append(@, a)]
      /\ a = [req |-> conn[c].req, status |-> 400, close |-> close, whole |-> whole,
              lost |-> lost]
  BY <1>2 DEF Written
<1>4. close \in BOOLEAN /\ whole \in BOOLEAN /\ (close <=> (conn[c].count = 1 \/ asked))
  OBVIOUS
<1> HIDE DEF a, close, whole
<1>5. a \in Answer
  BY <1>2, <1>3, <1>4, RequestNumber, OneAnswer
<1>6. /\ conn[c].count = 1 => a.close
      /\ a.close /\ a.status # 400 => conn[c].count = 1 \/ conn[c].last
      /\ a.status \notin {400, 416} => conn[c].phase \in {"handler", "reply"}
  BY <1>1, <1>3, <1>4
<1> QED BY <1>1, <1>3, <1>5, <1>6, RepliesKeep

LEMMA BodyCutKeeps == ASSUME ServerInv, NEW c \in Job, BodyCut(c) PROVE ServerInv'
<1>1. /\ stop[c] \notin {"entered", "exchanged"} /\ conn[c].phase = "body"
      /\ UNCHANGED <<serverVars, script, jobs>> /\ Continue(c, conn[c], TRUE)
      /\ Writes(c, conn[c].req, 400, FALSE, TRUE)
  BY OfConnection DEF BodyCut, poolVars
<1>2. PICK lost \in BOOLEAN :
          out' = [out EXCEPT ![c] = Append(@, Written(c, conn[c].req, 400, FALSE, TRUE, lost))]
  BY <1>1 DEF Writes
<1> DEFINE a == Written(c, conn[c].req, 400, FALSE, TRUE, lost)
           close == conn[c].count = 1 \/ FALSE
           whole == TRUE /\ ~lost
<1>3. /\ a.req = conn[c].req /\ (a.whole \/ a.lost) /\ a.status = 400 /\ a.close = close
      /\ out' = [out EXCEPT ![c] = Append(@, a)]
      /\ a = [req |-> conn[c].req, status |-> 400, close |-> close, whole |-> whole,
              lost |-> lost]
  BY <1>2 DEF Written
<1>4. close \in BOOLEAN /\ whole \in BOOLEAN /\ (close <=> (conn[c].count = 1 \/ FALSE))
  OBVIOUS
<1> HIDE DEF a, close, whole
<1>5. a \in Answer
  BY <1>2, <1>3, <1>4, RequestNumber, OneAnswer
<1>6. /\ conn[c].count = 1 => a.close
      /\ a.close /\ a.status # 400 => conn[c].count = 1 \/ conn[c].last
      /\ a.status \notin {400, 416} => conn[c].phase \in {"handler", "reply"}
  BY <1>1, <1>3, <1>4
<1> QED BY <1>1, <1>3, <1>5, <1>6, RepliesKeep

LEMMA ReplyKeeps == ASSUME ServerInv, NEW c \in Job, Reply(c) PROVE ServerInv'
<1>1. /\ stop[c] \notin {"entered", "exchanged"} /\ conn[c].phase = "reply"
      /\ UNCHANGED <<serverVars, script, jobs>> /\ Continue(c, conn[c], TRUE)
      /\ Writes(c, conn[c].req, 200, FALSE, TRUE)
  BY OfConnection DEF Reply, poolVars
<1>2. PICK lost \in BOOLEAN :
          out' = [out EXCEPT ![c] = Append(@, Written(c, conn[c].req, 200, FALSE, TRUE, lost))]
  BY <1>1 DEF Writes
<1> DEFINE a == Written(c, conn[c].req, 200, FALSE, TRUE, lost)
           close == conn[c].count = 1 \/ FALSE
           whole == TRUE /\ ~lost
<1>3. /\ a.req = conn[c].req /\ (a.whole \/ a.lost) /\ a.status = 200 /\ a.close = close
      /\ out' = [out EXCEPT ![c] = Append(@, a)]
      /\ a = [req |-> conn[c].req, status |-> 200, close |-> close, whole |-> whole,
              lost |-> lost]
  BY <1>2 DEF Written
<1>4. close \in BOOLEAN /\ whole \in BOOLEAN /\ (close <=> (conn[c].count = 1 \/ FALSE))
  OBVIOUS
<1> HIDE DEF a, close, whole
<1>5. a \in Answer
  BY <1>2, <1>3, <1>4, RequestNumber, OneAnswer
<1>6. /\ conn[c].count = 1 => a.close
      /\ a.close /\ a.status # 400 => conn[c].count = 1 \/ conn[c].last
      /\ a.status \notin {400, 416} => conn[c].phase \in {"handler", "reply"}
  BY <1>1, <1>3, <1>4
<1> QED BY <1>1, <1>3, <1>5, <1>6, RepliesKeep

\* An answer whose body a content provider writes is begun.
LEMMA StreamBegins ==
    ASSUME ServerInv, NEW c \in Job, conn[c].phase = "handler",
           stop[c] \notin {"entered", "exchanged"},
           UNCHANGED <<serverVars, script, jobs>>,
           Writes(c, conn[c].req, 200, FALSE, FALSE),
           conn' = [conn EXCEPT ![c].phase = "stream", ![c].left = Chunks]
    PROVE  ServerInv'
<1>3. PICK lost \in BOOLEAN :
          out' = [out EXCEPT ![c] = Append(@, Written(c, conn[c].req, 200, FALSE, FALSE, lost))]
  BY DEF Writes
<1> DEFINE a == Written(c, conn[c].req, 200, FALSE, FALSE, lost)
           close == conn[c].count = 1 \/ FALSE
           whole == FALSE /\ ~lost
<1>15. /\ a.req = conn[c].req /\ a.status = 200
       /\ a.close <=> conn[c].count = 1
  BY DEF Written
<1>16. out' = [out EXCEPT ![c] = Append(@, a)]
  BY <1>3
<1>17. a \in Answer
  <2>1. close \in BOOLEAN /\ whole \in BOOLEAN /\ conn[c].req \in Nat
    BY RequestNumber
  <2>2. a = [req |-> conn[c].req, status |-> 200, close |-> close, whole |-> whole,
             lost |-> lost]
    BY DEF Written
  <2> HIDE DEF a, close, whole
  <2> QED BY <1>3, <2>1, <2>2, OneAnswer
<1> HIDE DEF a
<1> DEFINE q == [conn[c] EXCEPT !.phase = "stream", !.left = Chunks]
           o == Append(out[c], a)
<1>1. conn' = [conn EXCEPT ![c] = q] /\ out' = [out EXCEPT ![c] = o]
  BY <1>16
<1>2. /\ conn[c] \in Connection /\ out[c] \in Seq(Answer)
      /\ Counted(conn[c], out[c]) /\ Announces(conn[c], out[c]) /\ Ordered(out[c])
      /\ \A i \in 1 .. Len(out[c]) : out[c][i].req <= conn[c].req
      /\ conn[c].req <= ReqOf(conn[c].taken) /\ conn[c].req \in Nat
      /\ conn[c].count \in 0 .. MaxCount /\ MaxCount \in Nat
      /\ Clean(out[c]) => conn[c].req = Len(out[c]) + 1 /\ conn[c].taken = 3 * Len(out[c]) + 3
  BY OfConnection, ServerAssumption DEF AnswersOK, ReadTo
<1>4. q \in Connection
  <2>1. Chunks \in 0 .. Chunks
    BY ServerAssumption
  <2> QED BY <1>2, <2>1 DEF Connection
<1>5. /\ q.phase = "stream" /\ q.taken = conn[c].taken /\ q.req = conn[c].req
      /\ q.count = conn[c].count
  BY <1>2 DEF Connection
<1> HIDE DEF q
<1>6. /\ o \in Seq(Answer) /\ Len(o) = Len(out[c]) + 1 /\ Len(out[c]) \in Nat
      /\ o[Len(out[c]) + 1] = a
      /\ \A i \in 1 .. Len(out[c]) : o[i] = out[c][i] /\ out[c][i] \in Answer
  BY <1>2, <1>17, AppendAnswer
<1>7. /\ Ordered(o) /\ \A i \in 1 .. Len(o) : o[i].req <= a.req
      /\ Clean(o) => Clean(out[c])
  <2> DEFINE s == out[c]
  <2>1. /\ s \in Seq(Answer) /\ Ordered(s) /\ \A i \in 1 .. Len(s) : s[i].req <= a.req
        /\ Clean(s) => a.req = Len(s) + 1
    BY <1>2, <1>15
  <2>2. o = Append(s, a)
    BY DEF o
  <2> HIDE DEF s
  <2>3. /\ Ordered(o) /\ \A i \in 1 .. Len(o) : o[i].req <= a.req
        /\ Clean(o) => Clean(s)
    BY <1>17, <2>1, <2>2, AppendOrdered
  <2> QED BY <2>3 DEF s
<1> HIDE DEF o
<1>8. Clean(o) => ReadTo(q, o)
  <2>1. 3 * Len(o) = 3 * Len(out[c]) + 3
    BY <1>6
  <2> QED BY <1>2, <1>5, <1>7, <2>1 DEF ReadTo
<1>9. /\ Len(out[c]) = MaxCount - conn[c].count /\ conn[c].count >= 1
      /\ \A i \in 1 .. Len(out[c]) : o[i].close => o[i].status = 400
  BY <1>2, <1>6 DEF Counted, Announces, Answering
<1>10. Counted(q, o)
  BY <1>2, <1>5, <1>6, <1>9 DEF Counted, Answering
<1>11. Announces(q, o)
  <2> SUFFICES ASSUME NEW i \in 1 .. Len(o)
               PROVE  /\ i = MaxCount => o[i].close
                      /\ o[i].close /\ o[i].status # 400 =>
                            /\ i = Len(o) /\ q.phase \notin Answering
                            /\ q.phase = "stream" => q.count = 1
    BY DEF Announces
  <2>1. CASE i = Len(out[c]) + 1
    BY <1>2, <1>15, <1>5, <1>6, <1>9, <2>1 DEF Answering
  <2>2. CASE i \in 1 .. Len(out[c])
    BY <1>2, <1>6, <1>9, <2>2
  <2> QED BY <1>6, <2>1, <2>2
<1>12. AnswersOK(q, o)
  <2>1. o # <<>> /\ o[Len(o)].status = 200
    BY <1>15, <1>6
  <2> QED BY <1>2, <1>15, <1>4, <1>5, <1>6, <1>7, <1>8, <1>10, <1>11, <2>1 DEF AnswersOK
<1>13. Knows(q, script[c])
  BY <1>5 DEF Knows
<1>14. svr = "open" => Whole(q, o)
  <2> SUFFICES ASSUME svr = "open" PROVE Whole(q, o)
    OBVIOUS
  <2>1. \A i \in 1 .. Len(out[c]) : o[i].whole \/ o[i].lost
    BY <1>6, OfConnection DEF Whole
  <2> QED BY <1>5, <1>6, <2>1 DEF Whole
<1> QED BY <1>1, <1>12, <1>13, <1>14, OneConnection

\* dispatch_request().
LEMMA HandleKeeps == ASSUME ServerInv, NEW c \in Job, Handle(c) PROVE ServerInv'
<1> DEFINE k == script[c][conn[c].req]
<1>1. /\ conn[c].phase = "handler" /\ UNCHANGED <<serverVars, script, jobs>> /\ k # "stop"
      /\ k = "close" => conn[c].last
  BY OfConnection DEF Handle, poolVars, Knows
<1>2. stop[c] \notin {"entered", "exchanged"}
  BY <1>1, OfConnection
<1>3. CASE k = "stream"
  <2>1. /\ Writes(c, conn[c].req, 200, FALSE, FALSE)
        /\ conn' = [conn EXCEPT ![c].phase = "stream", ![c].left = Chunks]
    BY <1>3 DEF Handle
  <2> QED BY <1>1, <1>2, <2>1, StreamBegins
<1>4. CASE k = "throw"
  <2>0. Writes(c, conn[c].req, 500, FALSE, TRUE) /\ Continue(c, conn[c], TRUE)
    BY <1>4 DEF Handle
  <2>2. PICK lost \in BOOLEAN :
            out' = [out EXCEPT ![c] = Append(@, Written(c, conn[c].req, 500, FALSE, TRUE, lost))]
    BY <2>0 DEF Writes
  <2> DEFINE a == Written(c, conn[c].req, 500, FALSE, TRUE, lost)
             close == conn[c].count = 1 \/ FALSE
             whole == TRUE /\ ~lost
  <2>3. /\ a.req = conn[c].req /\ (a.whole \/ a.lost) /\ a.status = 500 /\ a.close = close
        /\ out' = [out EXCEPT ![c] = Append(@, a)]
        /\ a = [req |-> conn[c].req, status |-> 500, close |-> close, whole |-> whole,
                lost |-> lost]
    BY <2>2 DEF Written
  <2>4. close \in BOOLEAN /\ whole \in BOOLEAN /\ (close <=> (conn[c].count = 1 \/ FALSE))
    OBVIOUS
  <2> HIDE DEF a, close, whole
  <2>5. a \in Answer
    BY <2>2, <2>3, <2>4, RequestNumber, OneAnswer
  <2>6. /\ conn[c].count = 1 => a.close
        /\ a.close /\ a.status # 400 => conn[c].count = 1 \/ conn[c].last
        /\ a.status \notin {400, 416} => conn[c].phase \in {"handler", "reply"}
    BY <1>1, <2>3, <2>4
  <2> HIDE DEF k
  <2> QED BY <1>1, <1>2, <2>0, <2>3, <2>5, <2>6, RepliesKeep
<1>5. CASE k \notin {"stream", "throw"}
  <2> DEFINE asked == k = "close"
  <2>0. Writes(c, conn[c].req, 200, asked, TRUE) /\ Continue(c, conn[c], TRUE)
    BY <1>1, <1>5 DEF Handle, Asked
  <2>1. asked \in BOOLEAN /\ (asked => conn[c].last)
    BY <1>1
  <2>2. PICK lost \in BOOLEAN :
            out' = [out EXCEPT ![c] = Append(@, Written(c, conn[c].req, 200, asked, TRUE, lost))]
    BY <2>0 DEF Writes
  <2> DEFINE a == Written(c, conn[c].req, 200, asked, TRUE, lost)
             close == conn[c].count = 1 \/ asked
             whole == TRUE /\ ~lost
  <2>3. /\ a.req = conn[c].req /\ (a.whole \/ a.lost) /\ a.status = 200 /\ a.close = close
        /\ out' = [out EXCEPT ![c] = Append(@, a)]
        /\ a = [req |-> conn[c].req, status |-> 200, close |-> close, whole |-> whole,
                lost |-> lost]
    BY <2>2 DEF Written
  <2>4. close \in BOOLEAN /\ whole \in BOOLEAN /\ (close <=> (conn[c].count = 1 \/ asked))
    OBVIOUS
  <2> HIDE DEF a, close, whole
  <2>5. a \in Answer
    BY <2>2, <2>3, <2>4, RequestNumber, OneAnswer
  <2>6. /\ conn[c].count = 1 => a.close
        /\ a.close /\ a.status # 400 => conn[c].count = 1 \/ conn[c].last
        /\ a.status \notin {400, 416} => conn[c].phase \in {"handler", "reply"}
    BY <1>1, <2>1, <2>3, <2>4
  <2> HIDE DEF k, asked
  <2> QED BY <1>1, <1>2, <2>0, <2>3, <2>5, <2>6, RepliesKeep
<1> QED BY <1>3, <1>4, <1>5

\* A streamed answer is over: written to its end, cut, or failed (write_content).
LEMMA StreamOver ==
    ASSUME ServerInv, NEW c \in Job, conn[c].phase = "stream",
           UNCHANGED <<serverVars, script, jobs>>,
           NEW ok \in BOOLEAN, NEW o \in Seq(Answer), Continue(c, conn[c], ok),
           out' = [out EXCEPT ![c] = o],
           Len(o) = Len(out[c]),
           \A i \in 1 .. Len(o) : /\ o[i].req = out[c][i].req
                                  /\ o[i].status = out[c][i].status
                                  /\ o[i].close = out[c][i].close
                                  /\ o[i].lost = out[c][i].lost
                                  /\ i # Len(o) => o[i].whole = out[c][i].whole,
           svr = "open" => ~ok \/ o[Len(o)].whole \/ o[Len(o)].lost
    PROVE  ServerInv'
<1> DEFINE r == conn[c]
           q == Went(r, ok)
<1>1. conn' = [conn EXCEPT ![c] = q]
  BY DEF Continue, Went
<1>2. /\ r \in Connection /\ out[c] \in Seq(Answer) /\ r.phase = "stream"
      /\ Counted(r, out[c]) /\ Announces(r, out[c]) /\ Ordered(out[c])
      /\ \A i \in 1 .. Len(out[c]) : out[c][i].req <= r.req
      /\ r.req <= ReqOf(r.taken)
      /\ r.count \in 0 .. MaxCount /\ r.count >= 1 /\ MaxCount \in Nat
      /\ Clean(out[c]) => r.taken = 3 * Len(out[c])
      /\ Len(out[c]) \in Nat
      /\ stop[c] \notin {"entered", "exchanged"}
  BY OfConnection, ServerAssumption DEF AnswersOK, ReadTo
<1>3. svr = "open" =>
          \A i \in 1 .. Len(out[c]) : ~out[c][i].whole /\ ~out[c][i].lost => i = Len(out[c])
  BY OfConnection DEF Whole
<1> HIDE DEF r
<1>4. /\ q \in Connection /\ q.req = r.req /\ q.taken = r.taken
      /\ \/ q.phase = "keep" /\ q.count = r.count - 1 /\ ok /\ r.count > 1
         \/ q.phase = "closing" /\ q.count = r.count
  BY <1>2, WentOn
<1> HIDE DEF q
<1>5. Ordered(o) /\ (Clean(o) => Clean(out[c]))
  <2> DEFINE p == out[c]
  <2>1. /\ Len(o) \in Nat /\ Len(o) = Len(p) /\ Ordered(p)
        /\ \A i \in 1 .. Len(o) : o[i].req = p[i].req /\ o[i].status = p[i].status
    BY <1>2
  <2> HIDE DEF p
  <2>2. Ordered(o)
    <3> SUFFICES ASSUME NEW i \in 1 .. Len(o)
                 PROVE  /\ (\A j \in 1 .. i - 1 : o[j].status \notin {400, 416}) => o[i].req = i
                        /\ \A j \in 1 .. i : o[j].req <= o[i].req
      BY DEF Ordered
    <3>1. \A j \in 1 .. i : j \in 1 .. Len(o)
      BY <2>1
    <3>2. /\ (\A j \in 1 .. i - 1 : p[j].status \notin {400, 416}) => p[i].req = i
          /\ \A j \in 1 .. i : p[j].req <= p[i].req
      BY <2>1 DEF Ordered
    <3>3. \A j \in 1 .. i - 1 : o[j].status = p[j].status
      BY <2>1, <3>1
    <3> QED BY <2>1, <3>1, <3>2, <3>3
  <2>3. Clean(o) => Clean(p)
    BY <2>1 DEF Clean
  <2> QED BY <2>2, <2>3 DEF p
<1>6. Clean(o) => ReadTo(q, o)
  BY <1>2, <1>4, <1>5 DEF ReadTo
<1>7. Counted(q, o)
  <2>1. Len(o) = MaxCount - r.count + 1
    BY <1>2 DEF Counted
  <2>2. CASE q.phase = "keep" /\ q.count = r.count - 1 /\ r.count > 1
    BY <1>2, <2>1, <2>2 DEF Counted, Answering
  <2>3. CASE q.phase = "closing" /\ q.count = r.count
    BY <1>2, <2>1, <2>3 DEF Counted, Answering
  <2> QED BY <1>4, <2>2, <2>3
<1>8. Announces(q, o)
  <2> DEFINE p == out[c]
  <2>1. /\ Len(o) = Len(p) /\ Announces(r, p) /\ r.phase = "stream"
        /\ \A i \in 1 .. Len(o) : o[i].close = p[i].close /\ o[i].status = p[i].status
    BY <1>2
  <2> HIDE DEF p
  <2>2. r.phase \notin Answering /\ q.phase # "stream"
    BY <1>2, <1>4 DEF Answering
  <2>3. ASSUME NEW i \in 1 .. Len(o), o[i].close, o[i].status # 400
        PROVE  i = Len(o) /\ r.count = 1
    BY <2>1, <2>3 DEF Announces
  <2>4. r.count = 1 => q.phase \notin Answering
    BY <1>2, <1>4 DEF Answering
  <2>5. \A i \in 1 .. Len(o) : i = MaxCount => o[i].close
    BY <2>1 DEF Announces
  <2> QED BY <2>2, <2>3, <2>4, <2>5 DEF Announces
<1>9. AnswersOK(q, o)
  BY <1>2, <1>4, <1>5, <1>6, <1>7, <1>8 DEF AnswersOK
<1>10. svr = "open" => Whole(q, o)
  BY <1>3, <1>4 DEF Whole
<1>11. Knows(q, script[c]) /\ conn[c].phase # "queued"
  BY <1>4 DEF Knows
<1> QED BY <1>1, <1>2, <1>9, <1>10, <1>11, OneConnection

LEMMA StreamEndsKeeps == ASSUME ServerInv, NEW c \in Job, StreamEnds(c) PROVE ServerInv'
<1> DEFINE b == conn[c].left = 0 /\ ~out[c][Len(out[c])].lost
           s == out[c]
           o == [s EXCEPT ![Len(s)].whole = b]
<1>1. /\ conn[c].phase = "stream" /\ UNCHANGED <<serverVars, script, jobs>>
      /\ Continue(c, conn[c], TRUE)
      /\ out' = [out EXCEPT ![c] = o]
      /\ svr = "open" => b \/ s[Len(s)].lost
  BY DEF StreamEnds, poolVars, ServerInv
<1>2. s \in Seq(Answer) /\ Len(s) \in 1 .. Len(s) /\ b \in BOOLEAN
  <2>1. s \in Seq(Answer) /\ s # <<>>
    BY <1>1, OfConnection DEF AnswersOK
  <2> HIDE DEF s
  <2> QED BY <2>1
<1> HIDE DEF s, b
<1> DEFINE a == [s[Len(s)] EXCEPT !.whole = b]
<1>3. /\ a \in Answer /\ a.req = s[Len(s)].req /\ a.status = s[Len(s)].status
      /\ a.close = s[Len(s)].close /\ a.whole = b /\ a.lost = s[Len(s)].lost
  <2> DEFINE e == s[Len(s)]
  <2>1. e \in Answer /\ b \in BOOLEAN /\ a = [e EXCEPT !.whole = b]
    BY <1>2
  <2> HIDE DEF e, a
  <2>2. a \in Answer
    BY <2>1 DEF Answer
  <2>3. a.req = e.req /\ a.status = e.status
    BY <2>1 DEF Answer
  <2>4. a.close = e.close /\ a.lost = e.lost
    BY <2>1 DEF Answer
  <2>5. a.whole = b
    BY <2>1 DEF Answer
  <2> QED BY <2>2, <2>3, <2>4, <2>5 DEF e
<1>4. o = [s EXCEPT ![Len(s)] = a]
  OBVIOUS
<1> HIDE DEF a
<1>5. /\ o \in Seq(Answer) /\ Len(o) = Len(s) /\ o[Len(s)] = a
      /\ \A i \in 1 .. Len(s) : i # Len(s) => o[i] = s[i]
  BY <1>2, <1>3, <1>4
<1> HIDE DEF o
<1>6. /\ Len(o) = Len(out[c])
      /\ \A i \in 1 .. Len(o) : /\ o[i].req = out[c][i].req
                                /\ o[i].status = out[c][i].status
                                /\ o[i].close = out[c][i].close
                                /\ o[i].lost = out[c][i].lost
                                /\ i # Len(o) => o[i].whole = out[c][i].whole
  BY <1>3, <1>5 DEF s
<1>7. svr = "open" => o[Len(o)].whole \/ o[Len(o)].lost
  BY <1>1, <1>3, <1>5
<1> QED BY <1>1, <1>5, <1>6, <1>7, StreamOver

LEMMA StreamFailsKeeps == ASSUME ServerInv, NEW c \in Job, StreamFails(c) PROVE ServerInv'
<1>1. /\ conn[c].phase = "stream" /\ UNCHANGED <<serverVars, script, jobs>>
      /\ Continue(c, conn[c], FALSE) /\ out' = [out EXCEPT ![c] = out[c]]
      /\ out[c] \in Seq(Answer)
  BY OfConnection DEF StreamFails, poolVars, ServerInv
<1> DEFINE o == out[c]
<1>2. /\ o \in Seq(Answer) /\ Len(o) = Len(out[c])
      /\ \A i \in 1 .. Len(o) : /\ o[i].req = out[c][i].req
                                /\ o[i].status = out[c][i].status
                                /\ o[i].close = out[c][i].close
                                /\ o[i].lost = out[c][i].lost
                                /\ i # Len(o) => o[i].whole = out[c][i].whole
      /\ out' = [out EXCEPT ![c] = o]
  BY <1>1
<1> HIDE DEF o
<1> QED BY <1>1, <1>2, StreamOver

\* Counters that no answer depends on: a call of the provider, a piece a client sends.
LEMMA CounterKeeps ==
    ASSUME ServerInv, NEW c \in Job, NEW q \in Connection, conn' = [conn EXCEPT ![c] = q],
           UNCHANGED <<serverVars, script, jobs, out>>,
           q.phase = conn[c].phase, q.taken = conn[c].taken, q.req = conn[c].req,
           q.last = conn[c].last, q.count = conn[c].count
    PROVE  ServerInv'
<1>1. out' = [out EXCEPT ![c] = out[c]]
  BY DEF ServerInv
<1>2. /\ AnswersOK(conn[c], out[c]) /\ Knows(conn[c], script[c])
      /\ svr = "open" => Whole(conn[c], out[c])
      /\ stop[c] \in {"entered", "exchanged"} =>
             conn[c].phase = "handler" /\ script[c][conn[c].req] = "stop"
  BY OfConnection
<1>3. AnswersOK(q, out[c])
  BY <1>2 DEF AnswersOK, ReadTo, Counted, Announces
<1>4. Knows(q, script[c]) /\ (svr = "open" => Whole(q, out[c]))
  BY <1>2 DEF Knows, Whole
<1> QED BY <1>1, <1>2, <1>3, <1>4, OneConnection

LEMMA ChunkKeeps == ASSUME ServerInv, NEW c \in Job, Chunk(c) PROVE ServerInv'
<1> DEFINE m == conn[c].left - 1
           q == [conn[c] EXCEPT !.left = m]
<1>1. /\ UNCHANGED <<serverVars, script, jobs, out>> /\ conn' = [conn EXCEPT ![c] = q]
      /\ conn[c].left > 0 /\ conn[c] \in Connection
  BY OfConnection DEF Chunk, poolVars
<1>2. m \in 0 .. Chunks
  BY <1>1, ServerAssumption DEF Connection
<1> HIDE DEF m
<1>3. q \in Connection
  BY <1>1, <1>2 DEF Connection
<1>4. /\ q.phase = conn[c].phase /\ q.taken = conn[c].taken /\ q.req = conn[c].req
      /\ q.last = conn[c].last /\ q.count = conn[c].count
  BY <1>1 DEF Connection
<1> HIDE DEF q
<1> QED BY <1>1, <1>3, <1>4, CounterKeeps

LEMMA SendKeeps == ASSUME ServerInv, NEW c \in Job, Send(c) PROVE ServerInv'
<1> DEFINE m == After(c, conn[c].sent)
           q == [conn[c] EXCEPT !.sent = m]
<1>1. /\ UNCHANGED <<serverVars, script, jobs, out>> /\ conn' = [conn EXCEPT ![c] = q]
      /\ conn[c] \in Connection
  BY OfConnection DEF Send, poolVars
<1>2. m \in Nat
  <2>1. conn[c].sent \in Nat
    BY <1>1 DEF Connection
  <2> QED BY <2>1 DEF After
<1> HIDE DEF m
<1>3. q \in Connection
  BY <1>1, <1>2 DEF Connection
<1>4. /\ q.phase = conn[c].phase /\ q.taken = conn[c].taken /\ q.req = conn[c].req
      /\ q.last = conn[c].last /\ q.count = conn[c].count
  BY <1>1 DEF Connection
<1> HIDE DEF q
<1> QED BY <1>1, <1>3, <1>4, CounterKeeps

\* No answer depends on how slow a client is.
LEMMA SlowKeeps ==
    ASSUME ServerInv, NEW c \in Job, Dawdles(c) \/ Hurries(c) PROVE ServerInv'
<1>1. PICK b \in BOOLEAN : conn' = [conn EXCEPT ![c].slow = b]
  BY DEF Dawdles, Hurries
<1> DEFINE q == [conn[c] EXCEPT !.slow = b]
<1>2. /\ UNCHANGED <<serverVars, script, jobs, out>> /\ conn' = [conn EXCEPT ![c] = q]
      /\ conn[c] \in Connection
  BY <1>1, OfConnection DEF Dawdles, Hurries, poolVars
<1>3. q \in Connection
  BY <1>2 DEF Connection
<1>4. /\ q.phase = conn[c].phase /\ q.taken = conn[c].taken /\ q.req = conn[c].req
      /\ q.last = conn[c].last /\ q.count = conn[c].count
  BY <1>2 DEF Connection
<1> HIDE DEF q
<1> QED BY <1>2, <1>3, <1>4, CounterKeeps

\* A step of a client or of a worker inside of a connection keeps the invariant.
LEMMA ServeKeeps ==
    ASSUME ServerInv, NEW c \in Job, Send(c) \/ Dawdles(c) \/ Hurries(c) \/ Serve(c)
    PROVE  ServerInv'
BY TakeLineKeeps, KeepAliveEndsKeeps, TakeHeadKeeps, HeadCutKeeps, TakeBodyKeeps, BodyCutKeeps,
   HandleKeeps, ReplyKeeps, ChunkKeeps, StreamEndsKeeps, StreamFailsKeeps, SendKeeps,
   SlowKeeps DEF Serve

-----------------------------------------------------------------------------
(* stop(), the thread in listen(), and the pool.                               *)

\* The connections through a step of stop(): its handler goes on to its reply, or
\* stays where it is.
LEMMA StopKeepsConnections ==
    ASSUME ServerInv, NEW s \in Stopper \cup Job,
           UNCHANGED <<script, out, jobs>>, svr' = "open" => svr = "open",
           stop' \in [Stopper \cup Job -> {"idle", "entered", "exchanged", "done"}],
           \A u \in (Stopper \cup Job) \ {s} : stop'[u] = stop[u],
           s \in Job => conn[s].phase = "handler" /\ script[s][conn[s].req] = "stop",
           \/ conn' = conn
           \/ s \in Job /\ conn' = [conn EXCEPT ![s].phase = "reply"] /\ stop'[s] = "idle"
    PROVE  /\ conn' \in [Job -> Connection] /\ out' \in [Job -> Seq(Answer)] /\ script' \in Scripts
           /\ \A i \in 1 .. Len(jobs') : conn'[jobs'[i]].phase = "queued"
           /\ \A c \in Job : ConnectionOK(c)'
<1>0. /\ conn \in [Job -> Connection] /\ out' \in [Job -> Seq(Answer)] /\ script' \in Scripts
      /\ \A i \in 1 .. Len(jobs') : conn[jobs'[i]].phase = "queued"
  BY DEF ServerInv
<1>1. ASSUME NEW c \in Job, c # s \/ conn' = conn PROVE ConnectionOK(c)'
  <2>1. conn'[c] = conn[c] /\ out'[c] = out[c] /\ script' = script
    BY <1>0, <1>1
  <2>2. stop'[c] \in {"entered", "exchanged"} =>
            conn[c].phase = "handler" /\ script[c][conn[c].req] = "stop"
    BY <1>1, OfConnection
  <2> QED BY <2>1, <2>2, OfConnection DEF ConnectionOK
<1>2. CASE conn' = conn
  BY <1>0, <1>1, <1>2
<1>3. CASE s \in Job /\ conn' = [conn EXCEPT ![s].phase = "reply"] /\ stop'[s] = "idle"
  <2> DEFINE q == [conn[s] EXCEPT !.phase = "reply"]
  <2>1. conn[s] \in Connection /\ conn[s].phase = "handler"
    BY <1>0, <1>3
  <2>2. q \in Connection
    BY <2>1 DEF Connection
  <2>3. /\ q.phase = "reply" /\ q.taken = conn[s].taken /\ q.req = conn[s].req
        /\ q.last = conn[s].last /\ q.count = conn[s].count
    BY <2>1 DEF Connection
  <2>4. conn' = [conn EXCEPT ![s] = q]
    BY <1>3
  <2> HIDE DEF q
  <2>5. AnswersOK(q, out[s]) /\ Knows(q, script[s]) /\ (svr = "open" => Whole(q, out[s]))
    <3>1. AnswersOK(conn[s], out[s]) /\ (svr = "open" => Whole(conn[s], out[s]))
      BY <1>3, OfConnection
    <3>2. (Clean(out[s]) => ReadTo(q, out[s])) /\ Counted(q, out[s]) /\ Announces(q, out[s])
      BY <2>1, <2>3, <3>1 DEF AnswersOK, ReadTo, Counted, Announces, Answering
    <3>3. AnswersOK(q, out[s])
      BY <2>2, <2>3, <3>1, <3>2 DEF AnswersOK
    <3> QED BY <2>1, <2>3, <3>1, <3>3 DEF Knows, Whole
  <2>6. ConnectionOK(s)'
    BY <1>0, <1>3, <2>4, <2>5 DEF ConnectionOK
  <2>7. \A i \in 1 .. Len(jobs') : conn'[jobs'[i]].phase = "queued"
    BY <1>0, <1>3, <2>1, <2>4
  <2>8. conn' \in [Job -> Connection]
    BY <1>0, <2>2, <2>4
  <2> QED BY <1>0, <1>1, <2>6, <2>7, <2>8
<1> QED BY <1>2, <1>3

\* stop(), by whichever thread.
LEMMA StopEntersKeeps ==
    ASSUME ServerInv, NEW s \in Stopper \cup Job, StopEnters(s) PROVE ServerInv'
<1>1. /\ stop[s] = "idle" /\ UNCHANGED <<script, out, jobs, svr, closes, running, acc, ret>>
      /\ s \in Job => conn[s].phase = "handler" /\ script[s][conn[s].req] = "stop"
  BY ServerAssumption DEF StopEnters, InHandler, poolVars
<1>2. \/ stop' = [stop EXCEPT ![s] = "entered"] /\ conn' = conn
      \/ s \in Job /\ stop' = [stop EXCEPT ![s] = "idle"]
                   /\ conn' = [conn EXCEPT ![s].phase = "reply"]
      \/ stop' = [stop EXCEPT ![s] = "done"] /\ conn' = conn
  BY DEF StopEnters, StopReturns
<1>3. stop \in [Stopper \cup Job -> {"idle", "entered", "exchanged", "done"}]
  BY DEF ServerInv, SocketInv
<1>4. /\ stop' \in [Stopper \cup Job -> {"idle", "entered", "exchanged", "done"}]
      /\ \A u \in (Stopper \cup Job) \ {s} : stop'[u] = stop[u]
      /\ stop'[s] # "exchanged"
      /\ \/ conn' = conn
         \/ s \in Job /\ conn' = [conn EXCEPT ![s].phase = "reply"] /\ stop'[s] = "idle"
  BY <1>2, <1>3
<1>5. Holds' = Holds
  BY <1>1, <1>4 DEF Holds
<1>6. SocketInv'
  BY <1>1, <1>4, <1>5 DEF ServerInv, SocketInv
<1> QED BY <1>1, <1>4, <1>6, StopKeepsConnections DEF ServerInv

LEMMA StopStepsKeep ==
    ASSUME ServerInv, NEW s \in Stopper \cup Job, StopSteps(s) PROVE ServerInv'
<1>1. /\ stop[s] \in {"entered", "exchanged"}
      /\ UNCHANGED <<script, out, jobs, running, acc, ret>>
      /\ svr' = "open" => svr = "open"
  BY DEF StopSteps, Exchanges, Closes, poolVars
<1>2. stop \in [Stopper \cup Job -> {"idle", "entered", "exchanged", "done"}]
  BY DEF ServerInv, SocketInv
<1>3. s \in Job => conn[s].phase = "handler" /\ script[s][conn[s].req] = "stop"
  BY <1>1, OfConnection
<1>4. \/ /\ stop[s] = "entered" /\ svr = "open" /\ svr' = "INVALID" /\ closes' = closes
         /\ stop' = [stop EXCEPT ![s] = "exchanged"] /\ conn' = conn
      \/ /\ stop[s] = "entered" /\ svr = "INVALID" /\ svr' = "INVALID" /\ closes' = closes
         /\ StopReturns(s)
      \/ /\ stop[s] = "exchanged" /\ svr' = svr /\ closes' = closes + 1
         /\ StopReturns(s)
  BY DEF StopSteps, Exchanges, Closes, ServerInv, SocketInv
<1>5. StopReturns(s) =>
          \/ s \in Job /\ stop' = [stop EXCEPT ![s] = "idle"]
                       /\ conn' = [conn EXCEPT ![s].phase = "reply"]
          \/ stop' = [stop EXCEPT ![s] = "done"] /\ conn' = conn
  BY DEF StopReturns
<1>6. /\ stop' \in [Stopper \cup Job -> {"idle", "entered", "exchanged", "done"}]
      /\ \A u \in (Stopper \cup Job) \ {s} : stop'[u] = stop[u]
      /\ \/ conn' = conn
         \/ s \in Job /\ conn' = [conn EXCEPT ![s].phase = "reply"] /\ stop'[s] = "idle"
      /\ StopReturns(s) => stop'[s] # "exchanged"
  BY <1>2, <1>4, <1>5
<1>7. SocketInv'
  <2>1. CASE /\ stop[s] = "entered" /\ svr = "open" /\ svr' = "INVALID" /\ closes' = closes
             /\ stop' = [stop EXCEPT ![s] = "exchanged"]
    <3>1. Holds' = {s}
      BY <1>2, <2>1 DEF ServerInv, SocketInv, Holds
    <3> QED BY <1>1, <1>6, <2>1, <3>1 DEF ServerInv, SocketInv
  <2>2. CASE /\ stop[s] = "entered" /\ svr = "INVALID" /\ svr' = "INVALID" /\ closes' = closes
             /\ StopReturns(s)
    <3>1. Holds' = Holds
      BY <1>6, <2>2 DEF Holds
    <3> QED BY <1>1, <1>6, <2>2, <3>1 DEF ServerInv, SocketInv
  <2>3. CASE /\ stop[s] = "exchanged" /\ svr' = svr /\ closes' = closes + 1
             /\ StopReturns(s)
    <3>1. s \in Holds /\ Holds' = Holds \ {s}
      BY <1>6, <2>3 DEF Holds
    <3>2. Holds' = {}
      BY <3>1 DEF ServerInv, SocketInv
    <3> QED BY <1>1, <1>6, <2>3, <3>1, <3>2 DEF ServerInv, SocketInv
  <2> QED BY <1>4, <2>1, <2>2, <2>3
<1> QED BY <1>1, <1>3, <1>6, <1>7, StopKeepsConnections DEF ServerInv

\* What the connections do not see: the listening thread, and waiting workers.
LEMMA ConnectionsStay ==
    ASSUME ServerInv, UNCHANGED <<connVars, svr, stop, jobs>>, SocketInv' PROVE ServerInv'
<1>1. ASSUME NEW c \in Job PROVE ConnectionOK(c)'
  BY DEF ServerInv, ConnectionOK, connVars
<1> QED BY <1>1 DEF ServerInv, connVars

\* The queue hands a connection on, or it is closed.
LEMMA PhaseKeeps ==
    ASSUME ServerInv, NEW c \in Job,
           NEW p \in {"queued", "keep", "closed"},
           p = "queued" => conn[c].phase = "none",
           p = "keep" => conn[c].phase = "queued",
           p = "closed" => conn[c].phase = "closing",
           conn' = [conn EXCEPT ![c].phase = p],
           UNCHANGED <<script, out, svr, stop>>, SocketInv',
           \A i \in 1 .. Len(jobs') :
               /\ jobs'[i] \in Job
               /\ IF jobs'[i] = c THEN p = "queued" ELSE conn[jobs'[i]].phase = "queued"
    PROVE  ServerInv'
<1> DEFINE q == [conn[c] EXCEPT !.phase = p]
<1>1. conn \in [Job -> Connection] /\ out \in [Job -> Seq(Answer)] /\ conn[c] \in Connection
  BY DEF ServerInv
<1>2. q \in Connection
  BY <1>1 DEF Connection
<1>3. /\ q.phase = p /\ q.taken = conn[c].taken /\ q.req = conn[c].req
      /\ q.last = conn[c].last /\ q.count = conn[c].count
  BY <1>1 DEF Connection
<1>4. conn' = [conn EXCEPT ![c] = q]
  OBVIOUS
<1> HIDE DEF q
<1>5. AnswersOK(q, out[c])
  <2>1. AnswersOK(conn[c], out[c])
    BY OfConnection
  <2>2. Clean(out[c]) => ReadTo(q, out[c])
    BY <1>3, <2>1 DEF AnswersOK, ReadTo
  <2>3. Counted(q, out[c]) /\ Announces(q, out[c])
    BY <1>3, <2>1 DEF AnswersOK, Counted, Announces, Answering
  <2> QED BY <1>2, <1>3, <2>1, <2>2, <2>3 DEF AnswersOK
<1>6. Knows(q, script[c]) /\ (svr = "open" => Whole(q, out[c]))
  BY <1>3, OfConnection DEF Knows, Whole
<1>7. stop[c] \notin {"entered", "exchanged"}
  BY OfConnection
<1>8. ASSUME NEW d \in Job PROVE ConnectionOK(d)'
  <2>1. CASE d = c
    BY <1>1, <1>4, <1>5, <1>6, <1>7, <2>1 DEF ConnectionOK
  <2>2. CASE d # c
    BY <1>1, <1>4, <2>2 DEF ServerInv, ConnectionOK
  <2> QED BY <2>1, <2>2
<1>9. \A i \in 1 .. Len(jobs') : conn'[jobs'[i]].phase = "queued"
  BY <1>1, <1>3, <1>4
<1>10. conn' \in [Job -> Connection] /\ out' \in [Job -> Seq(Answer)] /\ script' \in Scripts
  BY <1>1, <1>2, <1>4 DEF ServerInv
<1> QED BY <1>8, <1>9, <1>10 DEF ServerInv

\* listen_internal().
LEMMA AcceptorKeeps == ASSUME ServerInv, IInv, Acceptor PROVE ServerInv'
<1>1. CASE Listen \/ TestSocket \/ NoDescriptor \/ AcceptFails \/ CloseFailed \/ ListenReturns
  <2>1. UNCHANGED <<connVars, svr, stop, jobs>>
    BY <1>1 DEF Listen, TestSocket, NoDescriptor, AcceptFails, CloseFailed, ListenReturns,
       connVars, poolVars
  <2>2. SocketInv'
    <3>1. Holds' = Holds
      BY <2>1 DEF Holds
    <3>2. CASE Listen \/ TestSocket \/ NoDescriptor \/ AcceptFails \/ ListenReturns
      <4>1. /\ UNCHANGED <<svr, stop, closes, ret>> /\ running' \in BOOLEAN
            /\ ret = FALSE => acc' \in {"down", "returned"}
            /\ acc' \in {"test", "accept", "failed", "down", "returned"}
        BY <3>2 DEF ServerInv, SocketInv, Listen, TestSocket, NoDescriptor, AcceptFails,
           ListenReturns
      <4> QED BY <3>1, <4>1 DEF ServerInv, SocketInv
    <3>3. CASE CloseFailed
      <4>1. /\ ret = TRUE /\ ret' = FALSE /\ acc' = "down" /\ UNCHANGED running
            /\ closes' = IF svr = "open" THEN closes + 1 ELSE closes
            /\ svr = "open" => Holds = {} /\ closes = 0
            /\ closes \in {0, 1} /\ (Holds # {} => closes = 0)
        BY <3>3 DEF CloseFailed, ServerInv, SocketInv
      <4>2. /\ closes' \in 0 .. 2 /\ (svr = "open" => closes' = 1)
            /\ Holds # {} => closes' <= 1
        BY <4>1
      <4>3. /\ svr' = svr /\ stop' = stop /\ ret' \in BOOLEAN /\ ret' # TRUE
            /\ running' \in BOOLEAN /\ acc' = "down" /\ svr \in {"open", "INVALID"}
            /\ stop \in [Stopper \cup Job -> {"idle", "entered", "exchanged", "done"}]
            /\ svr = "open" => Holds = {}
            /\ \A s, u \in Holds : s = u
        BY <2>1, <4>1 DEF ServerInv, SocketInv
      <4>4. svr = "open" \/ Holds # {} => closes' <= 1
        BY <4>2
      <4> QED BY <3>1, <4>2, <4>3, <4>4 DEF SocketInv
    <3> QED BY <1>1, <3>2, <3>3
  <2> QED BY <2>1, <2>2, ConnectionsStay
<1>2. CASE Shutdown
  <2>1. UNCHANGED <<connVars, serverVars, jobs>>
    BY <1>2 DEF Shutdown, Flag, NotifyAll, Join
  <2>2. SocketInv' /\ UNCHANGED <<svr, stop>>
    BY <2>1 DEF ServerInv, SocketInv, Holds, serverVars
  <2> QED BY <2>1, <2>2, ConnectionsStay
<1>3. ASSUME NEW c \in Job, Accept(c) PROVE ServerInv'
  <2>1. /\ conn[c].phase = "none" /\ jobs' = Append(jobs, c) /\ jobs \in Seq(Job)
        /\ conn' = [conn EXCEPT ![c].phase = "queued"]
        /\ UNCHANGED <<script, out, svr, stop, closes, running, ret>> /\ acc' = "test"
        /\ acc = "accept"
    BY <1>3 DEF Accept, Enqueue, IInv, PoolTypeOK
  <2>2. SocketInv'
    BY <2>1 DEF ServerInv, SocketInv, Holds
  <2>3. \A i \in 1 .. Len(jobs') :
            /\ jobs'[i] \in Job
            /\ IF jobs'[i] = c THEN "queued" = "queued" ELSE conn[jobs'[i]].phase = "queued"
    <3>1. /\ Len(jobs') = Len(jobs) + 1 /\ jobs'[Len(jobs) + 1] = c /\ Len(jobs) \in Nat
          /\ \A i \in 1 .. Len(jobs) : jobs'[i] = jobs[i] /\ jobs[i] \in Job
      BY <2>1
    <3> QED BY <3>1 DEF ServerInv
  <2> QED BY <2>1, <2>2, <2>3, PhaseKeeps
<1> QED BY <1>1, <1>2, <1>3 DEF Acceptor

\* The workers: a connection is taken from the queue once, and closed.
LEMMA WorkersKeep ==
    ASSUME ServerInv, IInv, NEW w \in Worker, Work(w) \/ Spurious(w) PROVE ServerInv'
<1>1. CASE Idle(w) \/ Spurious(w)
  <2>1. UNCHANGED <<connVars, serverVars, jobs>>
    BY <1>1 DEF Idle, Spurious, Blocks, Leaves, Wakes
  <2>2. SocketInv' /\ UNCHANGED <<svr, stop>>
    BY <2>1 DEF ServerInv, SocketInv, Holds, serverVars
  <2> QED BY <2>1, <2>2, ConnectionsStay
<1>2. CASE WorkerTakes(w)
  <2> DEFINE c == Head(jobs)
  <2>1. /\ jobs \in Seq(Job) /\ jobs # <<>> /\ jobs' = Tail(jobs)
        /\ conn' = [conn EXCEPT ![c].phase = "keep"]
        /\ UNCHANGED <<serverVars, script, out>>
        /\ \A i, k \in 1 .. Len(jobs) : jobs[i] = jobs[k] => i = k
    BY <1>2 DEF WorkerTakes, Takes, IInv, PoolTypeOK, PoolSound, OneOwner
  <2>2. /\ c \in Job /\ c = jobs[1] /\ Len(jobs) \in Nat \ {0} /\ Len(jobs') = Len(jobs) - 1
        /\ \A i \in 1 .. Len(jobs') : jobs'[i] = jobs[i + 1]
    BY <2>1
  <2>3. \A i \in 1 .. Len(jobs') : /\ jobs'[i] \in Job /\ jobs'[i] # c
                                   /\ conn[jobs'[i]].phase = "queued"
    <3> SUFFICES ASSUME NEW i \in 1 .. Len(jobs')
                 PROVE  /\ jobs'[i] \in Job /\ jobs'[i] # c
                        /\ conn[jobs'[i]].phase = "queued"
      OBVIOUS
    <3>1. jobs'[i] = jobs[i + 1] /\ i + 1 \in 1 .. Len(jobs) /\ i + 1 # 1 /\ 1 \in 1 .. Len(jobs)
      BY <2>2
    <3>2. jobs[i + 1] # jobs[1]
      BY <2>1, <3>1
    <3>3. conn[jobs[i + 1]].phase = "queued" /\ jobs[i + 1] \in Job
      BY <2>1, <3>1 DEF ServerInv
    <3> HIDE DEF c
    <3> QED BY <2>2, <3>1, <3>2, <3>3
  <2>4. conn[c].phase = "queued"
    BY <2>2 DEF ServerInv
  <2>5. SocketInv' /\ UNCHANGED <<svr, stop>>
    BY <2>1 DEF ServerInv, SocketInv, Holds, serverVars
  <2> HIDE DEF c
  <2>6. /\ conn' = [conn EXCEPT ![c].phase = "keep"] /\ UNCHANGED <<script, out, svr, stop>>
        /\ c \in Job
    BY <2>1, <2>2, <2>5
  <2>7. \A i \in 1 .. Len(jobs') :
           /\ jobs'[i] \in Job
           /\ IF jobs'[i] = c THEN "keep" = "queued" ELSE conn[jobs'[i]].phase = "queued"
    BY <2>3
  <2>8. SocketInv'
    BY <2>5
  <2> QED BY ONLY ServerInv, <2>4, <2>6, <2>7, <2>8, PhaseKeeps
<1>3. CASE CloseConnection(w)
  <2> DEFINE c == fn[w]
  <2>1. /\ c \in Job /\ conn[c].phase = "closing" /\ UNCHANGED <<serverVars, script, out, jobs>>
        /\ conn' = [conn EXCEPT ![c].phase = "closed"]
    BY <1>3 DEF CloseConnection, Returns, IInv, HasJob
  <2>2. SocketInv' /\ UNCHANGED <<svr, stop>>
    BY <2>1 DEF ServerInv, SocketInv, Holds, serverVars
  <2>3. \A i \in 1 .. Len(jobs') : jobs'[i] \in Job /\ jobs'[i] # c
                                   /\ conn[jobs'[i]].phase = "queued"
    <3>1. jobs \in Seq(Job)
      BY DEF IInv, PoolTypeOK
    <3> QED BY <2>1, <3>1 DEF ServerInv
  <2> HIDE DEF c
  <2> QED BY <2>1, <2>2, <2>3, PhaseKeeps
<1> QED BY <1>1, <1>2, <1>3 DEF Work

LEMMA ServerInvInit == Init => ServerInv
<1> SUFFICES ASSUME Init PROVE ServerInv
  OBVIOUS
<1> DEFINE q == [phase |-> "none", sent |-> 0, taken |-> 0, slow |-> FALSE, req |-> 0,
                 last |-> FALSE, count |-> MaxCount, left |-> 0]
<1>1. MaxCount \in Nat \ {0} /\ Chunks \in Nat
  BY ServerAssumption
<1>2. q \in Connection
  BY <1>1 DEF Connection
<1>3. /\ q.phase = "none" /\ q.taken = 0 /\ q.req = 0 /\ q.count = MaxCount
  OBVIOUS
<1>4. /\ conn = [c \in Job |-> q] /\ out = [c \in Job |-> <<>>] /\ script \in Scripts
      /\ stop = [s \in Stopper \cup Job |-> "idle"] /\ jobs = <<>>
      /\ svr = "open" /\ closes = 0 /\ running = FALSE /\ acc = "bound" /\ ret = TRUE
  BY DEF Init, PoolInit
<1> HIDE DEF q
<1>5. SocketInv
  <2>1. Holds = {}
    BY <1>4 DEF Holds
  <2>2. ret \in BOOLEAN /\ running \in BOOLEAN /\ closes = 0 /\ ret = TRUE
    BY <1>4
  <2> QED BY <1>4, <2>1, <2>2 DEF SocketInv
<1>6. ASSUME NEW c \in Job PROVE ConnectionOK(c)
  <2>1. conn[c] = q /\ out[c] = <<>> /\ stop[c] = "idle"
    BY <1>4
  <2>2. <<>> \in Seq(Answer) /\ Len(<<>>) = 0
    OBVIOUS
  <2>3. ReadTo(q, <<>>) /\ Counted(q, <<>>) /\ Announces(q, <<>>) /\ Ordered(<<>>)
    BY <1>1, <1>3, <2>2 DEF ReadTo, Counted, Announces, Ordered, Answering
  <2>4. ReqOf(0) \in Nat
    BY Pieces
  <2>5. AnswersOK(q, <<>>)
    BY <1>2, <1>3, <2>2, <2>3, <2>4 DEF AnswersOK
  <2> QED BY <1>3, <2>1, <2>2, <2>5 DEF ConnectionOK, Knows, Whole
<1>7. conn \in [Job -> Connection] /\ out \in [Job -> Seq(Answer)]
  BY <1>2, <1>4
<1> QED BY <1>4, <1>5, <1>6, <1>7 DEF ServerInv

LEMMA ServerInvStep == ServerInv /\ IInv /\ [Next]_vars => ServerInv'
<1> SUFFICES ASSUME ServerInv, IInv, [Next]_vars PROVE ServerInv'
  OBVIOUS
<1>1. CASE UNCHANGED vars
  <2>1. UNCHANGED <<connVars, serverVars, jobs>>
    BY <1>1 DEF vars, poolVars
  <2>2. SocketInv' /\ UNCHANGED <<svr, stop>>
    BY <2>1 DEF ServerInv, SocketInv, Holds, serverVars
  <2> QED BY <2>1, <2>2, ConnectionsStay
<1>2. CASE Next
  BY <1>2, AcceptorKeeps, ServeKeeps, StopEntersKeeps, StopStepsKeep, WorkersKeep DEF Next
<1> QED BY <1>1, <1>2

LEMMA ServerInductive == Spec => []ServerInv
<1>1. Spec => []IInv
  BY ServerUsesPool, PoolInductive, PTL
<1> QED BY <1>1, ServerInvInit, ServerInvStep, PTL DEF Spec

\* However many threads call stop(), at whatever moment, the listening socket is closed
\* once, unless accept() had failed by itself (Server::stop, listen_internal).
THEOREM SocketClosedOnce == Spec => []ClosedOnce
<1>1. ServerInv => ClosedOnce
  BY DEF ServerInv, SocketInv, ClosedOnce
<1> QED BY <1>1, ServerInductive, PTL

\* Whatever the clients send, in whatever pieces, and whenever the server is stopped:
\* the answers of a connection are in the order of its requests; it goes on behind an
\* answer that is not whole only after stop(), or when write_response_core did not notice
\* that its headers or its body in memory were not written; an announced close is the
\* end, and the last answer that keep_alive_max_count_ allows announces it.
THEOREM AnswersRight == Spec => []AnswersSound
<1>1. IInv /\ ServerInv => AnswersSound
  <2> SUFFICES ASSUME IInv, ServerInv PROVE AnswersSound
    OBVIOUS
  <2>1. TypeOK
    BY DEF IInv, ServerInv, SocketInv, TypeOK
  <2>2. ASSUME NEW c \in Job
        PROVE  /\ out[c] \in Seq(Answer) /\ Ordered(out[c])
               /\ svr = "open" => Whole(conn[c], out[c])
               /\ Counted(conn[c], out[c]) /\ Announces(conn[c], out[c])
               /\ conn[c].count \in 0 .. MaxCount
    BY <2>2, OfConnection DEF AnswersOK
  <2>3. InOrder
    BY <2>2 DEF InOrder, Ordered
  <2>4. CutIsKnown
    <3> SUFFICES ASSUME NEW c \in Job, NEW i \in Cut(c), svr # "INVALID"
                 PROVE  \/ out[c][i].lost
                        \/ i = Len(out[c]) /\ conn[c].phase \in {"stream", "closing", "closed"}
      BY DEF CutIsKnown
    <3>1. svr = "open"
      BY DEF ServerInv, SocketInv
    <3> QED BY <2>2, <3>1 DEF Cut, Whole
  <2>5. AnnouncedIsLast
    BY <2>2 DEF AnnouncedIsLast, Announces
  <2>6. CountAnnounced
    <3> SUFFICES ASSUME NEW c \in Job
                 PROVE  Len(out[c]) <= MaxCount /\ (Len(out[c]) = MaxCount => out[c][MaxCount].close)
      BY DEF CountAnnounced
    <3>1. MaxCount \in Nat \ {0} /\ Len(out[c]) \in Nat
      BY <2>2, ServerAssumption
    <3>2. Len(out[c]) <= MaxCount
      BY <2>2, <3>1 DEF Counted
    <3>3. Len(out[c]) = MaxCount => out[c][MaxCount].close
      BY <2>2, <3>1 DEF Announces
    <3> QED BY <3>2, <3>3
  <2> QED BY <2>1, <2>3, <2>4, <2>5, <2>6 DEF AnswersSound, AnswersInOrder, CloseAnnounced
<1>2. Spec => []IInv
  BY ServerUsesPool, PoolInductive, PTL
<1> QED BY <1>1, <1>2, ServerInductive, PTL
-----------------------------------------------------------------------------
(* A content that is compressed, for any length, pieces and buffer.            *)

CONSTANTS MaxBytes, MaxPiece, Buffer
VARIABLES zip, chunked, total, provided, writer, last, kept, payload, chunks, reader, input,
          held, ended, received, odd

Zipping == INSTANCE Gzip WITH given <- provided          \* provided is its given

\* The code at a place of the stream of g bytes.
Code(p, g) == IF p <= g THEN p ELSE IF p = g + 1 THEN Zipping!End ELSE Zipping!Other

\* The codes s stand in the stream behind its place p.
Stands(s, p, g) == \A i \in 1 .. Len(s) : s[i] = Code(p + i, g)

\* The pieces ch stand one behind the other from a to z, and an empty one behind them all,
\* when the writer w is over.
Linked(ch, off, g, w) ==
    /\ \A j \in 1 .. Len(ch) :
        /\ Stands(ch[j], off[j], g)
        /\ off[j + 1] = off[j] + Len(ch[j])
        /\ ch[j] = <<>> => j = Len(ch) /\ w = "over"
    /\ \A j \in 1 .. Len(ch) + 1 : off[j] <= off[Len(ch) + 1]

Runs(ch, a, z, g, w) ==
    \E off \in [1 .. Len(ch) + 1 -> Nat] :
        Linked(ch, off, g, w) /\ off[1] = a /\ off[Len(ch) + 1] = z

LEMMA Concat ==
    ASSUME NEW S, NEW s \in Seq(S), NEW t \in Seq(S)
    PROVE  /\ s \o t \in Seq(S) /\ Len(s \o t) = Len(s) + Len(t)
           /\ \A i \in 1 .. Len(s) : (s \o t)[i] = s[i]
           /\ \A i \in 1 .. Len(t) : (s \o t)[Len(s) + i] = t[i]
<1>1. /\ s \o t \in Seq(S) /\ Len(s \o t) = Len(s) + Len(t)
      /\ \A i \in 1 .. Len(s) + Len(t) : (s \o t)[i] = IF i <= Len(s) THEN s[i] ELSE t[i - Len(s)]
  BY ConcatProperties
<1>2. PICK m \in Nat : m = Len(s)
  OBVIOUS
<1>3. PICK n \in Nat : n = Len(t)
  OBVIOUS
<1>4. PICK f : f = s \o t
  OBVIOUS
<1>5. \A i \in 1 .. m + n : f[i] = IF i <= m THEN s[i] ELSE t[i - m]
  BY <1>1, <1>2, <1>3, <1>4
<1>6. \A i \in 1 .. m : i \in 1 .. m + n /\ i <= m
  OBVIOUS
<1>7. \A i \in 1 .. n : m + i \in 1 .. m + n /\ ~(m + i <= m) /\ (m + i) - m = i
  OBVIOUS
<1>8. \A i \in 1 .. m : f[i] = s[i]
  BY ONLY <1>5, <1>6, Zenon
<1>9. \A i \in 1 .. n : f[m + i] = t[i]
  BY ONLY <1>5, <1>7, Zenon
<1> QED BY <1>1, <1>2, <1>3, <1>4, <1>8, <1>9

LEMMA IntConcat ==
    ASSUME NEW s \in Seq(Int), NEW t \in Seq(Int)
    PROVE  /\ s \o t \in Seq(Int) /\ Len(s \o t) = Len(s) + Len(t)
           /\ \A i \in 1 .. Len(s) : (s \o t)[i] = s[i]
           /\ \A i \in 1 .. Len(t) : (s \o t)[Len(s) + i] = t[i]
  BY ONLY s \in Seq(Int), t \in Seq(Int), Concat

LEMMA IntRest ==
    ASSUME NEW w \in Seq(Int), NEW n \in 0 .. Len(w)
    PROVE  LET v == SubSeq(w, n + 1, Len(w))
           IN  /\ v \in Seq(Int) /\ Len(v) = Len(w) - n
               /\ \A i \in 1 .. Len(w) - n : v[i] = w[n + i]
<1>1. PICK l \in Nat : l = Len(w) OBVIOUS
<1>2. PICK v : v = SubSeq(w, n + 1, Len(w)) OBVIOUS
<1>3. v \in Seq(Int) /\ Len(v) = l - n BY <1>1, <1>2
<1>4. \A i \in 1 .. l - n : v[i] = w[n + i] BY <1>1, <1>2
<1> QED BY <1>1, <1>2, <1>3, <1>4

LEMMA IntBegins ==
    ASSUME NEW w \in Seq(Int), NEW n \in 0 .. Len(w)
    PROVE  LET v == SubSeq(w, 1, n)
           IN  v \in Seq(Int) /\ Len(v) = n /\ \A i \in 1 .. n : v[i] = w[i]
<1>1. PICK l \in Nat : l = Len(w) OBVIOUS
<1>2. PICK v : v = SubSeq(w, 1, n) OBVIOUS
<1>3. v \in Seq(Int) /\ Len(v) = n BY <1>1, <1>2
<1>4. \A i \in 1 .. n : v[i] = w[i] BY <1>1, <1>2
<1> QED BY <1>2, <1>3, <1>4

LEMMA StandsNone ==
    ASSUME NEW p, NEW g, NEW s, Len(s) = 0
    PROVE  Stands(s, p, g)
<1>1. \A i \in 1 .. Len(s) : FALSE OBVIOUS
<1> QED BY <1>1 DEF Stands

LEMMA StandsJoin ==
    ASSUME NEW s \in Seq(Int), NEW t \in Seq(Int), NEW p \in Nat, NEW g \in Nat,
           Stands(s, p, g), Stands(t, p + Len(s), g)
    PROVE  Stands(s \o t, p, g)
<1>1. PICK m \in Nat : m = Len(s) OBVIOUS
<1>2. PICK n \in Nat : n = Len(t) OBVIOUS
<1>3. PICK f : f = s \o t OBVIOUS
<1>4. /\ Len(f) = m + n
      /\ \A i \in 1 .. m : f[i] = s[i]
      /\ \A i \in 1 .. n : f[m + i] = t[i]
  <2>1. /\ Len(s \o t) = Len(s) + Len(t)
        /\ \A i \in 1 .. Len(s) : (s \o t)[i] = s[i]
        /\ \A i \in 1 .. Len(t) : (s \o t)[Len(s) + i] = t[i]
    BY IntConcat
  <2> QED BY ONLY <2>1, <1>1, <1>2, <1>3, Zenon
<1>5. ASSUME NEW i \in 1 .. m + n
      PROVE  f[i] = Code(p + i, g)
  <2>1. CASE i \in 1 .. m
    BY <1>1, <1>4, <2>1 DEF Stands
  <2>2. CASE i > m
    <3>1. i - m \in 1 .. n /\ m + (i - m) = i /\ (p + m) + (i - m) = p + i BY <2>2
    <3>2. t[i - m] = Code((p + m) + (i - m), g) BY <1>1, <1>2, <3>1 DEF Stands
    <3> QED BY <1>4, <3>1, <3>2
  <2> QED BY <2>1, <2>2
<1> QED BY <1>3, <1>4, <1>5 DEF Stands

LEMMA StandsBegins ==
    ASSUME NEW s \in Seq(Int), NEW p \in Nat, NEW g \in Nat, Stands(s, p, g), NEW n \in 0 .. Len(s)
    PROVE  Stands(SubSeq(s, 1, n), p, g)
<1>1. Len(SubSeq(s, 1, n)) = n /\ \A i \in 1 .. n : SubSeq(s, 1, n)[i] = s[i]
  BY IntBegins
<1>2. \A i \in 1 .. n : i \in 1 .. Len(s) OBVIOUS
<1> QED BY <1>1, <1>2 DEF Stands

LEMMA StandsRest ==
    ASSUME NEW s \in Seq(Int), NEW p \in Nat, NEW g \in Nat, Stands(s, p, g), NEW n \in 0 .. Len(s)
    PROVE  Stands(SubSeq(s, n + 1, Len(s)), p + n, g)
<1>1. PICK v : v = SubSeq(s, n + 1, Len(s)) OBVIOUS
<1>2. Len(v) = Len(s) - n /\ \A i \in 1 .. Len(s) - n : v[i] = s[n + i]
  BY <1>1, IntRest
<1>3. \A i \in 1 .. Len(s) - n : n + i \in 1 .. Len(s) /\ p + (n + i) = (p + n) + i OBVIOUS
<1>4. \A i \in 1 .. Len(v) : v[i] = Code((p + n) + i, g) BY <1>2, <1>3 DEF Stands
<1> QED BY <1>1, <1>4 DEF Stands

\* As long as the end is not in the stream, it may grow.
LEMMA StandsMore ==
    ASSUME NEW s \in Seq(Int), NEW p \in Nat, NEW g \in Nat, NEW h \in Nat, g <= h,
           p + Len(s) <= g, Stands(s, p, g)
    PROVE  Stands(s, p, h)
<1>1. \A i \in 1 .. Len(s) : p + i <= g /\ p + i <= h OBVIOUS
<1> QED BY <1>1 DEF Stands, Code

LEMMA StandsBytes ==
    ASSUME NEW s \in Seq(Int), NEW p \in Nat, NEW g \in Nat, p + Len(s) <= g
    PROVE  Stands(s, p, g) <=> \A i \in 1 .. Len(s) : s[i] = p + i
<1>1. \A i \in 1 .. Len(s) : p + i <= g OBVIOUS
<1> QED BY <1>1 DEF Stands, Code

LEMMA RunsNone ==
    ASSUME NEW ch, Len(ch) = 0, NEW a \in Nat, NEW g, NEW w
    PROVE  Runs(ch, a, a, g, w)
<1> DEFINE f == [i \in 1 .. 1 |-> a]
<1>1. f \in [1 .. Len(ch) + 1 -> Nat] /\ f[1] = a /\ f[Len(ch) + 1] = a
  <2>1. 1 \in 1 .. 1 /\ Len(ch) + 1 = 1 OBVIOUS
  <2> QED BY <2>1
<1> HIDE DEF f
<1>2. Linked(ch, f, g, w)
  <2>1. \A j \in 1 .. Len(ch) : FALSE OBVIOUS
  <2>2. \A j \in 1 .. Len(ch) + 1 : j = 1 OBVIOUS
  <2>3. f[1] <= f[Len(ch) + 1] BY <1>1
  <2> QED BY <2>1, <2>2, <2>3 DEF Linked
<1> QED BY <1>1, <1>2 DEF Runs

LEMMA RunsOrder ==
    ASSUME NEW ch, Len(ch) \in Nat, NEW a, NEW z, NEW g, NEW w, Runs(ch, a, z, g, w)
    PROVE  a \in Nat /\ z \in Nat /\ a <= z /\ \A x : (w = "over" => x = "over") =>
             Runs(ch, a, z, g, x)
<1>1. PICK off \in [1 .. Len(ch) + 1 -> Nat] :
        Linked(ch, off, g, w) /\ off[1] = a /\ off[Len(ch) + 1] = z
  BY DEF Runs
<1>2. 1 \in 1 .. Len(ch) + 1 /\ Len(ch) + 1 \in 1 .. Len(ch) + 1 OBVIOUS
<1>3. off[1] <= off[Len(ch) + 1] BY <1>1, <1>2 DEF Linked
<1>4. \A x : (w = "over" => x = "over") => Linked(ch, off, g, x) BY <1>1 DEF Linked
<1> QED BY <1>1, <1>2, <1>3, <1>4 DEF Runs

LEMMA RunsMore ==
    ASSUME NEW ch \in Seq(Seq(Int)), NEW a, NEW z, NEW g \in Nat, NEW h \in Nat, g <= h, z <= g,
           NEW w, Runs(ch, a, z, g, w)
    PROVE  Runs(ch, a, z, h, w)
<1>1. PICK off \in [1 .. Len(ch) + 1 -> Nat] :
        Linked(ch, off, g, w) /\ off[1] = a /\ off[Len(ch) + 1] = z
  BY DEF Runs
<1>2. ASSUME NEW j \in 1 .. Len(ch)
      PROVE  Stands(ch[j], off[j], h)
  <2>1. j \in 1 .. Len(ch) + 1 /\ j + 1 \in 1 .. Len(ch) + 1 /\ ch[j] \in Seq(Int) OBVIOUS
  <2>2. Stands(ch[j], off[j], g) /\ off[j + 1] = off[j] + Len(ch[j]) BY <1>1 DEF Linked
  <2>3. off[j + 1] <= off[Len(ch) + 1] BY <1>1, <2>1 DEF Linked
  <2>4. off[j] \in Nat /\ off[j + 1] \in Nat /\ off[Len(ch) + 1] \in Nat
    <3>1. PICK l \in Nat : l = Len(ch) OBVIOUS
    <3>2. l + 1 \in 1 .. l + 1 OBVIOUS
    <3> QED BY <2>1, <3>1, <3>2
  <2>5. off[j] + Len(ch[j]) <= g
    <3>1. PICK x \in Nat : x = off[j + 1] BY <2>4
    <3>2. x <= z /\ z \in Nat BY <1>1, <2>3, <2>4, <3>1
    <3>3. x <= g BY ONLY <3>2, z <= g, g \in Nat, x \in Nat
    <3> QED BY <2>2, <3>1, <3>3
  <2> QED BY <2>1, <2>2, <2>4, <2>5, StandsMore
<1>3. Linked(ch, off, h, w) BY <1>1, <1>2 DEF Linked
<1> QED BY <1>1, <1>3 DEF Runs

\* One more piece is sent.
LEMMA RunsSend ==
    ASSUME NEW ch \in Seq(Seq(Int)), NEW a, NEW z \in Nat, NEW g, NEW w, w # "over",
           Runs(ch, a, z, g, w), NEW x,
           NEW b \in Seq(Int), Stands(b, z, g), b = <<>> => x = "over",
           NEW v, Len(v) = Len(ch) + 1, \A i \in 1 .. Len(ch) : v[i] = ch[i], v[Len(ch) + 1] = b
    PROVE  Runs(v, a, z + Len(b), g, x)
<1>1. PICK off \in [1 .. Len(ch) + 1 -> Nat] :
        Linked(ch, off, g, w) /\ off[1] = a /\ off[Len(ch) + 1] = z
  BY DEF Runs
<1>2. PICK l \in Nat : l = Len(ch) OBVIOUS
<1>3. PICK e \in Nat : e = z + Len(b) OBVIOUS
<1>4. PICK h \in [1 .. l + 2 -> Nat] : (\A i \in 1 .. l + 1 : h[i] = off[i]) /\ h[l + 2] = e
  <2> DEFINE f == [i \in 1 .. l + 2 |-> IF i = l + 2 THEN e ELSE off[i]]
  <2>1. \A i \in 1 .. l + 2 : i # l + 2 => i \in 1 .. l + 1 OBVIOUS
  <2>2. f \in [1 .. l + 2 -> Nat] BY <1>2, <2>1
  <2>3. \A i \in 1 .. l + 1 : i \in 1 .. l + 2 /\ i # l + 2 OBVIOUS
  <2>4. \A i \in 1 .. l + 1 : f[i] = off[i] BY <2>3
  <2>5. f[l + 2] = e
    <3>1. l + 2 \in 1 .. l + 2 OBVIOUS
    <3> QED BY <3>1
  <2> HIDE DEF f
  <2> QED BY <2>2, <2>4, <2>5
<1>5. Len(v) = l + 1 /\ Len(v) + 1 = l + 2 /\ (\A i \in 1 .. l : v[i] = ch[i]) /\ v[l + 1] = b
  BY <1>2
<1>6. h[l + 1] = z /\ h[l + 2] = z + Len(b) /\ h[1] = a
  <2>1. 1 \in 1 .. l + 1 /\ l + 1 \in 1 .. l + 1 OBVIOUS
  <2> QED BY <1>1, <1>2, <1>3, <1>4, <2>1
<1>7. Linked(v, h, g, x)
  <2>1. ASSUME NEW j \in 1 .. l + 1
        PROVE  /\ Stands(v[j], h[j], g)
               /\ h[j + 1] = h[j] + Len(v[j])
               /\ v[j] = <<>> => j = l + 1 /\ x = "over"
    <3>1. CASE j \in 1 .. l
      <4>1. j \in 1 .. l + 1 /\ j + 1 \in 1 .. l + 1 BY <3>1
      <4>2. h[j] = off[j] /\ h[j + 1] = off[j + 1] /\ v[j] = ch[j] BY <1>4, <1>5, <3>1, <4>1
      <4> QED BY <1>1, <1>2, <3>1, <4>2 DEF Linked
    <3>2. CASE j = l + 1
      <4>1. (l + 1) + 1 = l + 2 OBVIOUS
      <4> QED BY <1>5, <1>6, <3>2, <4>1
    <3> QED BY <3>1, <3>2
  <2>2. ASSUME NEW j \in 1 .. l + 2
        PROVE  h[j] <= h[l + 2]
    <3>1. CASE j \in 1 .. l + 1
      <4>1. off[j] <= off[l + 1] /\ off[j] \in Nat BY <1>1, <1>2, <3>1 DEF Linked
      <4>2. h[j] \in Nat /\ h[j] <= z BY <1>1, <1>2, <1>4, <3>1, <4>1
      <4>3. z <= z + Len(b) OBVIOUS
      <4> QED BY <1>6, <4>2, <4>3
    <3>2. CASE j = l + 2 BY <1>3, <1>4, <3>2
    <3> QED BY <3>1, <3>2
  <2>3. \A j \in 1 .. Len(v) :
        /\ Stands(v[j], h[j], g)
        /\ h[j + 1] = h[j] + Len(v[j])
        /\ v[j] = <<>> => j = Len(v) /\ x = "over"
    BY ONLY <1>5, <2>1, Zenon
  <2>4. \A j \in 1 .. Len(v) + 1 : h[j] <= h[Len(v) + 1]
    BY ONLY <1>5, <2>2, Zenon
  <2> QED BY <2>3, <2>4 DEF Linked
<1>8. h \in [1 .. Len(v) + 1 -> Nat] /\ h[Len(v) + 1] = z + Len(b) BY <1>5, <1>6
<1> QED BY <1>6, <1>7, <1>8 DEF Runs

\* The empty piece is the last.
LEMMA RunsLast ==
    ASSUME NEW ch \in Seq(Seq(Int)), NEW a, NEW z, NEW g, NEW w, Runs(ch, a, z, g, w),
           ch # <<>>, Head(ch) = <<>>
    PROVE  Tail(ch) = <<>> /\ Len(ch) = 1 /\ a = z /\ w = "over"
<1>1. PICK off \in [1 .. Len(ch) + 1 -> Nat] :
        Linked(ch, off, g, w) /\ off[1] = a /\ off[Len(ch) + 1] = z
  BY DEF Runs
<1>2. PICK l \in Nat : l = Len(ch) OBVIOUS
<1>3. l > 0 /\ ch[1] = <<>> BY <1>2
<1>4. 1 \in 1 .. l /\ 1 \in 1 .. l + 1 BY <1>3
<1>5. 1 = l /\ w = "over" BY <1>1, <1>2, <1>3, <1>4 DEF Linked
<1>6. off[1 + 1] = off[1] + Len(ch[1]) BY <1>1, <1>2, <1>4 DEF Linked
<1>7. a \in Nat /\ Len(ch[1]) = 0
  <2>1. Len(<<>>) = 0 OBVIOUS
  <2> QED BY <1>1, <1>2, <1>3, <1>4, <2>1
<1>8. a = z
  <2>1. off[1 + 1] = z BY <1>1, <1>2, <1>5
  <2> QED BY <1>1, <1>6, <1>7, <2>1
<1>9. Tail(ch) = <<>>
  <2>1. Len(Tail(ch)) = Len(ch) - 1 /\ Tail(ch) \in Seq(Seq(Int))
    BY ONLY ch \in Seq(Seq(Int)), ch # <<>>, HeadTailProperties
  <2>2. PICK t \in Seq(Seq(Int)) : t = Tail(ch) /\ Len(t) = Len(ch) - 1 BY <2>1
  <2>3. Len(t) = 0 BY <1>2, <1>5, <2>2
  <2>4. t = <<>> BY ONLY <2>3, t \in Seq(Seq(Int))
  <2> QED BY <2>2, <2>4
<1> QED BY <1>2, <1>5, <1>8, <1>9

\* The first n codes of the first piece are read.
LEMMA RunsTake ==
    ASSUME NEW ch \in Seq(Seq(Int)), NEW a, NEW z, NEW g \in Nat, NEW w, Runs(ch, a, z, g, w),
           Len(ch) > 0, NEW n \in 1 .. Len(ch[1]), n < Len(ch[1]),
           NEW v, Len(v) = Len(ch), v[1] = SubSeq(ch[1], n + 1, Len(ch[1])),
           \A i \in 2 .. Len(ch) : v[i] = ch[i]
    PROVE  Runs(v, a + n, z, g, w) /\ Stands(SubSeq(ch[1], 1, n), a, g)
<1>1. PICK off \in [1 .. Len(ch) + 1 -> Nat] :
        Linked(ch, off, g, w) /\ off[1] = a /\ off[Len(ch) + 1] = z
  BY DEF Runs
<1>2. PICK l \in Nat : l = Len(ch) OBVIOUS
<1>3. 1 \in 1 .. l /\ 1 \in 1 .. l + 1 /\ l + 1 \in 1 .. l + 1 /\ l + 1 # 1 /\ 2 \in 1 .. l + 1
  BY <1>2
<1>4. off[1] = a /\ a \in Nat /\ off[l + 1] = z /\ off[2] \in Nat BY <1>1, <1>2, <1>3
<1>5. PICK h \in [1 .. l + 1 -> Nat] : h[1] = a + n /\ \A i \in 2 .. l + 1 : h[i] = off[i]
  <2> DEFINE f == [i \in 1 .. l + 1 |-> IF i = 1 THEN a + n ELSE off[i]]
  <2>1. f \in [1 .. l + 1 -> Nat] BY <1>2, <1>4
  <2>2. f[1] = a + n BY <1>3
  <2>3. \A i \in 2 .. l + 1 : f[i] = off[i] OBVIOUS
  <2> HIDE DEF f
  <2> QED BY <2>1, <2>2, <2>3
<1>6. PICK c \in Seq(Int) : c = ch[1]
  <2>1. ch[1] \in Seq(Int) BY <1>2, <1>3
  <2> QED BY <2>1
<1>7. Stands(c, a, g) /\ off[1 + 1] = a + Len(c)
  BY <1>1, <1>2, <1>3, <1>4, <1>6 DEF Linked
<1>8. n \in 0 .. Len(c) /\ n < Len(c) BY <1>6
<1>9. Stands(SubSeq(c, 1, n), a, g) BY <1>4, <1>7, <1>8, StandsBegins
<1>10. Stands(SubSeq(c, n + 1, Len(c)), a + n, g) BY <1>4, <1>7, <1>8, StandsRest
<1>11. PICK r : r = SubSeq(c, n + 1, Len(c)) OBVIOUS
<1>12. Len(r) = Len(c) - n BY <1>8, <1>11, IntRest
<1>13. r # <<>> BY <1>8, <1>12
<1>14. v[1] = r BY <1>6, <1>11
<1>15. ASSUME NEW j \in 1 .. l
       PROVE  /\ Stands(v[j], h[j], g)
              /\ h[j + 1] = h[j] + Len(v[j])
              /\ v[j] = <<>> => j = l /\ w = "over"
  <2>1. CASE j = 1
    <3>1. 1 + 1 = 2 /\ 2 \in 2 .. l + 1 BY <1>3
    <3>2. h[1 + 1] = a + Len(c) BY <1>5, <1>7, <3>1
    <3>3. (a + n) + (Len(c) - n) = a + Len(c) BY <1>4, <1>8
    <3> QED BY <1>5, <1>10, <1>11, <1>12, <1>13, <1>14, <2>1, <3>2, <3>3
  <2>2. CASE j \in 2 .. l
    <3>1. j \in 2 .. l + 1 /\ j + 1 \in 2 .. l + 1 BY ONLY <2>2, l \in Nat, j \in 1 .. l
    <3>2. h[j] = off[j] /\ h[j + 1] = off[j + 1] /\ v[j] = ch[j] BY <1>2, <1>5, <2>2, <3>1
    <3> QED BY <1>1, <1>2, <3>2 DEF Linked
  <2> QED BY <2>1, <2>2
<1>16. ASSUME NEW j \in 1 .. l + 1
       PROVE  h[j] <= h[l + 1]
  <2>0. l + 1 \in 2 .. l + 1 BY <1>3
  <2>1. CASE j = 1
    <3>1. off[2] <= off[l + 1] BY <1>1, <1>2, <1>3 DEF Linked
    <3>2. off[2] = a + Len(c) BY <1>7
    <3>3. z \in Nat BY <1>1, <1>2, <1>3
    <3>4. a + n <= z BY <1>4, <1>8, <3>1, <3>2, <3>3
    <3> QED BY <1>4, <1>5, <2>0, <2>1, <3>4
  <2>2. CASE j \in 2 .. l + 1
    <3>1. off[j] <= off[l + 1] BY <1>1, <1>2 DEF Linked
    <3> QED BY <1>5, <2>0, <2>2, <3>1
  <2> QED BY <2>1, <2>2
<1>17. Linked(v, h, g, w)
  <2>1. Len(v) = l BY <1>2
  <2>2. \A j \in 1 .. Len(v) :
        /\ Stands(v[j], h[j], g)
        /\ h[j + 1] = h[j] + Len(v[j])
        /\ v[j] = <<>> => j = Len(v) /\ w = "over"
    BY ONLY <2>1, <1>15, Zenon
  <2>3. \A j \in 1 .. Len(v) + 1 : h[j] <= h[Len(v) + 1]
    BY ONLY <2>1, <1>16, Zenon
  <2> QED BY <2>2, <2>3 DEF Linked
<1>18. h \in [1 .. Len(v) + 1 -> Nat] /\ h[Len(v) + 1] = z
  <2>1. l + 1 \in 2 .. l + 1 BY <1>3
  <2> QED BY <1>2, <1>4, <1>5, <2>1
<1> QED BY <1>5, <1>6, <1>9, <1>17, <1>18 DEF Runs

\* The whole first piece is read.
LEMMA RunsTail ==
    ASSUME NEW ch \in Seq(Seq(Int)), NEW a, NEW z, NEW g, NEW w, Runs(ch, a, z, g, w),
           Len(ch) > 0,
           NEW v, Len(v) = Len(ch) - 1, \A i \in 1 .. Len(ch) - 1 : v[i] = ch[i + 1]
    PROVE  Runs(v, a + Len(ch[1]), z, g, w) /\ Stands(ch[1], a, g)
<1>1. PICK off \in [1 .. Len(ch) + 1 -> Nat] :
        Linked(ch, off, g, w) /\ off[1] = a /\ off[Len(ch) + 1] = z
  BY DEF Runs
<1>2. PICK l \in Nat : l = Len(ch) OBVIOUS
<1>3. 1 \in 1 .. l /\ 1 \in 1 .. l /\ 1 + 1 = 2 /\ l \in 1 .. l BY <1>2
<1>4. PICK h \in [1 .. l -> Nat] : \A i \in 1 .. l : h[i] = off[i + 1]
  <2>1. [i \in 1 .. l |-> off[i + 1]] \in [1 .. l -> Nat] BY <1>2
  <2> QED BY <2>1
<1>5. Stands(ch[1], a, g) /\ off[1 + 1] = a + Len(ch[1])
  BY <1>1, <1>2, <1>3 DEF Linked
<1>6. ASSUME NEW j \in 1 .. l - 1
      PROVE  /\ Stands(v[j], h[j], g)
             /\ h[j + 1] = h[j] + Len(v[j])
             /\ v[j] = <<>> => j = l - 1 /\ w = "over"
  <2>1. j \in 1 .. l /\ j + 1 \in 1 .. l BY <1>2
  <2>2. h[j] = off[j + 1] /\ h[j + 1] = off[(j + 1) + 1] /\ v[j] = ch[j + 1] BY <1>2, <1>4, <2>1
  <2>3. /\ Stands(ch[j + 1], off[j + 1], g)
        /\ off[(j + 1) + 1] = off[j + 1] + Len(ch[j + 1])
        /\ ch[j + 1] = <<>> => j + 1 = l /\ w = "over"
    BY <1>1, <1>2, <2>1 DEF Linked
  <2>4. j + 1 = l => j = l - 1 OBVIOUS
  <2> QED BY <2>2, <2>3, <2>4
<1>7. ASSUME NEW j \in 1 .. l
      PROVE  h[j] <= h[l]
  <2>1. j + 1 \in 1 .. l + 1 OBVIOUS
  <2> QED BY <1>1, <1>2, <1>3, <1>4, <2>1 DEF Linked
<1>8. Linked(v, h, g, w)
  <2>1. Len(v) = l - 1 /\ Len(v) + 1 = l BY <1>2
  <2>2. \A j \in 1 .. Len(v) :
        /\ Stands(v[j], h[j], g)
        /\ h[j + 1] = h[j] + Len(v[j])
        /\ v[j] = <<>> => j = Len(v) /\ w = "over"
    BY ONLY <2>1, <1>6, Zenon
  <2>3. \A j \in 1 .. Len(v) + 1 : h[j] <= h[Len(v) + 1]
    BY ONLY <2>1, <1>7, Zenon
  <2> QED BY <2>2, <2>3 DEF Linked
<1>9. h \in [1 .. Len(v) + 1 -> Nat] /\ h[1] = a + Len(ch[1]) /\ h[Len(v) + 1] = z
  <2>1. Len(v) + 1 = l BY <1>2
  <2> QED BY <1>1, <1>2, <1>3, <1>4, <1>5, <2>1
<1> QED BY <1>5, <1>8, <1>9 DEF Runs

Foreigner == odd \in {"cut", "more", "none"}

\* The codes that inflate() has behind it, those that the stream will have or has, and those
\* that the writer has let go.
Passed == Len(received) + Len(held) + (IF ended THEN 1 ELSE 0)
StreamEnd == provided + (IF last THEN 1 ELSE IF odd = "more" THEN 2 ELSE 0)
Out == IF writer = "over" THEN StreamEnd ELSE StreamEnd - (Len(payload) + Len(kept))

ZipTypes ==
    /\ {zip, chunked, last, ended} \subseteq BOOLEAN
    /\ {total, provided} \subseteq Nat
    /\ writer \in {"loop", "compress", "over"}
    /\ reader \in {"read", "decompress", "true", "false"}
    /\ odd \in {"no", "cut", "more", "none", "refused"}
    /\ {kept, payload, input, held, received} \subseteq Seq(Int)
    /\ chunks \in Seq(Seq(Int))

\* The codes go from the writer to the receiver in their order: what is kept, what is in the
\* payload, on the way, at inflate() and with the receiver follow each other.
StreamRuns == odd # "none" => Runs(chunks, Passed + Len(input), Out, provided, writer)
StreamRead == odd # "none" => Stands(input, Passed, provided)
StreamKept ==
    writer # "over" => Stands(payload, Out, provided) /\ Stands(kept, Out + Len(payload), provided)

NoStream ==
    odd = "none" =>
        /\ received = <<>> /\ held = <<>> /\ ~ended
        /\ \/ chunks = << <<Zipping!Other>>, <<>> >> /\ reader = "read"
           \/ chunks = << <<>> >> /\ input = <<Zipping!Other>> /\ reader \in {"decompress", "false"}

WriterWell ==
    /\ ~zip => ~last /\ kept = <<>> /\ writer # "compress" /\ (chunked => payload = <<>>)
    /\ chunked /\ writer = "loop" => ~last
    /\ last /\ ~chunked => provided = total /\ total > 0
    /\ last /\ writer = "loop" => kept = <<>>
    /\ ~chunked /\ zip /\ writer # "over" /\ provided = total /\ total > 0 => last
    /\ Foreigner => zip /\ writer = "over" /\ ~last
    /\ writer = "over" /\ zip /\ ~Foreigner => last \/ provided = 0

ReaderPlaces ==
    /\ Stands(received, 0, provided) /\ Stands(held, Len(received), provided)
    /\ Len(received) + Len(held) <= provided
    /\ ended => held = <<>> /\ Len(received) = provided /\ zip

ReaderStates ==
    /\ reader \in {"read", "true"} <=> input = <<>>
    /\ ~zip => held = <<>> /\ ~ended /\ reader \in {"read", "true"} /\ odd = "no"
    /\ reader = "true" => writer = "over" /\ chunks = <<>> /\ (Len(received) = provided \/ odd = "cut")
    /\ reader = "false" => odd \in {"none", "refused"}

ZipInv ==
    /\ ZipTypes /\ StreamRuns /\ StreamRead /\ StreamKept
    /\ NoStream /\ WriterWell /\ ReaderPlaces /\ ReaderStates

LEMMA ZipLens ==
    ASSUME ZipTypes
    PROVE  /\ Len(received) \in Nat /\ Len(held) \in Nat /\ Len(input) \in Nat
           /\ Len(payload) \in Nat /\ Len(kept) \in Nat /\ Len(chunks) \in Nat
           /\ Passed \in Nat /\ StreamEnd \in Nat
           /\ received \in Seq(Int) /\ held \in Seq(Int) /\ input \in Seq(Int)
           /\ payload \in Seq(Int) /\ kept \in Seq(Int) /\ chunks \in Seq(Seq(Int))
           /\ provided \in Nat /\ total \in Nat /\ last \in BOOLEAN /\ ended \in BOOLEAN
<1>1. /\ received \in Seq(Int) /\ held \in Seq(Int) /\ input \in Seq(Int)
      /\ payload \in Seq(Int) /\ kept \in Seq(Int) /\ chunks \in Seq(Seq(Int))
      /\ provided \in Nat /\ total \in Nat /\ last \in BOOLEAN /\ ended \in BOOLEAN
  BY DEF ZipTypes
<1>2. Len(received) \in Nat /\ Len(held) \in Nat /\ Len(input) \in Nat
  BY <1>1
<1>3. Len(payload) \in Nat /\ Len(kept) \in Nat /\ Len(chunks) \in Nat
  BY <1>1
<1>4. Passed \in Nat BY <1>1, <1>2 DEF Passed
<1>5. StreamEnd \in Nat BY <1>1 DEF StreamEnd
<1> QED BY <1>1, <1>2, <1>3, <1>4, <1>5

\* While the writer is at work, it has let go what is neither kept nor in the payload, and
\* the reader is not farther.
LEMMA WriterAtWork ==
    ASSUME ZipInv, writer # "over"
    PROVE  /\ odd \in {"no", "refused"} /\ ~Foreigner
           /\ Out \in Nat /\ Out + Len(payload) + Len(kept) = StreamEnd
           /\ StreamEnd = provided + (IF last THEN 1 ELSE 0)
           /\ Runs(chunks, Passed + Len(input), Out, provided, writer)
           /\ Passed + Len(input) <= Out
           /\ reader # "true"
<1>1. odd \in {"no", "refused"} /\ ~Foreigner
  BY DEF ZipInv, WriterWell, ZipTypes, Foreigner
<1>2. Runs(chunks, Passed + Len(input), Out, provided, writer)
  BY <1>1 DEF ZipInv, StreamRuns
<1>3. Out \in Nat /\ Passed + Len(input) <= Out
  <2>1. Len(chunks) \in Nat BY ZipLens DEF ZipInv
  <2> QED BY <1>2, <2>1, RunsOrder
<1>4. Out = StreamEnd - (Len(payload) + Len(kept)) BY DEF Out
<1>5. Len(payload) \in Nat /\ Len(kept) \in Nat /\ StreamEnd \in Nat BY ZipLens DEF ZipInv
<1>6. Out + Len(payload) + Len(kept) = StreamEnd BY <1>3, <1>4, <1>5
<1>7. StreamEnd = provided + (IF last THEN 1 ELSE 0) BY <1>1 DEF StreamEnd
<1>8. reader # "true" BY DEF ZipInv, ReaderStates
<1> QED BY <1>1, <1>2, <1>3, <1>6, <1>7, <1>8

\* The stream without its end may get longer.
LEMMA MoreGiven ==
    ASSUME ZipInv, writer # "over", ~last, NEW h \in Nat, provided <= h
    PROVE  /\ Runs(chunks, Passed + Len(input), Out, h, writer)
           /\ Stands(input, Passed, h)
           /\ Stands(payload, Out, h) /\ Stands(kept, Out + Len(payload), h)
           /\ Stands(received, 0, h) /\ Stands(held, Len(received), h)
           /\ Len(received) + Len(held) <= h
           /\ ~ended
<1>1. PICK r \in Nat : r = Len(received) BY ZipLens DEF ZipInv
<1>2. PICK d \in Nat : d = Len(held) BY ZipLens DEF ZipInv
<1>3. PICK i \in Nat : i = Len(input) BY ZipLens DEF ZipInv
<1>4. PICK m \in Nat : m = Len(payload) BY ZipLens DEF ZipInv
<1>5. PICK k \in Nat : k = Len(kept) BY ZipLens DEF ZipInv
<1>6. PICK o \in Nat : o = Out BY WriterAtWork
<1>7. PICK p \in Nat : p = Passed BY ZipLens DEF ZipInv
<1>8. PICK g \in Nat : g = provided BY ZipLens DEF ZipInv
<1>9. o + m + k = g /\ p + i <= o
  <2>1. StreamEnd = provided BY WriterAtWork, ZipLens DEF ZipInv
  <2> QED BY <2>1, <1>3, <1>4, <1>5, <1>6, <1>7, <1>8, WriterAtWork
<1>10. p = r + d + (IF ended THEN 1 ELSE 0) /\ r + d <= g /\ (ended => d = 0 /\ r = g)
  <2>1. p = r + d + (IF ended THEN 1 ELSE 0) BY <1>1, <1>2, <1>7 DEF Passed
  <2>2. r + d <= g BY <1>1, <1>2, <1>8 DEF ZipInv, ReaderPlaces
  <2>3. ended => d = 0 /\ r = g BY <1>1, <1>2, <1>8 DEF ZipInv, ReaderPlaces
  <2> QED BY <2>1, <2>2, <2>3
<1>11. ~ended
  <2>1. SUFFICES ASSUME ended PROVE FALSE OBVIOUS
  <2>2. p = r + d + 1 BY <1>10, <2>1
  <2>3. d = 0 /\ r = g BY <1>10, <2>1
  <2> QED
    BY ONLY <1>9, <2>2, <2>3, p \in Nat, i \in Nat, o \in Nat, m \in Nat, k \in Nat, g \in Nat,
            r \in Nat
<1>12. /\ g <= h /\ p + i <= g /\ o + m <= g /\ (o + m) + k <= g /\ 0 + r <= g /\ r + d <= g
       /\ o <= g /\ r + d <= h /\ o + m \in Nat
  <2>1. g <= h BY <1>8
  <2> QED
    BY ONLY <1>9, <1>10, <2>1, p \in Nat, i \in Nat, o \in Nat, m \in Nat, k \in Nat, g \in Nat,
                  r \in Nat, d \in Nat, h \in Nat
<1>13. Runs(chunks, Passed + Len(input), o, h, writer)
  <2>1. chunks \in Seq(Seq(Int)) BY ZipLens DEF ZipInv
  <2>2. Runs(chunks, Passed + Len(input), o, g, writer) BY <1>6, <1>8, WriterAtWork
  <2>3. g <= h /\ o <= g BY <1>12
  <2> QED BY <2>1, <2>2, <2>3, RunsMore
<1>14. Stands(input, p, h)
  <2>1. input \in Seq(Int) BY ZipLens DEF ZipInv
  <2>2. Stands(input, p, g)
    <3>1. odd # "none" BY WriterAtWork
    <3> QED BY <1>7, <1>8, <3>1 DEF ZipInv, StreamRead
  <2>3. g <= h /\ p + Len(input) <= g BY <1>3, <1>12
  <2> QED BY <2>1, <2>2, <2>3, StandsMore
<1>15. Stands(payload, o, h)
  <2>1. payload \in Seq(Int) BY ZipLens DEF ZipInv
  <2>2. Stands(payload, o, g) BY <1>6, <1>8 DEF ZipInv, StreamKept
  <2>3. g <= h /\ o + Len(payload) <= g BY <1>4, <1>12
  <2> QED BY <2>1, <2>2, <2>3, StandsMore
<1>16. Stands(kept, o + m, h)
  <2>1. kept \in Seq(Int) BY ZipLens DEF ZipInv
  <2>2. Stands(kept, o + m, g) BY <1>4, <1>6, <1>8 DEF ZipInv, StreamKept
  <2>3. g <= h /\ (o + m) + Len(kept) <= g /\ o + m \in Nat BY <1>5, <1>12
  <2> QED BY <2>1, <2>2, <2>3, StandsMore
<1>17. Stands(received, 0, h)
  <2>1. received \in Seq(Int) BY ZipLens DEF ZipInv
  <2>2. Stands(received, 0, g) BY <1>8 DEF ZipInv, ReaderPlaces
  <2>3. g <= h /\ 0 + Len(received) <= g /\ 0 \in Nat BY <1>1, <1>12
  <2> QED BY <2>1, <2>2, <2>3, StandsMore
<1>18. Stands(held, r, h)
  <2>1. held \in Seq(Int) BY ZipLens DEF ZipInv
  <2>2. Stands(held, r, g) BY <1>1, <1>8 DEF ZipInv, ReaderPlaces
  <2>3. g <= h /\ r + Len(held) <= g BY <1>2, <1>12
  <2> QED BY <2>1, <2>2, <2>3, StandsMore
<1>19. Len(received) + Len(held) <= h BY <1>1, <1>2, <1>12
<1> QED BY <1>1, <1>4, <1>6, <1>7, <1>11, <1>13, <1>14, <1>15, <1>16, <1>17, <1>18, <1>19

\* What the writer does leaves the reader as it is.
LEMMA WriterKeepsReader ==
    ASSUME ZipInv, writer # "over", UNCHANGED <<Zipping!headers, Zipping!reading, odd>>,
           provided' \in Nat, provided' = provided \/ (~last /\ provided <= provided')
    PROVE  /\ odd' \in {"no", "refused"} /\ Passed' = Passed /\ input' = input
           /\ StreamRead' /\ NoStream' /\ ReaderPlaces' /\ ReaderStates'
<1>1. /\ zip' = zip /\ chunked' = chunked /\ total' = total /\ odd' = odd
      /\ reader' = reader /\ input' = input /\ held' = held /\ ended' = ended
         /\ received' = received
  BY DEF Zipping!headers, Zipping!reading
<1>2. odd' \in {"no", "refused"} /\ odd \in {"no", "refused"} /\ reader # "true"
  BY <1>1, WriterAtWork
<1>3. Passed' = Passed BY <1>1 DEF Passed
<1>4. NoStream' BY <1>2 DEF NoStream
<1>5. ReaderStates'
  <2>1. ReaderStates BY DEF ZipInv
  <2> QED BY <1>1, <1>2, <2>1 DEF ReaderStates
<1>6. CASE provided' = provided
  <2>1. StreamRead'
    <3>1. Stands(input, Passed, provided) BY <1>2 DEF ZipInv, StreamRead
    <3> QED BY <1>1, <1>3, <1>6, <3>1 DEF StreamRead
  <2>2. ReaderPlaces'
    <3>1. ReaderPlaces BY DEF ZipInv
    <3> QED BY <1>1, <1>6, <3>1 DEF ReaderPlaces
  <2> QED BY <1>1, <1>2, <1>3, <1>4, <1>5, <2>1, <2>2
<1>7. CASE ~last /\ provided <= provided'
  <2>0. PICK h \in Nat : h = provided' OBVIOUS
  <2>1. /\ Stands(input, Passed, h) /\ Stands(received, 0, h) /\ Stands(held, Len(received), h)
        /\ Len(received) + Len(held) <= h /\ ~ended
    BY <1>7, <2>0, MoreGiven
  <2>2. StreamRead' BY <1>1, <1>3, <2>0, <2>1 DEF StreamRead
  <2>3. ReaderPlaces' BY <1>1, <2>0, <2>1 DEF ReaderPlaces
  <2> QED BY <1>1, <1>2, <1>3, <1>4, <1>5, <2>2, <2>3
<1> QED BY <1>6, <1>7

LEMMA CodesStand ==
    ASSUME NEW n \in Nat, n > 0, provided \in Nat
    PROVE  /\ Zipping!Codes(n) \in Seq(Int) /\ Len(Zipping!Codes(n)) = n /\ Zipping!Codes(n) # <<>>
           /\ Stands(Zipping!Codes(n), provided, provided + n)
<1>1. PICK g \in Nat : g = provided OBVIOUS
<1>2. PICK c : c = [i \in 1 .. n |-> g + i] OBVIOUS
<1>3. Zipping!Codes(n) = c BY <1>1, <1>2 DEF Zipping!Codes
<1>4. c \in Seq(Int) /\ Len(c) = n /\ \A i \in 1 .. n : c[i] = g + i BY <1>2
<1>5. c # <<>>
  <2>1. Len(<<>>) = 0 OBVIOUS
  <2> QED BY <1>4, <2>1
<1>6. Stands(c, g, g + n)
  <2>1. \A i \in 1 .. Len(c) : c[i] = g + i BY <1>4
  <2>2. g + Len(c) <= g + n /\ g + n \in Nat BY <1>4
  <2> QED BY <1>4, <2>1, <2>2, StandsBytes
<1> QED BY <1>1, <1>3, <1>4, <1>5, <1>6

\* What is sent: a piece, the empty piece, both or nothing.
LEMMA SendsRuns ==
    ASSUME NEW bytes \in Seq(Int), NEW over \in BOOLEAN, NEW w, NEW x, w # "over",
           over => x = "over", chunks \in Seq(Seq(Int)), Zipping!Sends(bytes, over),
           NEW a, NEW z \in Nat, NEW g, Runs(chunks, a, z, g, w), Stands(bytes, z, g)
    PROVE  chunks' \in Seq(Seq(Int)) /\ Runs(chunks', a, z + Len(bytes), g, x)
<1>1. PICK one \in Seq(Seq(Int)) : /\ one = chunks \o (IF bytes = <<>> THEN <<>> ELSE << bytes >>)
                                   /\ Runs(one, a, z + Len(bytes), g, w)
                                   /\ Runs(one, a, z + Len(bytes), g, x)
  <2>1. CASE bytes = <<>>
    <3>1. PICK t : t = (IF bytes = <<>> THEN <<>> ELSE << bytes >>) /\ t = <<>> BY <2>1
    <3>2. PICK c \in Seq(Seq(Int)) : c = chunks OBVIOUS
    <3>3. c \o t = c BY <3>1
    <3>4. Len(bytes) = 0 /\ z + Len(bytes) = z
      <4>1. Len(<<>>) = 0 OBVIOUS
      <4>2. Len(bytes) = 0 BY <2>1, <4>1
      <4> QED BY <4>2
    <3>5. Runs(chunks, a, z, g, x)
      <4>1. Len(chunks) \in Nat OBVIOUS
      <4> QED BY <4>1, RunsOrder
    <3> QED BY <3>1, <3>2, <3>3, <3>4, <3>5
  <2>2. CASE bytes # <<>>
    <3>0. << bytes >> \in Seq(Seq(Int)) OBVIOUS
    <3>1. PICK t \in Seq(Seq(Int)) : t = << bytes >> BY <3>0
    <3>2. Len(t) = 1 /\ t[1] = bytes BY <3>1
    <3>6. (IF bytes = <<>> THEN <<>> ELSE << bytes >>) = << bytes >> BY ONLY <2>2, Zenon
    <3>3. PICK v : v = chunks \o t OBVIOUS
    <3>4. /\ v \in Seq(Seq(Int)) /\ Len(v) = Len(chunks) + 1
          /\ \A i \in 1 .. Len(chunks) : v[i] = chunks[i]
          /\ v[Len(chunks) + 1] = bytes
      <4>1. /\ chunks \o t \in Seq(Seq(Int)) /\ Len(chunks \o t) = Len(chunks) + Len(t)
            /\ \A i \in 1 .. Len(chunks) : (chunks \o t)[i] = chunks[i]
            /\ \A i \in 1 .. Len(t) : (chunks \o t)[Len(chunks) + i] = t[i]
        BY ONLY chunks \in Seq(Seq(Int)), t \in Seq(Seq(Int)), Concat
      <4>2. 1 \in 1 .. Len(t) BY <3>2
      <4> QED BY <3>2, <3>3, <4>1, <4>2
    <3>5. \A y : Runs(v, a, z + Len(bytes), g, y) BY <2>2, <3>4, RunsSend
    <3> QED BY <3>1, <3>3, <3>4, <3>5, <3>6
  <2> QED BY <2>1, <2>2
<1>2. chunks' = one \o (IF over THEN << <<>> >> ELSE <<>>) BY <1>1 DEF Zipping!Sends
<1>3. CASE over
  <2>1. PICK t \in Seq(Seq(Int)) : t = << <<>> >>
    <3>1. <<>> \in Seq(Int) OBVIOUS
    <3>2. << <<>> >> \in Seq(Seq(Int)) BY <3>1
    <3> QED BY <3>2
  <2>2. Len(t) = 1 /\ t[1] = <<>> BY <2>1
  <2>3. PICK v : v = one \o t OBVIOUS
  <2>4. /\ v \in Seq(Seq(Int)) /\ Len(v) = Len(one) + 1
        /\ \A i \in 1 .. Len(one) : v[i] = one[i]
        /\ v[Len(one) + 1] = <<>>
    <3>1. /\ one \o t \in Seq(Seq(Int)) /\ Len(one \o t) = Len(one) + Len(t)
          /\ \A i \in 1 .. Len(one) : (one \o t)[i] = one[i]
          /\ \A i \in 1 .. Len(t) : (one \o t)[Len(one) + i] = t[i]
      BY ONLY one \in Seq(Seq(Int)), t \in Seq(Seq(Int)), Concat
    <3>2. 1 \in 1 .. Len(t) BY <2>2
    <3> QED BY <2>2, <2>3, <3>1, <3>2
  <2>5. PICK y \in Nat : y = z + Len(bytes) OBVIOUS
  <2>6. PICK b \in Seq(Int) : b = <<>> /\ Len(b) = 0
    <3>1. <<>> \in Seq(Int) /\ Len(<<>>) = 0 OBVIOUS
    <3> QED BY <3>1
  <2>7. Stands(b, y, g) BY <2>6, StandsNone
  <2>8. Runs(one, a, y, g, w) /\ v[Len(one) + 1] = b /\ (b = <<>> => x = "over")
    BY <1>1, <1>3, <2>4, <2>5, <2>6
  <2>9. Runs(v, a, y + Len(b), g, x) BY <2>4, <2>7, <2>8, RunsSend
  <2>10. y + Len(b) = y BY <2>6
  <2>11. chunks' = v BY <1>2, <1>3, <2>1, <2>3
  <2> QED BY <2>4, <2>5, <2>9, <2>10, <2>11
<1>4. CASE ~over
  <2>1. one \o <<>> = one OBVIOUS
  <2>2. chunks' = one BY <1>2, <1>4, <2>1
  <2> QED BY <1>1, <2>2
<1> QED BY <1>3, <1>4

\* The step of the writer, put together.
LEMMA WriterStep ==
    ASSUME ZipInv, writer # "over", UNCHANGED <<Zipping!headers, Zipping!reading, odd>>,
           provided' \in Nat, provided' = provided \/ (~last /\ provided <= provided'),
           writer' \in {"loop", "compress", "over"}, last' \in BOOLEAN,
           kept' \in Seq(Int), payload' \in Seq(Int), chunks' \in Seq(Seq(Int)),
           Runs(chunks', Passed + Len(input), Out', provided', writer'),
           writer' # "over" => Stands(payload', Out', provided')
                               /\ Stands(kept', Out' + Len(payload'), provided'),
           WriterWell'
    PROVE  ZipInv'
<1>1. /\ Passed' = Passed /\ input' = input
      /\ StreamRead' /\ NoStream' /\ ReaderPlaces' /\ ReaderStates'
  BY WriterKeepsReader
<1>2. StreamRuns' BY <1>1 DEF StreamRuns
<1>3. StreamKept' BY DEF StreamKept
<1>4. ZipTypes'
  <2>1. /\ zip' = zip /\ chunked' = chunked /\ total' = total /\ odd' = odd
        /\ reader' = reader /\ input' = input /\ held' = held /\ ended' = ended
           /\ received' = received
    BY DEF Zipping!headers, Zipping!reading
  <2>2. ZipTypes BY DEF ZipInv
  <2> QED BY <2>1, <2>2 DEF ZipTypes
<1> QED BY <1>1, <1>2, <1>3, <1>4 DEF ZipInv

LEMMA ZipWriteKeeps ==
    ASSUME Zipping!GzipAssumption, MaxPiece \in Nat, ZipInv, NEW n \in 1 .. MaxPiece,
           Zipping!Write(n)
    PROVE  ZipInv'
<1>1. /\ n \in Nat /\ n > 0 /\ writer = "loop" /\ provided' = provided + n /\ provided' \in Nat
      /\ provided \in Nat /\ provided <= provided' /\ UNCHANGED <<Zipping!headers, Zipping!reading, odd>>
  BY ZipLens DEF ZipInv, Zipping!Write
<1>2. ~last
  <2>1. SUFFICES ASSUME last PROVE FALSE OBVIOUS
  <2>2. ~chunked /\ provided = total BY <1>1, <2>1 DEF ZipInv, WriterWell
  <2>3. provided + n <= total BY <2>2 DEF Zipping!Write
  <2> QED BY <1>1, <2>2, <2>3
<1>3. ~Foreigner /\ odd' = odd /\ zip' = zip /\ chunked' = chunked /\ total' = total
      /\ odd \in {"no", "refused"}
  BY <1>1, WriterAtWork DEF Zipping!headers
<1>4. PICK h \in Nat : h = provided' BY <1>1
<1>5. PICK g \in Nat : g = provided BY <1>1
<1>6. h = g + n /\ g <= h BY <1>1, <1>4, <1>5
<1>7. /\ Runs(chunks, Passed + Len(input), Out, h, writer)
      /\ Stands(payload, Out, h) /\ Stands(kept, Out + Len(payload), h)
  BY <1>1, <1>2, <1>4, MoreGiven
<1>8. PICK c \in Seq(Int) : c = Zipping!Codes(n) /\ Len(c) = n /\ c # <<>> /\ Stands(c, g, h)
  BY <1>1, <1>5, <1>6, CodesStand
<1>9. PICK m \in Nat : m = Len(payload) BY ZipLens DEF ZipInv
<1>10. PICK k \in Nat : k = Len(kept) BY ZipLens DEF ZipInv
<1>11. PICK o \in Nat : o = Out BY <1>1, WriterAtWork
<1>12. o + m + k = g
  <2>1. StreamEnd = provided BY <1>1, <1>2, WriterAtWork
  <2> QED BY <1>1, <2>1, <1>5, <1>9, <1>10, <1>11, WriterAtWork
<1>13. kept \in Seq(Int) /\ payload \in Seq(Int) /\ chunks \in Seq(Seq(Int)) BY ZipLens DEF ZipInv
<1>14. CASE zip
  <2>1. /\ last' = (~chunked /\ provided' = total)
        /\ kept' = (kept \o c) \o (IF last' THEN << Zipping!End >> ELSE <<>>)
        /\ writer' = "compress" /\ payload' = payload /\ chunks' = chunks
    BY <1>8, <1>14 DEF Zipping!Write
  <2>2. PICK t \in Seq(Int) : /\ t = (IF last' THEN << Zipping!End >> ELSE <<>>)
                              /\ Len(t) = (IF last' THEN 1 ELSE 0)
                              /\ Stands(t, h, h)
    <3>1. CASE last'
      <4>0. Zipping!End \in Int BY DEF Zipping!End
      <4>1. PICK t \in Seq(Int) : t = << Zipping!End >>
        <5>1. << Zipping!End >> \in Seq(Int) BY <4>0
        <5> QED BY <5>1
      <4>2. Len(t) = 1 /\ t[1] = Zipping!End BY <4>1
      <4>3. Code(h + 1, h) = Zipping!End BY DEF Code
      <4>4. \A i \in 1 .. Len(t) : t[i] = Code(h + i, h) BY <4>2, <4>3
      <4> QED BY <3>1, <4>1, <4>2, <4>4 DEF Stands
    <3>2. CASE ~last'
      <4>1. <<>> \in Seq(Int) /\ Len(<<>>) = 0 OBVIOUS
      <4>2. PICK t \in Seq(Int) : t = <<>> /\ Len(t) = 0 BY <4>1
      <4>3. Stands(t, h, h) BY <4>2, StandsNone
      <4>4. t = (IF last' THEN << Zipping!End >> ELSE <<>>) BY <3>2, <4>2
      <4>5. Len(t) = (IF last' THEN 1 ELSE 0) BY <3>2, <4>2
      <4> QED BY <4>3, <4>4, <4>5
    <3> QED BY <3>1, <3>2
  <2>3. PICK q \in Seq(Int) : q = kept \o c /\ Len(q) = k + n /\ Stands(q, o + m, h)
    <3>1. kept \o c \in Seq(Int) /\ Len(kept \o c) = Len(kept) + Len(c)
      BY <1>13, IntConcat
    <3>2. Stands(kept, o + m, h) BY <1>7, <1>9, <1>11
    <3>3. (o + m) + Len(kept) = g /\ o + m \in Nat BY <1>10, <1>12
    <3>4. Stands(c, (o + m) + Len(kept), h) BY <1>8, <3>3
    <3>5. Stands(kept \o c, o + m, h) BY <1>13, <3>2, <3>3, <3>4, StandsJoin
    <3> QED BY <1>8, <1>10, <3>1, <3>5
  <2>4. /\ kept' \in Seq(Int) /\ Len(kept') = k + n + Len(t) /\ Stands(kept', o + m, h)
    <3>1. kept' = q \o t BY <2>1, <2>2, <2>3
    <3>2. q \o t \in Seq(Int) /\ Len(q \o t) = Len(q) + Len(t) BY IntConcat
    <3>3. (o + m) + Len(q) = h /\ o + m \in Nat BY <1>6, <1>12, <2>3
    <3>4. Stands(t, (o + m) + Len(q), h) BY <2>2, <3>3
    <3>5. Stands(q \o t, o + m, h) BY <2>3, <3>3, <3>4, StandsJoin
    <3> QED BY <2>3, <3>1, <3>2, <3>5
  <2>5. Out' = o
    <3>1. PICK f \in Nat : f = Len(t) OBVIOUS
    <3>2. StreamEnd' = h + f
      <4>1. odd' # "more" BY <1>3
      <4> QED BY <1>4, <2>2, <3>1, <4>1 DEF StreamEnd
    <3>3. Out' = StreamEnd' - (Len(payload') + Len(kept')) BY <2>1 DEF Out
    <3>4. Len(payload') = m /\ Len(kept') = k + n + f BY <1>9, <2>1, <2>4, <3>1
    <3> QED BY <1>6, <1>12, <3>2, <3>3, <3>4
  <2>6. last' \in BOOLEAN /\ payload' \in Seq(Int) /\ chunks' \in Seq(Seq(Int))
        /\ writer' \in {"loop", "compress", "over"}
    BY <1>13, <2>1
  <2>7. Runs(chunks', Passed + Len(input), Out', provided', writer')
    <3>1. Len(chunks) \in Nat BY <1>13
    <3>2. Runs(chunks, Passed + Len(input), o, h, "compress")
      BY <1>1, <1>7, <1>11, <3>1, RunsOrder
    <3> QED BY <1>4, <2>1, <2>5, <3>2
  <2>8. Stands(payload', Out', provided') /\ Stands(kept', Out' + Len(payload'), provided')
    BY <1>4, <1>7, <1>9, <1>11, <2>1, <2>4, <2>5
  <2>9. WriterWell'
    <3>1. ~Foreigner' BY <1>3 DEF Foreigner
    <3>2. last' => total' > 0
      <4>1. h > 0 BY <1>1, <1>6
      <4> QED BY <1>3, <1>4, <2>1, <4>1
    <3> QED BY <1>3, <1>14, <2>1, <3>1, <3>2 DEF WriterWell
  <2> QED BY <1>1, <1>2, <2>4, <2>6, <2>7, <2>8, <2>9, WriterStep
<1>15. CASE ~zip /\ chunked
  <2>1. Zipping!Sends(c, FALSE) /\ payload' = payload /\ last' = last /\ kept' = kept
        /\ writer' = writer
    BY <1>8, <1>15 DEF Zipping!Write
  <2>2. payload = <<>> /\ kept = <<>> /\ ~last BY <1>15 DEF ZipInv, WriterWell
  <2>0. last' = FALSE
    <3>1. last \in BOOLEAN /\ ~last /\ last' = last BY <2>1, <2>2 DEF ZipInv, ZipTypes
    <3> QED BY ONLY <3>1, Zenon
  <2>3. m = 0 /\ k = 0
    <3>1. Len(<<>>) = 0 OBVIOUS
    <3> QED BY <1>9, <1>10, <2>2, <3>1
  <2>4. o = g BY <1>12, <2>3
  <2>5. chunks' \in Seq(Seq(Int)) /\ Runs(chunks', Passed + Len(input), o + Len(c), h, "loop")
    <3>1. Stands(c, o, h) BY <1>8, <2>4
    <3>2. Runs(chunks, Passed + Len(input), o, h, "loop") BY <1>1, <1>7, <1>11
    <3>3. FALSE \in BOOLEAN OBVIOUS
    <3> QED BY <1>13, <2>1, <3>1, <3>2, <3>3, SendsRuns
  <2>6. o + Len(c) = h BY <1>6, <1>8, <2>4
  <2>7. Out' = h
    <3>1. StreamEnd' = h
      <4>1. odd' # "more" BY <1>3
      <4>2. last' = FALSE BY <2>0
      <4>3. StreamEnd' = provided' + (IF last' THEN 1 ELSE IF odd' = "more" THEN 2 ELSE 0)
        BY DEF StreamEnd
      <4>4. (IF last' THEN 1 ELSE IF odd' = "more" THEN 2 ELSE 0) = 0 BY ONLY <4>1, <4>2, Zenon
      <4>5. StreamEnd' = h + 0 BY ONLY <1>4, <4>3, <4>4, Zenon
      <4> QED BY ONLY <4>5, h \in Nat
    <3>2. Out' = StreamEnd' - (Len(payload') + Len(kept')) BY <1>1, <2>1 DEF Out
    <3>3. Len(payload') = 0 /\ Len(kept') = 0 BY <1>9, <1>10, <2>1, <2>3
    <3> QED BY <3>1, <3>2, <3>3
  <2>8. /\ last' \in BOOLEAN /\ payload' \in Seq(Int) /\ kept' \in Seq(Int)
           /\ writer' \in {"loop", "compress", "over"}
        /\ writer' = "loop"
    BY <1>1, <1>13, <2>0, <2>1
  <2>9. Runs(chunks', Passed + Len(input), Out', provided', writer') BY <1>4, <2>5, <2>6, <2>7, <2>8
  <2>10. Stands(payload', Out', provided') /\ Stands(kept', Out' + Len(payload'), provided')
    <3>1. Len(payload') = 0 /\ Len(kept') = 0 BY <1>9, <1>10, <2>1, <2>3
    <3> QED BY <3>1, StandsNone
  <2>11. WriterWell'
    <3>1. ~Foreigner' BY <1>3 DEF Foreigner
    <3> QED BY <1>1, <1>3, <1>15, <2>1, <2>2, <3>1 DEF WriterWell
  <2> QED BY <1>1, <1>2, <2>5, <2>8, <2>9, <2>10, <2>11, WriterStep
<1>16. CASE ~zip /\ ~chunked
  <2>1. payload' = payload \o c /\ chunks' = chunks /\ last' = last /\ kept' = kept
        /\ writer' = writer
    BY <1>8, <1>16 DEF Zipping!Write
  <2>2. kept = <<>> /\ ~last /\ k = 0
    <3>1. kept = <<>> /\ ~last BY <1>16 DEF ZipInv, WriterWell
    <3>2. Len(<<>>) = 0 OBVIOUS
    <3> QED BY <1>10, <3>1, <3>2
  <2>0. last' = FALSE
    <3>1. last \in BOOLEAN /\ ~last /\ last' = last BY <2>1, <2>2 DEF ZipInv, ZipTypes
    <3> QED BY ONLY <3>1, Zenon
  <2>3. payload' \in Seq(Int) /\ Len(payload') = m + n /\ Stands(payload', o, h)
    <3>1. payload \o c \in Seq(Int) /\ Len(payload \o c) = Len(payload) + Len(c)
      BY <1>13, IntConcat
    <3>2. Stands(payload, o, h) BY <1>7, <1>11
    <3>3. o + Len(payload) = g BY <1>9, <1>12, <2>2
    <3>4. Stands(c, o + Len(payload), h) BY <1>8, <3>3
    <3>5. Stands(payload \o c, o, h) BY <1>13, <3>2, <3>4, StandsJoin
    <3> QED BY <1>8, <1>9, <2>1, <3>1, <3>5
  <2>4. Out' = o
    <3>1. StreamEnd' = h
      <4>1. odd' # "more" BY <1>3
      <4>2. last' = FALSE BY <2>0
      <4>3. StreamEnd' = provided' + (IF last' THEN 1 ELSE IF odd' = "more" THEN 2 ELSE 0)
        BY DEF StreamEnd
      <4>4. (IF last' THEN 1 ELSE IF odd' = "more" THEN 2 ELSE 0) = 0 BY ONLY <4>1, <4>2, Zenon
      <4>5. StreamEnd' = h + 0 BY ONLY <1>4, <4>3, <4>4, Zenon
      <4> QED BY ONLY <4>5, h \in Nat
    <3>2. Out' = StreamEnd' - (Len(payload') + Len(kept')) BY <1>1, <2>1 DEF Out
    <3>3. Len(kept') = 0 BY <1>10, <2>1, <2>2
    <3> QED BY <1>6, <1>12, <2>2, <2>3, <3>1, <3>2, <3>3
  <2>5. /\ last' \in BOOLEAN /\ kept' \in Seq(Int) /\ chunks' \in Seq(Seq(Int))
        /\ writer' \in {"loop", "compress", "over"} /\ writer' = "loop"
    BY <1>1, <1>13, <2>0, <2>1
  <2>6. Runs(chunks', Passed + Len(input), Out', provided', writer')
    BY <1>1, <1>4, <1>7, <1>11, <2>1, <2>4
  <2>7. Stands(payload', Out', provided') /\ Stands(kept', Out' + Len(payload'), provided')
    <3>1. Len(kept') = 0 BY <1>10, <2>1, <2>2
    <3> QED BY <1>4, <2>3, <2>4, <3>1, StandsNone
  <2>8. WriterWell'
    <3>1. ~Foreigner' BY <1>3 DEF Foreigner
    <3> QED BY <1>1, <1>3, <1>16, <2>1, <2>2, <3>1 DEF WriterWell
  <2> QED BY <1>1, <1>2, <2>3, <2>5, <2>6, <2>7, <2>8, WriterStep
<1> QED BY <1>14, <1>15, <1>16

LEMMA ZipDoneKeeps ==
    ASSUME ZipInv, Zipping!Done
    PROVE  ZipInv'
<1>1. /\ writer = "loop" /\ writer # "over" /\ chunked /\ provided' = provided /\ provided \in Nat
         /\ payload' = payload
      /\ UNCHANGED <<Zipping!headers, Zipping!reading, odd>>
  BY ZipLens DEF ZipInv, Zipping!Done
<1>2. ~last BY <1>1 DEF ZipInv, WriterWell
<1>3. ~Foreigner /\ odd' = odd /\ zip' = zip /\ chunked' = chunked /\ total' = total
      /\ odd \in {"no", "refused"}
  BY <1>1, WriterAtWork DEF Zipping!headers
<1>4. PICK g \in Nat : g = provided BY <1>1
<1>5. PICK m \in Nat : m = Len(payload) BY ZipLens DEF ZipInv
<1>6. PICK k \in Nat : k = Len(kept) BY ZipLens DEF ZipInv
<1>7. PICK o \in Nat : o = Out BY <1>1, WriterAtWork
<1>8. o + m + k = g
  <2>1. StreamEnd = provided BY <1>1, <1>2, WriterAtWork
  <2> QED BY <1>1, <2>1, <1>4, <1>5, <1>6, <1>7, WriterAtWork
<1>9. kept \in Seq(Int) /\ payload \in Seq(Int) /\ chunks \in Seq(Seq(Int)) BY ZipLens DEF ZipInv
<1>10. Runs(chunks, Passed + Len(input), o, g, "loop") BY <1>1, <1>4, <1>7, WriterAtWork
<1>11. Stands(payload, o, g) /\ Stands(kept, o + m, g)
  BY <1>1, <1>4, <1>5, <1>7 DEF ZipInv, StreamKept
<1>12. CASE zip
  <2>1. last' = TRUE /\ kept' = Append(kept, Zipping!End) /\ writer' = "compress"
        /\ chunks' = chunks
    BY <1>12 DEF Zipping!Done
  <2>2. Zipping!End \in Int BY DEF Zipping!End
  <2>3. PICK e \in Int : e = Zipping!End BY <2>2
  <2>4. kept' \in Seq(Int) /\ Len(kept') = k + 1 /\ Stands(kept', o + m, g)
    <3>1. PICK f \in Seq(Int) : f = kept BY <1>9
    <3>2. /\ Append(f, e) \in Seq(Int) /\ Len(Append(f, e)) = Len(f) + 1
          /\ Append(f, e)[Len(f) + 1] = e /\ \A i \in 1 .. Len(f) : Append(f, e)[i] = f[i]
      OBVIOUS
    <3>3. PICK q \in Seq(Int) : q = Append(f, e) BY <3>2
    <3>4. q = kept' BY <2>1, <2>3, <3>1, <3>3
    <3>5. Len(f) = k BY <1>6, <3>1
    <3>6. ASSUME NEW i \in 1 .. k + 1
          PROVE  q[i] = Code((o + m) + i, g)
      <4>1. CASE i \in 1 .. k
        <5>1. q[i] = f[i] BY <3>2, <3>3, <3>5, <4>1
        <5>2. f[i] = Code((o + m) + i, g) BY <1>11, <3>1, <3>5, <4>1 DEF Stands
        <5> QED BY <5>1, <5>2
      <4>2. CASE i = k + 1
        <5>1. q[i] = Zipping!End BY <2>3, <3>2, <3>3, <3>5, <4>2
        <5>2. (o + m) + i = g + 1 BY <1>8, <4>2
        <5> QED BY <5>1, <5>2 DEF Code
      <4> QED BY <4>1, <4>2
    <3>7. Len(q) = k + 1 BY <3>2, <3>3, <3>5
    <3>8. Stands(q, o + m, g) BY <3>6, <3>7 DEF Stands
    <3> QED BY <3>4, <3>7, <3>8
  <2>5. Out' = o
    <3>1. StreamEnd' = g + 1
      <4>1. StreamEnd' = provided' + (IF last' THEN 1 ELSE IF odd' = "more" THEN 2 ELSE 0)
        BY DEF StreamEnd
      <4>2. (IF last' THEN 1 ELSE IF odd' = "more" THEN 2 ELSE 0) = 1 BY ONLY <2>1, Zenon
      <4> QED BY <1>1, <1>4, <4>1, <4>2
    <3>2. Out' = StreamEnd' - (Len(payload') + Len(kept')) BY <2>1 DEF Out
    <3>3. Len(payload') = m /\ Len(kept') = k + 1 BY <1>1, <1>5, <2>4
    <3> QED BY <1>8, <3>1, <3>2, <3>3
  <2>6. /\ last' \in BOOLEAN /\ payload' \in Seq(Int) /\ chunks' \in Seq(Seq(Int))
        /\ writer' \in {"loop", "compress", "over"} /\ provided' \in Nat
    BY <1>1, <1>9, <2>1
  <2>7. Runs(chunks', Passed + Len(input), Out', provided', writer')
    <3>1. Len(chunks) \in Nat BY <1>9
    <3>2. Runs(chunks, Passed + Len(input), o, g, "compress") BY <1>10, <3>1, RunsOrder
    <3> QED BY <1>1, <1>4, <2>1, <2>5, <3>2
  <2>8. Stands(payload', Out', provided') /\ Stands(kept', Out' + Len(payload'), provided')
    BY <1>1, <1>4, <1>5, <1>11, <2>4, <2>5
  <2>9. WriterWell'
    <3>1. ~Foreigner' BY <1>3 DEF Foreigner
    <3> QED BY <1>1, <1>3, <1>12, <2>1, <3>1 DEF WriterWell
  <2> QED BY <1>1, <2>4, <2>6, <2>7, <2>8, <2>9, WriterStep
<1>13. CASE ~zip
  <2>1. writer' = "over" /\ Zipping!Sends(<<>>, TRUE) /\ last' = last /\ kept' = kept
    BY <1>13 DEF Zipping!Done
  <2>2. payload = <<>> /\ kept = <<>> BY <1>1, <1>13 DEF ZipInv, WriterWell
  <2>3. m = 0 /\ k = 0
    <3>1. Len(<<>>) = 0 OBVIOUS
    <3> QED BY <1>5, <1>6, <2>2, <3>1
  <2>4. PICK b \in Seq(Int) : b = <<>> /\ Len(b) = 0
    <3>1. <<>> \in Seq(Int) /\ Len(<<>>) = 0 OBVIOUS
    <3> QED BY <3>1
  <2>5. chunks' \in Seq(Seq(Int)) /\ Runs(chunks', Passed + Len(input), o + Len(b), g, "over")
    <3>1. Stands(b, o, g) BY <2>4, StandsNone
    <3>2. Zipping!Sends(b, TRUE) /\ TRUE \in BOOLEAN /\ (TRUE => "over" = "over") /\ "loop" # "over"
      BY <2>1, <2>4
    <3> QED BY <1>9, <1>10, <3>1, <3>2, SendsRuns
  <2>6. o + Len(b) = g BY <1>8, <2>3, <2>4
  <2>7. Out' = g
    <3>1. StreamEnd' = g
      <4>1. StreamEnd' = provided' + (IF last' THEN 1 ELSE IF odd' = "more" THEN 2 ELSE 0)
        BY DEF StreamEnd
      <4>2. last' = FALSE
        <5>1. last \in BOOLEAN /\ ~last /\ last' = last BY <1>2, <2>1 DEF ZipInv, ZipTypes
        <5> QED BY ONLY <5>1, Zenon
      <4>3. odd' # "more" BY <1>3
      <4>4. (IF last' THEN 1 ELSE IF odd' = "more" THEN 2 ELSE 0) = 0 BY ONLY <4>2, <4>3, Zenon
      <4>5. StreamEnd' = g + 0 BY ONLY <1>1, <1>4, <4>1, <4>4, Zenon
      <4> QED BY ONLY <4>5, g \in Nat
    <3> QED BY <2>1, <3>1 DEF Out
  <2>8. /\ last' \in BOOLEAN /\ payload' \in Seq(Int) /\ kept' \in Seq(Int)
        /\ writer' \in {"loop", "compress", "over"} /\ provided' \in Nat
    <3>1. last \in BOOLEAN BY DEF ZipInv, ZipTypes
    <3> QED BY <1>1, <1>9, <2>1, <3>1
  <2>9. Runs(chunks', Passed + Len(input), Out', provided', writer')
    BY <1>1, <1>4, <2>1, <2>5, <2>6, <2>7
  <2>10. WriterWell'
    <3>1. ~Foreigner' BY <1>3 DEF Foreigner
    <3> QED BY <1>1, <1>2, <1>3, <1>13, <2>1, <2>2, <3>1 DEF WriterWell
  <2> QED BY <1>1, <2>1, <2>5, <2>8, <2>9, <2>10, WriterStep
<1> QED BY <1>12, <1>13

LEMMA SendsBodyKeeps ==
    ASSUME ZipInv, Zipping!SendsBody
    PROVE  ZipInv'
<1>1. /\ writer = "loop" /\ writer # "over" /\ ~chunked /\ provided = total /\ provided' = provided
         /\ provided \in Nat
      /\ Zipping!Sends(payload, TRUE) /\ writer' = "over" /\ last' = last /\ kept' = kept
         /\ payload' = payload
      /\ UNCHANGED <<Zipping!headers, Zipping!reading, odd>>
  BY ZipLens DEF ZipInv, Zipping!SendsBody
<1>2. ~Foreigner /\ odd' = odd /\ zip' = zip /\ chunked' = chunked /\ total' = total
      /\ odd \in {"no", "refused"}
  BY <1>1, WriterAtWork DEF Zipping!headers
<1>3. PICK g \in Nat : g = provided BY <1>1
<1>4. PICK m \in Nat : m = Len(payload) BY ZipLens DEF ZipInv
<1>5. PICK k \in Nat : k = Len(kept) BY ZipLens DEF ZipInv
<1>6. PICK o \in Nat : o = Out BY <1>1, WriterAtWork
<1>7. PICK z \in Nat : z = StreamEnd BY ZipLens DEF ZipInv
<1>8. o + m + k = z BY <1>1, <1>4, <1>5, <1>6, <1>7, WriterAtWork
<1>9. z = g + (IF last THEN 1 ELSE 0) BY <1>1, <1>3, <1>7, WriterAtWork
<1>10. kept \in Seq(Int) /\ payload \in Seq(Int) /\ chunks \in Seq(Seq(Int)) BY ZipLens DEF ZipInv
<1>11. Runs(chunks, Passed + Len(input), o, g, "loop") BY <1>1, <1>3, <1>6, WriterAtWork
<1>12. Stands(payload, o, g) BY <1>1, <1>3, <1>6 DEF ZipInv, StreamKept
<1>13. k = 0
  <2>1. CASE kept = <<>>
    <3>1. Len(<<>>) = 0 OBVIOUS
    <3> QED BY <1>5, <2>1, <3>1
  <2>2. CASE kept # <<>>
    <3>1. ~last /\ zip BY <1>1, <2>2 DEF ZipInv, WriterWell
    <3>2. ~(total > 0) BY <1>1, <3>1 DEF ZipInv, WriterWell
    <3>3. g = 0 BY <1>1, <1>3, <3>2
    <3>4. z = 0 BY <1>9, <3>1, <3>3
    <3> QED BY ONLY <1>8, <3>4, o \in Nat, m \in Nat, k \in Nat, z \in Nat
  <2> QED BY <2>1, <2>2
<1>14. chunks' \in Seq(Seq(Int)) /\ Runs(chunks', Passed + Len(input), o + Len(payload), g, "over")
  <2>1. TRUE \in BOOLEAN /\ (TRUE => "over" = "over") /\ "loop" # "over" OBVIOUS
  <2> QED BY <1>1, <1>10, <1>11, <1>12, <2>1, SendsRuns
<1>15. Out' = z
  <2>1. StreamEnd' = StreamEnd BY <1>1, <1>2 DEF StreamEnd
  <2> QED BY <1>1, <1>7, <2>1 DEF Out
<1>16. o + Len(payload) = z BY <1>4, <1>8, <1>13
<1>17. Runs(chunks', Passed + Len(input), Out', provided', writer')
  BY <1>1, <1>3, <1>14, <1>15, <1>16
<1>18. /\ last' \in BOOLEAN /\ payload' \in Seq(Int) /\ kept' \in Seq(Int)
       /\ writer' \in {"loop", "compress", "over"} /\ provided' \in Nat
  <2>1. last \in BOOLEAN BY DEF ZipInv, ZipTypes
  <2> QED BY <1>1, <1>10, <2>1
<1>19. WriterWell'
  <2>1. ~Foreigner' BY <1>2 DEF Foreigner
  <2>2. WriterWell BY DEF ZipInv
  <2>3. ~zip => ~last /\ kept = <<>> /\ writer # "compress" /\ (chunked => payload = <<>>)
    BY <2>2 DEF WriterWell
  <2>4. last => provided = total /\ total > 0 BY <1>1, <2>2 DEF WriterWell
  <2>5. zip => last \/ provided = 0
    <3>1. zip /\ total > 0 => last BY <1>1, <2>2 DEF WriterWell
    <3> QED BY <1>1, <3>1
  <2> QED BY <1>1, <1>2, <2>1, <2>3, <2>4, <2>5 DEF WriterWell
<1> QED BY <1>1, <1>14, <1>17, <1>18, <1>19, WriterStep

LEMMA MinOf ==
    ASSUME NEW a \in Nat, NEW b \in Nat
    PROVE  Zipping!Min({a, b}) = IF a <= b THEN a ELSE b
<1> DEFINE least == IF a <= b THEN a ELSE b
<1>1. least \in {a, b} /\ \A y \in {a, b} : least <= y OBVIOUS
<1>2. \A x \in {a, b} : (\A y \in {a, b} : x <= y) => x = least
  <2>1. ASSUME NEW x \in {a, b}, \A y \in {a, b} : x <= y
        PROVE  x = least
    <3>1. x <= a /\ x <= b BY <2>1
    <3> QED BY <3>1
  <2> QED BY <2>1
<1> HIDE DEF least
<1>3. (CHOOSE x \in {a, b} : \A y \in {a, b} : x <= y) = least BY ONLY <1>1, <1>2, Zenon
<1>4. Zipping!Min({a, b}) = least BY <1>3 DEF Zipping!Min
<1> QED BY <1>4 DEF least

LEMMA CompressKeeps ==
    ASSUME Zipping!GzipAssumption, ZipInv, Zipping!Compress
    PROVE  ZipInv'
<1>1. /\ writer = "compress" /\ writer # "over" /\ provided' = provided /\ provided \in Nat /\ last' = last
      /\ UNCHANGED <<Zipping!headers, Zipping!reading, odd>>
  BY ZipLens DEF ZipInv, Zipping!Compress
<1>2. ~Foreigner /\ odd' = odd /\ zip' = zip /\ chunked' = chunked /\ total' = total
      /\ odd \in {"no", "refused"}
  BY <1>1, WriterAtWork DEF Zipping!headers
<1>3. PICK g \in Nat : g = provided BY <1>1
<1>4. PICK m \in Nat : m = Len(payload) BY ZipLens DEF ZipInv
<1>5. PICK k \in Nat : k = Len(kept) BY ZipLens DEF ZipInv
<1>6. PICK o \in Nat : o = Out BY <1>1, WriterAtWork
<1>7. PICK z \in Nat : z = StreamEnd BY ZipLens DEF ZipInv
<1>8. o + m + k = z BY <1>1, <1>4, <1>5, <1>6, <1>7, WriterAtWork
<1>10. /\ kept \in Seq(Int) /\ payload \in Seq(Int) /\ chunks \in Seq(Seq(Int)) /\ last \in BOOLEAN
       /\ Buffer \in Nat
  BY ZipLens DEF ZipInv, Zipping!GzipAssumption
<1>11. Runs(chunks, Passed + Len(input), o, g, writer) BY <1>1, <1>3, <1>6, WriterAtWork
<1>12. Stands(payload, o, g) /\ Stands(kept, o + m, g)
  BY <1>1, <1>3, <1>4, <1>6 DEF ZipInv, StreamKept
<1>13. zip BY <1>1 DEF ZipInv, WriterWell
<1>14. PICK most \in Nat : most = Zipping!Min({Buffer, Len(kept)})
       /\ most = (IF Buffer <= k THEN Buffer ELSE k)
  <2>1. Zipping!Min({Buffer, k}) = IF Buffer <= k THEN Buffer ELSE k BY <1>10, MinOf
  <2> QED BY <1>5, <1>10, <2>1
<1>15. PICK n \in IF last THEN {most} ELSE 0 .. most :
        /\ kept' = SubSeq(kept, n + 1, Len(kept))
        /\ IF n = Buffer THEN payload' = payload \o SubSeq(kept, 1, n)
           /\ UNCHANGED <<writer, chunks>>
                         ELSE Zipping!CompressReturns(payload \o SubSeq(kept, 1, n))
  BY <1>14 DEF Zipping!Compress
<1>16. n \in Nat /\ n <= k /\ n \in 0 .. Len(kept) /\ (last /\ n # Buffer => n = k)
  <2>1. n \in Nat /\ n <= most /\ (last => n = most) BY <1>15
  <2>2. most <= k /\ (most # Buffer => most = k) BY <1>10, <1>14
  <2>3. n \in Nat /\ n <= k BY <2>1, <2>2
  <2> QED BY <1>5, <2>1, <2>2, <2>3
<1>17. PICK bytes \in Seq(Int) : /\ bytes = payload \o SubSeq(kept, 1, n) /\ Len(bytes) = m + n
                                 /\ Stands(bytes, o, g)
  <2>1. PICK s \in Seq(Int) : s = SubSeq(kept, 1, n) /\ Len(s) = n BY <1>10, <1>16, IntBegins
  <2>2. o + m \in Nat OBVIOUS
  <2>3. Stands(s, o + m, g) BY <1>10, <1>12, <1>16, <2>1, <2>2, StandsBegins
  <2>4. payload \o s \in Seq(Int) /\ Len(payload \o s) = Len(payload) + Len(s) BY <1>10, IntConcat
  <2>5. Stands(payload \o s, o, g) BY <1>4, <1>10, <1>12, <2>3, StandsJoin
  <2> QED BY <1>4, <2>1, <2>4, <2>5
<1>18. kept' \in Seq(Int) /\ Len(kept') = k - n /\ Stands(kept', o + (m + n), g)
  <2>1. PICK s \in Seq(Int) : s = SubSeq(kept, n + 1, Len(kept)) /\ Len(s) = Len(kept) - n
    BY <1>10, <1>16, IntRest
  <2>2. o + m \in Nat /\ (o + m) + n = o + (m + n) BY <1>16
  <2>3. Stands(s, (o + m) + n, g) BY <1>10, <1>12, <1>16, <2>1, <2>2, StandsRest
  <2> QED BY <1>5, <1>15, <2>1, <2>2, <2>3
<1>19. StreamEnd' = z BY <1>1, <1>2, <1>7 DEF StreamEnd
<1>20. ~Foreigner' BY <1>2 DEF Foreigner
<1>21. n = k => kept' = <<>>
  <2>1. n = k => Len(kept') = 0 BY <1>18
  <2>2. PICK q \in Seq(Int) : q = kept' BY <1>18
  <2>3. Len(q) = 0 => q = <<>> OBVIOUS
  <2> QED BY <2>1, <2>2, <2>3
<1>22. WriterWell BY DEF ZipInv
<1>23. CASE n = Buffer \/ ~chunked
  <2>1. /\ payload' = bytes /\ chunks' = chunks
        /\ writer' = (IF n = Buffer THEN "compress" ELSE "loop")
    BY <1>1, <1>15, <1>17, <1>23 DEF Zipping!CompressReturns
  <2>2. writer' # "over" /\ writer' \in {"loop", "compress", "over"} BY <2>1
  <2>3. Out' = o
    <3>1. Out' = StreamEnd' - (Len(payload') + Len(kept')) BY <2>2 DEF Out
    <3>2. Len(payload') = m + n BY <1>17, <2>1
    <3> QED BY <1>8, <1>16, <1>18, <1>19, <3>1, <3>2
  <2>4. Runs(chunks', Passed + Len(input), Out', provided', writer')
    <3>1. Len(chunks) \in Nat BY <1>10
    <3>2. Runs(chunks, Passed + Len(input), o, g, writer') BY <1>1, <1>11, <3>1, RunsOrder
    <3> QED BY <1>1, <1>3, <2>1, <2>3, <3>2
  <2>5. Stands(payload', Out', provided') /\ Stands(kept', Out' + Len(payload'), provided')
    BY <1>1, <1>3, <1>17, <1>18, <2>1, <2>3
  <2>6. WriterWell'
    <3>1. writer' = "loop" => ~chunked /\ n # Buffer BY <1>23, <2>1
    <3>2. last /\ writer' = "loop" => kept' = <<>> BY <1>16, <1>21, <3>1
    <3>3. /\ last /\ ~chunked => provided = total /\ total > 0
          /\ ~chunked /\ zip /\ provided = total /\ total > 0 => last
      BY <1>1, <1>22 DEF WriterWell
    <3> QED BY <1>1, <1>2, <1>13, <1>20, <2>2, <3>1, <3>2, <3>3 DEF WriterWell
  <2>7. /\ last' \in BOOLEAN /\ payload' \in Seq(Int) /\ chunks' \in Seq(Seq(Int)) /\ provided' \in Nat
    BY <1>1, <1>10, <1>17, <2>1
  <2> QED BY <1>1, <1>18, <2>2, <2>4, <2>5, <2>6, <2>7, WriterStep
<1>24. CASE n # Buffer /\ chunked
  <2>1. Zipping!Sends(bytes, last) /\ payload' = <<>> /\ writer' = (IF last THEN "over" ELSE "loop")
    BY <1>15, <1>17, <1>24 DEF Zipping!CompressReturns
  <2>2. last => writer' = "over" BY <2>1
  <2>3. chunks' \in Seq(Seq(Int)) /\ Runs(chunks', Passed + Len(input), o + Len(bytes), g, writer')
    BY <1>1, <1>10, <1>11, <1>17, <2>1, <2>2, SendsRuns
  <2>4. payload' \in Seq(Int) /\ Len(payload') = 0
    <3>1. <<>> \in Seq(Int) /\ Len(<<>>) = 0 OBVIOUS
    <3> QED BY <2>1, <3>1
  <2>5. Out' = o + (m + n)
    <3>1. CASE last
      <4>1. n = k /\ writer' = "over" BY <1>16, <1>24, <2>2, <3>1
      <4>2. Out' = z BY <1>19, <4>1 DEF Out
      <4> QED BY <1>8, <4>1, <4>2
    <3>2. CASE ~last
      <4>1. writer' # "over" BY <2>1, <3>2
      <4>2. Out' = StreamEnd' - (Len(payload') + Len(kept')) BY <4>1 DEF Out
      <4> QED BY <1>8, <1>16, <1>18, <1>19, <2>4, <4>2
    <3> QED BY <3>1, <3>2
  <2>6. Runs(chunks', Passed + Len(input), Out', provided', writer')
    BY <1>1, <1>3, <1>17, <2>3, <2>5
  <2>7. Stands(payload', Out', provided') /\ Stands(kept', Out' + Len(payload'), provided')
    <3>1. Stands(payload', Out', provided') BY <2>4, StandsNone
    <3>2. Out' + Len(payload') = o + (m + n) BY <1>16, <2>4, <2>5
    <3> QED BY <1>1, <1>3, <1>18, <3>1, <3>2
  <2>8. WriterWell'
    <3>1. writer' = "loop" => ~last BY <2>1
    <3>2. writer' = "over" => last BY <2>1
    <3>3. writer' # "compress" BY <2>1
    <3> QED BY <1>1, <1>2, <1>13, <1>20, <1>24, <3>1, <3>2, <3>3 DEF WriterWell
  <2>9. last' \in BOOLEAN /\ writer' \in {"loop", "compress", "over"} /\ provided' \in Nat
    BY <1>1, <1>10, <2>1
  <2> QED BY <1>1, <1>18, <2>3, <2>4, <2>6, <2>7, <2>8, <2>9, WriterStep
<1> QED BY <1>23, <1>24

LEMMA ForeignRuns ==
    ASSUME NEW b \in Seq(Int), b # <<>>, NEW g, Stands(b, 0, g)
    PROVE  << b, <<>> >> \in Seq(Seq(Int)) /\ Runs(<< b, <<>> >>, 0, Len(b), g, "over")
<1>1. PICK none \in Seq(Seq(Int)) : none = <<>> /\ Len(none) = 0
  <2>1. <<>> \in Seq(Seq(Int)) /\ Len(<<>>) = 0 OBVIOUS
  <2> QED BY <2>1
<1>2. PICK zero \in Nat : zero = 0 OBVIOUS
<1>3. Runs(none, zero, zero, g, "loop") BY <1>1, RunsNone
<1>4. PICK one \in Seq(Seq(Int)) : one = << b >> /\ Len(one) = 1 /\ one[1] = b
  <2>1. << b >> \in Seq(Seq(Int)) /\ Len(<< b >>) = 1 /\ << b >>[1] = b OBVIOUS
  <2> QED BY <2>1
<1>5. Runs(one, zero, zero + Len(b), g, "loop")
  <2>1. /\ Len(one) = Len(none) + 1 /\ (\A i \in 1 .. Len(none) : one[i] = none[i])
        /\ one[Len(none) + 1] = b
    BY <1>1, <1>4
  <2>2. Stands(b, zero, g) /\ (b = <<>> => "loop" = "over") /\ "loop" # "over" BY <1>2
  <2> QED BY <1>1, <1>3, <2>1, <2>2, RunsSend
<1>6. PICK e \in Seq(Int) : e = <<>> /\ Len(e) = 0
  <2>1. <<>> \in Seq(Int) /\ Len(<<>>) = 0 OBVIOUS
  <2> QED BY <2>1
<1>7. PICK two \in Seq(Seq(Int)) : two = << b, e >> /\ Len(two) = 2 /\ two[1] = b /\ two[2] = e
  <2>1. << b, e >> \in Seq(Seq(Int)) /\ Len(<< b, e >>) = 2 /\ << b, e >>[1] = b
        /\ << b, e >>[2] = e
    OBVIOUS
  <2> QED BY <2>1
<1>8. PICK l \in Nat : l = zero + Len(b) OBVIOUS
<1>9. Runs(two, zero, l + Len(e), g, "over")
  <2>1. /\ Len(two) = Len(one) + 1 /\ (\A i \in 1 .. Len(one) : two[i] = one[i])
        /\ two[Len(one) + 1] = e
    <3>1. \A i \in 1 .. 1 : i = 1 OBVIOUS
    <3> QED BY <1>4, <1>7, <3>1
  <2>2. Stands(e, l, g) BY <1>6, StandsNone
  <2>3. (e = <<>> => "over" = "over") /\ "loop" # "over" OBVIOUS
  <2>4. Runs(one, zero, l, g, "loop") BY <1>5, <1>8
  <2> QED BY <1>4, <1>8, <2>1, <2>2, <2>3, <2>4, RunsSend
<1>10. l + Len(e) = Len(b) BY <1>2, <1>6, <1>8
<1> QED BY <1>2, <1>6, <1>7, <1>9, <1>10

LEMMA ForeignKeeps ==
    ASSUME Zipping!GzipAssumption, ZipInv, Zipping!Foreign
    PROVE  ZipInv'
<1>1. /\ zip /\ writer = "loop" /\ writer # "over" /\ provided = 0 /\ writer' = "over"
      /\ zip' = zip /\ chunked' = chunked /\ total' = total
      /\ last' = last /\ kept' = kept /\ payload' = payload
      /\ reader' = reader /\ input' = input /\ held' = held /\ ended' = ended
         /\ received' = received
  BY DEF Zipping!Foreign, Zipping!headers, Zipping!reading
<1>2. ~last BY <1>1 DEF ZipInv, WriterWell
<1>3. last' = FALSE
  <2>1. last \in BOOLEAN BY ZipLens DEF ZipInv
  <2> QED BY ONLY <1>1, <1>2, <2>1, Zenon
<1>4. ~ended /\ Len(received) + Len(held) <= 0
  <2>1. 0 \in Nat /\ provided <= 0 BY <1>1
  <2> QED BY <1>1, <1>2, <2>1, MoreGiven
<1>5. Len(received) = 0 /\ Len(held) = 0 /\ Len(input) = 0
  <2>1. Len(received) \in Nat /\ Len(held) \in Nat /\ Len(input) \in Nat BY ZipLens DEF ZipInv
  <2>2. Passed \in Nat /\ Len(payload) \in Nat /\ Len(kept) \in Nat BY ZipLens DEF ZipInv
  <2>3. StreamEnd = 0 BY <1>1, <1>2, WriterAtWork
  <2>4. Passed + Len(input) <= Out /\ Out \in Nat /\ Out + Len(payload) + Len(kept) = 0
    BY <1>1, <2>3, WriterAtWork
  <2>5. PICK i \in Nat : i = Len(input) BY <2>1
  <2>6. PICK p \in Nat : p = Passed BY <2>2
  <2>7. PICK m \in Nat : m = Len(payload) BY <2>2
  <2>8. PICK k \in Nat : k = Len(kept) BY <2>2
  <2>9. PICK o \in Nat : o = Out BY <2>4
  <2>10. p + i <= o /\ o + m + k = 0 BY <2>4, <2>5, <2>6, <2>7, <2>8, <2>9
  <2>11. i = 0 BY ONLY <2>10, p \in Nat, i \in Nat, o \in Nat, m \in Nat, k \in Nat
  <2> QED BY <1>4, <2>1, <2>5, <2>11
<1>6. received = <<>> /\ held = <<>> /\ input = <<>>
  <2>1. \A s \in Seq(Int) : Len(s) = 0 => s = <<>> OBVIOUS
  <2> QED BY <1>5, <2>1, ZipLens DEF ZipInv
<1>7. reader = "read"
  <2>1. reader # "true" BY <1>1, WriterAtWork
  <2> QED BY <1>6, <2>1 DEF ZipInv, ReaderStates
<1>8. PICK n \in 1 .. MaxBytes, o \in {"cut", "more", "none"} :
        /\ provided' = n /\ odd' = o
        /\ chunks' = << CASE o = "cut" -> Zipping!Data(n)
                          [] o = "more" -> Zipping!Data(n) \o << Zipping!End, Zipping!Other >>
                          [] o = "none" -> << Zipping!Other >>, <<>> >>
  BY DEF Zipping!Foreign
<1>9. n \in Nat /\ n > 0 BY DEF Zipping!GzipAssumption
<1>10. Passed' = 0 /\ Len(input') = 0
  <2>1. ended' = FALSE
    <3>1. ended \in BOOLEAN BY ZipLens DEF ZipInv
    <3> QED BY ONLY <1>1, <1>4, <3>1, Zenon
  <2>2. (IF ended' THEN 1 ELSE 0) = 0 BY ONLY <2>1, Zenon
  <2>3. Passed' = Len(received') + Len(held') + (IF ended' THEN 1 ELSE 0) BY DEF Passed
  <2>4. Len(received') = 0 /\ Len(held') = 0 /\ Len(input') = 0 BY <1>1, <1>5
  <2> QED BY <2>2, <2>3, <2>4
<1>11. Out' = n + (IF o = "more" THEN 2 ELSE 0)
  <2>1. Out' = StreamEnd' BY <1>1 DEF Out
  <2>2. StreamEnd' = provided' + (IF last' THEN 1 ELSE IF odd' = "more" THEN 2 ELSE 0) BY DEF StreamEnd
  <2>3. (IF last' THEN 1 ELSE IF odd' = "more" THEN 2 ELSE 0) = (IF o = "more" THEN 2 ELSE 0)
    BY ONLY <1>3, <1>8, Zenon
  <2> QED BY <1>8, <2>1, <2>2, <2>3
<1>12. PICK d \in Seq(Int) : d = Zipping!Data(n) /\ Len(d) = n /\ d # <<>> /\ Stands(d, 0, n)
  <2>1. PICK d : d = [i \in 1 .. n |-> i] OBVIOUS
  <2>2. d \in Seq(Int) /\ Len(d) = n /\ \A i \in 1 .. n : d[i] = i BY <1>9, <2>1
  <2>3. d # <<>>
    <3>1. Len(<<>>) = 0 OBVIOUS
    <3> QED BY <1>9, <2>2, <3>1
  <2>4. PICK zero \in Nat : zero = 0 OBVIOUS
  <2>5. zero + Len(d) <= n /\ \A i \in 1 .. Len(d) : d[i] = zero + i BY <1>9, <2>2, <2>4
  <2>6. Stands(d, zero, n) BY <1>9, <2>2, <2>5, StandsBytes
  <2> QED BY <2>1, <2>2, <2>3, <2>4, <2>6 DEF Zipping!Data
<1>13. chunks' \in Seq(Seq(Int)) /\ StreamRuns' /\ NoStream'
  <2>1. CASE o = "cut"
    <3>1. chunks' = << d, <<>> >> BY <1>8, <1>12, <2>1
    <3>2. << d, <<>> >> \in Seq(Seq(Int)) /\ Runs(<< d, <<>> >>, 0, Len(d), n, "over")
      BY <1>12, ForeignRuns
    <3>3. Out' = n BY <1>9, <1>11, <2>1
    <3>4. Runs(chunks', Passed' + Len(input'), Out', provided', writer')
      <4>1. Passed' + Len(input') = 0 BY <1>10
      <4> QED BY <1>1, <1>8, <1>12, <3>1, <3>2, <3>3, <4>1
    <3>5. odd' # "none" BY <1>8, <2>1
    <3> QED BY <3>1, <3>2, <3>4, <3>5 DEF StreamRuns, NoStream
  <2>2. CASE o = "more"
    <3>1. PICK t \in Seq(Int) : t = << Zipping!End, Zipping!Other >> /\ Len(t) = 2
          /\ t[1] = Zipping!End /\ t[2] = Zipping!Other
      <4>1. Zipping!End \in Int /\ Zipping!Other \in Int BY DEF Zipping!End, Zipping!Other
      <4>2. \A x \in Int, y \in Int : /\ << x, y >> \in Seq(Int) /\ Len(<< x, y >>) = 2
                                      /\ << x, y >>[1] = x /\ << x, y >>[2] = y
        OBVIOUS
      <4> QED BY <4>1, <4>2
    <3>2. Stands(t, n, n)
      <4>1. Code(n + 1, n) = Zipping!End /\ Code(n + 2, n) = Zipping!Other BY <1>9 DEF Code
      <4>2. \A i \in 1 .. 2 : i = 1 \/ i = 2 OBVIOUS
      <4>3. \A i \in 1 .. Len(t) : t[i] = Code(n + i, n) BY <3>1, <4>1, <4>2
      <4> QED BY <4>3 DEF Stands
    <3>3. PICK b \in Seq(Int) : b = d \o t /\ Len(b) = n + 2 /\ Stands(b, 0, n)
      <4>1. d \o t \in Seq(Int) /\ Len(d \o t) = Len(d) + Len(t) BY IntConcat
      <4>2. PICK zero \in Nat : zero = 0 OBVIOUS
      <4>3. zero + Len(d) = n BY <1>9, <1>12, <4>2
      <4>4. Stands(t, zero + Len(d), n) /\ Stands(d, zero, n) BY <1>12, <3>2, <4>2, <4>3
      <4>5. Stands(d \o t, zero, n) BY <1>9, <4>4, StandsJoin
      <4> QED BY <1>12, <3>1, <4>1, <4>2, <4>5
    <3>4. b # <<>>
      <4>1. Len(<<>>) = 0 OBVIOUS
      <4> QED BY <1>9, <3>3, <4>1
    <3>5. chunks' = << b, <<>> >> BY <1>8, <1>12, <2>2, <3>1, <3>3
    <3>6. << b, <<>> >> \in Seq(Seq(Int)) /\ Runs(<< b, <<>> >>, 0, Len(b), n, "over")
      BY <3>3, <3>4, ForeignRuns
    <3>7. Out' = n + 2 BY <1>9, <1>11, <2>2
    <3>8. Runs(chunks', Passed' + Len(input'), Out', provided', writer')
      <4>1. Passed' + Len(input') = 0 BY <1>10
      <4> QED BY <1>1, <1>8, <3>3, <3>5, <3>6, <3>7, <4>1
    <3>9. odd' # "none" BY <1>8, <2>2
    <3> QED BY <3>5, <3>6, <3>8, <3>9 DEF StreamRuns, NoStream
  <2>3. CASE o = "none"
    <3>1. chunks' = << << Zipping!Other >>, <<>> >> BY <1>8, <2>3
    <3>2. << << Zipping!Other >>, <<>> >> \in Seq(Seq(Int))
      <4>1. Zipping!Other \in Int BY DEF Zipping!Other
      <4>2. << Zipping!Other >> \in Seq(Int) /\ <<>> \in Seq(Int) BY <4>1
      <4> QED BY <4>2
    <3>3. odd' = "none" BY <1>8, <2>3
    <3>4. ~ended' BY <1>1, <1>4
    <3>5. NoStream' BY <1>1, <1>6, <1>7, <3>1, <3>3, <3>4 DEF NoStream
    <3> QED BY <3>1, <3>2, <3>3, <3>5 DEF StreamRuns
  <2> QED BY <1>8, <2>1, <2>2, <2>3
<1>14. StreamRead' BY <1>10, StandsNone DEF StreamRead
<1>15. StreamKept' BY <1>1 DEF StreamKept
<1>16. WriterWell'
  <2>1. Foreigner' BY <1>8 DEF Foreigner
  <2>2. ~last' BY <1>3
  <2> QED BY <1>1, <2>1, <2>2 DEF WriterWell
<1>17. ReaderPlaces'
  <2>1. Stands(received', 0, provided') /\ Stands(held', Len(received'), provided')
    BY <1>1, <1>5, StandsNone
  <2>2. Len(received') + Len(held') <= provided' BY <1>1, <1>5, <1>8, <1>9
  <2>3. ~ended' BY <1>1, <1>4
  <2> QED BY <2>1, <2>2, <2>3 DEF ReaderPlaces
<1>18. ReaderStates' BY <1>1, <1>6, <1>7 DEF ReaderStates
<1>19. ZipTypes'
  <2>1. ZipTypes BY DEF ZipInv
  <2>2. provided' \in Nat /\ odd' \in {"no", "cut", "more", "none", "refused"} BY <1>8, <1>9
  <2> QED BY <1>1, <1>13, <2>1, <2>2 DEF ZipTypes
<1> QED BY <1>13, <1>14, <1>15, <1>16, <1>17, <1>18, <1>19 DEF ZipInv

LEMMA ReaderKeepsWriter ==
    ASSUME ZipInv, UNCHANGED <<Zipping!headers, Zipping!writing>>,
           odd' = odd \/ (odd = "no" /\ odd' = "refused")
    PROVE  /\ zip' = zip /\ provided' = provided /\ writer' = writer
           /\ Out' = Out /\ StreamKept' /\ WriterWell'
<1>1. /\ zip' = zip /\ chunked' = chunked /\ total' = total /\ provided' = provided
      /\ writer' = writer /\ last' = last /\ kept' = kept /\ payload' = payload
  BY DEF Zipping!headers, Zipping!writing
<1>2. odd' = "more" <=> odd = "more" OBVIOUS
<1>3. StreamEnd' = StreamEnd BY <1>1, <1>2 DEF StreamEnd
<1>4. Out' = Out BY <1>1, <1>3 DEF Out
<1>5. StreamKept'
  <2>1. StreamKept BY DEF ZipInv
  <2> QED BY <1>1, <1>4, <2>1 DEF StreamKept
<1>6. WriterWell'
  <2>1. WriterWell BY DEF ZipInv
  <2>2. Foreigner' <=> Foreigner BY DEF Foreigner
  <2> QED BY <1>1, <2>1, <2>2 DEF WriterWell
<1> QED BY <1>1, <1>4, <1>5, <1>6

\* The step of the reader, put together.
LEMMA ReaderStep ==
    ASSUME ZipInv, UNCHANGED <<Zipping!headers, Zipping!writing>>,
           odd' = odd \/ (odd = "no" /\ odd' = "refused"),
           reader' \in {"read", "decompress", "true", "false"}, ended' \in BOOLEAN,
           input' \in Seq(Int), held' \in Seq(Int), received' \in Seq(Int),
           chunks' \in Seq(Seq(Int)),
           odd' # "none" => /\ Runs(chunks', Passed' + Len(input'), Out, provided, writer)
                            /\ Stands(input', Passed', provided),
           NoStream', ReaderPlaces', ReaderStates'
    PROVE  ZipInv'
<1>1. provided' = provided /\ writer' = writer /\ Out' = Out /\ StreamKept' /\ WriterWell'
  BY ReaderKeepsWriter
<1>2. StreamRuns' /\ StreamRead' BY <1>1 DEF StreamRuns, StreamRead
<1>3. ZipTypes'
  <2>1. /\ zip' = zip /\ chunked' = chunked /\ total' = total /\ provided' = provided
        /\ writer' = writer /\ last' = last /\ kept' = kept /\ payload' = payload
    BY DEF Zipping!headers, Zipping!writing
  <2>2. ZipTypes BY DEF ZipInv
  <2> QED BY <2>1, <2>2 DEF ZipTypes
<1> QED BY <1>1, <1>2, <1>3 DEF ZipInv

LEMMA ZipRefuseKeeps ==
    ASSUME ZipInv, Zipping!Refuse
    PROVE  ZipInv'
<1>1. /\ reader = "decompress" /\ odd = "no" /\ reader' = "false" /\ odd' = "refused"
      /\ chunks' = chunks /\ input' = input /\ held' = held /\ ended' = ended
         /\ received' = received
      /\ UNCHANGED <<Zipping!headers, Zipping!writing>>
  BY DEF Zipping!Refuse
<1>2. zip' = zip /\ provided' = provided /\ writer' = writer BY <1>1, ReaderKeepsWriter
<1>3. Passed' = Passed BY <1>1 DEF Passed
<1>4. odd' # "none" => /\ Runs(chunks', Passed' + Len(input'), Out, provided, writer)
                       /\ Stands(input', Passed', provided)
  <2>1. odd # "none" BY <1>1
  <2>2. Runs(chunks, Passed + Len(input), Out, provided, writer) /\ Stands(input, Passed, provided)
    BY <2>1 DEF ZipInv, StreamRuns, StreamRead
  <2> QED BY <1>1, <1>3, <2>2
<1>5. NoStream' BY <1>1 DEF NoStream
<1>6. ReaderPlaces'
  <2>1. ReaderPlaces BY DEF ZipInv
  <2> QED BY <1>1, <1>2, <2>1 DEF ReaderPlaces
<1>7. ReaderStates'
  <2>1. ReaderStates BY DEF ZipInv
  <2>2. input # <<>> /\ zip BY <1>1, <2>1 DEF ReaderStates
  <2> QED BY <1>1, <1>2, <2>2 DEF ReaderStates
<1>8. /\ reader' \in {"read", "decompress", "true", "false"} /\ ended' \in BOOLEAN
      /\ input' \in Seq(Int) /\ held' \in Seq(Int) /\ received' \in Seq(Int)
         /\ chunks' \in Seq(Seq(Int))
  BY <1>1, ZipLens DEF ZipInv
<1> QED BY <1>1, <1>4, <1>5, <1>6, <1>7, <1>8, ReaderStep

LEMMA BodyEndsKeeps ==
    ASSUME ZipInv, Zipping!BodyEnds
    PROVE  ZipInv'
<1>1. /\ reader = "read" /\ chunks # <<>> /\ Head(chunks) = <<>> /\ reader' = "true"
      /\ chunks' = Tail(chunks) /\ input' = input /\ held' = held /\ ended' = ended
      /\ received' = received /\ odd' = odd /\ UNCHANGED <<Zipping!headers, Zipping!writing>>
  BY DEF Zipping!BodyEnds
<1>2. zip' = zip /\ provided' = provided /\ writer' = writer BY <1>1, ReaderKeepsWriter
<1>3. Passed' = Passed BY <1>1 DEF Passed
<1>4. odd # "none"
  <2>1. SUFFICES ASSUME odd = "none" PROVE FALSE OBVIOUS
  <2>2. chunks = << << Zipping!Other >>, <<>> >> BY <1>1, <2>1 DEF ZipInv, NoStream
  <2>3. Head(chunks) = << Zipping!Other >> BY <2>2
  <2>4. << Zipping!Other >> = <<>> BY <1>1, <2>3
  <2>5. Len(<< Zipping!Other >>) = 1 /\ Len(<<>>) = 0 OBVIOUS
  <2> QED BY <2>4, <2>5
<1>5. input = <<>> /\ Len(input) = 0
  <2>1. input = <<>> BY <1>1 DEF ZipInv, ReaderStates
  <2>2. Len(<<>>) = 0 OBVIOUS
  <2> QED BY <2>1, <2>2
<1>6. PICK p \in Nat : p = Passed BY ZipLens DEF ZipInv
<1>7. Runs(chunks, p, Out, provided, writer)
  <2>1. p + Len(input) = p BY <1>5
  <2> QED BY <1>4, <1>6, <2>1 DEF ZipInv, StreamRuns
<1>8. Tail(chunks) = <<>> /\ p = Out /\ writer = "over"
  <2>1. chunks \in Seq(Seq(Int)) BY ZipLens DEF ZipInv
  <2> QED BY <1>1, <1>7, <2>1, RunsLast
<1>9. p = StreamEnd BY <1>8 DEF Out
<1>10. Len(received) = provided \/ odd = "cut"
  <2>1. PICK r \in Nat : r = Len(received) BY ZipLens DEF ZipInv
  <2>2. PICK d \in Nat : d = Len(held) BY ZipLens DEF ZipInv
  <2>3. PICK g \in Nat : g = provided BY ZipLens DEF ZipInv
  <2>4. r + d <= g BY <2>1, <2>2, <2>3 DEF ZipInv, ReaderPlaces
  <2>5. CASE ended BY <2>5 DEF ZipInv, ReaderPlaces
  <2>6. CASE ~ended
    <3>1. p = r + d BY <1>6, <2>1, <2>2, <2>6 DEF Passed
    <3>2. ~last /\ odd # "more"
      <4>1. SUFFICES ASSUME last \/ odd = "more" PROVE FALSE OBVIOUS
      <4>2. StreamEnd = g + 1 \/ StreamEnd = g + 2 BY <2>3, <4>1 DEF StreamEnd
      <4> QED BY <1>9, <2>4, <3>1, <4>2
    <3>3. p = g
      <4>1. StreamEnd = g BY <2>3, <3>2 DEF StreamEnd
      <4> QED BY <1>9, <4>1
    <3>4. CASE ~zip
      <4>1. held = <<>> BY <3>4 DEF ZipInv, ReaderStates
      <4>2. Len(<<>>) = 0 OBVIOUS
      <4>3. d = 0 BY <2>2, <4>1, <4>2
      <4> QED BY <2>1, <2>3, <3>1, <3>3, <4>3
    <3>5. CASE zip /\ odd = "cut" BY <3>5
    <3>6. CASE zip /\ odd # "cut"
      <4>1. ~Foreigner BY <1>4, <3>2, <3>6 DEF Foreigner
      <4>2. provided = 0 BY <1>8, <3>2, <3>6, <4>1 DEF ZipInv, WriterWell
      <4>3. r = 0 BY <2>3, <2>4, <4>2
      <4> QED BY <2>1, <4>2, <4>3
    <3> QED BY <3>4, <3>5, <3>6
  <2> QED BY <2>5, <2>6
<1>11. odd' # "none" => /\ Runs(chunks', Passed' + Len(input'), Out, provided, writer)
                        /\ Stands(input', Passed', provided)
  <2>1. Stands(input', Passed', provided) BY <1>1, <1>5, StandsNone
  <2>2. Len(chunks') = 0
    <3>1. Len(<<>>) = 0 OBVIOUS
    <3> QED BY <1>1, <1>8, <3>1
  <2>3. Runs(chunks', p, p, provided, writer) BY <2>2, RunsNone
  <2>4. Passed' + Len(input') = p BY <1>1, <1>3, <1>5, <1>6
  <2> QED BY <1>8, <2>1, <2>3, <2>4
<1>12. NoStream' BY <1>1, <1>4 DEF NoStream
<1>13. ReaderPlaces'
  <2>1. ReaderPlaces BY DEF ZipInv
  <2> QED BY <1>1, <1>2, <2>1 DEF ReaderPlaces
<1>14. ReaderStates'
  <2>1. ReaderStates BY DEF ZipInv
  <2>2. ~zip => held = <<>> /\ ~ended /\ odd = "no" BY <2>1 DEF ReaderStates
  <2> QED BY <1>1, <1>2, <1>5, <1>8, <1>10, <2>2 DEF ReaderStates
<1>15. /\ reader' \in {"read", "decompress", "true", "false"} /\ ended' \in BOOLEAN
       /\ input' \in Seq(Int) /\ held' \in Seq(Int) /\ received' \in Seq(Int)
  BY <1>1, ZipLens DEF ZipInv
<1>16. chunks' \in Seq(Seq(Int))
  <2>1. <<>> \in Seq(Seq(Int)) OBVIOUS
  <2> QED BY <1>1, <1>8, <2>1
<1> QED BY <1>1, <1>11, <1>12, <1>13, <1>14, <1>15, <1>16, ReaderStep

\* What is taken from the first piece on the way.
LEMMA TakesRuns ==
    ASSUME NEW a \in Nat, NEW z, NEW g \in Nat, NEW w, chunks \in Seq(Seq(Int)), chunks # <<>>,
           Runs(chunks, a, z, g, w), NEW n \in 1 .. Len(Head(chunks)),
           chunks' = (IF n = Len(Head(chunks)) THEN <<>>
                      ELSE << SubSeq(Head(chunks), n + 1, Len(Head(chunks))) >>) \o Tail(chunks)
    PROVE  /\ chunks' \in Seq(Seq(Int)) /\ Runs(chunks', a + n, z, g, w)
           /\ SubSeq(Head(chunks), 1, n) \in Seq(Int) /\ Len(SubSeq(Head(chunks), 1, n)) = n
           /\ Stands(SubSeq(Head(chunks), 1, n), a, g)
<1>1. PICK l \in Nat : l = Len(chunks) OBVIOUS
<1>2. l > 0 /\ 1 \in 1 .. l BY <1>1
<1>3. PICK c \in Seq(Int) : c = Head(chunks) /\ c = chunks[1]
  <2>1. chunks[1] \in Seq(Int) BY <1>1, <1>2
  <2>2. Head(chunks) = chunks[1] BY <1>1, <1>2
  <2> QED BY <2>1, <2>2
<1>4. PICK t \in Seq(Seq(Int)) : /\ t = Tail(chunks) /\ Len(t) = l - 1
                                 /\ \A i \in 1 .. l - 1 : t[i] = chunks[i + 1]
  <2>1. /\ Tail(chunks) \in Seq(Seq(Int)) /\ Len(Tail(chunks)) = Len(chunks) - 1
        /\ \A i \in 1 .. Len(Tail(chunks)) : Tail(chunks)[i] = chunks[i + 1]
    BY ONLY chunks \in Seq(Seq(Int)), chunks # <<>>, HeadTailProperties
  <2> QED BY <1>1, <2>1
<1>5. n \in 1 .. Len(c) /\ n \in 0 .. Len(c) BY <1>3
<1>6. PICK s : s = SubSeq(c, 1, n) OBVIOUS
<1>7. s \in Seq(Int) /\ Len(s) = n BY <1>5, <1>6, IntBegins
<1>8. CASE n = Len(c)
  <2>1. chunks' = <<>> \o t BY <1>3, <1>4, <1>8
  <2>2. <<>> \o t = t OBVIOUS
  <2>3. chunks' = t BY <2>1, <2>2
  <2>4. /\ Len(chunks) > 0 /\ Len(t) = Len(chunks) - 1
        /\ \A i \in 1 .. Len(chunks) - 1 : t[i] = chunks[i + 1]
    BY <1>1, <1>2, <1>4
  <2>5. Runs(t, a + Len(chunks[1]), z, g, w) /\ Stands(chunks[1], a, g)
    BY <2>4, RunsTail
  <2>6. Stands(c, a, g) BY <1>3, <2>5
  <2>7. Stands(s, a, g) BY <1>5, <1>6, <2>6, StandsBegins
  <2>8. Runs(t, a + n, z, g, w) BY <1>3, <1>8, <2>5
  <2> QED BY <1>3, <1>6, <1>7, <2>3, <2>7, <2>8
<1>9. CASE n # Len(c)
  <2>1. PICK r \in Seq(Int) : r = SubSeq(c, n + 1, Len(c)) BY <1>5, IntRest
  <2>2. PICK one \in Seq(Seq(Int)) : one = << r >> /\ Len(one) = 1 /\ one[1] = r
    <3>1. << r >> \in Seq(Seq(Int)) /\ Len(<< r >>) = 1 /\ << r >>[1] = r OBVIOUS
    <3> QED BY <3>1
  <2>3. PICK v : v = one \o t OBVIOUS
  <2>4. /\ v \in Seq(Seq(Int)) /\ Len(v) = l /\ v[1] = r
        /\ \A i \in 2 .. l : v[i] = chunks[i]
    <3>1. /\ one \o t \in Seq(Seq(Int)) /\ Len(one \o t) = Len(one) + Len(t)
          /\ \A i \in 1 .. Len(one) : (one \o t)[i] = one[i]
          /\ \A i \in 1 .. Len(t) : (one \o t)[Len(one) + i] = t[i]
      BY ONLY one \in Seq(Seq(Int)), t \in Seq(Seq(Int)), Concat
    <3>2. Len(v) = l BY <1>1, <1>4, <2>2, <2>3, <3>1
    <3>3. v[1] = r
      <4>1. 1 \in 1 .. Len(one) BY <2>2
      <4> QED BY <2>2, <2>3, <3>1, <4>1
    <3>4. \A i \in 1 .. l - 1 : v[1 + i] = chunks[i + 1] BY <1>4, <2>2, <2>3, <3>1
    <3>5. ASSUME NEW i \in 2 .. l
          PROVE  v[i] = chunks[i]
      <4>1. i - 1 \in 1 .. l - 1 /\ 1 + (i - 1) = i /\ (i - 1) + 1 = i BY <1>1
      <4> QED BY <3>4, <4>1
    <3> QED BY <2>3, <3>1, <3>2, <3>3, <3>5
  <2>5. chunks' = v BY <1>3, <1>4, <1>9, <2>1, <2>2, <2>3
  <2>6. /\ Len(chunks) > 0 /\ n \in 1 .. Len(chunks[1]) /\ n < Len(chunks[1])
        /\ Len(v) = Len(chunks) /\ v[1] = SubSeq(chunks[1], n + 1, Len(chunks[1]))
        /\ \A i \in 2 .. Len(chunks) : v[i] = chunks[i]
    <3>1. n < Len(c) BY <1>5, <1>9
    <3> QED BY <1>1, <1>2, <1>3, <1>5, <2>1, <2>4, <3>1
  <2>7. Runs(v, a + n, z, g, w) /\ Stands(SubSeq(chunks[1], 1, n), a, g)
    BY <2>6, RunsTake
  <2> QED BY <1>3, <1>6, <1>7, <2>4, <2>5, <2>7
<1> QED BY <1>8, <1>9

LEMMA ArrivesKeeps ==
    ASSUME ZipInv, Zipping!Arrives
    PROVE  ZipInv'
<1>1. /\ reader = "read" /\ chunks # <<>> /\ Head(chunks) # <<>>
      /\ held' = held /\ ended' = ended /\ odd' = odd
         /\ UNCHANGED <<Zipping!headers, Zipping!writing>>
  BY DEF Zipping!Arrives
<1>2. PICK n \in 1 .. Len(Head(chunks)) :
        /\ chunks' = (IF n = Len(Head(chunks)) THEN <<>>
                      ELSE << SubSeq(Head(chunks), n + 1, Len(Head(chunks))) >>) \o Tail(chunks)
        /\ IF zip THEN /\ reader' = "decompress" /\ input' = SubSeq(Head(chunks), 1, n)
                       /\ UNCHANGED received
                  ELSE /\ received' = received \o SubSeq(Head(chunks), 1, n)
                       /\ UNCHANGED <<reader, input>>
  BY DEF Zipping!Arrives
<1>3. zip' = zip /\ provided' = provided /\ writer' = writer BY <1>1, ReaderKeepsWriter
<1>4. input = <<>> /\ Len(input) = 0
  <2>1. input = <<>> BY <1>1 DEF ZipInv, ReaderStates
  <2>2. Len(<<>>) = 0 OBVIOUS
  <2> QED BY <2>1, <2>2
<1>5. PICK p \in Nat : p = Passed BY ZipLens DEF ZipInv
<1>6. PICK g \in Nat : g = provided BY ZipLens DEF ZipInv
<1>7. /\ chunks \in Seq(Seq(Int)) /\ received \in Seq(Int) /\ held \in Seq(Int)
         /\ input \in Seq(Int)
      /\ ended \in BOOLEAN
  BY ZipLens DEF ZipInv
<1>8. ReaderPlaces /\ ReaderStates BY DEF ZipInv
<1>9. CASE odd = "none"
  <2>1. chunks = << << Zipping!Other >>, <<>> >> /\ received = <<>> /\ held = <<>> /\ ~ended
    BY <1>1, <1>9 DEF ZipInv, NoStream
  <2>2. zip BY <1>9 DEF ZipInv, WriterWell, Foreigner
  <2>3. PICK e \in Int : e = Zipping!Other BY DEF Zipping!Other
  <2>4. Head(chunks) = << e >> /\ Tail(chunks) = << <<>> >> BY <2>1, <2>3
  <2>5. Len(<< e >>) = 1 OBVIOUS
  <2>6. n = 1
    <3>1. Len(Head(chunks)) = 1 BY ONLY <2>4, <2>5, Zenon
    <3>2. n \in 1 .. 1 BY ONLY <3>1, n \in 1 .. Len(Head(chunks)), Zenon
    <3> QED BY ONLY <3>2
  <2>7. chunks' = <<>> \o << <<>> >> BY <1>2, <2>4, <2>5, <2>6
  <2>8. chunks' = << <<>> >> BY <2>7
  <2>9. input' = << e >>
    <3>0. PICK q \in Seq(Int) : q = << e >> /\ Len(q) = 1 /\ q[1] = e
      <4>1. << e >> \in Seq(Int) /\ Len(<< e >>) = 1 /\ << e >>[1] = e OBVIOUS
      <4> QED BY <4>1
    <3>1. SubSeq(<< e >>, 1, 1) = << e >>
      <4>1. PICK v \in Seq(Int) : v = SubSeq(q, 1, 1) /\ Len(v) = 1 /\ v[1] = e
        <5>1. 1 \in 0 .. Len(q) /\ 1 \in 1 .. 1 BY <3>0
        <5> QED BY <3>0, <5>1, IntBegins
      <4>2. v = q
        <5>1. \A i \in 1 .. 1 : v[i] = q[i] BY <3>0, <4>1
        <5>2. Len(v) = 1 /\ Len(q) = 1 BY <3>0, <4>1
        <5> QED BY ONLY <5>1, <5>2, v \in Seq(Int), q \in Seq(Int)
      <4> QED BY <3>0, <4>1, <4>2
    <3> QED BY <1>2, <2>2, <2>4, <2>6, <3>1
  <2>10. reader' = "decompress" /\ received' = received BY <1>2, <2>2
  <2>11. input' \in Seq(Int) /\ input' # <<>>
    <3>1. << e >> \in Seq(Int) /\ Len(<<>>) = 0 OBVIOUS
    <3> QED BY <2>5, <2>9, <3>1
  <2>12. chunks' \in Seq(Seq(Int))
    <3>1. <<>> \in Seq(Int) OBVIOUS
    <3>2. << <<>> >> \in Seq(Seq(Int)) BY <3>1
    <3> QED BY <2>8, <3>2
  <2>13. NoStream' BY <1>1, <2>1, <2>3, <2>8, <2>9, <2>10 DEF NoStream
  <2>14. ReaderPlaces' BY <1>1, <1>3, <1>8, <2>10 DEF ReaderPlaces
  <2>15. ReaderStates' BY <1>1, <1>3, <2>2, <2>10, <2>11 DEF ReaderStates
  <2>16. reader' \in {"read", "decompress", "true", "false"} /\ ended' \in BOOLEAN
         /\ held' \in Seq(Int) /\ received' \in Seq(Int)
    BY <1>1, <1>7, <2>10
  <2>17. odd' = "none" BY <1>1, <1>9
  <2> QED BY <1>1, <2>11, <2>12, <2>13, <2>14, <2>15, <2>16, <2>17, ReaderStep
<1>10. CASE odd # "none"
  <2>1. Runs(chunks, p, Out, g, writer)
    <3>1. p + Len(input) = p BY <1>4
    <3> QED BY <1>5, <1>6, <1>10, <3>1 DEF ZipInv, StreamRuns
  <2>2. PICK s \in Seq(Int) : /\ s = SubSeq(Head(chunks), 1, n) /\ Len(s) = n /\ Stands(s, p, g)
                              /\ chunks' \in Seq(Seq(Int)) /\ Runs(chunks', p + n, Out, g, writer)
    BY <1>1, <1>2, <1>7, <2>1, TakesRuns
  <2>3. n \in Nat /\ n > 0
    <3>1. n = Len(s) /\ Len(s) \in Nat BY <2>2
    <3>2. n >= 1 OBVIOUS
    <3> QED BY <3>1, <3>2
  <2>4. NoStream' BY <1>1, <1>10 DEF NoStream
  <2>5. CASE zip
    <3>1. reader' = "decompress" /\ input' = s /\ received' = received BY <1>2, <2>2, <2>5
    <3>2. Passed' = p BY <1>1, <1>5, <3>1 DEF Passed
    <3>3. input' # <<>>
      <4>1. Len(<<>>) = 0 OBVIOUS
      <4> QED BY <2>2, <2>3, <3>1, <4>1
    <3>4. odd' # "none" => /\ Runs(chunks', Passed' + Len(input'), Out, provided, writer)
                           /\ Stands(input', Passed', provided)
      BY <1>6, <2>2, <3>1, <3>2
    <3>5. ReaderPlaces' BY <1>1, <1>3, <1>8, <3>1 DEF ReaderPlaces
    <3>6. ReaderStates' BY <1>1, <1>3, <2>5, <3>1, <3>3 DEF ReaderStates
    <3>7. /\ reader' \in {"read", "decompress", "true", "false"} /\ ended' \in BOOLEAN
          /\ input' \in Seq(Int) /\ held' \in Seq(Int) /\ received' \in Seq(Int)
      BY <1>1, <1>7, <3>1
    <3> QED BY <1>1, <2>2, <2>4, <3>4, <3>5, <3>6, <3>7, ReaderStep
  <2>6. CASE ~zip
    <3>1. reader' = "read" /\ input' = input /\ received' = received \o s BY <1>1, <1>2, <2>2, <2>6
    <3>2. held = <<>> /\ ~ended /\ odd = "no" /\ ~last BY <2>6 DEF ZipInv, ReaderStates, WriterWell
    <3>3. Len(held) = 0
      <4>1. Len(<<>>) = 0 OBVIOUS
      <4> QED BY <3>2, <4>1
    <3>4. Len(received) = p
      <4>1. PICK r \in Nat : r = Len(received) BY <1>7
      <4> QED BY <1>5, <3>2, <3>3, <4>1 DEF Passed
    <3>5. received' \in Seq(Int) /\ Len(received') = p + n /\ Stands(received', 0, g)
      <4>1. received \o s \in Seq(Int) /\ Len(received \o s) = Len(received) + Len(s)
        BY <1>7, IntConcat
      <4>2. PICK zero \in Nat : zero = 0 OBVIOUS
      <4>3. Stands(received, zero, g) BY <1>6, <1>8, <4>2 DEF ReaderPlaces
      <4>4. zero + Len(received) = p BY <3>4, <4>2
      <4>5. Stands(received \o s, zero, g) BY <1>7, <2>2, <4>3, <4>4, StandsJoin
      <4> QED BY <2>2, <3>1, <3>4, <4>1, <4>2, <4>5
    <3>6. Passed' = p + n
      <4>1. ended' = FALSE BY <1>1, <1>7, <3>2, Zenon
      <4>2. Passed' = Len(received') + Len(held') + (IF ended' THEN 1 ELSE 0) BY DEF Passed
      <4>3. (IF ended' THEN 1 ELSE 0) = 0 BY ONLY <4>1, Zenon
      <4>4. Len(held') = 0 BY <1>1, <3>3
      <4> QED BY <2>3, <3>5, <4>2, <4>3, <4>4
    <3>7. p + n <= g
      <4>1. PICK x \in Nat : x = Out /\ p + n <= x
        <5>1. Len(chunks') \in Nat BY <2>2
        <5> QED BY <2>2, <5>1, RunsOrder
      <4>2. StreamEnd = g BY <1>6, <3>2 DEF StreamEnd
      <4>3. Len(payload) \in Nat /\ Len(kept) \in Nat BY ZipLens DEF ZipInv
      <4>4. x <= g BY <4>1, <4>2, <4>3 DEF Out
      <4> QED BY <2>3, <4>1, <4>4
    <3>8. odd' # "none" => /\ Runs(chunks', Passed' + Len(input'), Out, provided, writer)
                           /\ Stands(input', Passed', provided)
      <4>1. Passed' + Len(input') = p + n BY <1>4, <2>3, <3>1, <3>6
      <4>2. Stands(input', Passed', provided) BY <1>4, <3>1, StandsNone
      <4> QED BY <1>6, <2>2, <4>1, <4>2
    <3>9. ReaderPlaces'
      <4>1. Stands(held', Len(received'), provided') BY <1>1, <3>3, StandsNone
      <4>2. Len(received') + Len(held') <= provided' BY <1>1, <1>3, <1>6, <2>3, <3>3, <3>5, <3>7
      <4>3. ~ended' BY <1>1, <3>2
      <4> QED BY <1>3, <1>6, <3>5, <4>1, <4>2, <4>3 DEF ReaderPlaces
    <3>10. ReaderStates'
      <4>1. ~ended' BY <1>1, <3>2
      <4> QED BY <1>1, <1>4, <3>1, <3>2, <4>1 DEF ReaderStates
    <3>11. /\ reader' \in {"read", "decompress", "true", "false"} /\ ended' \in BOOLEAN
           /\ input' \in Seq(Int) /\ held' \in Seq(Int)
      BY <1>1, <1>7, <3>1
    <3> QED BY <1>1, <2>2, <2>4, <3>5, <3>8, <3>9, <3>10, <3>11, ReaderStep
  <2> QED BY <2>5, <2>6
<1> QED BY <1>9, <1>10

\* The codes before the first that is no byte.
LEMMA FirstOdd ==
    ASSUME NEW s \in Seq(Int), NEW k \in 0 .. Len(s),
           \A i \in 1 .. k : s[i] \notin {Zipping!End, Zipping!Other},
           k < Len(s) => s[k + 1] \in {Zipping!End, Zipping!Other}
    PROVE  Zipping!SelectInSeq(Append(s, Zipping!End),
                               LAMBDA c : c \in {Zipping!End, Zipping!Other}) - 1 = k
<1> DEFINE I == {i \in 1 .. Len(Append(s, Zipping!End)) :
                    Append(s, Zipping!End)[i] \in {Zipping!End, Zipping!Other}}
<1>0. Zipping!SelectInSeq(Append(s, Zipping!End), LAMBDA c : c \in {Zipping!End, Zipping!Other}) =
        IF I # {} THEN Zipping!Min(I) ELSE 0
  BY DEF Zipping!SelectInSeq
<1>1. PICK l \in Nat : l = Len(s) OBVIOUS
<1>2. PICK e \in Int : e = Zipping!End BY DEF Zipping!End
<1>3. PICK f : f = Append(s, Zipping!End) OBVIOUS
<1>4. Len(f) = l + 1 /\ f[l + 1] = Zipping!End /\ \A i \in 1 .. l : f[i] = s[i]
  <2>1. /\ Len(Append(s, e)) = Len(s) + 1 /\ Append(s, e)[Len(s) + 1] = e
        /\ \A i \in 1 .. Len(s) : Append(s, e)[i] = s[i]
    OBVIOUS
  <2> QED BY <1>1, <1>2, <1>3, <2>1
<1>5. k \in Nat /\ k <= l BY <1>1
<1>6. k + 1 \in I
  <2>1. CASE k = l
    <3>1. k + 1 \in 1 .. l + 1 BY <1>5
    <3> QED BY <1>3, <1>4, <2>1, <3>1
  <2>2. CASE k < l
    <3>1. k + 1 \in 1 .. l + 1 /\ k + 1 \in 1 .. l BY <1>5, <2>2
    <3>2. f[k + 1] \in {Zipping!End, Zipping!Other} BY <1>1, <1>4, <2>2, <3>1
    <3> QED BY <1>3, <1>4, <3>1, <3>2
  <2> QED BY <1>5, <2>1, <2>2
<1>7. \A i \in I : k + 1 <= i
  <2> TAKE i \in I
  <2>1. i \in 1 .. l + 1 /\ f[i] \in {Zipping!End, Zipping!Other} BY <1>3, <1>4
  <2>2. ~(i \in 1 .. k)
    <3>1. SUFFICES ASSUME i \in 1 .. k PROVE FALSE OBVIOUS
    <3>2. i \in 1 .. l BY <1>5, <3>1
    <3>3. f[i] = s[i] BY <1>4, <3>2
    <3> QED BY <2>1, <3>1, <3>3
  <2> QED BY <1>5, <2>1, <2>2
<1>8. \A i \in I : i \in Nat OBVIOUS
<1> HIDE DEF I
<1>9. Zipping!Min(I) = k + 1
  <2>1. PICK m : m = Zipping!Min(I) OBVIOUS
  <2>2. m \in I /\ \A i \in I : m <= i
    <3>1. \E i \in I : \A j \in I : i <= j BY <1>6, <1>7
    <3> QED BY <2>1, <3>1 DEF Zipping!Min
  <2>3. m <= k + 1 /\ k + 1 <= m /\ m \in Nat BY <1>6, <1>7, <1>8, <2>2
  <2> QED BY <1>5, <2>1, <2>3
<1>10. Zipping!SelectInSeq(Append(s, Zipping!End),
                           LAMBDA c : c \in {Zipping!End, Zipping!Other}) = k + 1
  BY ONLY <1>0, <1>6, <1>9, Zenon
<1> QED BY <1>5, <1>10

\* A turn of the loop, with the bytes that inflate() can put out.
LEMMA DecompressTurn ==
    ASSUME Zipping!Decompress, NEW k \in Nat,
           Zipping!SelectInSeq(Append(held \o input, Zipping!End),
                               LAMBDA c : c \in {Zipping!End, Zipping!Other}) - 1 = k
    PROVE  LET all == held \o input
           IN  IF k >= Buffer
               THEN /\ \E n \in 0 .. k - Len(held) :
                        Len(held) + n >= Buffer /\ Zipping!Puts(SubSeq(all, 1, Buffer), n)
                    /\ UNCHANGED ended
               ELSE IF k = Len(all)
               THEN Zipping!Puts(all, Len(input)) /\ UNCHANGED ended
               ELSE IF all[k + 1] = Zipping!End
               THEN /\ ended' = TRUE
                    /\ received' = received \o SubSeq(all, 1, k)
                    /\ held' = <<>> /\ input' = SubSeq(all, k + 2, Len(all))
                    /\ reader' = IF input' = <<>> THEN "read" ELSE "decompress"
                    /\ UNCHANGED <<Zipping!headers, Zipping!writing, chunks, odd>>
               ELSE /\ reader' = "false"
                    /\ UNCHANGED <<Zipping!headers, Zipping!writing, chunks, input, held, ended, received, odd>>
  BY DEF Zipping!Decompress

LEMMA PutsKeeps ==
    ASSUME ZipInv, reader = "decompress", ~ended, odd # "none",
           NEW bytes \in Seq(Int), NEW n \in Nat, n <= Len(input), Len(bytes) <= Len(held) + n,
           Len(received) + Len(held) + n <= provided, Stands(bytes, Len(received), provided),
           Zipping!Puts(bytes, n), ended' = ended
    PROVE  ZipInv'
<1>1. /\ received' = received \o bytes
      /\ held' = SubSeq(held \o SubSeq(input, 1, n), Len(bytes) + 1, Len(held) + n)
      /\ input' = SubSeq(input, n + 1, Len(input))
      /\ reader' = (IF input' = <<>> THEN "read" ELSE "decompress")
      /\ chunks' = chunks /\ odd' = odd /\ UNCHANGED <<Zipping!headers, Zipping!writing>>
  BY DEF Zipping!Puts
<1>2. zip' = zip /\ provided' = provided /\ writer' = writer BY <1>1, ReaderKeepsWriter
<1>3. /\ chunks \in Seq(Seq(Int)) /\ received \in Seq(Int) /\ held \in Seq(Int)
         /\ input \in Seq(Int)
      /\ ended = FALSE
  <2>1. ended \in BOOLEAN BY ZipLens DEF ZipInv
  <2>2. ended = FALSE BY ONLY <2>1, ~ended, Zenon
  <2> QED BY <2>2, ZipLens DEF ZipInv
<1>4. PICK r \in Nat : r = Len(received) BY <1>3
<1>5. PICK d \in Nat : d = Len(held) BY <1>3
<1>6. PICK i \in Nat : i = Len(input) BY <1>3
<1>7. PICK b \in Nat : b = Len(bytes) OBVIOUS
<1>8. PICK g \in Nat : g = provided BY ZipLens DEF ZipInv
<1>9. n <= i /\ b <= d + n /\ r + d + n <= g BY <1>4, <1>5, <1>6, <1>7, <1>8
<1>10. ReaderPlaces /\ ReaderStates BY DEF ZipInv
<1>11. Passed = r + d BY <1>3, <1>4, <1>5 DEF Passed
<1>12. Runs(chunks, (r + d) + i, Out, g, writer) /\ Stands(input, r + d, g)
  BY <1>6, <1>8, <1>11 DEF ZipInv, StreamRuns, StreamRead
<1>13. received' \in Seq(Int) /\ Len(received') = r + b /\ Stands(received', 0, g)
  <2>1. received \o bytes \in Seq(Int) /\ Len(received \o bytes) = Len(received) + Len(bytes)
    BY <1>3, IntConcat
  <2>2. PICK zero \in Nat : zero = 0 OBVIOUS
  <2>3. zero + Len(received) = r BY <1>4, <2>2
  <2>4. Stands(received, zero, g) BY <1>8, <1>10, <2>2 DEF ReaderPlaces
  <2>5. Stands(bytes, zero + Len(received), g) BY <1>4, <1>8, <2>3
  <2>6. Stands(received \o bytes, zero, g) BY <1>3, <2>4, <2>5, StandsJoin
  <2> QED BY <1>1, <1>4, <1>7, <2>1, <2>2, <2>6
<1>14. PICK s \in Seq(Int) : s = SubSeq(input, 1, n) /\ Len(s) = n /\ Stands(s, r + d, g)
  <2>1. n \in 0 .. Len(input) BY <1>6, <1>9
  <2>2. SubSeq(input, 1, n) \in Seq(Int) /\ Len(SubSeq(input, 1, n)) = n BY <1>3, <2>1, IntBegins
  <2>3. r + d \in Nat OBVIOUS
  <2>4. Stands(SubSeq(input, 1, n), r + d, g) BY <1>3, <1>12, <2>1, <2>3, StandsBegins
  <2> QED BY <2>2, <2>4
<1>15. PICK t \in Seq(Int) : t = held \o s /\ Len(t) = d + n /\ Stands(t, r, g)
  <2>1. held \o s \in Seq(Int) /\ Len(held \o s) = Len(held) + Len(s) BY <1>3, IntConcat
  <2>2. Stands(held, r, g) BY <1>4, <1>8, <1>10 DEF ReaderPlaces
  <2>3. Stands(s, r + Len(held), g) BY <1>5, <1>14
  <2>4. Stands(held \o s, r, g) BY <1>3, <2>2, <2>3, StandsJoin
  <2> QED BY <1>5, <1>14, <2>1, <2>4
<1>16. held' \in Seq(Int) /\ Len(held') = (d + n) - b /\ Stands(held', r + b, g)
  <2>1. b \in 0 .. Len(t) BY <1>9, <1>15
  <2>2. SubSeq(t, b + 1, Len(t)) \in Seq(Int) /\ Len(SubSeq(t, b + 1, Len(t))) = Len(t) - b
    BY <2>1, IntRest
  <2>3. Stands(SubSeq(t, b + 1, Len(t)), r + b, g) BY <1>15, <2>1, StandsRest
  <2>4. held' = SubSeq(t, b + 1, Len(t)) BY <1>1, <1>5, <1>7, <1>14, <1>15
  <2> QED BY <1>15, <2>2, <2>3, <2>4
<1>17. input' \in Seq(Int) /\ Len(input') = i - n /\ Stands(input', (r + d) + n, g)
  <2>1. n \in 0 .. Len(input) BY <1>6, <1>9
  <2>2. SubSeq(input, n + 1, Len(input)) \in Seq(Int)
        /\ Len(SubSeq(input, n + 1, Len(input))) = Len(input) - n
    BY <1>3, <2>1, IntRest
  <2>3. r + d \in Nat OBVIOUS
  <2>4. Stands(SubSeq(input, n + 1, Len(input)), (r + d) + n, g)
    BY <1>3, <1>12, <2>1, <2>3, StandsRest
  <2> QED BY <1>1, <1>6, <2>2, <2>4
<1>18. Passed' = (r + d) + n
  <2>1. Passed' = Len(received') + Len(held') + (IF ended' THEN 1 ELSE 0) BY DEF Passed
  <2>2. ended' = FALSE BY <1>3
  <2>3. (IF ended' THEN 1 ELSE 0) = 0 BY ONLY <2>2, Zenon
  <2>4. (r + b) + ((d + n) - b) + 0 = (r + d) + n OBVIOUS
  <2> QED BY <1>13, <1>16, <2>1, <2>3, <2>4
<1>19. odd' # "none" => /\ Runs(chunks', Passed' + Len(input'), Out, provided, writer)
                        /\ Stands(input', Passed', provided)
  <2>1. ((r + d) + n) + (i - n) = (r + d) + i OBVIOUS
  <2> QED BY <1>1, <1>8, <1>12, <1>17, <1>18, <2>1
<1>20. NoStream' BY <1>1 DEF NoStream
<1>21. ReaderPlaces'
  <2>1. Len(received') + Len(held') <= provided'
    <3>1. (r + b) + ((d + n) - b) <= g BY <1>9
    <3> QED BY <1>2, <1>8, <1>13, <1>16, <3>1
  <2>2. ~ended' BY <1>3
  <2> QED BY <1>2, <1>8, <1>13, <1>16, <2>1, <2>2 DEF ReaderPlaces
<1>22. ReaderStates'
  <2>1. zip BY <1>10 DEF ReaderStates
  <2> QED BY <1>1, <1>2, <2>1 DEF ReaderStates
<1>23. reader' \in {"read", "decompress", "true", "false"} /\ ended' \in BOOLEAN
  BY <1>1, <1>3
<1> QED BY <1>1, <1>3, <1>13, <1>16, <1>17, <1>19, <1>20, <1>21, <1>22, <1>23, ReaderStep

LEMMA DecompressKeeps ==
    ASSUME Zipping!GzipAssumption, ZipInv, Zipping!Decompress
    PROVE  ZipInv'
<1>1. reader = "decompress" /\ ~ended BY DEF Zipping!Decompress
<1>2. /\ chunks \in Seq(Seq(Int)) /\ received \in Seq(Int) /\ held \in Seq(Int)
         /\ input \in Seq(Int)
      /\ ended = FALSE /\ Buffer \in Nat /\ Buffer > 0
  <2>1. ended \in BOOLEAN BY ZipLens DEF ZipInv
  <2>2. ended = FALSE BY ONLY <1>1, <2>1, Zenon
  <2> QED BY <2>2, ZipLens DEF ZipInv, Zipping!GzipAssumption
<1>3. PICK r \in Nat : r = Len(received) BY <1>2
<1>4. PICK d \in Nat : d = Len(held) BY <1>2
<1>5. PICK i \in Nat : i = Len(input) BY <1>2
<1>6. PICK g \in Nat : g = provided BY ZipLens DEF ZipInv
<1>7. PICK all \in Seq(Int) : all = held \o input /\ Len(all) = d + i BY <1>2, <1>4, <1>5, IntConcat
<1>8. ReaderPlaces /\ ReaderStates BY DEF ZipInv
<1>9. zip /\ input # <<>> /\ r + d <= g
  BY <1>1, <1>3, <1>4, <1>6, <1>8 DEF ReaderPlaces, ReaderStates
<1>10. CASE odd = "none"
  <2>1. /\ received = <<>> /\ held = <<>> /\ chunks = << <<>> >> /\ input = << Zipping!Other >>
    BY <1>1, <1>10 DEF ZipInv, NoStream
  <2>2. PICK e \in Int : e = Zipping!Other BY DEF Zipping!Other
  <2>3. Len(all) = 1 /\ all[1] = e
    <3>1. PICK q \in Seq(Int) : q = << e >> /\ Len(q) = 1 /\ q[1] = e
      <4>1. << e >> \in Seq(Int) /\ Len(<< e >>) = 1 /\ << e >>[1] = e OBVIOUS
      <4> QED BY <4>1
    <3>2. <<>> \o q = q OBVIOUS
    <3>3. all = q BY <1>7, <2>1, <2>2, <3>1, <3>2
    <3> QED BY <3>1, <3>3
  <2>4. PICK k \in Nat : k = 0 OBVIOUS
  <2>5. Zipping!SelectInSeq(Append(all, Zipping!End),
                            LAMBDA c : c \in {Zipping!End, Zipping!Other}) - 1 = k
    <3>1. k \in 0 .. Len(all) BY <2>4
    <3>2. \A j \in 1 .. k : all[j] \notin {Zipping!End, Zipping!Other} BY <2>4
    <3>3. k < Len(all) => all[k + 1] \in {Zipping!End, Zipping!Other} BY <2>2, <2>3, <2>4
    <3> QED BY <3>1, <3>2, <3>3, FirstOdd
  <2>6. ~(k >= Buffer) /\ k # Len(all) /\ all[k + 1] # Zipping!End
    <3>1. e # Zipping!End BY <2>2 DEF Zipping!End, Zipping!Other
    <3> QED BY <1>2, <2>3, <2>4, <3>1
  <2>7. /\ reader' = "false" /\ chunks' = chunks /\ input' = input /\ held' = held /\ ended' = ended
        /\ received' = received /\ odd' = odd /\ UNCHANGED <<Zipping!headers, Zipping!writing>>
    BY <1>7, <2>5, <2>6, DecompressTurn
  <2>8. zip' = zip /\ provided' = provided /\ writer' = writer BY <2>7, ReaderKeepsWriter
  <2>9. NoStream' BY <1>2, <2>1, <2>7 DEF NoStream
  <2>10. ReaderPlaces' BY <1>8, <2>7, <2>8 DEF ReaderPlaces
  <2>11. ReaderStates' BY <1>9, <1>10, <2>7, <2>8 DEF ReaderStates
  <2>12. /\ reader' \in {"read", "decompress", "true", "false"} /\ ended' \in BOOLEAN
         /\ input' \in Seq(Int) /\ held' \in Seq(Int) /\ received' \in Seq(Int)
            /\ chunks' \in Seq(Seq(Int))
    BY <1>2, <2>7
  <2>13. odd' = "none" BY <1>10, <2>7
  <2> QED BY <2>7, <2>9, <2>10, <2>11, <2>12, <2>13, ReaderStep
<1>11. CASE odd # "none"
  <2>1. Passed = r + d BY <1>2, <1>3, <1>4 DEF Passed
  <2>2. Runs(chunks, (r + d) + i, Out, g, writer) /\ Stands(input, r + d, g)
    BY <1>5, <1>6, <1>11, <2>1 DEF ZipInv, StreamRuns, StreamRead
  <2>3. Stands(all, r, g)
    <3>1. Stands(held, r, g) BY <1>3, <1>6, <1>8 DEF ReaderPlaces
    <3>2. Stands(input, r + Len(held), g) BY <1>4, <2>2
    <3>3. Stands(held \o input, r, g) BY <1>2, <3>1, <3>2, StandsJoin
    <3> QED BY <1>7, <3>3
  <2>4. PICK k \in Nat : k = (IF r + (d + i) <= g THEN d + i ELSE g - r)
    <3>1. (IF r + (d + i) <= g THEN d + i ELSE g - r) \in Nat BY <1>9
    <3> QED BY <3>1
  <2>5. k <= d + i /\ r + k <= g /\ (k # d + i => r + k = g) /\ d <= k BY <1>9, <2>4
  <2>6. \A j \in 1 .. Len(all) : all[j] = Code(r + j, g) BY <2>3 DEF Stands
  <2>7. k # Len(all) => k < Len(all) /\ k + 1 \in 1 .. Len(all) /\ all[k + 1] = Zipping!End
    <3>1. SUFFICES ASSUME k # Len(all) PROVE k < Len(all) /\ k + 1 \in 1 .. Len(all)
          /\ all[k + 1] = Zipping!End
      OBVIOUS
    <3>2. k < Len(all) /\ k + 1 \in 1 .. Len(all) /\ r + (k + 1) = g + 1 BY <1>7, <2>5, <3>1
    <3>3. all[k + 1] = Code(g + 1, g) BY <2>6, <3>2
    <3> QED BY <3>2, <3>3 DEF Code
  <2>8. Zipping!SelectInSeq(Append(all, Zipping!End),
                            LAMBDA c : c \in {Zipping!End, Zipping!Other}) - 1 = k
    <3>1. k \in 0 .. Len(all) BY <1>7, <2>5
    <3>2. ASSUME NEW j \in 1 .. k PROVE all[j] \notin {Zipping!End, Zipping!Other}
      <4>1. j \in 1 .. Len(all) /\ r + j <= g /\ r + j > 0 BY <1>7, <2>5
      <4>2. all[j] = r + j BY <2>6, <4>1 DEF Code
      <4> QED BY <4>1, <4>2 DEF Zipping!End, Zipping!Other
    <3>3. k < Len(all) => all[k + 1] \in {Zipping!End, Zipping!Other} BY <2>7
    <3> QED BY <3>1, <3>2, <3>3, FirstOdd
  <2>9. CASE k >= Buffer
    <3>1. PICK n \in 0 .. k - Len(held) :
            Len(held) + n >= Buffer /\ Zipping!Puts(SubSeq(held \o input, 1, Buffer), n)
            /\ ended' = ended
      BY <2>8, <2>9, <1>7, DecompressTurn
    <3>2. n \in Nat /\ n <= i /\ Buffer <= d + n /\ r + d + n <= g BY <1>2, <1>4, <2>5, <3>1
    <3>3. Buffer \in 0 .. Len(all) BY <1>2, <1>7, <2>5, <2>9
    <3>4. PICK b \in Seq(Int) : b = SubSeq(all, 1, Buffer) /\ Len(b) = Buffer BY <3>3, IntBegins
    <3>5. Stands(b, r, g) BY <2>3, <3>3, <3>4, StandsBegins
    <3>6. Zipping!Puts(b, n) BY <1>7, <3>1, <3>4
    <3>7. /\ n <= Len(input) /\ Len(b) <= Len(held) + n /\ Len(received) + Len(held) + n <= provided
          /\ Stands(b, Len(received), provided)
      BY <1>3, <1>4, <1>5, <1>6, <3>2, <3>4, <3>5
    <3> QED BY <1>1, <1>11, <3>1, <3>2, <3>6, <3>7, PutsKeeps
  <2>10. CASE ~(k >= Buffer) /\ k = Len(all)
    <3>1. Zipping!Puts(all, i) /\ ended' = ended BY <1>5, <1>7, <2>8, <2>10, DecompressTurn
    <3>2. /\ i <= Len(input) /\ Len(all) <= Len(held) + i /\ Len(received) + Len(held) + i <= provided
          /\ Stands(all, Len(received), provided)
      <4>1. r + d + i <= g BY <1>7, <2>5, <2>10
      <4> QED BY <1>3, <1>4, <1>5, <1>6, <1>7, <2>3, <4>1
    <3> QED BY <1>1, <1>11, <3>1, <3>2, PutsKeeps
  <2>11. CASE ~(k >= Buffer) /\ k # Len(all)
    <3>1. /\ ended' = TRUE /\ received' = received \o SubSeq(all, 1, k)
          /\ held' = <<>> /\ input' = SubSeq(all, k + 2, Len(all))
          /\ reader' = (IF input' = <<>> THEN "read" ELSE "decompress")
          /\ chunks' = chunks /\ odd' = odd /\ UNCHANGED <<Zipping!headers, Zipping!writing>>
      BY <1>7, <2>7, <2>8, <2>11, DecompressTurn
    <3>2. zip' = zip /\ provided' = provided /\ writer' = writer BY <3>1, ReaderKeepsWriter
    <3>3. k < d + i /\ r + k = g /\ k \in 0 .. Len(all) /\ k + 1 \in 0 .. Len(all)
      BY <1>7, <2>5, <2>11
    <3>4. received' \in Seq(Int) /\ Len(received') = g /\ Stands(received', 0, g)
      <4>1. PICK s \in Seq(Int) : s = SubSeq(all, 1, k) /\ Len(s) = k BY <3>3, IntBegins
      <4>2. Stands(s, r, g) BY <2>3, <3>3, <4>1, StandsBegins
      <4>3. received \o s \in Seq(Int) /\ Len(received \o s) = Len(received) + Len(s)
        BY <1>2, IntConcat
      <4>4. PICK zero \in Nat : zero = 0 OBVIOUS
      <4>5. zero + Len(received) = r BY <1>3, <4>4
      <4>6. Stands(received, zero, g) BY <1>6, <1>8, <4>4 DEF ReaderPlaces
      <4>7. Stands(s, zero + Len(received), g) BY <4>2, <4>5
      <4>8. Stands(received \o s, zero, g) BY <1>2, <4>6, <4>7, StandsJoin
      <4> QED BY <1>3, <3>1, <3>3, <4>1, <4>3, <4>4, <4>8
    <3>5. PICK j \in Nat : j = k + 1 OBVIOUS
    <3>6. input' \in Seq(Int) /\ Len(input') = (d + i) - j /\ Stands(input', g + 1, g)
      <4>1. j \in 0 .. Len(all) /\ r + j = g + 1 /\ j + 1 = k + 2 BY <3>3, <3>5
      <4>2. PICK s \in Seq(Int) : s = SubSeq(all, j + 1, Len(all)) /\ Len(s) = Len(all) - j
        BY <4>1, IntRest
      <4>3. Stands(s, r + j, g) BY <2>3, <4>1, <4>2, StandsRest
      <4> QED BY <1>7, <3>1, <4>1, <4>2, <4>3
    <3>7. held' \in Seq(Int) /\ Len(held') = 0
      <4>1. <<>> \in Seq(Int) /\ Len(<<>>) = 0 OBVIOUS
      <4> QED BY <3>1, <4>1
    <3>8. Passed' = g + 1
      <4>1. Passed' = Len(received') + Len(held') + (IF ended' THEN 1 ELSE 0) BY DEF Passed
      <4>2. (IF ended' THEN 1 ELSE 0) = 1 BY ONLY <3>1, Zenon
      <4> QED BY <3>4, <3>7, <4>1, <4>2
    <3>9. odd' # "none" => /\ Runs(chunks', Passed' + Len(input'), Out, provided, writer)
                           /\ Stands(input', Passed', provided)
      <4>1. (g + 1) + ((d + i) - j) = (r + d) + i BY <3>3, <3>5
      <4> QED BY <1>6, <2>2, <3>1, <3>6, <3>8, <4>1
    <3>10. NoStream' BY <1>11, <3>1 DEF NoStream
    <3>11. ReaderPlaces'
      <4>1. Stands(held', Len(received'), provided') BY <3>7, StandsNone
      <4>2. Len(received') + Len(held') <= provided' BY <1>6, <3>2, <3>4, <3>7
      <4> QED BY <1>6, <1>9, <3>1, <3>2, <3>4, <4>1, <4>2 DEF ReaderPlaces
    <3>12. ReaderStates' BY <1>9, <3>1, <3>2 DEF ReaderStates
    <3>13. reader' \in {"read", "decompress", "true", "false"} /\ ended' \in BOOLEAN BY <3>1
    <3>14. chunks' \in Seq(Seq(Int)) BY <1>2, <3>1
    <3> QED BY <3>1, <3>4, <3>6, <3>7, <3>9, <3>10, <3>11, <3>12, <3>13, <3>14, ReaderStep
  <2> QED BY <2>9, <2>10, <2>11
<1> QED BY <1>10, <1>11

LEMMA ZipInit ==
    ASSUME Zipping!GzipAssumption, Zipping!Init
    PROVE  ZipInv
<1>1. /\ zip \in BOOLEAN /\ chunked \in BOOLEAN
      /\ writer = "loop" /\ last = FALSE /\ kept = <<>> /\ payload = <<>> /\ provided = 0
      /\ reader = "read" /\ input = <<>> /\ held = <<>> /\ ended = FALSE /\ received = <<>>
      /\ chunks = <<>> /\ odd = "no"
  BY DEF Zipping!Init
<1>2. total \in Nat BY DEF Zipping!Init, Zipping!GzipAssumption
<1>3. <<>> \in Seq(Int) /\ <<>> \in Seq(Seq(Int)) /\ Len(<<>>) = 0 OBVIOUS
<1>4. ZipTypes
  <2>1. {kept, payload, input, held, received} \subseteq Seq(Int) /\ chunks \in Seq(Seq(Int))
    BY <1>1, <1>3, Zenon
  <2>2. {zip, chunked, last, ended} \subseteq BOOLEAN BY ONLY <1>1, Zenon
  <2>3. {total, provided} \subseteq Nat BY <1>1, <1>2
  <2>4. writer = "loop" /\ reader = "read" /\ odd = "no" BY <1>1
  <2> QED BY ONLY <2>1, <2>2, <2>3, <2>4, Zenon DEF ZipTypes
<1>5. /\ Len(received) = 0 /\ Len(held) = 0 /\ Len(input) = 0 /\ Len(payload) = 0 /\ Len(kept) = 0
      /\ Len(chunks) = 0
  BY <1>1, <1>3
<1>6. Passed = 0 /\ StreamEnd = 0 /\ Out = 0
  <2>1. Passed = 0 BY <1>1, <1>5 DEF Passed
  <2>2. StreamEnd = 0 BY <1>1 DEF StreamEnd
  <2>3. writer # "over" BY <1>1
  <2>4. Out = StreamEnd - (Len(payload) + Len(kept)) BY <2>3 DEF Out
  <2>5. Out = 0 - (0 + 0) BY ONLY <1>5, <2>2, <2>4, Zenon
  <2> QED BY ONLY <2>1, <2>2, <2>5
<1>7. StreamRuns
  <2>1. PICK zero \in Nat : zero = 0 OBVIOUS
  <2>2. Runs(chunks, zero, zero, provided, writer) BY <1>5, RunsNone
  <2>3. Passed + Len(input) = 0 BY <1>5, <1>6
  <2> QED BY <1>6, <2>1, <2>2, <2>3 DEF StreamRuns
<1>8. StreamRead BY <1>5, StandsNone DEF StreamRead
<1>9. StreamKept BY <1>5, StandsNone DEF StreamKept
<1>10. NoStream BY <1>1 DEF NoStream
<1>11. WriterWell BY <1>1 DEF WriterWell, Foreigner
<1>12. ReaderPlaces
  <2>1. Stands(received, 0, provided) /\ Stands(held, Len(received), provided) BY <1>5, StandsNone
  <2>2. Len(received) + Len(held) <= provided BY <1>1, <1>5
  <2> QED BY <1>1, <2>1, <2>2 DEF ReaderPlaces
<1>13. ReaderStates BY <1>1 DEF ReaderStates
<1> QED BY <1>4, <1>7, <1>8, <1>9, <1>10, <1>11, <1>12, <1>13 DEF ZipInv

LEMMA ZipStutters ==
    ASSUME ZipInv, UNCHANGED Zipping!vars
    PROVE  ZipInv'
<1>1. /\ zip' = zip /\ chunked' = chunked /\ total' = total /\ provided' = provided
      /\ writer' = writer /\ last' = last /\ kept' = kept /\ payload' = payload
      /\ reader' = reader /\ input' = input /\ held' = held /\ ended' = ended
      /\ received' = received /\ chunks' = chunks /\ odd' = odd
      /\ UNCHANGED <<Zipping!headers, Zipping!writing>>
  BY DEF Zipping!vars, Zipping!headers, Zipping!writing, Zipping!reading
<1>2. Passed' = Passed BY <1>1 DEF Passed
<1>3. odd' # "none" => /\ Runs(chunks', Passed' + Len(input'), Out, provided, writer)
                       /\ Stands(input', Passed', provided)
  BY <1>1, <1>2 DEF ZipInv, StreamRuns, StreamRead
<1>4. NoStream' BY <1>1 DEF ZipInv, NoStream
<1>5. ReaderPlaces' BY <1>1 DEF ZipInv, ReaderPlaces
<1>6. ReaderStates' BY <1>1 DEF ZipInv, ReaderStates
<1>7. /\ reader' \in {"read", "decompress", "true", "false"} /\ ended' \in BOOLEAN
      /\ input' \in Seq(Int) /\ held' \in Seq(Int) /\ received' \in Seq(Int)
         /\ chunks' \in Seq(Seq(Int))
  <2>1. reader \in {"read", "decompress", "true", "false"} BY DEF ZipInv, ZipTypes
  <2>2. ended \in BOOLEAN BY ZipLens DEF ZipInv
  <2>3. /\ input \in Seq(Int) /\ held \in Seq(Int) /\ received \in Seq(Int)
           /\ chunks \in Seq(Seq(Int))
    BY ZipLens DEF ZipInv
  <2> QED BY ONLY <1>1, <2>1, <2>2, <2>3, Zenon
<1> QED BY <1>1, <1>3, <1>4, <1>5, <1>6, <1>7, ReaderStep

LEMMA ZipSteps ==
    ASSUME Zipping!GzipAssumption, ZipInv, [Zipping!Next]_(Zipping!vars)
    PROVE  ZipInv'
<1>1. CASE Zipping!Foreign BY <1>1, ForeignKeeps
<1>2. CASE \E n \in 1 .. MaxPiece : Zipping!Write(n)
  <2>1. MaxPiece \in Nat BY DEF Zipping!GzipAssumption
  <2> QED BY <1>2, <2>1, ZipWriteKeeps
<1>3. CASE Zipping!Done BY <1>3, ZipDoneKeeps
<1>4. CASE Zipping!Compress BY <1>4, CompressKeeps
<1>5. CASE Zipping!SendsBody BY <1>5, SendsBodyKeeps
<1>6. CASE Zipping!Arrives BY <1>6, ArrivesKeeps
<1>7. CASE Zipping!BodyEnds BY <1>7, BodyEndsKeeps
<1>8. CASE Zipping!Decompress BY <1>8, DecompressKeeps
<1>9. CASE Zipping!Refuse BY <1>9, ZipRefuseKeeps
<1>10. CASE UNCHANGED Zipping!vars BY <1>10, ZipStutters
<1> QED
  BY <1>1, <1>2, <1>3, <1>4, <1>5, <1>6, <1>7, <1>8, <1>9, <1>10 DEF Zipping!Next, Zipping!Step

\* The receiver has the first bytes of the content, and all of them if it says so.
LEMMA ZipWhole ==
    ASSUME ZipInv
    PROVE  Zipping!ContentWhole
<1>1. PICK g \in Nat : g = provided BY ZipLens DEF ZipInv
<1>2. PICK s \in Seq(Int) : s = received BY ZipLens DEF ZipInv
<1>3. PICK d \in Seq(Int) : d = Zipping!Data(provided) /\ Len(d) = g /\ \A i \in 1 .. g : d[i] = i
  <2>1. PICK d : d = [i \in 1 .. g |-> i] OBVIOUS
  <2>2. d \in Seq(Int) /\ Len(d) = g /\ \A i \in 1 .. g : d[i] = i BY <2>1
  <2> QED BY <1>1, <2>1, <2>2 DEF Zipping!Data
<1>4. PICK r \in Nat : r = Len(s) OBVIOUS
<1>5. r <= g /\ \A i \in 1 .. r : s[i] = i
  <2>1. PICK h \in Nat : h = Len(held) BY ZipLens DEF ZipInv
  <2>2. r + h <= g BY <1>1, <1>2, <1>4, <2>1 DEF ZipInv, ReaderPlaces
  <2>3. r <= g BY <2>2
  <2>4. PICK zero \in Nat : zero = 0 OBVIOUS
  <2>5. Stands(s, zero, g) BY <1>1, <1>2, <2>4 DEF ZipInv, ReaderPlaces
  <2>6. zero + Len(s) <= g BY <1>4, <2>3, <2>4
  <2>7. \A i \in 1 .. Len(s) : s[i] = zero + i BY <2>5, <2>6, StandsBytes
  <2> QED BY <1>4, <2>3, <2>4, <2>7
<1>6. SubSeq(s, 1, Len(s)) = SubSeq(d, 1, Len(s))
  <2>1. r \in 0 .. Len(s) /\ r \in 0 .. Len(d) BY <1>3, <1>4, <1>5
  <2>2. PICK x \in Seq(Int) : x = SubSeq(s, 1, r) /\ Len(x) = r /\ \A i \in 1 .. r : x[i] = s[i]
    BY <2>1, IntBegins
  <2>3. PICK y \in Seq(Int) : y = SubSeq(d, 1, r) /\ Len(y) = r /\ \A i \in 1 .. r : y[i] = d[i]
    BY <2>1, IntBegins
  <2>4. \A i \in 1 .. r : x[i] = y[i] BY <1>3, <1>5, <2>2, <2>3
  <2>5. Len(x) = Len(y) /\ \A i \in 1 .. Len(x) : x[i] = y[i] BY <2>2, <2>3, <2>4
  <2>6. x = y BY ONLY <2>5, x \in Seq(Int), y \in Seq(Int), SeqEqual
  <2> QED BY <1>4, <2>2, <2>3, <2>6
<1>7. Zipping!IsPrefix(received, Zipping!Data(provided))
  BY <1>2, <1>3, <1>4, <1>5, <1>6 DEF Zipping!IsPrefix
<1>8. Len(received) = provided => received = Zipping!Data(provided)
  <2>1. SUFFICES ASSUME r = g PROVE s = d BY <1>1, <1>2, <1>3, <1>4
  <2>2. Len(s) = Len(d) /\ \A i \in 1 .. Len(s) : s[i] = d[i] BY <1>3, <1>4, <1>5, <2>1
  <2> QED BY ONLY <2>2, s \in Seq(Int), d \in Seq(Int), SeqEqual
<1>9. ReaderStates BY DEF ZipInv
<1> QED BY <1>7, <1>8, <1>9 DEF Zipping!ContentWhole, ReaderStates

\* However zlib, the buffers and the network cut a content, compressed or not, in chunks or
\* with its length, of any number of bytes: the receiver gets its bytes in their order, a
\* body that is read to its end is the whole content and leaves nothing behind, unless the
\* sender cut the stream, and it fails for a reason (gzip_compressor, gzip_decompressor,
\* write_content_chunked, send_with_content_provider, read_content).
THEOREM ContentsAreWhole ==
    Zipping!GzipAssumption =>
      (Zipping!Init /\ [][Zipping!Next]_(Zipping!vars) => []Zipping!ContentWhole)
<1> SUFFICES ASSUME Zipping!GzipAssumption
             PROVE  Zipping!Init /\ [][Zipping!Next]_(Zipping!vars) => []Zipping!ContentWhole
  OBVIOUS
<1>1. Zipping!Init => ZipInv BY ZipInit
<1>2. ZipInv /\ [Zipping!Next]_(Zipping!vars) => ZipInv' BY ZipSteps
<1>3. ZipInv => Zipping!ContentWhole BY ZipWhole
<1> QED BY <1>1, <1>2, <1>3, PTL
=============================================================================
