-------------------------- MODULE HttpClientProofs --------------------------
(* For any number of threads, descriptors and redirects: the requests in       *)
(* flight are counted, the client keeps to its own descriptor, and an answer   *)
(* goes to the call that asked; and the body of a message arrives whole,       *)
(* however it is cut into chunks and read.                                     *)
EXTENDS HttpClient, SequenceTheorems, TLAPS

\* redirect_count counts down along the chain of calls, and those that wait for a
\* nested send() have nothing left to do but the last block.
Chain ==
    \A i \in 1 .. Len(calls) :
        /\ calls[i].left = Redirects + 1 - i
        /\ i < Len(calls) => calls[i].at = "ends"

\* request_mutex_ is held while there are calls, under the number of each of them.
Held == holder = NoThread <=> Depth = 0

Count ==
    /\ flight = Depth + unwound
    /\ Depth > 0 => from = holder
    /\ misused => unwound > 0

\* What a request leaves on the connection.
Clean ==
    unwound = 0 =>
        /\ ~mixed
        /\ asked => flag
        /\ sock # NoFd =>
            /\ table[sock] = "shut" =>
                  Depth > 0 /\ (flag \/ Top.at = "write" \/ (Top.at = "ends" /\ ~Top.ret))
            /\ \/ Depth = 0
               \/ Top.at \in {"write", "answered", "status"}
               \/ Top.at = "ends" /\ Top.ret
               => answers[sock] = <<>>
            /\ Depth > 0 /\ Top.at \in {"read", "body"} => answers[sock] = <<Top.id>>
            /\ Depth = 0 => ~asked

\* The descriptors that are open are the client's socket.
Mine == \A f \in Fd : table[f] \in {"open", "shut"} <=> f = sock

IInv == TypeOK /\ Chain /\ Held /\ Count /\ SocketIsMine /\ Clean

-----------------------------------------------------------------------------
\* ClientAssumption, one fact at a time.
LEMMA Constants ==
    /\ NoThread \notin Thread /\ NoFd \notin Fd /\ KeepAlive \in BOOLEAN
    /\ Redirects \in Nat /\ MaxSends \in Nat /\ MaxStops \in Nat
  BY ClientAssumption DEF ClientAssumption

(* Facts about the calls of send(). *)

\* The innermost call has the type of a call.
LEMMA TopType ==
    ASSUME calls \in Seq(Call), Depth > 0
    PROVE  Top \in Call
  BY DEF Top, Depth

\* A call that goes on stays where it is in the chain.
LEMMA GoesOn ==
    ASSUME calls \in Seq(Call), Chain, Depth > 0,
           NEW STATE c, c \in Call, c.left = Top.left, Goes(c)
    PROVE  calls' \in Seq(Call) /\ Depth' = Depth /\ Top' = c /\ Chain'
  BY DEF Chain, Depth, Top, Goes

\* A new call on top of calls that wait for it.
LEMMA Nests ==
    ASSUME NEW STATE stack, stack \in Seq(Call), Redirects \in Nat, Len(stack) <= Redirects,
           \A i \in 1 .. Len(stack) :
               stack[i].left = Redirects + 1 - i /\ stack[i].at = "ends",
           NEW STATE c, c \in Call, c.left = Redirects - Len(stack), calls' = Append(stack, c)
    PROVE  /\ calls' \in Seq(Call) /\ Depth' = Len(stack) + 1 /\ Top' = c /\ Chain'
           /\ Len(calls') <= Redirects + 1
  BY DEF Chain, Depth, Top

\* What the first call finds below it, and what redirect() leaves below the next one.
LEMMA Waits ==
    ASSUME calls \in Seq(Call), Chain, Depth > 0, Redirects \in Nat,
           NEW STATE stack, stack = [calls EXCEPT ![Depth].at = "ends"]
    PROVE  /\ stack \in Seq(Call) /\ Len(stack) = Depth
           /\ \A i \in 1 .. Len(stack) :
                 stack[i].left = Redirects + 1 - i /\ stack[i].at = "ends"
           /\ Top.left = Redirects + 1 - Depth
  <1>1. calls[Depth] \in Call /\ Depth \in 1 .. Len(calls)
    BY DEF Depth
  <1>2. [calls[Depth] EXCEPT !.at = "ends"] \in Call
    BY <1>1 DEF Call
  <1>3. stack = [calls EXCEPT ![Depth] = [calls[Depth] EXCEPT !.at = "ends"]]
    OBVIOUS
  <1>4. stack \in Seq(Call) /\ Len(stack) = Depth
    BY <1>1, <1>2, <1>3 DEF Depth
  <1>5. [calls[Depth] EXCEPT !.at = "ends"].left = calls[Depth].left
        /\ [calls[Depth] EXCEPT !.at = "ends"].at = "ends"
    BY <1>1 DEF Call
  <1>6. \A i \in 1 .. Len(stack) :
            stack[i].left = Redirects + 1 - i /\ stack[i].at = "ends"
    BY <1>1, <1>3, <1>4, <1>5 DEF Chain, Depth
  <1> QED BY <1>4, <1>6, <1>1 DEF Chain, Depth, Top

\* The result of a call is set in the call below.
LEMMA Given ==
    ASSUME NEW STATE s, s \in Seq(Call), Len(s) > 0, NEW STATE r, r \in BOOLEAN
    PROVE  LET next == [s EXCEPT ![Len(s)].ret = r]
           IN  /\ next \in Seq(Call) /\ Len(next) = Len(s)
               /\ \A i \in 1 .. Len(s) : next[i].left = s[i].left /\ next[i].at = s[i].at
               /\ next[Len(s)].ret = r
  <1> DEFINE last == [s[Len(s)] EXCEPT !.ret = r]
             next == [s EXCEPT ![Len(s)] = last]
  <1>1. s[Len(s)] \in Call /\ Len(s) \in 1 .. Len(s)
    OBVIOUS
  <1>2. last \in Call /\ last.left = s[Len(s)].left /\ last.at = s[Len(s)].at /\ last.ret = r
    BY <1>1 DEF Call
  <1>3. next \in Seq(Call) /\ Len(next) = Len(s) /\ next[Len(s)] = last
        /\ \A i \in 1 .. Len(s) : i # Len(s) => next[i] = s[i]
    <2> HIDE DEF last
    <2> QED BY <1>1, <1>2
  <1>4. [s EXCEPT ![Len(s)].ret = r] = next
    OBVIOUS
  <1> HIDE DEF last, next
  <1>5. \A i \in 1 .. Len(s) : next[i].left = s[i].left /\ next[i].at = s[i].at
    BY <1>1, <1>2, <1>3
  <1> QED BY <1>2, <1>3, <1>4, <1>5

\* The return to the call below.
LEMMA Pops ==
    ASSUME calls \in Seq(Call), Chain, Depth > 0, Returns
    PROVE  /\ calls' \in Seq(Call) /\ Depth' = Depth - 1 /\ Chain'
           /\ Depth > 1 => Top'.at = "ends" /\ Top'.ret = Top.ret /\ holder' = holder
           /\ Depth = 1 => holder' = NoThread
  <1> DEFINE stack == SubSeq(calls, 1, Depth - 1)
  <1>0. Depth \in Nat BY DEF Depth
  <1>1. stack \in Seq(Call) /\ Len(stack) = Depth - 1
        /\ \A i \in 1 .. Depth - 1 : stack[i] = calls[i]
    <2>1. Depth \in Nat /\ \A i \in 1 .. Depth - 1 : calls[i] \in Call
      BY DEF Depth
    <2> QED BY <2>1, SubSeqProperties
  <1> HIDE DEF stack
  <1>2. Top.ret \in BOOLEAN
    BY TopType DEF Call
  <1>3. CASE Depth = 1
    <2>1. stack = <<>> BY <1>1, <1>3
    <2>2. calls' = <<>> /\ holder' = NoThread BY <2>1 DEF Returns, stack
    <2> QED BY <2>2, <1>3 DEF Depth, Chain
  <1>4. CASE Depth > 1
    <2>1. stack # <<>> BY <1>0, <1>1, <1>4
    <2>2. calls' = [stack EXCEPT ![Depth - 1].ret = Top.ret] /\ holder' = holder
      BY <2>1 DEF Returns, stack
    <2>3. /\ calls' \in Seq(Call) /\ Len(calls') = Depth - 1
          /\ \A i \in 1 .. Depth - 1 :
                calls'[i].left = calls[i].left /\ calls'[i].at = calls[i].at
          /\ calls'[Depth - 1].ret = Top.ret
      BY <2>2, <1>0, <1>1, <1>2, <1>4, Given
    <2>6. calls[Depth - 1].at = "ends" BY <1>4 DEF Chain, Depth
    <2>7. Chain' BY <2>3, <1>0, <1>4 DEF Chain, Depth
    <2> QED BY <2>2, <2>3, <2>6, <2>7, <1>0, <1>4 DEF Depth, Top
  <1>5. Depth = 1 \/ Depth > 1 BY DEF Depth
  <1> QED BY <1>3, <1>4, <1>5

\* Mine is SocketIsMine's first part, said of each descriptor.
LEMMA MineIs ==
    ASSUME sock \in Fd \cup {NoFd}
    PROVE  Mine <=> {f \in Fd : table[f] \in {"open", "shut"}} = {sock} \ {NoFd}
  BY Constants DEF Mine

LEMMA MineNext ==
    ASSUME sock' \in Fd \cup {NoFd}
    PROVE  Mine' <=> {f \in Fd : table'[f] \in {"open", "shut"}} = {sock'} \ {NoFd}
  BY Constants DEF Mine

-----------------------------------------------------------------------------
(* Every action preserves IInv. *)

\* What IInv says, with SocketIsMine in terms of single descriptors.
LEMMA Known ==
    ASSUME IInv
    PROVE  /\ Mine /\ ~strayed /\ Depth \in Nat /\ calls \in Seq(Call)
           /\ Depth > 0 => Top \in Call /\ holder \in Thread
           /\ Depth > 0 /\ Top.at \in {"write", "read", "body"} => Top.fd = sock
           /\ sock \in Fd => ~Foreign(sock)
  <1>1. Mine
    BY MineIs DEF IInv, TypeOK, SocketIsMine
  <1>2. Depth \in Nat /\ calls \in Seq(Call)
    BY DEF IInv, TypeOK, Depth
  <1>3. Depth > 0 => Top \in Call /\ holder \in Thread
    BY <1>2, TopType DEF IInv, TypeOK, Held
  <1>4. Depth > 0 /\ Top.at \in {"write", "read", "body"} => Top.fd = sock
    BY DEF IInv, SocketIsMine, Running
  <1>5. sock \in Fd => ~Foreign(sock)
    BY <1>1 DEF Mine, Foreign
  <1> QED BY <1>1, <1>2, <1>3, <1>4, <1>5 DEF IInv, SocketIsMine

\* The converse, for the next state.
LEMMA MineThen ==
    ASSUME TypeOK', Mine', ~strayed',
           Depth' > 0 /\ Top'.at \in {"write", "read", "body"} => Top'.fd = sock'
    PROVE  SocketIsMine'
  <1>1. sock' \in Fd \cup {NoFd}
    BY DEF TypeOK
  <1>2. {f \in Fd : table'[f] \in {"open", "shut"}} = {sock'} \ {NoFd}
    BY <1>1, MineNext
  <1> QED BY <1>2 DEF SocketIsMine, Running

LEMMA InitInv == ASSUME Init PROVE IInv
  <1>1. TypeOK
    <2>1. calls \in Seq(Call) /\ Len(calls) <= Redirects + 1
      BY Constants DEF Init
    <2>2. answers \in [Fd -> Seq(Nat \ {0})] /\ table \in [Fd -> {"free", "other", "open", "shut"}]
      BY DEF Init
    <2>3. {misused, strayed, mixed, asked} \subseteq BOOLEAN
      BY DEF Init
    <2>4. sends \in 0 .. MaxSends /\ stops \in 0 .. MaxStops
      BY Constants DEF Init
    <2> QED BY <2>1, <2>2, <2>3, <2>4 DEF Init, TypeOK
  <1>2. Depth = 0 BY DEF Init, Depth
  <1>3. Chain BY DEF Init, Chain
  <1>4. SocketIsMine BY <1>2, Constants DEF Init, SocketIsMine, Running
  <1> QED BY <1>1, <1>2, <1>3, <1>4 DEF Init, IInv, Held, Count, Clean

\* A send() that has found or made a connection, on top of the calls that wait for it.
\* What shutdown_socket() and close_socket() do to the socket and the table.
LEMMA Closes ==
    ASSUME IInv, NEW STATE n, NEW STATE t, CloseSocket(n, t)
    PROVE  /\ sock' = NoFd /\ Mine' /\ strayed' = FALSE
           /\ table' \in [Fd -> {"free", "other", "open", "shut"}]
           /\ misused' = (misused \/ ~MayClose(n, t)) /\ misused' \in BOOLEAN
  <1>1. sock' = NoFd /\ table' = Closed(table, sock)
    BY DEF CloseSocket
  <1>2. table' \in [Fd -> {"free", "other", "open", "shut"}] /\ Mine'
    BY <1>1, Known, Constants DEF Closed, Mine, IInv, TypeOK
  <1>3. strayed' = FALSE
    BY Known DEF CloseSocket, Foreign, IInv, TypeOK
  <1> QED BY <1>1, <1>2, <1>3 DEF CloseSocket

LEMMA EntersInv ==
    ASSUME IInv, NEW STATE t, t \in Thread, NEW STATE stack, stack \in Seq(Call),
           Len(stack) <= Redirects,
           \A i \in 1 .. Len(stack) :
               stack[i].left = Redirects + 1 - i /\ stack[i].at = "ends",
           NEW STATE left, left = Redirects - Len(stack),
           Enters(t, stack, left),
           flight = Len(stack) + unwound, Len(stack) > 0 => from = t,
           unwound = 0 /\ sock # NoFd => answers[sock] = <<>>,
           holder' = t, sends' \in 0 .. MaxSends, asked' = FALSE,
           UNCHANGED <<stops, unwound, mixed>>
    PROVE  IInv'
  <1> DEFINE call(f) == [fd |-> f, id |-> made + 1, left |-> left, ret |-> FALSE,
                         at |-> "write", to |-> "none"]
  <1>1. PICK f \in Fd :
            /\ sock' = f /\ calls' = Append(stack, call(f))
            /\ table' \in [Fd -> {"free", "other", "open", "shut"}] /\ Mine'
            /\ answers' \in [Fd -> Seq(Nat \ {0})]
            /\ unwound = 0 => answers'[f] = <<>>
            /\ strayed' = FALSE /\ misused' \in BOOLEAN /\ (misused' => unwound > 0)
    <2> USE DEF IInv, TypeOK
    <2>1. misused => unwound > 0
      BY DEF Count
    <2>2. Len(stack) \in Nat
      OBVIOUS
    <2>3. CASE Keeps(t, stack, left)
      <3>1. sock \in Fd /\ sock' = sock /\ table' = table /\ answers' = answers
        BY <2>3 DEF Keeps
      <3>2. Mine' /\ strayed' = FALSE
        BY <2>3, <3>1, Known DEF Keeps, Mine
      <3>3. misused' \in BOOLEAN /\ (misused' => unwound > 0)
        BY <2>1, <2>2, <2>3 DEF Keeps
      <3> QED BY <2>3, <3>1, <3>2, <3>3 DEF Keeps
    <2>4. CASE Connects(t, stack, left)
      <3>1. PICK f \in Fd :
              /\ Closed(table, sock)[f] = "free" /\ sock' = f
              /\ table' = [Closed(table, sock) EXCEPT ![f] = "open"]
              /\ answers' = [answers EXCEPT ![f] = <<>>]
              /\ calls' = Append(stack, call(f))
        BY <2>4 DEF Connects
      <3>2. /\ Closed(table, sock) \in [Fd -> {"free", "other", "open", "shut"}]
            /\ \A g \in Fd : Closed(table, sock)[g] \notin {"open", "shut"}
        BY Known, Constants DEF Closed, Mine
      <3>3. table' \in [Fd -> {"free", "other", "open", "shut"}] /\ Mine'
        BY <3>1, <3>2 DEF Mine
      <3>4. strayed' = FALSE
        BY <2>4, Known DEF Connects, Foreign
      <3>5. misused' \in BOOLEAN /\ (misused' => unwound > 0)
        BY <2>1, <2>2, <2>4 DEF Connects, MayClose
      <3>6. answers' \in [Fd -> Seq(Nat \ {0})] /\ answers'[f] = <<>>
        BY <3>1
      <3> QED BY <3>1, <3>3, <3>4, <3>5, <3>6
    <2> QED BY <2>3, <2>4 DEF Enters
  <1>2. call(f) \in Call
    <2>1. made + 1 \in Nat \ {0}
      BY DEF IInv, TypeOK
    <2>2. left \in 0 .. Redirects
      BY Constants
    <2> QED BY <1>1, <2>1, <2>2 DEF Call, Target
  <1>3. /\ calls' \in Seq(Call) /\ Depth' = Len(stack) + 1 /\ Top' = call(f) /\ Chain'
        /\ Len(calls') <= Redirects + 1
    <2> HIDE DEF call
    <2>1. Redirects \in Nat BY Constants
    <2>2. call(f).left = Redirects - Len(stack) BY DEF call
    <2> QED BY <1>1, <1>2, <2>1, <2>2, Nests
  <1>4. Len(stack) \in Nat /\ Depth' \in Nat /\ Depth' > 0
    BY <1>3
  <1>5. flight' = flight + 1 /\ from' = t /\ flag' = FALSE /\ made' = made + 1
    BY DEF Enters
  <1>6. TypeOK'
    <2>1. {misused', strayed', mixed', asked'} \subseteq BOOLEAN
      BY <1>1 DEF IInv, TypeOK
    <2>2. flight' \in Nat /\ made' \in Nat /\ unwound' \in Nat /\ stops' \in 0 .. MaxStops
      BY <1>5 DEF IInv, TypeOK
    <2> QED BY <1>1, <1>3, <1>5, <2>1, <2>2 DEF TypeOK
  <1>7. Held' /\ Count'
    <2>1. unwound \in Nat /\ flight \in Nat
      BY DEF IInv, TypeOK
    <2> QED BY <1>1, <1>3, <1>4, <1>5, <2>1, Constants DEF Held, Count
  <1>8. SocketIsMine'
    BY <1>1, <1>3, <1>6, MineThen
  <1>9. Clean'
    BY <1>1, <1>3, <1>4, <1>5, Known DEF IInv, Clean
  <1> QED BY <1>3, <1>6, <1>7, <1>8, <1>9 DEF IInv

\* A send() that has no connection.
LEMMA NotConnectedInv ==
    ASSUME IInv, NEW STATE t, t \in Thread, NEW STATE stack, stack \in Seq(Call),
           Len(stack) <= Redirects,
           \A i \in 1 .. Len(stack) :
               stack[i].left = Redirects + 1 - i /\ stack[i].at = "ends",
           NotConnected(t, stack),
           flight = Len(stack) + unwound, Len(stack) > 0 => from = t,
           holder' = IF Len(stack) = 0 THEN NoThread ELSE t,
           sends' \in 0 .. MaxSends, asked' = FALSE, UNCHANGED <<stops, unwound, mixed>>
    PROVE  IInv'
  <1>1. /\ sock' = NoFd /\ Mine' /\ strayed' = FALSE
        /\ table' \in [Fd -> {"free", "other", "open", "shut"}]
        /\ misused' \in BOOLEAN /\ (misused' => unwound > 0)
    <2>1. misused \in BOOLEAN /\ unwound \in Nat /\ Len(stack) \in Nat /\ (misused => unwound > 0)
      BY DEF IInv, TypeOK, Count
    <2>2. CASE sock = NoFd
      <3>1. LeaveSocket BY <2>2 DEF NotConnected
      <3> QED BY <2>1, <2>2, <3>1, Known DEF LeaveSocket, Mine, IInv, TypeOK
    <2>3. CASE sock # NoFd
      <3>1. CloseSocket(flight, t) BY <2>3 DEF NotConnected
      <3>2. MayClose(flight, t) \/ unwound > 0 BY <2>1 DEF MayClose
      <3> QED BY <2>1, <3>1, <3>2, Closes
    <2> QED BY <2>2, <2>3
  <1>2. calls' = stack /\ flag' = FALSE /\ UNCHANGED <<flight, from, answers, made>>
    BY DEF NotConnected
  <1>3. Depth' = Len(stack) /\ Len(stack) \in Nat
    BY <1>2 DEF Depth
  <1>4. Chain'
    BY <1>2 DEF Chain
  <1>5. TypeOK'
    <2>1. {misused', strayed', mixed', asked'} \subseteq BOOLEAN
      BY <1>1 DEF IInv, TypeOK
    <2>2. Len(calls') <= Redirects + 1
      BY <1>2, <1>3, Constants
    <2>3. unwound' \in Nat /\ stops' \in 0 .. MaxStops
      BY DEF IInv, TypeOK
    <2> QED BY <1>1, <1>2, <2>1, <2>2, <2>3 DEF IInv, TypeOK
  <1>6. Held' /\ Count'
    <2>1. unwound \in Nat /\ flight \in Nat
      BY DEF IInv, TypeOK
    <2> QED BY <1>1, <1>2, <1>3, <2>1, Constants DEF Held, Count
  <1>7. Depth' > 0 => Top'.at = "ends"
    BY <1>2, <1>3 DEF Top
  <1>8. SocketIsMine'
    BY <1>1, <1>5, <1>7, MineThen
  <1>9. Clean'
    BY <1>1, <1>2, Known DEF IInv, Clean
  <1> QED BY <1>4, <1>5, <1>6, <1>8, <1>9 DEF IInv

LEMMA SendInv == ASSUME IInv, NEW t \in Thread, Send(t) PROVE IInv'
  <1>1. Depth = 0 /\ holder = NoThread
    BY DEF Send, IInv, Held
  <1>2. flight = unwound /\ unwound \in Nat
    BY <1>1 DEF IInv, Count, TypeOK
  <1>3. unwound = 0 /\ sock # NoFd => answers[sock] = <<>>
    BY <1>1 DEF IInv, Clean
  <1>4. sends' \in 0 .. MaxSends /\ asked' = FALSE /\ UNCHANGED <<stops, unwound, mixed>>
    BY Constants DEF Send, IInv, TypeOK
  <1> DEFINE stack == <<>>
  <1>5. /\ stack \in Seq(Call) /\ Len(stack) = 0
        /\ \A i \in 1 .. Len(stack) : stack[i].left = Redirects + 1 - i /\ stack[i].at = "ends"
        /\ Len(stack) <= Redirects /\ Redirects = Redirects - Len(stack)
        /\ flight = Len(stack) + unwound /\ (Len(stack) > 0 => from = t)
    BY <1>2, Constants
  <1>6. Send(t) => \/ Enters(t, stack, Redirects) /\ holder' = t
                   \/ NotConnected(t, stack) /\ UNCHANGED holder
    BY DEF Send
  <1> HIDE DEF stack
  <1>7. CASE Enters(t, stack, Redirects) /\ holder' = t
    BY <1>3, <1>4, <1>5, <1>7, EntersInv
  <1>8. CASE NotConnected(t, stack) /\ UNCHANGED holder
    <2>1. holder' = IF Len(stack) = 0 THEN NoThread ELSE t
      BY <1>1, <1>5, <1>8
    <2> QED BY <1>4, <1>5, <1>8, <2>1, NotConnectedInv
  <1> QED BY <1>6, <1>7, <1>8

LEMMA RedirectInv == ASSUME IInv, Redirect PROVE IInv'
  <1> DEFINE stack == [calls EXCEPT ![Depth].at = "ends"]
             left == Top.left - 1
  <1>1. Depth > 0 /\ Top.at = "status" /\ Top.left > 0
    BY DEF Redirect, Running
  <1>2. /\ stack \in Seq(Call) /\ Len(stack) = Depth
        /\ \A i \in 1 .. Len(stack) :
              stack[i].left = Redirects + 1 - i /\ stack[i].at = "ends"
        /\ Top.left = Redirects + 1 - Depth
    BY <1>1, Waits, Constants DEF IInv, TypeOK
  <1>3. holder \in Thread /\ from = holder /\ flight = Depth + unwound
    BY <1>1, Known DEF IInv, Count
  <1>4. unwound = 0 /\ sock # NoFd => answers[sock] = <<>>
    BY <1>1 DEF IInv, Clean
  <1>5. /\ Enters(holder, stack, left) \/ NotConnected(holder, stack)
        /\ asked' = FALSE /\ UNCHANGED <<holder, sends, stops, unwound, mixed>>
    BY DEF Redirect
  <1>6. sends' \in 0 .. MaxSends
    BY <1>5 DEF IInv, TypeOK
  <1>7. Depth \in Nat /\ Len(stack) <= Redirects /\ left = Redirects - Len(stack)
    BY <1>1, <1>2, Known, Constants
  <1>8. holder' = IF Len(stack) = 0 THEN NoThread ELSE holder
    BY <1>1, <1>2, <1>5
  <1> HIDE DEF stack, left
  <1>9. CASE Enters(holder, stack, left)
    BY <1>1, <1>2, <1>3, <1>4, <1>5, <1>6, <1>7, <1>9, EntersInv
  <1>10. CASE NotConnected(holder, stack)
    BY <1>1, <1>2, <1>3, <1>5, <1>6, <1>7, <1>8, <1>10, NotConnectedInv
  <1> QED BY <1>5, <1>9, <1>10

\* A step of process_request() or redirect(): the innermost call goes on as c, on what
\* the step leaves of the connection.
LEMMA GoesInv ==
    ASSUME IInv, Depth > 0, NEW STATE c, c \in Call, c.left = Top.left, Goes(c),
           sock' \in {sock, NoFd}, Mine', strayed' = FALSE,
           table' \in [Fd -> {"free", "other", "open", "shut"}],
           answers' \in [Fd -> Seq(Nat \ {0})],
           mixed' \in BOOLEAN, misused' \in BOOLEAN, misused' => unwound > 0,
           UNCHANGED <<flight, from, flag, holder, counts, unwound, asked>>,
           c.at \in {"write", "read", "body"} => c.fd = sock',
           unwound = 0 =>
               /\ ~mixed'
               /\ sock' # NoFd =>
                   /\ table'[sock'] = "shut" =>
                         flag \/ c.at = "write" \/ (c.at = "ends" /\ ~c.ret)
                   /\ \/ c.at \in {"write", "answered", "status"}
                      \/ c.at = "ends" /\ c.ret
                      => answers'[sock'] = <<>>
                   /\ c.at \in {"read", "body"} => answers'[sock'] = <<c.id>>
    PROVE  IInv'
  <1>1. calls' \in Seq(Call) /\ Depth' = Depth /\ Top' = c /\ Chain'
    BY GoesOn DEF IInv, TypeOK
  <1>2. TypeOK'
    <2>1. Len(calls') <= Redirects + 1
      BY <1>1 DEF IInv, TypeOK, Depth
    <2>2. {misused', strayed', mixed', asked'} \subseteq BOOLEAN
      BY DEF IInv, TypeOK
    <2> QED BY <1>1, <2>1, <2>2 DEF IInv, TypeOK, counts
  <1>3. Held' /\ Count'
    BY <1>1 DEF IInv, Held, Count
  <1>4. SocketIsMine'
    BY <1>1, <1>2, MineThen
  <1>5. Clean'
    BY <1>1 DEF IInv, Clean
  <1> QED BY <1>1, <1>2, <1>3, <1>4, <1>5 DEF IInv

\* What a call that fails looks like.
LEMMA FailsTo ==
    ASSUME Top \in Call, Fails
    PROVE  LET c == [Top EXCEPT !.at = "ends", !.ret = FALSE]
           IN  c \in Call /\ c.left = Top.left /\ Goes(c) /\ c.at = "ends" /\ c.ret = FALSE
  BY DEF Call, Fails

LEMMA WriteInv == ASSUME IInv, WriteRequest PROVE IInv'
  <1>1. Depth > 0 /\ Top.at = "write" /\ Top \in Call /\ Top.fd = sock /\ sock \in Fd
    BY Known DEF WriteRequest, Running, Call
  <1>2. Mine' /\ strayed' = FALSE
    BY <1>1, Known DEF WriteRequest, Uses, socketVars, Mine, IInv, TypeOK
  <1>3. UNCHANGED <<sock, flight, from, flag, holder, table, counts, unwound, misused, mixed, asked>>
    BY DEF WriteRequest, socketVars
  <1>4. misused => unwound > 0
    BY DEF IInv, Count
  <1>5. CASE /\ table[Top.fd] = "open"
             /\ answers' = [answers EXCEPT ![Top.fd] = Append(@, Top.id)]
             /\ Goes([Top EXCEPT !.at = "read"])
    <2> DEFINE c == [Top EXCEPT !.at = "read"]
    <2>1. c \in Call /\ c.left = Top.left /\ c.fd = sock /\ c.id = Top.id /\ c.at = "read"
      BY <1>1 DEF Call
    <2>2. answers' \in [Fd -> Seq(Nat \ {0})]
      BY <1>1, <1>5 DEF IInv, TypeOK, Call
    <2>3. unwound = 0 => ~mixed' /\ table'[sock'] = "open" /\ answers'[sock'] = <<Top.id>>
      <3>1. unwound = 0 => ~mixed /\ answers[sock] = <<>>
        BY <1>1, Constants DEF IInv, Clean
      <3>2. answers'[sock] = Append(answers[sock], Top.id) /\ Append(<<>>, Top.id) = <<Top.id>>
        BY <1>1, <1>5 DEF IInv, TypeOK
      <3> QED BY <1>1, <1>3, <1>5, <3>1, <3>2
    <2> HIDE DEF c
    <2> QED BY <1>1, <1>2, <1>3, <1>4, <1>5, <2>1, <2>2, <2>3, GoesInv DEF c, IInv, TypeOK
  <1>6. CASE Fails /\ UNCHANGED answers
    BY <1>1, <1>2, <1>3, <1>4, <1>6, FailsTo, GoesInv DEF IInv, TypeOK, Clean
  <1> QED BY <1>5, <1>6 DEF WriteRequest

LEMMA ReadHeadInv == ASSUME IInv, ReadHead PROVE IInv'
  <1>1. Depth > 0 /\ Top.at = "read" /\ Top \in Call /\ Top.fd = sock /\ sock \in Fd
    BY Known DEF ReadHead, Running, Call
  <1>2. Mine' /\ strayed' = FALSE
    BY <1>1, Known DEF ReadHead, Uses, socketVars, Mine, IInv, TypeOK
  <1>3. UNCHANGED <<sock, flight, from, flag, holder, table, answers, counts, unwound, misused, asked>>
    BY DEF ReadHead, socketVars
  <1>4. misused => unwound > 0
    BY DEF IInv, Count
  <1>5. CASE /\ mixed' = (mixed \/ Head(answers[Top.fd]) # Top.id)
             /\ Goes([Top EXCEPT !.at = "body"])
    <2> DEFINE c == [Top EXCEPT !.at = "body"]
    <2>1. c \in Call /\ c.left = Top.left /\ c.fd = sock /\ c.id = Top.id /\ c.at = "body"
      BY <1>1 DEF Call
    <2>2. unwound = 0 => ~mixed /\ answers[sock] = <<Top.id>> /\ (table[sock] = "shut" => flag)
      BY <1>1, Constants DEF IInv, TypeOK, Clean
    <2>3. mixed' \in BOOLEAN /\ (unwound = 0 => ~mixed')
      <3>1. Head(<<Top.id>>) = Top.id
        OBVIOUS
      <3>2. mixed' \in BOOLEAN
        BY <1>5 DEF IInv, TypeOK
      <3> QED BY <1>1, <1>5, <2>2, <3>1, <3>2
    <2> HIDE DEF c
    <2> QED BY <1>1, <1>2, <1>3, <1>4, <1>5, <2>1, <2>2, <2>3, GoesInv DEF c, IInv, TypeOK
  <1>6. CASE Fails /\ UNCHANGED mixed
    BY <1>1, <1>2, <1>3, <1>4, <1>6, FailsTo, GoesInv DEF IInv, TypeOK, Clean
  <1> QED BY <1>5, <1>6 DEF ReadHead

LEMMA ReadBodyInv == ASSUME IInv, ReadBody PROVE IInv'
  <1>1. Depth > 0 /\ Top.at = "body" /\ Top \in Call /\ Top.fd = sock /\ sock \in Fd
    BY Known DEF ReadBody, Running, Call
  <1>2. Mine' /\ strayed' = FALSE
    BY <1>1, Known DEF ReadBody, Uses, socketVars, Mine, IInv, TypeOK
  <1>3. UNCHANGED <<sock, flight, from, flag, holder, table, counts, unwound, misused, mixed, asked>>
    BY DEF ReadBody, socketVars
  <1>4. misused => unwound > 0
    BY DEF IInv, Count
  <1>5. CASE /\ answers[Top.fd] # <<>>
             /\ answers' = [answers EXCEPT ![Top.fd] = Tail(@)]
             /\ Goes([Top EXCEPT !.at = "answered"])
    <2> DEFINE c == [Top EXCEPT !.at = "answered"]
    <2>1. c \in Call /\ c.left = Top.left /\ c.fd = sock /\ c.id = Top.id /\ c.at = "answered"
      BY <1>1 DEF Call
    <2>2. unwound = 0 => ~mixed /\ answers[sock] = <<Top.id>> /\ (table[sock] = "shut" => flag)
      BY <1>1, Constants DEF IInv, TypeOK, Clean
    <2>3. answers' \in [Fd -> Seq(Nat \ {0})]
      BY <1>1, <1>5 DEF IInv, TypeOK
    <2>4. unwound = 0 => answers'[sock'] = <<>>
      BY <1>1, <1>3, <1>5, <2>2 DEF IInv, TypeOK
    <2> HIDE DEF c
    <2> QED BY <1>1, <1>2, <1>3, <1>4, <1>5, <2>1, <2>2, <2>3, <2>4, GoesInv DEF c, IInv, TypeOK
  <1>6. CASE Fails /\ UNCHANGED answers
    BY <1>1, <1>2, <1>3, <1>4, <1>6, FailsTo, GoesInv DEF IInv, TypeOK, Clean
  <1> QED BY <1>5, <1>6 DEF ReadBody

LEMMA CloseByServerInv == ASSUME IInv, CloseByServer PROVE IInv'
  <1>1. Depth > 0 /\ Top.at = "answered" /\ Top \in Call
    BY Known DEF CloseByServer, Running
  <1>2. /\ sock' \in {sock, NoFd} /\ Mine' /\ strayed' = FALSE
        /\ table' \in [Fd -> {"free", "other", "open", "shut"}]
        /\ misused' \in BOOLEAN /\ (misused' => unwound > 0)
        /\ sock' # NoFd => table' = table
    <2>1. misused => unwound > 0
      BY DEF IInv, Count
    <2>2. CASE CloseSocket(flight, holder)
      <3>1. MayClose(flight, holder)
        BY <1>1 DEF MayClose, IInv, Count
      <3> QED BY <2>1, <2>2, <3>1, Closes
    <2>3. CASE LeaveSocket
      BY <2>1, <2>3, Known DEF LeaveSocket, Mine, IInv, TypeOK
    <2> QED BY <2>2, <2>3 DEF CloseByServer
  <1>3. UNCHANGED <<flight, from, flag, holder, answers, counts, unwound, mixed, asked>>
    BY DEF CloseByServer
  <1>4. PICK to \in Target : Goes([Top EXCEPT !.at = "status", !.to = to])
    BY DEF CloseByServer
  <1> DEFINE c == [Top EXCEPT !.at = "status", !.to = to]
  <1>5. c \in Call /\ c.left = Top.left /\ c.at = "status"
    BY <1>1 DEF Call
  <1>6. unwound = 0 => /\ ~mixed'
                       /\ sock' # NoFd => /\ table'[sock'] = "shut" => flag
                                          /\ answers'[sock'] = <<>>
    BY <1>1, <1>2, <1>3 DEF IInv, Clean
  <1> HIDE DEF c
  <1> QED BY <1>1, <1>2, <1>3, <1>4, <1>5, <1>6, GoesInv DEF c, IInv, TypeOK

\* handle_request() and redirect(), when they call no send() of this client.
LEMMA StatusInv ==
    ASSUME IInv, NoRedirect \/ RedirectFails \/ RedirectElsewhere
    PROVE  IInv'
  <1>1. Depth > 0 /\ Top.at = "status" /\ Top \in Call
    BY Known DEF NoRedirect, RedirectFails, RedirectElsewhere, Running
  <1>2. UNCHANGED <<socketVars, holder, table, answers, counts, history>>
    BY DEF NoRedirect, RedirectFails, RedirectElsewhere
  <1>3. \E ret \in BOOLEAN : Goes([Top EXCEPT !.at = "ends", !.ret = ret])
    BY DEF NoRedirect, RedirectFails, RedirectElsewhere, Fails
  <1>4. PICK ret \in BOOLEAN : Goes([Top EXCEPT !.at = "ends", !.ret = ret])
    BY <1>3
  <1> DEFINE c == [Top EXCEPT !.at = "ends", !.ret = ret]
  <1>5. c \in Call /\ c.left = Top.left /\ c.at = "ends"
    BY <1>1 DEF Call
  <1>6. Mine' /\ strayed' = FALSE /\ (misused' => unwound > 0)
    BY <1>2, Known DEF Mine, socketVars, history, IInv, Count, TypeOK
  <1>7. unwound = 0 => /\ ~mixed'
                       /\ sock' # NoFd => /\ table'[sock'] = "shut" => flag
                                          /\ answers'[sock'] = <<>>
    BY <1>1, <1>2 DEF IInv, Clean, socketVars, history
  <1> HIDE DEF c
  <1> QED BY <1>1, <1>2, <1>4, <1>5, <1>6, <1>7, GoesInv DEF c, IInv, TypeOK, socketVars, history

\* After an exception of a callback the count of the calls it has left stays.
LEMMA ThrowsInv == ASSUME IInv, Throws PROVE IInv'
  <1>1. /\ Depth > 0 /\ unwound' = unwound + Depth /\ calls' = <<>> /\ holder' = NoThread
        /\ UNCHANGED <<socketVars, table, answers, counts, misused, strayed, mixed, asked>>
    BY DEF Throws, Running
  <1>2. calls' \in Seq(Call) /\ Len(calls') = 0 /\ Depth' = 0 /\ Chain'
    BY <1>1 DEF Depth, Chain
  <1>3. Depth \in Nat /\ unwound \in Nat /\ unwound' \in Nat /\ unwound' > 0
    BY <1>1, Known DEF IInv, TypeOK
  <1>4. TypeOK'
    BY <1>1, <1>2, <1>3, Constants DEF IInv, TypeOK, socketVars, counts
  <1>5. Held' /\ Count'
    BY <1>1, <1>2, <1>3 DEF IInv, Held, Count, socketVars
  <1>6. Mine' /\ ~strayed'
    BY <1>1, Known DEF Mine, socketVars
  <1>7. SocketIsMine'
    BY <1>2, <1>4, <1>6, MineThen
  <1>8. Clean'
    BY <1>3 DEF Clean
  <1> QED BY <1>2, <1>4, <1>5, <1>7, <1>8 DEF IInv

LEMMA EndsInv == ASSUME IInv, Ends PROVE IInv'
  <1>1. Depth > 0 /\ Depth \in Nat /\ Top.at = "ends" /\ Top \in Call /\ holder \in Thread
    BY Known DEF Ends, Running
  <1>2. flight = Depth + unwound /\ from = holder /\ unwound \in Nat /\ (misused => unwound > 0)
    BY <1>1 DEF IInv, Count, TypeOK
  <1>3. flight' = flight - 1 /\ from' = IF flight = 1 THEN NoThread ELSE from
    BY DEF Ends, Leaves
  <1>4. UNCHANGED <<flag, answers, counts, unwound, mixed, asked>>
    BY DEF Ends
  <1>5. /\ calls' \in Seq(Call) /\ Depth' = Depth - 1 /\ Chain'
        /\ Depth > 1 => Top'.at = "ends" /\ Top'.ret = Top.ret /\ holder' = holder
        /\ Depth = 1 => holder' = NoThread
    BY <1>1, Pops DEF Ends, IInv, TypeOK
  <1>6. /\ sock' \in {sock, NoFd} /\ Mine' /\ strayed' = FALSE
        /\ table' \in [Fd -> {"free", "other", "open", "shut"}]
        /\ misused' \in BOOLEAN /\ (misused' => unwound > 0)
        /\ sock' # NoFd => table' = table /\ ~flag /\ Top.ret
    <2>1. CASE CloseSocket(flight - 1, holder)
      <3>1. MayClose(flight - 1, holder)
        BY <1>2 DEF MayClose
      <3> QED BY <1>2, <2>1, <3>1, Closes
    <2>2. CASE LeaveSocket /\ ~(flag \/ ~KeepAlive \/ ~Top.ret)
      BY <1>2, <2>2, Known DEF LeaveSocket, Mine, IInv, TypeOK
    <2> QED BY <2>1, <2>2 DEF Ends
  <1>7. TypeOK'
    <2>1. Len(calls') <= Redirects + 1
      BY <1>1, <1>5, Constants DEF IInv, TypeOK, Depth
    <2>2. {misused', strayed', mixed', asked'} \subseteq BOOLEAN
      BY <1>4, <1>6 DEF IInv, TypeOK
    <2>3. flight' \in Nat /\ from' \in Thread \cup {NoThread} /\ holder' \in Thread \cup {NoThread}
      BY <1>1, <1>2, <1>3, <1>5
    <2> QED BY <1>4, <1>5, <1>6, <2>1, <2>2, <2>3 DEF IInv, TypeOK, counts
  <1>8. Held' /\ Count'
    BY <1>1, <1>2, <1>3, <1>4, <1>5, <1>6, Constants DEF Held, Count
  <1>9. SocketIsMine'
    BY <1>1, <1>5, <1>6, <1>7, MineThen
  <1>10. Clean'
    BY <1>1, <1>4, <1>5, <1>6 DEF IInv, Clean
  <1> QED BY <1>5, <1>7, <1>8, <1>9, <1>10 DEF IInv

\* What stop() and the rest of the program leave alone.
LEMMA StaysInv ==
    ASSUME IInv, UNCHANGED <<flight, from, holder, calls, unwound, mixed, answers>>,
           sock' \in {sock, NoFd}, Mine', strayed' = FALSE,
           table' \in [Fd -> {"free", "other", "open", "shut"}],
           misused' \in BOOLEAN, misused' => unwound > 0,
           made' = made, sends' = sends, stops' \in 0 .. MaxStops,
           flag' \in BOOLEAN, asked' \in BOOLEAN, flag => flag',
           unwound = 0 => (asked' => flag') /\ (Depth = 0 /\ sock' # NoFd => ~asked'),
           Depth > 0 => sock' = sock,
           unwound = 0 /\ sock' # NoFd /\ table'[sock'] = "shut" =>
               table[sock] = "shut" \/ (flag' /\ Depth > 0)
    PROVE  IInv'
  <1>1. Depth' = Depth /\ Top' = Top /\ Chain'
    BY DEF Depth, Top, IInv, Chain
  <1>2. TypeOK'
    <2>1. {misused', strayed', mixed', asked'} \subseteq BOOLEAN
      BY DEF IInv, TypeOK
    <2> QED BY <2>1 DEF IInv, TypeOK
  <1>3. Held' /\ Count'
    BY <1>1 DEF IInv, Held, Count
  <1>4. SocketIsMine'
    BY <1>1, <1>2, Known, MineThen
  <1>5. Clean'
    BY <1>1 DEF IInv, Clean
  <1> QED BY <1>1, <1>2, <1>3, <1>4, <1>5 DEF IInv

LEMMA StopInv == ASSUME IInv, NEW t \in Thread, Stop(t) PROVE IInv'
  <1>1. /\ UNCHANGED <<flight, from, holder, calls, answers, made, sends, unwound, mixed>>
        /\ asked' = (asked \/ Depth > 0) /\ stops' \in 0 .. MaxStops
    BY Constants DEF Stop, IInv, TypeOK
  <1>2. /\ Depth \in Nat /\ flight = Depth + unwound /\ unwound \in Nat
        /\ misused => unwound > 0
    BY Known DEF IInv, Count, TypeOK
  <1>3. asked' \in BOOLEAN
    BY <1>1 DEF IInv, TypeOK
  <1>4. CASE flight > 0
    <2>1. /\ flag' = TRUE /\ table' = Shut(table, sock) /\ UNCHANGED <<sock, misused>>
          /\ strayed' = (strayed \/ Foreign(sock))
      BY <1>4 DEF Stop
    <2>2. table' \in [Fd -> {"free", "other", "open", "shut"}] /\ Mine'
      BY <2>1, Known DEF Shut, Mine, IInv, TypeOK
    <2>3. strayed' = FALSE
      BY <2>1, Known DEF Foreign, IInv, TypeOK
    <2>4. unwound = 0 => Depth > 0
      BY <1>2, <1>4
    <2>5. /\ misused' \in BOOLEAN /\ (misused' => unwound > 0)
          /\ flag' \in BOOLEAN /\ (flag => flag') /\ (Depth > 0 => sock' = sock)
          /\ unwound = 0 => (asked' => flag') /\ (Depth = 0 /\ sock' # NoFd => ~asked')
          /\ unwound = 0 => flag' /\ Depth > 0
      BY <1>2, <2>1, <2>4 DEF IInv, TypeOK
    <2> QED BY <1>1, <1>3, <2>1, <2>2, <2>3, <2>5, StaysInv
  <1>5. CASE ~(flight > 0)
    <2>1. CloseSocket(0, t) /\ UNCHANGED flag /\ Depth = 0
      BY <1>2, <1>5 DEF Stop
    <2>2. /\ sock' = NoFd /\ Mine' /\ strayed' = FALSE
          /\ table' \in [Fd -> {"free", "other", "open", "shut"}]
          /\ misused' \in BOOLEAN /\ (misused' => unwound > 0)
      BY <1>2, <2>1, Closes DEF MayClose
    <2>3. asked' = asked
      BY <1>1, <2>1 DEF IInv, TypeOK
    <2>4. unwound = 0 => (asked' => flag')
      BY <2>1, <2>3 DEF IInv, Clean
    <2>5. /\ flag' \in BOOLEAN /\ (flag => flag') /\ (Depth > 0 => sock' = sock)
          /\ unwound = 0 => (asked' => flag') /\ (Depth = 0 /\ sock' # NoFd => ~asked')
      BY <2>1, <2>2, <2>4 DEF IInv, TypeOK
    <2> QED BY <1>1, <1>3, <2>2, <2>5, StaysInv
  <1> QED BY <1>4, <1>5

LEMMA OtherInv ==
    ASSUME IInv, NEW f \in Fd, OtherOpens(f) \/ OtherCloses(f)
    PROVE  IInv'
  <1>1. /\ UNCHANGED <<socketVars, holder, calls, answers, counts, history>>
        /\ table[f] \in {"free", "other"}
        /\ \E x \in {"free", "other"} : table' = [table EXCEPT ![f] = x]
    BY DEF OtherOpens, OtherCloses
  <1>2. table' \in [Fd -> {"free", "other", "open", "shut"}]
    BY <1>1 DEF IInv, TypeOK
  <1>3. Mine' /\ (sock \in Fd => table'[sock] = table[sock])
    BY <1>1, Known DEF Mine, socketVars, IInv, TypeOK
  <1>4. strayed' = FALSE
    BY <1>1, Known DEF history, IInv, TypeOK
  <1> QED BY <1>1, <1>2, <1>3, <1>4, StaysInv
          DEF socketVars, counts, history, IInv, TypeOK, Count, Clean

LEMMA NextInv == ASSUME IInv, [Next]_vars PROVE IInv'
  <1>1. ASSUME NEW t \in Thread, Send(t) \/ Stop(t) PROVE IInv'
    BY <1>1, SendInv, StopInv
  <1>2. ASSUME NEW f \in Fd, OtherOpens(f) \/ OtherCloses(f) PROVE IInv'
    BY <1>2, OtherInv
  <1>3. CASE Request
    BY <1>3, WriteInv, ReadHeadInv, ReadBodyInv, CloseByServerInv, ThrowsInv, StatusInv,
       RedirectInv, EndsInv DEF Request
  <1>4. CASE UNCHANGED vars
    BY <1>4 DEF vars, socketVars, counts, history, IInv, TypeOK, Chain, Held, Count, Clean,
       SocketIsMine, Running, Foreign, Depth, Top
  <1> QED BY <1>1, <1>2, <1>3, <1>4 DEF Next

-----------------------------------------------------------------------------
(* Results. *)

LEMMA Invariant == Spec => []IInv
  <1>1. Init => IInv BY InitInv
  <1>2. IInv /\ [Next]_vars => IInv' BY NextInv
  <1> QED BY <1>1, <1>2, PTL DEF Spec

\* For any number of threads and redirects: the number of requests in flight is the
\* number of calls, so stop() and the last block of send() agree on who closes the socket.
THEOREM ClientFlightExact == Spec => []FlightExact
  <1>1. IInv => FlightExact BY DEF IInv, Count, FlightExact
  <1> QED BY <1>1, Invariant, PTL

\* The client never uses a descriptor that somebody else has been given.
THEOREM ClientSocketIsMine == Spec => []SocketIsMine
  <1>1. IInv => SocketIsMine BY DEF IInv
  <1> QED BY <1>1, Invariant, PTL

\* A call reads the answer to its own request, and leaves the connection clean or closed.
THEOREM ClientAnswerIsMine == Spec => []AnswerIsMine
  <1>1. ASSUME IInv, unwound = 0, Depth = 0, sock # NoFd
        PROVE  table[sock] = "open" /\ answers[sock] = <<>> /\ ~asked
    BY <1>1, Known DEF IInv, TypeOK, Clean, Mine
  <1>2. IInv => AnswerIsMine BY <1>1 DEF IInv, Clean, AnswerIsMine
  <1> QED BY <1>2, Invariant, PTL
-----------------------------------------------------------------------------
(* The body of a message, for any length, any chunks and any reads.            *)

CONSTANTS MaxBody, MaxPiece, Limit
VARIABLES form, size, encoded, offset, available, wr, stopping, net, wire, rd, left, got,
          disturbed

Body == INSTANCE HttpBody

\* A place in a chunked body: the length of a chunk, where in the frame of the chunk, and
\* how many bytes of data come before it.  The last frame has five bytes and no data.
Label == Nat \X Nat \X Nat

\* The byte at a place.
FrameByte(n, k, d) ==
    IF k = 0 THEN Body!Hex(n)
    ELSE IF k = 1 \/ k = n + 3 THEN Body!CR
    ELSE IF k = 2 \/ k = n + 4 THEN Body!LF
    ELSE Body!Data(d + (k - 2))

\* A place j behind (n, k) is in the same frame, or the end of the last one.
SameFrame(n, k, j) == k + j <= n + 4 \/ (n = 0 /\ k + j = 5)

\* The bytes w stand at consecutive places of a chunked body.
Frames(w, of, at, after) ==
    /\ \A i \in 1 .. Len(w) :
        /\ w[i] = FrameByte(of[i], at[i], after[i])
        /\ at[i] <= of[i] + 4 /\ of[i] <= MaxPiece /\ after[i] + of[i] <= MaxBody
        /\ of[i] > 0 /\ at[i] = of[i] + 4 =>
              at[i + 1] = 0 /\ after[i + 1] = after[i] + of[i]
    /\ \A i \in 1 .. Len(w) + 1 : \A j \in 1 .. Len(w) + 1 :
        i <= j /\ SameFrame(of[i], at[i], j - i) =>
            of[j] = of[i] /\ at[j] = at[i] + (j - i) /\ after[j] = after[i]

\* They begin at the place a and end in front of the place z.
Labels(w, a, z) ==
    \E of, at, after \in [1 .. Len(w) + 1 -> Nat] :
        /\ Frames(w, of, at, after)
        /\ a = <<of[1], at[1], after[1]>>
        /\ z = <<of[Len(w) + 1], at[Len(w) + 1], after[Len(w) + 1]>>

\* What is at the end of the bytes.
LEMMA Nothing ==
    ASSUME NEW a, NEW z, NEW w, Len(w) = 0, Labels(w, a, z)
    PROVE  a = z
  BY DEF Labels

LEMMA NothingYet ==
    ASSUME NEW a \in Label, NEW w, Len(w) = 0
    PROVE  Labels(w, a, a)
<1>1. PICK of \in [1 .. 1 -> Nat] : of[1] = a[1]
  <2> DEFINE f == [i \in 1 .. 1 |-> a[1]]
  <2>1. f \in [1 .. 1 -> Nat] BY DEF Label
  <2>2. f[1] = a[1] OBVIOUS
  <2> QED BY <2>1, <2>2
<1>2. PICK at \in [1 .. 1 -> Nat] : at[1] = a[2]
  <2> DEFINE f == [i \in 1 .. 1 |-> a[2]]
  <2>1. f \in [1 .. 1 -> Nat] BY DEF Label
  <2>2. f[1] = a[2] OBVIOUS
  <2> QED BY <2>1, <2>2
<1>3. PICK after \in [1 .. 1 -> Nat] : after[1] = a[3]
  <2> DEFINE f == [i \in 1 .. 1 |-> a[3]]
  <2>1. f \in [1 .. 1 -> Nat] BY DEF Label
  <2>2. f[1] = a[3] OBVIOUS
  <2> QED BY <2>1, <2>2
<1>4. a = <<of[1], at[1], after[1]>>
  BY <1>1, <1>2, <1>3 DEF Label
<1>5. Frames(w, of, at, after)
  <2>1. \A i \in 1 .. Len(w) : FALSE OBVIOUS
  <2>2. \A i \in 1 .. Len(w) + 1 : i = 1 OBVIOUS
  <2>3. at[1] + (1 - 1) = at[1] OBVIOUS
  <2> QED BY <2>1, <2>2, <2>3 DEF Frames
<1> QED BY <1>4, <1>5 DEF Labels

LEMMA Taken ==
    ASSUME NEW a, NEW z, NEW w, Len(w) \in Nat, Labels(w, a, z),
           NEW m \in 0 .. Len(w), NEW v, Len(v) = m, \A i \in 1 .. m : v[i] = w[i]
    PROVE  \E y \in Label :
              /\ Labels(v, a, y)
              /\ m = Len(w) => y = z
              /\ m < Len(w) => y[2] <= y[1] + 4
<1>1. PICK of \in [1 .. Len(w) + 1 -> Nat], at \in [1 .. Len(w) + 1 -> Nat],
           after \in [1 .. Len(w) + 1 -> Nat] :
        /\ Frames(w, of, at, after)
        /\ a = <<of[1], at[1], after[1]>>
        /\ z = <<of[Len(w) + 1], at[Len(w) + 1], after[Len(w) + 1]>>
  BY DEF Labels
<1>2. \A f \in [1 .. Len(w) + 1 -> Nat] :
        \E g \in [1 .. m + 1 -> Nat] : \A i \in 1 .. m + 1 : g[i] = f[i]
  <2> TAKE f \in [1 .. Len(w) + 1 -> Nat]
  <2>1. [i \in 1 .. m + 1 |-> f[i]] \in [1 .. m + 1 -> Nat] OBVIOUS
  <2> QED BY <2>1
<1>3. PICK of1 \in [1 .. m + 1 -> Nat] : \A i \in 1 .. m + 1 : of1[i] = of[i] BY <1>2
<1>4. PICK at1 \in [1 .. m + 1 -> Nat] : \A i \in 1 .. m + 1 : at1[i] = at[i] BY <1>2
<1>5. PICK after1 \in [1 .. m + 1 -> Nat] : \A i \in 1 .. m + 1 : after1[i] = after[i] BY <1>2
<1>a. \A i \in 1 .. m + 1 : of1[i] = of[i] /\ at1[i] = at[i] /\ after1[i] = after[i]
  BY <1>3, <1>4, <1>5
<1>b. Frames(w, of, at, after)
  BY <1>1
<1>6. Frames(v, of1, at1, after1)
  <2>1. \A i \in 1 .. m : i \in 1 .. Len(w) /\ i \in 1 .. m + 1 /\ i + 1 \in 1 .. m + 1
    OBVIOUS
  <2>2. \A i \in 1 .. m + 1 : i \in 1 .. Len(w) + 1
    OBVIOUS
  <2>3. \A i \in 1 .. Len(v) :
          /\ v[i] = FrameByte(of1[i], at1[i], after1[i])
          /\ at1[i] <= of1[i] + 4 /\ of1[i] <= MaxPiece /\ after1[i] + of1[i] <= MaxBody
          /\ of1[i] > 0 /\ at1[i] = of1[i] + 4 =>
                at1[i + 1] = 0 /\ after1[i + 1] = after1[i] + of1[i]
    BY <1>a, <1>b, <2>1 DEF Frames
  <2>4. \A i \in 1 .. Len(v) + 1 : \A j \in 1 .. Len(v) + 1 :
          i <= j /\ SameFrame(of1[i], at1[i], j - i) =>
              of1[j] = of1[i] /\ at1[j] = at1[i] + (j - i) /\ after1[j] = after1[i]
    BY <1>a, <1>b, <2>2 DEF Frames
  <2> QED BY <2>3, <2>4 DEF Frames
<1>7. 1 \in 1 .. m + 1 /\ m + 1 \in 1 .. m + 1 /\ (m < Len(w) => m + 1 \in 1 .. Len(w))
  OBVIOUS
<1>8. a = <<of1[1], at1[1], after1[1]>>
  BY <1>1, <1>3, <1>4, <1>5, <1>7
<1>9. Labels(v, a, <<of1[m + 1], at1[m + 1], after1[m + 1]>>)
  BY <1>6, <1>8 DEF Labels
<1>10. <<of1[m + 1], at1[m + 1], after1[m + 1]>> \in Label
  BY <1>7 DEF Label
<1>11. m = Len(w) => <<of1[m + 1], at1[m + 1], after1[m + 1]>> = z
  BY <1>1, <1>3, <1>4, <1>5, <1>7
<1>12. m < Len(w) => at1[m + 1] <= of1[m + 1] + 4
  BY <1>1, <1>3, <1>4, <1>7 DEF Frames
<1> QED BY <1>9, <1>10, <1>11, <1>12

\* The bytes from one place on, in the frame that they begin in.
LEMMA HeadIs ==
    ASSUME NEW a, NEW z, NEW w, Len(w) \in Nat, Labels(w, a, z), NEW j \in 0 .. Len(w),
           SameFrame(a[1], a[2], j)
    PROVE  /\ a \in Label /\ z \in Label
           /\ j < Len(w) =>
              /\ w[j + 1] = FrameByte(a[1], a[2] + j, a[3])
              /\ a[2] + j <= a[1] + 4 /\ a[1] <= MaxPiece /\ a[3] + a[1] <= MaxBody
<1>1. PICK of \in [1 .. Len(w) + 1 -> Nat], at \in [1 .. Len(w) + 1 -> Nat],
           after \in [1 .. Len(w) + 1 -> Nat] :
        /\ Frames(w, of, at, after)
        /\ a = <<of[1], at[1], after[1]>>
        /\ z = <<of[Len(w) + 1], at[Len(w) + 1], after[Len(w) + 1]>>
  BY DEF Labels
<1>2. 1 \in 1 .. Len(w) + 1 /\ j + 1 \in 1 .. Len(w) + 1 /\ Len(w) + 1 \in 1 .. Len(w) + 1
  OBVIOUS
<1>3. a[1] = of[1] /\ a[2] = at[1] /\ a[3] = after[1]
  BY <1>1
<1>4. SameFrame(of[1], at[1], (j + 1) - 1) /\ 1 <= j + 1
  <2>1. (j + 1) - 1 = j OBVIOUS
  <2> QED BY <1>3, <2>1
<1>5. of[j + 1] = of[1] /\ at[j + 1] = at[1] + ((j + 1) - 1) /\ after[j + 1] = after[1]
  BY <1>1, <1>2, <1>4 DEF Frames
<1>6. at[1] + ((j + 1) - 1) = at[1] + j OBVIOUS
<1>7. ASSUME j < Len(w)
      PROVE  /\ w[j + 1] = FrameByte(of[j + 1], at[j + 1], after[j + 1])
             /\ at[j + 1] <= of[j + 1] + 4 /\ of[j + 1] <= MaxPiece
             /\ after[j + 1] + of[j + 1] <= MaxBody
  <2>1. j + 1 \in 1 .. Len(w) BY <1>7
  <2> QED BY <2>1, <1>1 DEF Frames
<1>8. a \in Label /\ z \in Label
  BY <1>1, <1>2 DEF Label
<1> QED BY <1>3, <1>5, <1>6, <1>7, <1>8

LEMMA Dropped ==
    ASSUME NEW a, NEW z, NEW w, Len(w) \in Nat, Labels(w, a, z), NEW m \in 0 .. Len(w),
           NEW v, Len(v) = Len(w) - m, \A i \in 1 .. Len(w) - m : v[i] = w[m + i]
    PROVE  \E y \in Label :
              /\ Labels(v, y, z)
              /\ SameFrame(a[1], a[2], m) => y = <<a[1], a[2] + m, a[3]>>
              /\ m > 0 /\ a[1] > 0 /\ a[2] + m = a[1] + 5 => y[2] = 0 /\ y[3] = a[3] + a[1]
<1>1. PICK of \in [1 .. Len(w) + 1 -> Nat], at \in [1 .. Len(w) + 1 -> Nat],
           after \in [1 .. Len(w) + 1 -> Nat] :
        /\ Frames(w, of, at, after)
        /\ a = <<of[1], at[1], after[1]>>
        /\ z = <<of[Len(w) + 1], at[Len(w) + 1], after[Len(w) + 1]>>
  BY DEF Labels
<1> DEFINE k == Len(w) - m + 1
<1>k. k \in Nat /\ k = Len(v) + 1 /\ m + k = Len(w) + 1 /\ 1 \in 1 .. k /\ k \in 1 .. k
      /\ m + 1 \in 1 .. Len(w) + 1
  OBVIOUS
<1>2. \A f \in [1 .. Len(w) + 1 -> Nat] :
        \E g \in [1 .. k -> Nat] : \A i \in 1 .. k : g[i] = f[m + i]
  <2> TAKE f \in [1 .. Len(w) + 1 -> Nat]
  <2>1. [i \in 1 .. k |-> f[m + i]] \in [1 .. k -> Nat] OBVIOUS
  <2> QED BY <2>1
<1>3. PICK of1 \in [1 .. k -> Nat] : \A i \in 1 .. k : of1[i] = of[m + i] BY <1>2
<1>4. PICK at1 \in [1 .. k -> Nat] : \A i \in 1 .. k : at1[i] = at[m + i] BY <1>2
<1>5. PICK after1 \in [1 .. k -> Nat] : \A i \in 1 .. k : after1[i] = after[m + i] BY <1>2
<1>a. \A i \in 1 .. Len(w) - m + 1 :
        of1[i] = of[m + i] /\ at1[i] = at[m + i] /\ after1[i] = after[m + i]
  BY <1>3, <1>4, <1>5
<1>b. Frames(w, of, at, after)
  BY <1>1
<1>6. Frames(v, of1, at1, after1)
  <2>1. \A i \in 1 .. Len(w) - m :
          /\ m + i \in 1 .. Len(w) /\ i \in 1 .. Len(w) - m + 1 /\ i + 1 \in 1 .. Len(w) - m + 1
          /\ m + (i + 1) = (m + i) + 1
    OBVIOUS
  <2>2. \A i \in 1 .. Len(w) - m + 1 : m + i \in 1 .. Len(w) + 1
    OBVIOUS
  <2>3. \A i \in 1 .. Len(v) :
          /\ v[i] = FrameByte(of1[i], at1[i], after1[i])
          /\ at1[i] <= of1[i] + 4 /\ of1[i] <= MaxPiece /\ after1[i] + of1[i] <= MaxBody
          /\ of1[i] > 0 /\ at1[i] = of1[i] + 4 =>
                at1[i + 1] = 0 /\ after1[i + 1] = after1[i] + of1[i]
    <3> TAKE i \in 1 .. Len(v)
    <3>0. i \in 1 .. Len(w) - m OBVIOUS
    <3>1. m + i \in 1 .. Len(w) /\ i \in 1 .. Len(w) - m + 1 /\ i + 1 \in 1 .. Len(w) - m + 1
      BY <2>1, <3>0
    <3>2. v[i] = w[m + i] BY <3>0
    <3>3. of1[i] = of[m + i] /\ at1[i] = at[m + i] /\ after1[i] = after[m + i]
      BY <3>1, <1>a
    <3>4. at1[i + 1] = at[(m + i) + 1] /\ after1[i + 1] = after[(m + i) + 1]
      BY <2>1, <3>0, <3>1, <1>a
    <3>5. /\ w[m + i] = FrameByte(of[m + i], at[m + i], after[m + i])
          /\ at[m + i] <= of[m + i] + 4 /\ of[m + i] <= MaxPiece
          /\ after[m + i] + of[m + i] <= MaxBody
          /\ of[m + i] > 0 /\ at[m + i] = of[m + i] + 4 =>
                at[(m + i) + 1] = 0 /\ after[(m + i) + 1] = after[m + i] + of[m + i]
      BY <1>b, <3>1 DEF Frames
    <3> QED BY <3>2, <3>3, <3>4, <3>5
  <2>4. ASSUME NEW i \in 1 .. Len(v) + 1, NEW j \in 1 .. Len(v) + 1, i <= j,
               SameFrame(of1[i], at1[i], j - i)
        PROVE  of1[j] = of1[i] /\ at1[j] = at1[i] + (j - i) /\ after1[j] = after1[i]
    <3>1. m + i \in 1 .. Len(w) + 1 /\ m + j \in 1 .. Len(w) + 1
      BY <2>2
    <3>2. m + i <= m + j /\ (m + j) - (m + i) = j - i
      <4>1. i \in Int /\ j \in Int /\ m \in Int OBVIOUS
      <4> QED BY <4>1, <2>4
    <3>a. i \in 1 .. Len(w) - m + 1 /\ j \in 1 .. Len(w) - m + 1 OBVIOUS
    <3>b. of1[i] = of[m + i] /\ at1[i] = at[m + i] /\ after1[i] = after[m + i] BY <3>a, <1>a
    <3>c. of1[j] = of[m + j] /\ at1[j] = at[m + j] /\ after1[j] = after[m + j] BY <3>a, <1>a
    <3>3. SameFrame(of[m + i], at[m + i], (m + j) - (m + i))
      BY <3>2, <3>b, <2>4
    <3>4. of[m + j] = of[m + i] /\ at[m + j] = at[m + i] + (j - i) /\ after[m + j] = after[m + i]
      BY <1>b, <3>1, <3>2, <3>3 DEF Frames
    <3> QED BY <3>4, <3>b, <3>c
  <2> QED BY <2>3, <2>4 DEF Frames
<1> HIDE DEF k
<1>7. z = <<of1[k], at1[k], after1[k]>>
  <2>1. of1[k] = of[m + k] /\ at1[k] = at[m + k] /\ after1[k] = after[m + k]
    BY <1>3, <1>4, <1>5, <1>k
  <2> QED BY <1>1, <1>k, <2>1
<1>8. Labels(v, <<of1[1], at1[1], after1[1]>>, z)
  <2>1. of1 \in [1 .. Len(v) + 1 -> Nat] /\ at1 \in [1 .. Len(v) + 1 -> Nat]
        /\ after1 \in [1 .. Len(v) + 1 -> Nat]
    BY <1>k
  <2>2. z = <<of1[Len(v) + 1], at1[Len(v) + 1], after1[Len(v) + 1]>>
    BY <1>7, <1>k
  <2> QED BY <2>1, <2>2, <1>6 DEF Labels
<1>9. <<of1[1], at1[1], after1[1]>> \in Label
  BY <1>k DEF Label
<1>10. of1[1] = of[m + 1] /\ at1[1] = at[m + 1] /\ after1[1] = after[m + 1]
  BY <1>3, <1>4, <1>5, <1>k
<1>11. a[1] = of[1] /\ a[2] = at[1] /\ a[3] = after[1]
  BY <1>1
<1>12. ASSUME SameFrame(a[1], a[2], m)
       PROVE  <<of1[1], at1[1], after1[1]>> = <<a[1], a[2] + m, a[3]>>
  <2>1. (m + 1) - 1 = m /\ 1 <= m + 1 /\ 1 \in 1 .. Len(w) + 1 OBVIOUS
  <2>2. SameFrame(of[1], at[1], (m + 1) - 1) BY <1>11, <1>12, <2>1
  <2>3. of[m + 1] = of[1] /\ at[m + 1] = at[1] + ((m + 1) - 1) /\ after[m + 1] = after[1]
    BY <1>1, <1>k, <2>1, <2>2 DEF Frames
  <2>4. of[m + 1] = of[1] /\ at[m + 1] = at[1] + m /\ after[m + 1] = after[1]
    BY <2>1, <2>3
  <2> QED BY <1>10, <1>11, <2>4
<1>13. ASSUME m > 0, a[1] > 0, a[2] + m = a[1] + 5
       PROVE  at1[1] = 0 /\ after1[1] = a[3] + a[1]
  <2>1. m \in 1 .. Len(w) + 1 /\ m \in 1 .. Len(w) /\ 1 \in 1 .. Len(w) + 1 /\ 1 <= m
    BY <1>13
  <2>2. of[1] \in Nat /\ at[1] \in Nat BY <2>1
  <2>3. at[1] + (m - 1) = of[1] + 4 BY <1>11, <1>13, <2>2
  <2>4. SameFrame(of[1], at[1], m - 1) BY <2>2, <2>3 DEF SameFrame
  <2>5. of[m] = of[1] /\ at[m] = at[1] + (m - 1) /\ after[m] = after[1]
    BY <1>1, <2>1, <2>4 DEF Frames
  <2>6. of[m] > 0 /\ at[m] = of[m] + 4 BY <1>11, <1>13, <2>3, <2>5
  <2>7. at[m + 1] = 0 /\ after[m + 1] = after[m] + of[m]
    BY <1>1, <2>1, <2>6 DEF Frames
  <2> QED BY <1>10, <1>11, <2>5, <2>7
<1> QED BY <1>8, <1>9, <1>12, <1>13

LEMMA Earlier ==
    ASSUME NEW n \in Nat, NEW k \in Nat, NEW j \in Int, NEW m \in Int, m <= j,
           SameFrame(n, k, j)
    PROVE  SameFrame(n, k, m)
  BY DEF SameFrame

\* The bytes v begin where a is and end n bytes of data behind z.
Continues(v, a, z, n) ==
    \E b, y \in Label :
        /\ Labels(v, b, y)
        /\ y[3] = z[3] + n
        /\ (n = 0 => y[1] = 0 /\ y[2] = 5) /\ (n > 0 => y[2] = 0)
        /\ b[2] = a[2] /\ b[3] = a[3] /\ (b # a => a[2] = 0)

\* A frame behind bytes that end between two frames.
LEMMA Joined ==
    ASSUME NEW a, NEW z, NEW w, Len(w) \in Nat, Labels(w, a, z), z[2] = 0,
           NEW n \in Nat, n <= MaxPiece, z[3] + n <= MaxBody,
           NEW v, Len(v) = Len(w) + (n + 5), \A i \in 1 .. Len(w) : v[i] = w[i],
           \A j \in 0 .. n + 4 : v[Len(w) + 1 + j] = FrameByte(n, j, z[3])
    PROVE  Continues(v, a, z, n)
<1>1. PICK of \in [1 .. Len(w) + 1 -> Nat], at \in [1 .. Len(w) + 1 -> Nat],
           after \in [1 .. Len(w) + 1 -> Nat] :
        /\ Frames(w, of, at, after)
        /\ a = <<of[1], at[1], after[1]>>
        /\ z = <<of[Len(w) + 1], at[Len(w) + 1], after[Len(w) + 1]>>
  BY DEF Labels
<1>2. PICK l \in Nat : l = Len(w)
  OBVIOUS
<1>3. of \in [1 .. l + 1 -> Nat] /\ at \in [1 .. l + 1 -> Nat] /\ after \in [1 .. l + 1 -> Nat]
  BY <1>2
<1>4. z[3] = after[l + 1] /\ z[3] \in Nat /\ at[l + 1] = 0
  <2>1. l + 1 \in 1 .. l + 1 OBVIOUS
  <2> QED BY <1>1, <1>2, <1>3, <2>1
<1>5. PICK o \in Nat : o = z[3]
  BY <1>4
<1>6. \A f \in [1 .. l + 1 -> Nat], g \in [1 .. n + 5 -> Nat], e \in Nat :
        \E h \in [1 .. l + n + 6 -> Nat] :
            /\ \A i \in 1 .. l : h[i] = f[i]
            /\ \A i \in l + 1 .. l + n + 5 : h[i] = g[i - l]
            /\ h[l + n + 6] = e
  <2> TAKE f \in [1 .. l + 1 -> Nat], g \in [1 .. n + 5 -> Nat], e \in Nat
  <2> DEFINE h == [i \in 1 .. l + n + 6 |->
                     IF i <= l THEN f[i] ELSE IF i <= l + n + 5 THEN g[i - l] ELSE e]
  <2>1. h \in [1 .. l + n + 6 -> Nat]
    <3>1. ASSUME NEW i \in 1 .. l + n + 6
          PROVE  (IF i <= l THEN f[i] ELSE IF i <= l + n + 5 THEN g[i - l] ELSE e) \in Nat
      <4>1. CASE i <= l
        <5>1. i \in 1 .. l + 1 BY <4>1
        <5> QED BY <4>1, <5>1
      <4>2. CASE i > l /\ i <= l + n + 5
        <5>1. i - l \in 1 .. n + 5 BY <4>2
        <5> QED BY <4>2, <5>1
      <4>3. CASE i > l + n + 5
        BY <4>3
      <4> QED BY <4>1, <4>2, <4>3
    <3> QED BY <3>1
  <2>2. \A i \in 1 .. l : i \in 1 .. l + n + 6 /\ i <= l OBVIOUS
  <2>3. \A i \in l + 1 .. l + n + 5 : i \in 1 .. l + n + 6 /\ ~(i <= l) /\ i <= l + n + 5 OBVIOUS
  <2>4. l + n + 6 \in 1 .. l + n + 6 /\ ~(l + n + 6 <= l) /\ ~(l + n + 6 <= l + n + 5) OBVIOUS
  <2>5. /\ \A i \in 1 .. l : h[i] = f[i]
        /\ \A i \in l + 1 .. l + n + 5 : h[i] = g[i - l]
        /\ h[l + n + 6] = e
    BY <2>2, <2>3, <2>4
  <2> QED BY <2>1, <2>5
<1>7. PICK of1 \in [1 .. l + n + 6 -> Nat] :
        /\ \A i \in 1 .. l : of1[i] = of[i]
        /\ \A i \in l + 1 .. l + n + 5 : of1[i] = n
        /\ of1[l + n + 6] = 0
  <2> DEFINE g == [i \in 1 .. n + 5 |-> n]
  <2>1. g \in [1 .. n + 5 -> Nat] OBVIOUS
  <2>2. \A i \in l + 1 .. l + n + 5 : g[i - l] = n
    <3>1. \A i \in l + 1 .. l + n + 5 : i - l \in 1 .. n + 5 OBVIOUS
    <3> QED BY <3>1
  <2> HIDE DEF g
  <2>3. 0 \in Nat OBVIOUS
  <2>4. PICK h \in [1 .. l + n + 6 -> Nat] :
            /\ \A i \in 1 .. l : h[i] = of[i]
            /\ \A i \in l + 1 .. l + n + 5 : h[i] = g[i - l]
            /\ h[l + n + 6] = 0
    BY ONLY <1>3, <1>6, <2>1, <2>3
  <2> QED BY <2>2, <2>4
<1>8. PICK at1 \in [1 .. l + n + 6 -> Nat] :
        /\ \A i \in 1 .. l : at1[i] = at[i]
        /\ \A i \in l + 1 .. l + n + 5 : at1[i] = i - (l + 1)
        /\ at1[l + n + 6] = IF n = 0 THEN 5 ELSE 0
  <2> DEFINE g == [i \in 1 .. n + 5 |-> i - 1]
  <2>1. g \in [1 .. n + 5 -> Nat] OBVIOUS
  <2>2. \A i \in l + 1 .. l + n + 5 : g[i - l] = i - (l + 1)
    <3>1. \A i \in l + 1 .. l + n + 5 : i - l \in 1 .. n + 5 /\ (i - l) - 1 = i - (l + 1) OBVIOUS
    <3> QED BY <3>1
  <2> HIDE DEF g
  <2>3. PICK e \in Nat : e = IF n = 0 THEN 5 ELSE 0 OBVIOUS
  <2>4. PICK h \in [1 .. l + n + 6 -> Nat] :
            /\ \A i \in 1 .. l : h[i] = at[i]
            /\ \A i \in l + 1 .. l + n + 5 : h[i] = g[i - l]
            /\ h[l + n + 6] = e
    BY ONLY <1>3, <1>6, <2>1, e \in Nat
  <2> QED BY <2>2, <2>3, <2>4
<1>9. PICK after1 \in [1 .. l + n + 6 -> Nat] :
        /\ \A i \in 1 .. l : after1[i] = after[i]
        /\ \A i \in l + 1 .. l + n + 5 : after1[i] = o
        /\ after1[l + n + 6] = o + n
  <2> DEFINE g == [i \in 1 .. n + 5 |-> o]
  <2>1. g \in [1 .. n + 5 -> Nat] OBVIOUS
  <2>2. \A i \in l + 1 .. l + n + 5 : g[i - l] = o
    <3>1. \A i \in l + 1 .. l + n + 5 : i - l \in 1 .. n + 5 OBVIOUS
    <3> QED BY <3>1
  <2> HIDE DEF g
  <2>3. PICK e \in Nat : e = o + n OBVIOUS
  <2>4. PICK h \in [1 .. l + n + 6 -> Nat] :
            /\ \A i \in 1 .. l : h[i] = after[i]
            /\ \A i \in l + 1 .. l + n + 5 : h[i] = g[i - l]
            /\ h[l + n + 6] = e
    BY ONLY <1>3, <1>6, <2>1, e \in Nat
  <2> QED BY <2>2, <2>3, <2>4
<1>10. \A i \in 1 .. l :
        /\ w[i] = FrameByte(of[i], at[i], after[i])
        /\ at[i] <= of[i] + 4 /\ of[i] <= MaxPiece /\ after[i] + of[i] <= MaxBody
        /\ of[i] > 0 /\ at[i] = of[i] + 4 =>
              at[i + 1] = 0 /\ after[i + 1] = after[i] + of[i]
  BY <1>1, <1>2 DEF Frames
<1>11. \A i \in 1 .. l + 1 : \A j \in 1 .. l + 1 :
        i <= j /\ SameFrame(of[i], at[i], j - i) =>
            of[j] = of[i] /\ at[j] = at[i] + (j - i) /\ after[j] = after[i]
  BY <1>1, <1>2 DEF Frames
<1>12. \A i \in 1 .. Len(v) : i \in 1 .. l \/ i \in l + 1 .. l + n + 5
  BY <1>2
<1>13. \A i \in 1 .. Len(v) + 1 : i \in 1 .. l \/ i \in l + 1 .. l + n + 5 \/ i = l + n + 6
  <2>1. Len(v) + 1 = l + n + 6 BY <1>2
  <2>2. \A i \in 1 .. l + n + 6 : i \in 1 .. l \/ i \in l + 1 .. l + n + 5 \/ i = l + n + 6
    OBVIOUS
  <2> QED BY <2>1, <2>2
<1>14. ASSUME NEW i \in 1 .. l
       PROVE  /\ v[i] = FrameByte(of1[i], at1[i], after1[i])
              /\ at1[i] <= of1[i] + 4 /\ of1[i] <= MaxPiece /\ after1[i] + of1[i] <= MaxBody
              /\ of1[i] > 0 /\ at1[i] = of1[i] + 4 =>
                    at1[i + 1] = 0 /\ after1[i + 1] = after1[i] + of1[i]
  <2>1. of1[i] = of[i] /\ at1[i] = at[i] /\ after1[i] = after[i] /\ v[i] = w[i]
    BY <1>2, <1>7, <1>8, <1>9
  <2>2. at1[i + 1] = at[i + 1] /\ after1[i + 1] = after[i + 1]
    <3>1. CASE i = l
      <4>1. l + 1 \in l + 1 .. l + n + 5 OBVIOUS
      <4>2. at1[l + 1] = (l + 1) - (l + 1) BY <4>1, <1>8
      <4>3. at1[l + 1] = 0 BY <4>2
      <4>4. after1[l + 1] = o BY <4>1, <1>9
      <4> QED BY <3>1, <4>3, <4>4, <1>4, <1>5
    <3>2. CASE i < l
      <4>1. i + 1 \in 1 .. l BY <3>2
      <4> QED BY <4>1, <1>8, <1>9
    <3> QED BY <3>1, <3>2
  <2> QED BY <2>1, <2>2, <1>10
<1>15. ASSUME NEW i \in l + 1 .. l + n + 5
       PROVE  /\ v[i] = FrameByte(of1[i], at1[i], after1[i])
              /\ at1[i] <= of1[i] + 4 /\ of1[i] <= MaxPiece /\ after1[i] + of1[i] <= MaxBody
              /\ of1[i] > 0 /\ at1[i] = of1[i] + 4 =>
                    at1[i + 1] = 0 /\ after1[i + 1] = after1[i] + of1[i]
  <2>1. of1[i] = n /\ at1[i] = i - (l + 1) /\ after1[i] = o
    BY <1>7, <1>8, <1>9
  <2>2. i - (l + 1) \in 0 .. n + 4 /\ (l + 1) + (i - (l + 1)) = i
    OBVIOUS
  <2>3. v[i] = FrameByte(n, i - (l + 1), o)
    <3>1. v[Len(w) + 1 + (i - (l + 1))] = FrameByte(n, i - (l + 1), z[3]) BY <2>2
    <3>2. Len(w) + 1 + (i - (l + 1)) = i BY <1>2
    <3> QED BY <3>1, <3>2, <1>5
  <2>4. n > 0 /\ i - (l + 1) = n + 4 => i + 1 = l + n + 6
    OBVIOUS
  <2>5. n > 0 => at1[l + n + 6] = 0 /\ after1[l + n + 6] = o + n
    BY <1>8, <1>9
  <2>6. n > 0 /\ i - (l + 1) = n + 4 => at1[i + 1] = 0 /\ after1[i + 1] = o + n
    BY <2>4, <2>5
  <2>7. i - (l + 1) <= n + 4 /\ o + n <= MaxBody
    BY <2>2, <1>5
  <2> QED BY <2>1, <2>3, <2>6, <2>7
<1>16. ASSUME NEW i \in 1 .. Len(v) + 1, NEW j \in 1 .. Len(v) + 1, i <= j,
              SameFrame(of1[i], at1[i], j - i)
       PROVE  of1[j] = of1[i] /\ at1[j] = at1[i] + (j - i) /\ after1[j] = after1[i]
  <2>0. i \in Int /\ j \in Int /\ i <= j
    <3>1. Len(v) \in Int OBVIOUS
    <3> QED BY <3>1, <1>16
  <2>1. CASE i \in 1 .. l /\ j \in 1 .. l
    <3>1. i \in 1 .. l + 1 /\ j \in 1 .. l + 1 BY <2>1
    <3>2. of1[i] = of[i] /\ at1[i] = at[i] /\ after1[i] = after[i] BY <2>1, <1>7, <1>8, <1>9
    <3>3. of1[j] = of[j] /\ at1[j] = at[j] /\ after1[j] = after[j] BY <2>1, <1>7, <1>8, <1>9
    <3>4. SameFrame(of[i], at[i], j - i) BY <1>16, <3>2
    <3>5. of[j] = of[i] /\ at[j] = at[i] + (j - i) /\ after[j] = after[i]
      BY <3>1, <3>4, <2>0, <1>11
    <3> QED BY <3>2, <3>3, <3>5
  <2>2. CASE i \in 1 .. l /\ j > l
    <3>1. i \in 1 .. l + 1 /\ l + 1 \in 1 .. l + 1 /\ i <= l + 1 /\ (l + 1) - i <= j - i
          /\ (l + 1) - i > 0
      BY <2>0, <2>2
    <3>2. of1[i] = of[i] /\ at1[i] = at[i] BY <2>2, <1>7, <1>8
    <3>3. of[i] \in Nat /\ at[i] \in Nat BY <3>1, <1>3
    <3>4. SameFrame(of[i], at[i], j - i) BY <1>16, <3>2
    <3>5. SameFrame(of[i], at[i], (l + 1) - i) 
      <4>1. PICK k \in Int : k = j - i BY <2>0
      <4>2. PICK m \in Int : m = (l + 1) - i BY <2>0
      <4>3. m <= k /\ SameFrame(of[i], at[i], k) BY <4>1, <4>2, <3>1, <3>4
      <4>4. SameFrame(of[i], at[i], m) BY ONLY <4>3, <3>3, k \in Int, m \in Int, Earlier
      <4> QED BY <4>2, <4>4
    <3>6. at[l + 1] = at[i] + ((l + 1) - i) BY <3>1, <3>5, <1>11
    <3>7. PICK m \in Int : m = (l + 1) - i BY <2>0
    <3>8. at[i] + m = 0 /\ m > 0 BY <3>1, <3>6, <3>7, <1>4
    <3> QED BY ONLY <3>3, <3>8, m \in Int
  <2>3. CASE i \in l + 1 .. l + n + 5 /\ j \in l + 1 .. l + n + 5
    <3>1. of1[i] = n /\ at1[i] = i - (l + 1) /\ after1[i] = o BY <2>3, <1>7, <1>8, <1>9
    <3>2. of1[j] = n /\ at1[j] = j - (l + 1) /\ after1[j] = o BY <2>3, <1>7, <1>8, <1>9
    <3>3. j - (l + 1) = (i - (l + 1)) + (j - i) BY <2>0
    <3> QED BY <3>1, <3>2, <3>3
  <2>4. CASE i \in l + 1 .. l + n + 5 /\ j = l + n + 6
    <3>1. of1[i] = n /\ at1[i] = i - (l + 1) /\ after1[i] = o BY <2>4, <1>7, <1>8, <1>9
    <3>2. (i - (l + 1)) + (j - i) = n + 5 BY <2>0, <2>4
    <3>3. SameFrame(n, i - (l + 1), j - i) BY <3>1, <1>16
    <3>4. n = 0 BY <3>2, <3>3 DEF SameFrame
    <3>5. of1[j] = 0 /\ at1[j] = 5 /\ after1[j] = o BY <2>4, <3>4, <1>7, <1>8, <1>9
    <3> QED BY <3>1, <3>2, <3>4, <3>5
  <2>5. CASE i = l + n + 6 /\ j = l + n + 6
    <3>1. at1[i] \in Nat BY <2>5
    <3> QED BY <2>5, <3>1
  <2>6. ~(i = l + n + 6 /\ j # l + n + 6)
    BY <2>0, <1>13
  <2>7. ~(i \in l + 1 .. l + n + 5 /\ j \in 1 .. l)
    BY <2>0
  <2>8. j \in 1 .. l \/ j > l
    BY <2>0, <1>13
  <2>9. i \in 1 .. l \/ i \in l + 1 .. l + n + 5 \/ i = l + n + 6
    BY <1>13
  <2>10. j \in 1 .. l \/ j \in l + 1 .. l + n + 5 \/ j = l + n + 6
    BY <1>13
  <2> QED BY ONLY <2>1, <2>2, <2>3, <2>4, <2>5, <2>6, <2>7, <2>8, <2>9, <2>10, Zenon
<1>17. Frames(v, of1, at1, after1)
  <2>1. \A i \in 1 .. Len(v) :
        /\ v[i] = FrameByte(of1[i], at1[i], after1[i])
        /\ at1[i] <= of1[i] + 4 /\ of1[i] <= MaxPiece /\ after1[i] + of1[i] <= MaxBody
        /\ of1[i] > 0 /\ at1[i] = of1[i] + 4 =>
              at1[i + 1] = 0 /\ after1[i + 1] = after1[i] + of1[i]
    BY ONLY <1>12, <1>14, <1>15, Zenon
  <2> QED BY <2>1, <1>16 DEF Frames
<1> DEFINE b == <<of1[1], at1[1], after1[1]>>
           y == <<of1[l + n + 6], at1[l + n + 6], after1[l + n + 6]>>
<1>18. l + n + 6 = Len(v) + 1 /\ 1 \in 1 .. l + n + 6 /\ l + n + 6 \in 1 .. l + n + 6
  BY <1>2
<1>19. b \in Label /\ y \in Label
  BY <1>18 DEF Label
<1>20. Labels(v, b, y)
  <2>1. of1 \in [1 .. Len(v) + 1 -> Nat] /\ at1 \in [1 .. Len(v) + 1 -> Nat]
        /\ after1 \in [1 .. Len(v) + 1 -> Nat]
    BY <1>18
  <2>2. y = <<of1[Len(v) + 1], at1[Len(v) + 1], after1[Len(v) + 1]>>
    BY <1>18
  <2> QED BY <2>1, <2>2, <1>17 DEF Labels
<1>21. y[3] = z[3] + n /\ (n = 0 => y[1] = 0 /\ y[2] = 5) /\ (n > 0 => y[2] = 0)
  BY <1>5, <1>7, <1>8, <1>9
<1>22. b[2] = a[2] /\ b[3] = a[3] /\ (b # a => a[2] = 0)
  <2>1. CASE l = 0
    <3>1. 1 \in l + 1 .. l + n + 5 /\ 1 - (l + 1) = 0 /\ l + 1 = 1 BY <2>1
    <3>2. at1[1] = 0 /\ after1[1] = o BY <3>1, <1>8, <1>9
    <3>3. at[1] = 0 /\ after[1] = o BY <3>1, <1>4, <1>5
    <3> QED BY <3>2, <3>3, <1>1
  <2>2. CASE l > 0
    <3>1. 1 \in 1 .. l BY <2>2
    <3>2. of1[1] = of[1] /\ at1[1] = at[1] /\ after1[1] = after[1] BY <3>1, <1>7, <1>8, <1>9
    <3> QED BY <3>2, <1>1
  <2> QED BY <2>1, <2>2
<1> HIDE DEF b, y
<1> QED BY <1>19, <1>20, <1>21, <1>22 DEF Continues

\* The reader stands in front of the place a.
Here(a) ==
    /\ rd = "start" => a[2] = 0 /\ a[3] = 0
    /\ rd = "size" => a[2] = 0 /\ a[3] = Len(got)
    /\ rd = "data" => left <= a[1] /\ a[2] = a[1] + 3 - left /\ a[3] + a[1] = Len(got) + left
    /\ rd = "crlf" => a[1] > 0 /\ a[2] = a[1] + 3 /\ a[3] + a[1] = Len(got)
    /\ rd = "trailer" => a[1] = 0 /\ a[2] = 3 /\ a[3] = Len(got)

\* Some of what the writer sent may never arrive.
Lost == net = "cut" \/ wr = "false"

\* What was sent ends in front of the place z.
Sent(z) ==
    /\ z[1] = 0 /\ z[2] = 5 =>
          ~available /\ "empty" \notin disturbed /\ wr # "false" /\ z[3] = offset
    /\ ~Lost => z[3] = offset
    /\ ~Lost => IF available \/ "empty" \in disturbed THEN z[2] = 0 ELSE z[1] = 0 /\ z[2] = 5

Framing ==
    form = "chunked" /\ rd \in {"start", "data", "size", "crlf", "trailer"} =>
        \E a, z \in Label : Labels(wire, a, z) /\ Here(a) /\ Sent(z)

\* The bytes of a body without chunks that the reader has taken.
Unread == IF rd = "skip" THEN size - left ELSE Len(got)

Plain ==
    form # "chunked" /\ rd \in {"start", "data", "skip"} =>
        /\ \A i \in 1 .. Len(wire) : wire[i] = Body!Data(Unread + i)
        /\ wr # "false" => Unread + Len(wire) <= offset
        /\ form = "length" /\ wr = "false" => Unread + Len(wire) < size
        /\ ~Lost => Unread + Len(wire) = offset
        /\ rd = "data" /\ form = "length" => left = size - Len(got)

WriterRight ==
    /\ form = "length" => offset <= size /\ available
    /\ "empty" \in disturbed => ~available
    /\ wr = "false" => disturbed # {}
    /\ wr = "true" => stopping \/ IF form = "length" THEN offset = size ELSE ~available
    /\ net = "closed" => wr # "loop"

ReaderRight ==
    /\ \A i \in 1 .. Len(got) : got[i] = Body!Data(i)
    /\ rd = "start" => got = <<>>
    /\ rd \in {"data", "skip"} /\ form # "open" => left > 0
    /\ rd \in {"size", "crlf", "trailer"} => form = "chunked"
    /\ rd = "skip" => form = "length" /\ left <= size
    /\ rd \in {"skip", "413"} => size > Limit
    /\ rd = "true" => wire = <<>> /\ (Body!Whole \/ (form # "length" /\ net # "up"))
    /\ rd = "413" /\ net = "up" /\ "late" \notin disturbed =>
          form = "length" /\ wire = <<>> /\ offset = size
    /\ rd \in {"400", "415"} => Body!Disturbed

BodyInv == Body!TypeOK /\ Framing /\ Plain /\ WriterRight /\ ReaderRight

-----------------------------------------------------------------------------
(* Bytes, lines and frames.                                                    *)

LEMMA Limits ==
    ASSUME Body!BodyAssumption
    PROVE  MaxBody \in Nat /\ MaxPiece \in Nat /\ Limit \in Nat
  BY DEF Body!BodyAssumption

LEMMA BytesDiffer ==
    /\ Body!LF # Body!CR /\ Body!CR # Body!LF
    /\ \A i : Body!LF # Body!Data(i) /\ Body!LF # Body!Hex(i)
    /\ \A i, j : (Body!Data(i) = Body!Data(j) => i = j) /\ (Body!Hex(i) = Body!Hex(j) => i = j)
    /\ \A i : Body!Hex(i)[2] = i
<1>1. Body!LF # Body!CR /\ Body!CR # Body!LF
  BY DEF Body!LF, Body!CR
<1>2. \A i : Body!LF # Body!Data(i) /\ Body!LF # Body!Hex(i)
  BY DEF Body!LF, Body!Data, Body!Hex
<1>3. \A i, j : (Body!Data(i) = Body!Data(j) => i = j) /\ (Body!Hex(i) = Body!Hex(j) => i = j)
  BY DEF Body!Data, Body!Hex
<1>4. \A i : Body!Hex(i)[2] = i
  BY DEF Body!Hex
<1> QED BY <1>1, <1>2, <1>3, <1>4

LEMMA IsByte ==
    ASSUME Body!BodyAssumption
    PROVE  /\ Body!CR \in Body!Byte /\ Body!LF \in Body!Byte
           /\ \A i \in 1 .. MaxBody : Body!Data(i) \in Body!Byte
           /\ \A n \in 0 .. MaxPiece : Body!Hex(n) \in Body!Byte
  BY DEF Body!Byte

\* SelectInSeq() of a line.
LEMMA FirstLF ==
    ASSUME NEW w \in Seq(Body!Byte), NEW k \in 1 .. Len(w), w[k] = Body!LF,
           \A i \in 1 .. k - 1 : w[i] # Body!LF
    PROVE  Body!SelectInSeq(w, LAMBDA b : b = Body!LF) = k
<1> DEFINE I == {i \in 1 .. Len(w) : w[i] = Body!LF}
<1>1. k \in I OBVIOUS
<1>2. \A i \in I : k <= i
  <2> TAKE i \in I
  <2>1. i \in 1 .. Len(w) /\ w[i] = Body!LF OBVIOUS
  <2>2. ~(i \in 1 .. k - 1) BY <2>1
  <2> QED BY <2>1, <2>2
<1>3. \A i \in I : i \in Nat OBVIOUS
<1>4. Body!SelectInSeq(w, LAMBDA b : b = Body!LF) = IF I # {} THEN Body!Min(I) ELSE 0
  BY DEF Body!SelectInSeq
<1> HIDE DEF I
<1>5. Body!Min(I) = k
  <2>1. PICK m : m = Body!Min(I) OBVIOUS
  <2>2. m \in I /\ \A i \in I : m <= i
    <3>1. \E i \in I : \A j \in I : i <= j BY <1>1, <1>2
    <3> QED BY <2>1, <3>1 DEF Body!Min
  <2>3. m <= k /\ k <= m /\ m \in Nat /\ k \in Nat BY <1>1, <1>2, <1>3, <2>2
  <2> QED BY <2>1, <2>3
<1> QED BY <1>1, <1>4, <1>5

LEMMA NoLF ==
    ASSUME NEW w \in Seq(Body!Byte), \A i \in 1 .. Len(w) : w[i] # Body!LF
    PROVE  Body!SelectInSeq(w, LAMBDA b : b = Body!LF) = 0
<1> DEFINE I == {i \in 1 .. Len(w) : w[i] = Body!LF}
<1>1. I = {} OBVIOUS
<1>2. Body!SelectInSeq(w, LAMBDA b : b = Body!LF) = IF I # {} THEN Body!Min(I) ELSE 0
  BY DEF Body!SelectInSeq
<1> QED BY <1>1, <1>2

LEMMA LineTo ==
    ASSUME wire \in Seq(Body!Byte), NEW k \in 1 .. Len(wire), wire[k] = Body!LF,
           \A i \in 1 .. k - 1 : wire[i] # Body!LF
    PROVE  Body!Line = SubSeq(wire, 1, k)
<1>1. Body!SelectInSeq(wire, LAMBDA b : b = Body!LF) = k
  BY FirstLF
<1>2. k > 0 OBVIOUS
<1> QED BY <1>1, <1>2 DEF Body!Line

LEMMA LineOpen ==
    ASSUME wire \in Seq(Body!Byte), \A i \in 1 .. Len(wire) : wire[i] # Body!LF
    PROVE  Body!Line = IF net # "up" THEN wire ELSE <<>>
<1>1. Body!SelectInSeq(wire, LAMBDA b : b = Body!LF) = 0
  BY NoLF
<1> QED BY <1>1 DEF Body!Line

LEMMA Concat ==
    ASSUME NEW S, NEW s \in Seq(S), NEW t \in Seq(S)
    PROVE  /\ s \o t \in Seq(S) /\ Len(s \o t) = Len(s) + Len(t)
           /\ \A i \in 1 .. Len(s) : (s \o t)[i] = s[i]
           /\ \A i \in 1 .. Len(t) : (s \o t)[Len(s) + i] = t[i]
<1>1. /\ s \o t \in Seq(S) /\ Len(s \o t) = Len(s) + Len(t)
      /\ \A i \in 1 .. Len(s) + Len(t) : (s \o t)[i] = IF i <= Len(s) THEN s[i] ELSE t[i - Len(s)]
  BY ConcatProperties
<1>2. PICK m \in Nat : m = Len(s)
  OBVIOUS
<1>3. PICK n \in Nat : n = Len(t)
  OBVIOUS
<1>4. PICK f : f = s \o t
  OBVIOUS
<1>5. \A i \in 1 .. m + n : f[i] = IF i <= m THEN s[i] ELSE t[i - m]
  BY <1>1, <1>2, <1>3, <1>4
<1>6. \A i \in 1 .. m : i \in 1 .. m + n /\ i <= m
  OBVIOUS
<1>7. \A i \in 1 .. n : m + i \in 1 .. m + n /\ ~(m + i <= m) /\ (m + i) - m = i
  OBVIOUS
<1>8. \A i \in 1 .. m : f[i] = s[i]
  BY ONLY <1>5, <1>6, Zenon
<1>9. \A i \in 1 .. n : f[m + i] = t[i]
  BY ONLY <1>5, <1>7, Zenon
<1> QED BY <1>1, <1>2, <1>3, <1>4, <1>8, <1>9

LEMMA CRLFIs ==
    ASSUME Body!BodyAssumption
    PROVE  Body!CRLF \in Seq(Body!Byte) /\ Len(Body!CRLF) = 2 /\ Body!CRLF[1] = Body!CR
           /\ Body!CRLF[2] = Body!LF
<1>1. Body!CR \in Body!Byte /\ Body!LF \in Body!Byte
  BY IsByte
<1>2. Body!CRLF = <<Body!CR, Body!LF>> BY DEF Body!CRLF
<1>3. <<Body!CR, Body!LF>> \in Seq(Body!Byte) /\ Len(<<Body!CR, Body!LF>>) = 2
      /\ <<Body!CR, Body!LF>>[1] = Body!CR /\ <<Body!CR, Body!LF>>[2] = Body!LF
  BY <1>1
<1> QED BY <1>2, <1>3

LEMMA SizeLine ==
    ASSUME Body!BodyAssumption, NEW n \in 0 .. MaxPiece
    PROVE  LET h == <<Body!Hex(n)>> \o Body!CRLF
           IN  h \in Seq(Body!Byte) /\ Len(h) = 3 /\ h[1] = Body!Hex(n) /\ h[2] = Body!CR
               /\ h[3] = Body!LF
<1>1. PICK c \in Seq(Body!Byte) : c = Body!CRLF /\ Len(c) = 2 /\ c[1] = Body!CR /\ c[2] = Body!LF
  BY CRLFIs
<1>2. PICK x \in Seq(Body!Byte) : x = <<Body!Hex(n)>> /\ Len(x) = 1 /\ x[1] = Body!Hex(n)
  <2>1. <<Body!Hex(n)>> \in Seq(Body!Byte) /\ Len(<<Body!Hex(n)>>) = 1
        /\ <<Body!Hex(n)>>[1] = Body!Hex(n)
    BY IsByte
  <2> QED BY <2>1
<1>3. PICK h : h = x \o c
  OBVIOUS
<1>4. /\ h \in Seq(Body!Byte) /\ Len(h) = 1 + 2
      /\ \A i \in 1 .. 1 : h[i] = x[i]
      /\ \A i \in 1 .. 2 : h[1 + i] = c[i]
  BY <1>1, <1>2, <1>3, Concat
<1>5. 1 \in 1 .. 1 /\ 1 \in 1 .. 2 /\ 2 \in 1 .. 2 /\ 1 + 1 = 2 /\ 1 + 2 = 3
  OBVIOUS
<1>6. h[1] = Body!Hex(n) /\ h[2] = Body!CR /\ h[3] = Body!LF /\ Len(h) = 3
  BY <1>1, <1>2, <1>4, <1>5
<1> QED BY <1>1, <1>2, <1>3, <1>4, <1>6

\* What is sent for a chunk of n bytes is its frame.
LEMMA FramedIs ==
    ASSUME Body!BodyAssumption, offset \in Nat, NEW n \in 1 .. MaxPiece, offset + n <= MaxBody,
           form = "chunked"
    PROVE  /\ Body!Framed(n) \in Seq(Body!Byte) /\ Len(Body!Framed(n)) = n + 5
           /\ \A j \in 0 .. n + 4 : Body!Framed(n)[1 + j] = FrameByte(n, j, offset)
<1>1. MaxBody \in Nat /\ MaxPiece \in Nat /\ n \in Nat
  BY Limits
<1>2. Body!CR \in Body!Byte /\ Body!LF \in Body!Byte /\ Body!Hex(n) \in Body!Byte
  BY IsByte, <1>1
<1>3. \A i \in 1 .. n : Body!Data(offset + i) \in Body!Byte
  <2>1. \A i \in 1 .. n : offset + i \in 1 .. MaxBody BY <1>1
  <2> QED BY <2>1, IsByte
<1>4. PICK p \in Seq(Body!Byte) : p = Body!Pieces(n) /\ Len(p) = n
      /\ \A i \in 1 .. n : p[i] = Body!Data(offset + i)
  <2> DEFINE q == [i \in 1 .. n |-> Body!Data(offset + i)]
  <2>1. q \in [1 .. n -> Body!Byte] BY <1>3
  <2>2. q \in Seq(Body!Byte) /\ Len(q) = n BY <2>1, <1>1
  <2>3. \A i \in 1 .. n : q[i] = Body!Data(offset + i) OBVIOUS
  <2> QED BY <2>2, <2>3 DEF Body!Pieces
<1>5. PICK h \in Seq(Body!Byte) : h = <<Body!Hex(n)>> \o Body!CRLF /\ Len(h) = 3
                             /\ h[1] = Body!Hex(n) /\ h[2] = Body!CR /\ h[3] = Body!LF
  <2>1. n \in 0 .. MaxPiece BY <1>1
  <2> QED BY <2>1, SizeLine
<1>6. PICK t \in Seq(Body!Byte) : t = Body!CRLF /\ Len(t) = 2 /\ t[1] = Body!CR /\ t[2] = Body!LF
  BY CRLFIs
<1>7. Body!Framed(n) = (h \o p) \o t
  BY <1>4, <1>5, <1>6 DEF Body!Framed
<1>8. PICK hp \in Seq(Body!Byte) : hp = h \o p
  <2>1. h \o p \in Seq(Body!Byte) OBVIOUS
  <2> QED BY <2>1
<1>9. hp \in Seq(Body!Byte) /\ Len(hp) = n + 3 /\ (\A i \in 1 .. 3 : hp[i] = h[i])
      /\ \A i \in 1 .. n : hp[3 + i] = p[i]
  <2>1. /\ h \o p \in Seq(Body!Byte) /\ Len(h \o p) = Len(h) + Len(p)
        /\ \A i \in 1 .. Len(h) : (h \o p)[i] = h[i]
        /\ \A i \in 1 .. Len(p) : (h \o p)[Len(h) + i] = p[i]
    BY Concat
  <2>2. Len(h) = 3 /\ Len(p) = n /\ 3 + n = n + 3 BY <1>1, <1>4, <1>5
  <2> QED BY ONLY <2>1, <2>2, <1>8, Zenon
<1>10. PICK f : f = hp \o t
  OBVIOUS
<1>11. f \in Seq(Body!Byte) /\ Len(f) = n + 5 /\ (\A i \in 1 .. n + 3 : f[i] = hp[i])
       /\ \A i \in 1 .. 2 : f[n + 3 + i] = t[i]
  <2>1. /\ hp \o t \in Seq(Body!Byte) /\ Len(hp \o t) = Len(hp) + Len(t)
        /\ \A i \in 1 .. Len(hp) : (hp \o t)[i] = hp[i]
        /\ \A i \in 1 .. Len(t) : (hp \o t)[Len(hp) + i] = t[i]
    BY Concat
  <2>2. Len(hp) = n + 3 /\ Len(t) = 2 /\ (n + 3) + 2 = n + 5 BY <1>1, <1>6, <1>9
  <2> QED BY ONLY <2>1, <2>2, <1>10, Zenon
<1>12. ASSUME NEW j \in 0 .. n + 4
       PROVE  f[1 + j] = FrameByte(n, j, offset)
  <2>1. CASE j = 0
    <3>1. 1 \in 1 .. 3 /\ 1 \in 1 .. n + 3 /\ 1 + j = 1 BY <1>1, <2>1
    <3>2. f[1] = Body!Hex(n) BY <3>1, <1>5, <1>9, <1>11
    <3> QED BY <2>1, <3>1, <3>2 DEF FrameByte
  <2>2. CASE j = 1
    <3>1. 2 \in 1 .. 3 /\ 2 \in 1 .. n + 3 /\ 1 + j = 2 BY <1>1, <2>2
    <3>2. f[2] = Body!CR BY <3>1, <1>5, <1>9, <1>11
    <3> QED BY <2>2, <3>1, <3>2 DEF FrameByte
  <2>3. CASE j = 2
    <3>1. 3 \in 1 .. 3 /\ 3 \in 1 .. n + 3 /\ 1 + j = 3 BY <1>1, <2>3
    <3>2. f[3] = Body!LF BY <3>1, <1>5, <1>9, <1>11
    <3>3. j # 0 /\ j # 1 /\ j # n + 3 BY <1>1, <2>3
    <3> QED BY <2>3, <3>1, <3>2, <3>3 DEF FrameByte
  <2>4. CASE j \in 3 .. n + 2
    <3>1. j - 2 \in 1 .. n /\ 3 + (j - 2) = 1 + j /\ 1 + j \in 1 .. n + 3 BY <1>1, <2>4
    <3>2. f[1 + j] = p[j - 2] BY <3>1, <1>9, <1>11
    <3>3. p[j - 2] = Body!Data(offset + (j - 2)) BY <3>1, <1>4
    <3>4. j # 0 /\ j # 1 /\ j # 2 /\ j # n + 3 /\ j # n + 4 BY <1>1, <2>4
    <3> QED BY <3>2, <3>3, <3>4 DEF FrameByte
  <2>5. CASE j = n + 3
    <3>1. 1 \in 1 .. 2 /\ n + 3 + 1 = 1 + j BY <1>1, <2>5
    <3>2. f[1 + j] = Body!CR BY <3>1, <1>6, <1>11
    <3>3. j # 0 BY <1>1, <2>5
    <3> QED BY <2>5, <3>2, <3>3 DEF FrameByte
  <2>6. CASE j = n + 4
    <3>1. 2 \in 1 .. 2 /\ n + 3 + 2 = 1 + j BY <1>1, <2>6
    <3>2. f[1 + j] = Body!LF BY <3>1, <1>6, <1>11
    <3>3. j # 0 /\ j # 1 /\ j # n + 3 BY <1>1, <2>6
    <3> QED BY <2>6, <3>2, <3>3 DEF FrameByte
  <2>7. j = 0 \/ j = 1 \/ j = 2 \/ j \in 3 .. n + 2 \/ j = n + 3 \/ j = n + 4
    BY <1>1
  <2> QED BY <2>1, <2>2, <2>3, <2>4, <2>5, <2>6, <2>7
<1> QED BY ONLY <1>7, <1>8, <1>10, <1>11, <1>12, Zenon

\* The last chunk.
LEMMA LastIs ==
    ASSUME Body!BodyAssumption, NEW o
    PROVE  LET f == <<Body!Hex(0)>> \o Body!CRLF \o Body!CRLF
           IN  /\ f \in Seq(Body!Byte) /\ Len(f) = 5
               /\ \A j \in 0 .. 4 : f[1 + j] = FrameByte(0, j, o)
<1>1. 0 \in 0 .. MaxPiece
  BY Limits
<1>2. PICK h \in Seq(Body!Byte) : h = <<Body!Hex(0)>> \o Body!CRLF
  <2>1. <<Body!Hex(0)>> \o Body!CRLF \in Seq(Body!Byte) BY <1>1, SizeLine
  <2> QED BY <2>1
<1>3. h \in Seq(Body!Byte) /\ Len(h) = 3 /\ h[1] = Body!Hex(0) /\ h[2] = Body!CR /\ h[3] = Body!LF
  BY <1>1, <1>2, SizeLine
<1>a. PICK c \in Seq(Body!Byte) : c = Body!CRLF /\ Len(c) = 2 /\ c[1] = Body!CR /\ c[2] = Body!LF
  BY CRLFIs
<1>b. PICK f : f = h \o c
  OBVIOUS
<1>c. /\ f \in Seq(Body!Byte) /\ Len(f) = 3 + 2
      /\ \A i \in 1 .. 3 : f[i] = h[i]
      /\ \A i \in 1 .. 2 : f[3 + i] = c[i]
  <2>1. /\ h \o c \in Seq(Body!Byte) /\ Len(h \o c) = Len(h) + Len(c)
        /\ \A i \in 1 .. Len(h) : (h \o c)[i] = h[i]
        /\ \A i \in 1 .. Len(c) : (h \o c)[Len(h) + i] = c[i]
    BY Concat
  <2> QED BY ONLY <2>1, <1>3, <1>a, <1>b, Zenon
<1>d. 1 \in 1 .. 3 /\ 2 \in 1 .. 3 /\ 3 \in 1 .. 3 /\ 1 \in 1 .. 2 /\ 2 \in 1 .. 2
      /\ 1 + 0 = 1 /\ 1 + 1 = 2 /\ 1 + 2 = 3 /\ 1 + 3 = 3 + 1 /\ 1 + 4 = 3 + 2 /\ 3 + 2 = 5
  OBVIOUS
<1>4. Len(f) = 5 /\ f[1 + 0] = Body!Hex(0) /\ f[1 + 1] = Body!CR /\ f[1 + 2] = Body!LF
      /\ f[1 + 3] = Body!CR /\ f[1 + 4] = Body!LF
  BY ONLY <1>3, <1>a, <1>c, <1>d, Zenon
<1>5. \A j \in 0 .. 4 : j = 0 \/ j = 1 \/ j = 2 \/ j = 3 \/ j = 4
  OBVIOUS
<1>6. /\ FrameByte(0, 0, o) = Body!Hex(0) /\ FrameByte(0, 1, o) = Body!CR
         /\ FrameByte(0, 2, o) = Body!LF
      /\ FrameByte(0, 3, o) = Body!CR /\ FrameByte(0, 4, o) = Body!LF
  BY DEF FrameByte
<1>7. \A j \in 0 .. 4 : f[1 + j] = FrameByte(0, j, o)
  BY ONLY <1>4, <1>5, <1>6, Zenon
<1> QED BY <1>2, <1>a, <1>b, <1>c, <1>4, <1>7

-----------------------------------------------------------------------------
(* What all the steps of the writer, or of the reader, leave alone.            *)

LEMMA Rest ==
    ASSUME NEW w \in Seq(Body!Byte), NEW n \in 0 .. Len(w)
    PROVE  LET v == SubSeq(w, n + 1, Len(w))
           IN  /\ v \in Seq(Body!Byte) /\ Len(v) = Len(w) - n
               /\ \A i \in 1 .. Len(w) - n : v[i] = w[n + i]
<1>1. PICK l \in Nat : l = Len(w) OBVIOUS
<1>2. PICK v : v = SubSeq(w, n + 1, Len(w)) OBVIOUS
<1>3. v \in Seq(Body!Byte) /\ Len(v) = l - n BY <1>1, <1>2
<1>4. \A i \in 1 .. l - n : v[i] = w[n + i] BY <1>1, <1>2
<1> QED BY <1>1, <1>2, <1>3, <1>4

LEMMA Begins ==
    ASSUME NEW w \in Seq(Body!Byte), NEW n \in 0 .. Len(w)
    PROVE  LET v == SubSeq(w, 1, n)
           IN  v \in Seq(Body!Byte) /\ Len(v) = n /\ \A i \in 1 .. n : v[i] = w[i]
<1>1. PICK l \in Nat : l = Len(w) OBVIOUS
<1>2. PICK v : v = SubSeq(w, 1, n) OBVIOUS
<1>3. v \in Seq(Body!Byte) /\ Len(v) = n BY <1>1, <1>2
<1>4. \A i \in 1 .. n : v[i] = w[i] BY <1>1, <1>2
<1> QED BY <1>2, <1>3, <1>4

LEMMA WholeStops ==
    ASSUME Body!TypeOK, Body!Whole
    PROVE  ~Body!Loops
  BY DEF Body!Whole, Body!Loops, Body!TypeOK

LEMMA WritersKeepReader ==
    ASSUME Body!TypeOK, ReaderRight, Body!Loops,
           UNCHANGED <<Body!headers, stopping, net, rd, left, got>>,
           disturbed \subseteq disturbed', net # "up" => wire' = wire
    PROVE  ReaderRight'
<1>0. UNCHANGED <<form, size, encoded, stopping, net, rd, left, got>>
  BY DEF Body!headers
<1>1. (\A i \in 1 .. Len(got) : got[i] = Body!Data(i))'
  BY <1>0 DEF ReaderRight
<1>2. (/\ rd = "start" => got = <<>>
       /\ rd \in {"data", "skip"} /\ form # "open" => left > 0
       /\ rd \in {"size", "crlf", "trailer"} => form = "chunked"
       /\ rd = "skip" => form = "length" /\ left <= size
       /\ rd \in {"skip", "413"} => size > Limit)'
  BY <1>0 DEF ReaderRight
<1>3. (rd = "true" => wire = <<>> /\ (Body!Whole \/ (form # "length" /\ net # "up")))'
  BY <1>0, WholeStops DEF ReaderRight
<1>4. (rd = "413" /\ net = "up" /\ "late" \notin disturbed =>
          form = "length" /\ wire = <<>> /\ offset = size)'
  <2> SUFFICES ASSUME rd' = "413", net' = "up", "late" \notin disturbed' PROVE FALSE
    OBVIOUS
  <2>1. form = "length" /\ offset = size
    BY <1>0 DEF ReaderRight
  <2> QED BY <2>1 DEF Body!Loops, Body!TypeOK
<1>5. (rd \in {"400", "415"} => Body!Disturbed)'
  <2>1. Body!Disturbed => Body!Disturbed'
    BY <1>0 DEF Body!Disturbed
  <2> QED BY <1>0, <2>1 DEF ReaderRight
<1> QED BY <1>1, <1>2, <1>3, <1>4, <1>5 DEF ReaderRight

LEMMA ReadersKeepWriter ==
    ASSUME WriterRight, UNCHANGED <<Body!headers, Body!written, net>>,
           disturbed \subseteq disturbed',
           disturbed' \subseteq disturbed \cup {"late", "refused"}
    PROVE  WriterRight'
<1>1. UNCHANGED <<form, size, encoded, offset, available, wr, stopping, net>>
  BY DEF Body!headers, Body!written
<1>2. "empty" \in disturbed' => "empty" \in disturbed
  OBVIOUS
<1>3. disturbed # {} => disturbed' # {}
  OBVIOUS
<1> QED BY <1>1, <1>2, <1>3 DEF WriterRight

LEMMA FramingKept ==
    ASSUME Framing, UNCHANGED <<form, rd, left, got, wire>>,
           form = "chunked" => \A z \in Label : Sent(z) => Sent(z)'
    PROVE  Framing'
<1> SUFFICES ASSUME form = "chunked", rd \in {"start", "data", "size", "crlf", "trailer"}
             PROVE  \E a, z \in Label : Labels(wire, a, z)' /\ Here(a)' /\ Sent(z)'
  BY DEF Framing
<1>1. PICK a \in Label, z \in Label : Labels(wire, a, z) /\ Here(a) /\ Sent(z)
  BY DEF Framing
<1>2. Labels(wire, a, z)'
  <2>1. wire' = wire OBVIOUS
  <2>2. Labels(wire', a, z) BY <1>1, <2>1
  <2> QED BY <2>2
<1>3. Here(a)'
  BY <1>1 DEF Here
<1>4. Sent(z)'
  BY <1>1
<1> QED BY <1>2, <1>3, <1>4

LEMMA PlainKept ==
    ASSUME Body!TypeOK, Plain, UNCHANGED <<form, size, rd, left, got, wire, offset>>,
           wr' # "false" => wr # "false", Lost => Lost',
           form = "length" /\ wr' = "false" => offset < size \/ wr = "false"
    PROVE  Plain'
<1> SUFFICES ASSUME form # "chunked", rd \in {"start", "data", "skip"}
             PROVE  /\ \A i \in 1 .. Len(wire)' : wire'[i] = Body!Data(Unread' + i)
                    /\ wr' # "false" => Unread' + Len(wire)' <= offset'
                    /\ form' = "length" /\ wr' = "false" => Unread' + Len(wire)' < size'
                    /\ ~Lost' => Unread' + Len(wire)' = offset'
                    /\ rd' = "data" /\ form' = "length" => left' = size' - Len(got)'
  BY DEF Plain
<1>1. Unread' = Unread
  BY DEF Unread
<1>2. Unread \in Int /\ Len(wire) \in Nat
  BY DEF Unread, Body!TypeOK
<1>3. wr # "false" => Unread + Len(wire) <= offset
  BY DEF Plain
<1>4. form = "length" /\ wr' = "false" => Unread + Len(wire) < size
  <2>1. CASE wr = "false" BY <2>1 DEF Plain
  <2>2. CASE wr # "false"
    <3>1. Unread + Len(wire) <= offset BY <1>3, <2>2
    <3>2. offset \in Int /\ size \in Int BY DEF Body!TypeOK
    <3> QED BY <1>2, <2>2, <3>1, <3>2
  <2> QED BY <2>1, <2>2
<1>5. \A i \in 1 .. Len(wire) : wire[i] = Body!Data(Unread + i)
  BY DEF Plain
<1>6. ~Lost => Unread + Len(wire) = offset
  BY DEF Plain
<1>7. rd = "data" /\ form = "length" => left = size - Len(got)
  BY DEF Plain
<1> QED BY <1>1, <1>3, <1>4, <1>5, <1>6, <1>7
-----------------------------------------------------------------------------
(* The steps of the writer and of the connection that put nothing on the wire. *)

LEMMA BodyStarts == ASSUME Body!BodyAssumption, Body!Init PROVE BodyInv
<1>1. Body!TypeOK
  <2>1. <<>> \in Seq(Body!Byte) OBVIOUS
  <2>2. size \in 0 .. MaxBody /\ 0 \in 0 .. MaxBody
    BY Limits DEF Body!Init
  <2> QED BY <2>1, <2>2 DEF Body!Init, Body!TypeOK
<1>2. Framing
  <2>1. <<0, 0, 0>> \in Label BY DEF Label
  <2>2. Labels(wire, <<0, 0, 0>>, <<0, 0, 0>>)
    BY <2>1, NothingYet DEF Body!Init
  <2>3. Here(<<0, 0, 0>>)
    BY DEF Here, Body!Init
  <2>4. Sent(<<0, 0, 0>>)
    BY DEF Sent, Body!Init
  <2> QED BY <2>1, <2>2, <2>3, <2>4 DEF Framing
<1>3. Plain
  <2>1. Unread = 0 /\ Len(wire) = 0 BY DEF Unread, Body!Init
  <2>2. \A i \in 1 .. Len(wire) : FALSE BY <2>1
  <2> QED BY <2>1, <2>2 DEF Plain, Body!Init
<1>4. WriterRight
  BY Limits DEF WriterRight, Body!Init
<1>5. ReaderRight
  BY DEF ReaderRight, Body!Init
<1> QED BY <1>1, <1>2, <1>3, <1>4, <1>5 DEF BodyInv

LEMMA WriteEmptyKeeps == ASSUME BodyInv, Body!WriteEmpty PROVE BodyInv'
<1> USE DEF BodyInv
<1>0. Body!Loops /\ form = "chunked" /\ available' = FALSE /\ disturbed' = disturbed \cup {"empty"}
      /\ UNCHANGED <<form, size, encoded, offset, wr, stopping, net, wire, rd, left, got>>
  BY DEF Body!WriteEmpty, Body!headers
<1>1. Body!TypeOK'
  BY <1>0 DEF Body!TypeOK
<1>2. Framing'
  <2>1. \A z \in Label : Sent(z) => Sent(z)'
    BY <1>0 DEF Sent, Lost, Body!Loops
  <2> QED BY <1>0, <2>1, FramingKept
<1>3. Plain'
  BY <1>0 DEF Plain
<1>4. WriterRight'
  BY <1>0 DEF WriterRight, Body!Loops
<1>5. ReaderRight'
  <2>1. UNCHANGED <<Body!headers, stopping, net, rd, left, got>> BY <1>0 DEF Body!headers
  <2> QED BY <1>0, <2>1, WritersKeepReader
<1> QED BY <1>1, <1>2, <1>3, <1>4, <1>5

LEMMA CancelKeeps == ASSUME BodyInv, Body!Cancel PROVE BodyInv'
<1> USE DEF BodyInv
<1>0. Body!Loops /\ wr' = "false" /\ disturbed' = disturbed \cup {"canceled"}
      /\ UNCHANGED <<form, size, encoded, offset, available, stopping, net, wire, rd, left, got>>
  BY DEF Body!Cancel, Body!headers
<1>1. Body!TypeOK'
  BY <1>0 DEF Body!TypeOK
<1>2. Framing'
  <2>1. form = "chunked" => \A z \in Label : Sent(z) => Sent(z)'
    BY <1>0 DEF Sent, Lost, Body!Loops
  <2> QED BY <1>0, <2>1, FramingKept
<1>3. Plain'
  <2>1. form = "length" => offset < size BY <1>0 DEF Body!Loops
  <2>2. Lost' BY <1>0 DEF Lost
  <2> QED BY <1>0, <2>1, <2>2, PlainKept
<1>4. WriterRight'
  BY <1>0 DEF WriterRight, Body!Loops
<1>5. ReaderRight'
  <2>1. UNCHANGED <<Body!headers, stopping, net, rd, left, got>> BY <1>0 DEF Body!headers
  <2> QED BY <1>0, <2>1, WritersKeepReader
<1> QED BY <1>1, <1>2, <1>3, <1>4, <1>5

LEMMA LoopEndsKeeps == ASSUME BodyInv, Body!LoopEnds PROVE BodyInv'
<1> USE DEF BodyInv
<1>0. wr = "loop" /\ ~Body!Loops /\ wr' = "true"
      /\ UNCHANGED <<form, size, encoded, offset, available, stopping, net, wire, rd, left, got,
                     disturbed>>
  BY DEF Body!LoopEnds, Body!headers
<1>1. Body!TypeOK'
  BY <1>0 DEF Body!TypeOK
<1>2. Framing'
  <2>1. \A z \in Label : Sent(z) => Sent(z)'
    BY <1>0 DEF Sent, Lost
  <2> QED BY <1>0, <2>1, FramingKept
<1>3. Plain'
  <2>1. Lost' <=> Lost BY <1>0 DEF Lost
  <2> QED BY <1>0, <2>1, PlainKept
<1>4. WriterRight'
  BY <1>0 DEF WriterRight, Body!Loops, Body!TypeOK
<1>5. ReaderRight'
  <2>1. Body!Whole => Body!Whole' BY <1>0 DEF Body!Whole
  <2>2. Body!Disturbed => Body!Disturbed' BY <1>0 DEF Body!Disturbed
  <2> QED BY <1>0, <2>1, <2>2 DEF ReaderRight
<1> QED BY <1>1, <1>2, <1>3, <1>4, <1>5

LEMMA StopKeeps == ASSUME BodyInv, Body!Stop PROVE BodyInv'
<1> USE DEF BodyInv
<1>0. wr = "loop" /\ stopping' = TRUE
      /\ UNCHANGED <<form, size, encoded, offset, available, wr, net, wire, rd, left, got, disturbed>>
  BY DEF Body!Stop, Body!headers
<1>1. Body!TypeOK'
  BY <1>0 DEF Body!TypeOK
<1>2. Framing'
  <2>1. \A z \in Label : Sent(z) => Sent(z)'
    BY <1>0 DEF Sent, Lost
  <2> QED BY <1>0, <2>1, FramingKept
<1>3. Plain'
  <2>1. Lost' <=> Lost BY <1>0 DEF Lost
  <2> QED BY <1>0, <2>1, PlainKept
<1>4. WriterRight'
  BY <1>0 DEF WriterRight
<1>5. ReaderRight'
  <2>1. Body!Whole => Body!Whole' BY <1>0 DEF Body!Whole
  <2>2. Body!Disturbed => Body!Disturbed' BY <1>0 DEF Body!Disturbed
  <2> QED BY <1>0, <2>1, <2>2 DEF ReaderRight
<1> QED BY <1>1, <1>2, <1>3, <1>4, <1>5

LEMMA CloseKeeps == ASSUME BodyInv, Body!Close PROVE BodyInv'
<1> USE DEF BodyInv
<1>0. wr # "loop" /\ net = "up" /\ net' = "closed"
      /\ UNCHANGED <<form, size, encoded, offset, available, wr, stopping, wire, rd, left, got,
                     disturbed>>
  BY DEF Body!Close, Body!headers, Body!written
<1>1. Body!TypeOK'
  BY <1>0 DEF Body!TypeOK
<1>2. Framing'
  <2>1. \A z \in Label : Sent(z) => Sent(z)'
    BY <1>0 DEF Sent, Lost
  <2> QED BY <1>0, <2>1, FramingKept
<1>3. Plain'
  <2>1. Lost' <=> Lost BY <1>0 DEF Lost
  <2> QED BY <1>0, <2>1, PlainKept
<1>4. WriterRight'
  BY <1>0 DEF WriterRight
<1>5. ReaderRight'
  <2>1. Body!Whole => Body!Whole' BY <1>0 DEF Body!Whole
  <2>2. Body!Disturbed => Body!Disturbed' BY <1>0 DEF Body!Disturbed
  <2> QED BY <1>0, <2>1, <2>2 DEF ReaderRight
<1> QED BY <1>1, <1>2, <1>3, <1>4, <1>5

LEMMA CutKeeps == ASSUME BodyInv, Body!Cut PROVE BodyInv'
<1> USE DEF BodyInv
<1>0. net = "up" /\ net' = "cut"
      /\ UNCHANGED <<form, size, encoded, offset, available, wr, stopping, rd, left, got, disturbed>>
  BY DEF Body!Cut, Body!headers, Body!written
<1>w. wire \in Seq(Body!Byte)
  BY DEF Body!TypeOK
<1>n. PICK n \in 0 .. Len(wire) : wire' = SubSeq(wire, 1, n)
  BY DEF Body!Cut
<1>v. wire' \in Seq(Body!Byte) /\ Len(wire') = n /\ \A i \in 1 .. n : wire'[i] = wire[i]
  BY <1>w, <1>n, Begins
<1>l. Lost'
  BY <1>0 DEF Lost
<1>1. Body!TypeOK'
  BY <1>0, <1>v DEF Body!TypeOK
<1>2. Framing'
  <2> SUFFICES ASSUME form = "chunked", rd \in {"start", "data", "size", "crlf", "trailer"}
               PROVE  \E a, z \in Label : Labels(wire, a, z)' /\ Here(a)' /\ Sent(z)'
    BY <1>0 DEF Framing
  <2>1. PICK a \in Label, z \in Label : Labels(wire, a, z) /\ Here(a) /\ Sent(z)
    BY DEF Framing
  <2>2. PICK y \in Label : /\ Labels(wire', a, y)
                           /\ n = Len(wire) => y = z
                           /\ n < Len(wire) => y[2] <= y[1] + 4
    BY <1>w, <1>v, <2>1, Taken
  <2>3. Here(a)'
    BY <1>0, <2>1 DEF Here
  <2>4. Sent(y)'
    <3>1. ~(y[1] = 0 /\ y[2] = 5) \/ y = z
      BY <2>2
    <3> QED BY <1>0, <1>l, <2>1, <3>1 DEF Sent
  <2>5. Labels(wire, a, y)'
    BY <2>2
  <2> QED BY <2>3, <2>4, <2>5
<1>3. Plain'
  <2> SUFFICES ASSUME form # "chunked", rd \in {"start", "data", "skip"}
               PROVE  /\ \A i \in 1 .. Len(wire') : wire'[i] = Body!Data(Unread' + i)
                      /\ wr' # "false" => Unread' + Len(wire') <= offset'
                      /\ form' = "length" /\ wr' = "false" => Unread' + Len(wire') < size'
                      /\ ~Lost' => Unread' + Len(wire') = offset'
                      /\ rd' = "data" /\ form' = "length" => left' = size' - Len(got')
    BY <1>0 DEF Plain
  <2>1. Unread' = Unread /\ Unread \in Int /\ Len(wire) \in Nat
    BY <1>0 DEF Unread, Body!TypeOK
  <2>2. \A i \in 1 .. n : wire[i] = Body!Data(Unread + i)
    BY DEF Plain
  <2>3. wr # "false" => Unread + n <= offset
    <3>1. wr # "false" => Unread + Len(wire) <= offset BY DEF Plain
    <3>2. offset \in Int BY DEF Body!TypeOK
    <3> QED BY <2>1, <3>1, <3>2
  <2>4. form = "length" /\ wr = "false" => Unread + n < size
    <3>1. form = "length" /\ wr = "false" => Unread + Len(wire) < size BY DEF Plain
    <3>2. size \in Int BY DEF Body!TypeOK
    <3> QED BY <2>1, <3>1, <3>2
  <2>5. rd = "data" /\ form = "length" => left = size - Len(got)
    BY DEF Plain
  <2> QED BY <1>0, <1>v, <1>l, <2>1, <2>2, <2>3, <2>4, <2>5
<1>4. WriterRight'
  BY <1>0 DEF WriterRight
<1>5. ReaderRight'
  <2>1. Body!Whole => Body!Whole' BY <1>0 DEF Body!Whole
  <2>2. Body!Disturbed => Body!Disturbed' BY <1>0 DEF Body!Disturbed
  <2>3. wire = <<>> => wire' = <<>> BY <1>n, <1>w
  <2> QED BY <1>0, <2>1, <2>2, <2>3 DEF ReaderRight
<1> QED BY <1>1, <1>2, <1>3, <1>4, <1>5

-----------------------------------------------------------------------------
(* The steps of the writer that send.                                          *)

LEMMA HereStays ==
    ASSUME NEW a \in Label, NEW b \in Label, Here(a), b[2] = a[2], b[3] = a[3],
           b # a => a[2] = 0, left \in Nat
    PROVE  Here(b)
<1>1. CASE b = a
  BY <1>1
<1>2. CASE a[2] = 0
  <2>1. a[1] \in Nat BY DEF Label
  <2>2. rd # "data" /\ rd # "crlf" /\ rd # "trailer"
    BY <1>2, <2>1 DEF Here
  <2> QED BY <2>2 DEF Here
<1> QED BY <1>1, <1>2

\* A frame sent on a connection that is up.
LEMMA FrameSent ==
    ASSUME Body!BodyAssumption, Body!TypeOK, Framing, Body!Loops, form = "chunked", net = "up",
           rd \in {"start", "data", "size", "crlf", "trailer"}, "empty" \notin disturbed,
           NEW n \in Nat, n <= MaxPiece, offset + n <= MaxBody,
           NEW f \in Seq(Body!Byte), Len(f) = n + 5,
           \A j \in 0 .. n + 4 : f[1 + j] = FrameByte(n, j, offset)
    PROVE  \E b, y \in Label :
              /\ Labels(wire \o f, b, y) /\ Here(b)
              /\ y[3] = offset + n
              /\ (n = 0 => y[1] = 0 /\ y[2] = 5) /\ (n > 0 => y[2] = 0)
<1>1. PICK a \in Label, z \in Label : Labels(wire, a, z) /\ Here(a) /\ Sent(z)
  BY DEF Framing
<1>2. z[2] = 0 /\ z[3] = offset
  BY <1>1 DEF Sent, Lost, Body!Loops
<1>3. wire \in Seq(Body!Byte) /\ left \in Nat
  BY Limits DEF Body!TypeOK
<1>w. PICK w \in Seq(Body!Byte) : w = wire
  BY <1>3
<1>4. PICK v \in Seq(Body!Byte) : v = w \o f
  <2>1. w \o f \in Seq(Body!Byte) OBVIOUS
  <2> QED BY <2>1
<1>5. /\ Len(w) \in Nat /\ Len(v) = Len(w) + (n + 5)
      /\ \A i \in 1 .. Len(w) : v[i] = w[i]
      /\ \A i \in 1 .. Len(f) : v[Len(w) + i] = f[i]
  <2>1. /\ Len(w \o f) = Len(w) + Len(f)
        /\ \A i \in 1 .. Len(w) : (w \o f)[i] = w[i]
        /\ \A i \in 1 .. Len(f) : (w \o f)[Len(w) + i] = f[i]
    BY ONLY w \in Seq(Body!Byte), f \in Seq(Body!Byte), Concat
  <2>2. Len(w) \in Nat OBVIOUS
  <2> QED BY ONLY <2>1, <2>2, <1>4, Len(f) = n + 5
<1>6. \A j \in 0 .. n + 4 : v[Len(w) + 1 + j] = FrameByte(n, j, z[3])
  <2> TAKE j \in 0 .. n + 4
  <2>a. j \in Int /\ j >= 0 /\ j <= n + 4
    OBVIOUS
  <2>b. 1 + j \in 1 .. n + 5
    BY ONLY <2>a, n \in Nat
  <2>c. \A l \in Nat : l + 1 + j = l + (1 + j)
    BY ONLY <2>a
  <2>1. 1 + j \in 1 .. Len(f) /\ Len(w) + 1 + j = Len(w) + (1 + j)
    BY ONLY <2>b, <2>c, <1>5, Len(f) = n + 5, Zenon
  <2>2. v[Len(w) + (1 + j)] = f[1 + j]
    BY <1>5, <2>1
  <2> QED BY <1>2, <2>1, <2>2
<1>7. z[3] + n <= MaxBody
  BY <1>2
<1>8. PICK b \in Label, y \in Label :
              /\ Labels(v, b, y)
              /\ y[3] = z[3] + n
              /\ (n = 0 => y[1] = 0 /\ y[2] = 5) /\ (n > 0 => y[2] = 0)
              /\ b[2] = a[2] /\ b[3] = a[3] /\ (b # a => a[2] = 0)
  <2>1. Labels(w, a, z) /\ z[2] = 0 /\ n \in Nat /\ n <= MaxPiece
    BY <1>1, <1>2, <1>w
  <2>2. Len(w) \in Nat /\ Len(v) = Len(w) + (n + 5) /\ \A i \in 1 .. Len(w) : v[i] = w[i]
    BY <1>5
  <2>3. Continues(v, a, z, n)
    BY ONLY <2>1, <2>2, <1>6, <1>7, Joined
  <2> QED BY <2>3 DEF Continues
<1>9. Here(b)
  BY <1>1, <1>3, <1>8, HereStays
<1> QED BY <1>2, <1>w, <1>4, <1>8, <1>9

\* The bytes of a piece.
LEMMA PiecesAre ==
    ASSUME Body!BodyAssumption, offset \in Nat, NEW n \in Nat, offset + n <= MaxBody
    PROVE  Body!Pieces(n) \in Seq(Body!Byte) /\ Len(Body!Pieces(n)) = n
           /\ \A i \in 1 .. n : Body!Pieces(n)[i] = Body!Data(offset + i)
<1>1. \A i \in 1 .. n : Body!Data(offset + i) \in Body!Byte
  <2>1. \A i \in 1 .. n : offset + i \in 1 .. MaxBody BY Limits
  <2> QED BY <2>1, IsByte
<1> DEFINE q == [i \in 1 .. n |-> Body!Data(offset + i)]
<1>2. q \in [1 .. n -> Body!Byte] BY <1>1
<1>3. q \in Seq(Body!Byte) /\ Len(q) = n BY <1>2
<1>4. \A i \in 1 .. n : q[i] = Body!Data(offset + i) OBVIOUS
<1> QED BY <1>3, <1>4 DEF Body!Pieces

LEMMA HasRoom ==
    ASSUME Body!BodyAssumption, Body!TypeOK, NEW n \in Nat, Body!Has(n)
    PROVE  /\ offset \in Nat /\ size \in Nat /\ offset + n <= MaxBody
           /\ offset + n \in 0 .. MaxBody
           /\ form = "length" => offset + n <= size
<1>1. offset \in Nat /\ size \in Nat /\ size <= MaxBody /\ MaxBody \in Nat
  BY Limits DEF Body!TypeOK
<1>2. n <= (IF form = "length" THEN size ELSE MaxBody) - offset
  BY DEF Body!Has
<1> QED BY <1>1, <1>2

LEMMA WriteKeeps ==
    ASSUME Body!BodyAssumption, BodyInv, NEW n \in 1 .. MaxPiece, Body!Write(n)
    PROVE  BodyInv'
<1> USE DEF BodyInv
<1>0. Body!Loops /\ Body!Has(n) /\ wr = "loop" /\ offset' = offset + n
      /\ wire' = (IF net = "up" THEN wire \o Body!Framed(n) ELSE wire)
      /\ UNCHANGED <<form, size, encoded, available, wr, stopping, net, rd, left, got, disturbed>>
  BY DEF Body!Write, Body!headers, Body!Sends, Body!Loops
<1>c. n \in Nat /\ n > 0 /\ n <= MaxPiece /\ MaxBody \in Nat
  BY Limits
<1>o. offset \in Nat /\ size \in Nat /\ offset + n <= MaxBody /\ offset + n \in 0 .. MaxBody
      /\ (form = "length" => offset + n <= size)
  BY <1>0, <1>c, HasRoom
<1>w. wire \in Seq(Body!Byte)
  BY DEF Body!TypeOK
<1>u. net = "up" \/ net = "cut"
  BY <1>0 DEF WriterRight, Body!TypeOK
<1>f. Body!Framed(n) \in Seq(Body!Byte)
  <2>1. CASE form = "chunked" BY <2>1, <1>o, FramedIs
  <2>2. CASE form # "chunked"
    <3>1. Body!Framed(n) = Body!Pieces(n) BY <2>2 DEF Body!Framed
    <3> QED BY <3>1, <1>o, <1>c, PiecesAre
  <2> QED BY <2>1, <2>2
<1>1. Body!TypeOK'
  <2>1. wire' \in Seq(Body!Byte) BY <1>0, <1>w, <1>f
  <2> QED BY <1>0, <1>o, <2>1 DEF Body!TypeOK
<1>2. Framing'
  <2> SUFFICES ASSUME form = "chunked", rd \in {"start", "data", "size", "crlf", "trailer"}
               PROVE  \E a, z \in Label : Labels(wire, a, z)' /\ Here(a)' /\ Sent(z)'
    BY <1>0 DEF Framing
  <2>1. available /\ "empty" \notin disturbed
    BY <1>0 DEF Body!Loops, WriterRight
  <2>2. CASE net = "up"
    <3>1. Body!Framed(n) \in Seq(Body!Byte) /\ Len(Body!Framed(n)) = n + 5
          /\ \A j \in 0 .. n + 4 : Body!Framed(n)[1 + j] = FrameByte(n, j, offset)
      BY <1>o, FramedIs
    <3>2. PICK b \in Label, y \in Label :
              /\ Labels(wire \o Body!Framed(n), b, y) /\ Here(b)
              /\ y[3] = offset + n
              /\ (n = 0 => y[1] = 0 /\ y[2] = 5) /\ (n > 0 => y[2] = 0)
      <4>1. PICK f \in Seq(Body!Byte) : f = Body!Framed(n) BY <3>1
      <4> QED BY <1>0, <1>c, <1>o, <2>1, <2>2, <3>1, <4>1, FrameSent
    <3>3. Labels(wire, b, y)'
      <4>1. Labels(wire', b, y) BY <1>0, <2>2, <3>2
      <4> QED BY <4>1
    <3>4. Here(b)'
      BY <1>0, <3>2 DEF Here
    <3>5. y[2] = 0 /\ y[3] = offset'
      BY <1>0, <1>c, <3>2
    <3>6. Sent(y)'
      BY <1>0, <2>1, <3>5 DEF Sent
    <3> QED BY <3>3, <3>4, <3>6
  <2>3. CASE net = "cut"
    <3>1. PICK a \in Label, z \in Label : Labels(wire, a, z) /\ Here(a) /\ Sent(z)
      BY DEF Framing
    <3>2. Labels(wire, a, z)'
      <4>1. Labels(wire', a, z) BY <1>0, <2>3, <3>1
      <4> QED BY <4>1
    <3>3. Here(a)'
      BY <1>0, <3>1 DEF Here
    <3>4. Sent(z)'
      BY <1>0, <2>1, <2>3, <3>1 DEF Sent, Lost
    <3> QED BY <3>2, <3>3, <3>4
  <2> QED BY <1>u, <2>2, <2>3
<1>3. Plain'
  <2> SUFFICES ASSUME form # "chunked", rd \in {"start", "data", "skip"}
               PROVE  /\ \A i \in 1 .. Len(wire') : wire'[i] = Body!Data(Unread' + i)
                      /\ wr' # "false" => Unread' + Len(wire') <= offset'
                      /\ form' = "length" /\ wr' = "false" => Unread' + Len(wire') < size'
                      /\ ~Lost' => Unread' + Len(wire') = offset'
                      /\ rd' = "data" /\ form' = "length" => left' = size' - Len(got')
    BY <1>0 DEF Plain
  <2>1. Unread' = Unread /\ Unread \in Int /\ Len(wire) \in Nat
    BY <1>0 DEF Unread, Body!TypeOK
  <2>2. /\ \A i \in 1 .. Len(wire) : wire[i] = Body!Data(Unread + i)
        /\ Unread + Len(wire) <= offset
        /\ ~Lost => Unread + Len(wire) = offset
        /\ rd = "data" /\ form = "length" => left = size - Len(got)
    BY <1>0 DEF Plain
  <2>3. CASE net = "up"
    <3>1. PICK p \in Seq(Body!Byte) : p = Body!Pieces(n) /\ Len(p) = n
          /\ \A i \in 1 .. n : p[i] = Body!Data(offset + i)
      <4>1. Body!Pieces(n) \in Seq(Body!Byte) /\ Len(Body!Pieces(n)) = n
            /\ \A i \in 1 .. n : Body!Pieces(n)[i] = Body!Data(offset + i)
        BY <1>o, <1>c, PiecesAre
      <4> QED BY <4>1
    <3>2. wire' = wire \o p
      BY <1>0, <2>3, <3>1 DEF Body!Framed
    <3>3. PICK v : v = wire \o p OBVIOUS
    <3>4. /\ Len(v) = Len(wire) + n
          /\ \A i \in 1 .. Len(wire) : v[i] = wire[i]
          /\ \A i \in 1 .. n : v[Len(wire) + i] = p[i]
      BY <1>w, <3>1, <3>3, Concat
    <3>5. Unread + Len(wire) = offset
      BY <1>0, <2>2, <2>3 DEF Lost
    <3>6. \A i \in 1 .. Len(v) : v[i] = Body!Data(Unread + i)
      <4> TAKE i \in 1 .. Len(v)
      <4>1. CASE i \in 1 .. Len(wire)
        BY <4>1, <2>2, <3>4
      <4>2. CASE i > Len(wire)
        <5>1. i - Len(wire) \in 1 .. n /\ Len(wire) + (i - Len(wire)) = i
              /\ offset + (i - Len(wire)) = Unread + i
          BY <4>2, <2>1, <3>4, <3>5
        <5> QED BY <5>1, <3>1, <3>4
      <4> QED BY <4>1, <4>2, <2>1
    <3>7. Unread + Len(v) = offset + n
      BY <1>c, <2>1, <3>4, <3>5
    <3>8. wire' = v /\ wr' # "false" /\ offset' = offset + n
      BY <1>0, <3>2, <3>3
    <3>9. Unread' + Len(wire') = offset' /\ Unread' + Len(wire') <= offset'
      BY <1>c, <1>o, <2>1, <3>7, <3>8
    <3>10. rd' = "data" /\ form' = "length" => left' = size' - Len(got')
      BY <1>0, <2>2
    <3>11. \A i \in 1 .. Len(wire') : wire'[i] = Body!Data(Unread' + i)
      BY ONLY <2>1, <3>6, <3>8, Zenon
    <3> QED BY ONLY <3>8, <3>9, <3>10, <3>11, Zenon
  <2>4. CASE net = "cut"
    <3>1. Unread + Len(wire) <= offset + n
      BY <1>c, <1>o, <2>1, <2>2
    <3>2. Lost' BY <1>0, <2>4 DEF Lost
    <3> QED BY <1>0, <2>1, <2>2, <2>4, <3>1, <3>2
  <2> QED BY <1>u, <2>3, <2>4
<1>4. WriterRight'
  BY <1>0, <1>o DEF WriterRight
<1>5. ReaderRight'
  <2>1. UNCHANGED <<Body!headers, stopping, net, rd, left, got>> BY <1>0 DEF Body!headers
  <2>2. net # "up" => wire' = wire BY <1>0
  <2>3. disturbed \subseteq disturbed' BY <1>0
  <2> QED BY <1>0, <2>1, <2>2, <2>3, WritersKeepReader
<1> QED BY <1>1, <1>2, <1>3, <1>4, <1>5

LEMMA DoneKeeps ==
    ASSUME Body!BodyAssumption, BodyInv, Body!Done
    PROVE  BodyInv'
<1> USE DEF BodyInv
<1>0. Body!Loops /\ wr = "loop" /\ form # "length" /\ available' = FALSE
      /\ UNCHANGED <<form, size, encoded, offset, wr, stopping, net, rd, left, got, disturbed>>
  BY DEF Body!Done, Body!headers, Body!Loops
<1>w. wire \in Seq(Body!Byte) /\ offset \in Nat /\ offset + 0 = offset /\ offset <= MaxBody
      /\ MaxPiece \in Nat
  BY Limits DEF Body!TypeOK
<1>u. net = "up" \/ net = "cut"
  BY <1>0 DEF WriterRight, Body!TypeOK
<1>f. PICK f \in Seq(Body!Byte) : f = <<Body!Hex(0)>> \o Body!CRLF \o Body!CRLF /\ Len(f) = 5
                             /\ \A j \in 0 .. 4 : f[1 + j] = FrameByte(0, j, offset)
  BY LastIs
<1>d. wire' = IF form = "chunked" /\ net = "up" THEN wire \o f ELSE wire
  <2>1. CASE form = "chunked"
    BY <2>1, <1>f DEF Body!Done, Body!Sends
  <2>2. CASE form # "chunked"
    <3>1. wire \o <<>> = wire BY <1>w
    <3> QED BY <2>2, <3>1 DEF Body!Done, Body!Sends
  <2> QED BY <2>1, <2>2
<1>e. available /\ "empty" \notin disturbed
  BY <1>0 DEF Body!Loops, WriterRight
<1>1. Body!TypeOK'
  <2>1. wire' \in Seq(Body!Byte) BY <1>d, <1>w
  <2> QED BY <1>0, <2>1 DEF Body!TypeOK
<1>2. Framing'
  <2> SUFFICES ASSUME form = "chunked", rd \in {"start", "data", "size", "crlf", "trailer"}
               PROVE  \E a, z \in Label : Labels(wire, a, z)' /\ Here(a)' /\ Sent(z)'
    BY <1>0 DEF Framing
  <2>2. CASE net = "up"
    <3>2. PICK b \in Label, y \in Label :
              /\ Labels(wire \o f, b, y) /\ Here(b)
              /\ y[3] = offset + 0
              /\ (0 = 0 => y[1] = 0 /\ y[2] = 5) /\ (0 > 0 => y[2] = 0)
      <4>1. 0 \in Nat /\ 0 <= MaxPiece /\ offset + 0 <= MaxBody /\ Len(f) = 0 + 5 /\ 0 + 4 = 4
        BY <1>w, <1>f
      <4>2. \A j \in 0 .. 0 + 4 : f[1 + j] = FrameByte(0, j, offset)
        BY <1>f, <4>1
      <4> QED BY <1>0, <1>e, <2>2, <4>1, <4>2, FrameSent
    <3>3. Labels(wire, b, y)'
      <4>1. Labels(wire', b, y) BY <1>d, <2>2, <3>2
      <4> QED BY <4>1
    <3>4. Here(b)'
      BY <1>0, <3>2 DEF Here
    <3>5. y[1] = 0 /\ y[2] = 5 /\ y[3] = offset'
      BY <1>0, <1>w, <3>2
    <3>6. Sent(y)'
      BY <1>0, <1>e, <3>5 DEF Sent
    <3> QED BY <3>3, <3>4, <3>6
  <2>3. CASE net = "cut"
    <3>1. PICK a \in Label, z \in Label : Labels(wire, a, z) /\ Here(a) /\ Sent(z)
      BY DEF Framing
    <3>2. Labels(wire, a, z)'
      <4>1. Labels(wire', a, z) BY <1>d, <2>3, <3>1
      <4> QED BY <4>1
    <3>3. Here(a)'
      BY <1>0, <3>1 DEF Here
    <3>4. Sent(z)'
      BY <1>0, <1>e, <2>3, <3>1 DEF Sent, Lost
    <3> QED BY <3>2, <3>3, <3>4
  <2> QED BY <1>u, <2>2, <2>3
<1>3. Plain'
  <2>1. form # "chunked" => wire' = wire BY <1>d
  <2> QED BY <1>0, <2>1, PlainKept DEF Lost, Plain
<1>4. WriterRight'
  BY <1>0 DEF WriterRight
<1>5. ReaderRight'
  <2>1. UNCHANGED <<Body!headers, stopping, net, rd, left, got>> BY <1>0 DEF Body!headers
  <2>2. net # "up" => wire' = wire BY <1>d
  <2>3. disturbed \subseteq disturbed' BY <1>0
  <2> QED BY <1>0, <2>1, <2>2, <2>3, WritersKeepReader
<1> QED BY <1>1, <1>2, <1>3, <1>4, <1>5

LEMMA WriteFailsKeeps ==
    ASSUME Body!BodyAssumption, BodyInv, NEW n \in 1 .. MaxPiece, Body!WriteFails(n)
    PROVE  BodyInv'
<1> USE DEF BodyInv
<1>0. Body!Loops /\ Body!Has(n) /\ wr = "loop" /\ wr' = "false"
      /\ disturbed' = disturbed \cup {"late"}
      /\ UNCHANGED <<form, size, encoded, offset, available, stopping, net, rd, left, got>>
  BY DEF Body!WriteFails, Body!headers, Body!Loops
<1>k. PICK k \in 0 .. Len(Body!Framed(n)) - 1 :
        wire' = IF net = "up" THEN wire \o SubSeq(Body!Framed(n), 1, k) ELSE wire
  BY DEF Body!WriteFails, Body!Sends
<1>c. n \in Nat /\ n > 0 /\ n <= MaxPiece /\ MaxBody \in Nat
  BY Limits
<1>o. offset \in Nat /\ size \in Nat /\ offset + n <= MaxBody /\ offset + n \in 0 .. MaxBody
      /\ (form = "length" => offset + n <= size)
  BY <1>0, <1>c, HasRoom
<1>w. wire \in Seq(Body!Byte)
  BY DEF Body!TypeOK
<1>u. net = "up" \/ net = "cut"
  BY <1>0 DEF WriterRight, Body!TypeOK
<1>f. PICK f \in Seq(Body!Byte) : f = Body!Framed(n)
  <2>1. CASE form = "chunked" BY <2>1, <1>o, FramedIs
  <2>2. CASE form # "chunked"
    <3>1. Body!Framed(n) = Body!Pieces(n) BY <2>2 DEF Body!Framed
    <3> QED BY <3>1, <1>o, <1>c, PiecesAre
  <2> QED BY <2>1, <2>2
<1>s. PICK s \in Seq(Body!Byte) : s = SubSeq(f, 1, k) /\ Len(s) = k /\ \A i \in 1 .. k : s[i] = f[i]
  <2>1. k \in 0 .. Len(f) BY <1>f
  <2>2. /\ SubSeq(f, 1, k) \in Seq(Body!Byte) /\ Len(SubSeq(f, 1, k)) = k
        /\ \A i \in 1 .. k : SubSeq(f, 1, k)[i] = f[i]
    BY <2>1, Begins
  <2> QED BY <2>2
<1>x. PICK x \in Seq(Body!Byte) : x = wire
  BY <1>w
<1>v. PICK v \in Seq(Body!Byte) : v = x \o s
  <2>1. x \o s \in Seq(Body!Byte) OBVIOUS
  <2> QED BY <2>1
<1>p. /\ Len(v) = Len(x) + k
      /\ \A i \in 1 .. Len(x) : v[i] = x[i]
      /\ \A i \in 1 .. k : v[Len(x) + i] = f[i]
  <2>1. /\ Len(x \o s) = Len(x) + Len(s)
        /\ \A i \in 1 .. Len(x) : (x \o s)[i] = x[i]
        /\ \A i \in 1 .. Len(s) : (x \o s)[Len(x) + i] = s[i]
    BY ONLY x \in Seq(Body!Byte), s \in Seq(Body!Byte), Concat
  <2> QED BY ONLY <2>1, <1>s, <1>v, Zenon
<1>n. wire' = IF net = "up" THEN v ELSE wire
  BY <1>k, <1>f, <1>s, <1>x, <1>v
<1>l. Lost'
  BY <1>0 DEF Lost
<1>1. Body!TypeOK'
  <2>1. wire' \in Seq(Body!Byte) BY <1>n, <1>w
  <2> QED BY <1>0, <2>1 DEF Body!TypeOK
<1>2. Framing'
  <2> SUFFICES ASSUME form = "chunked", rd \in {"start", "data", "size", "crlf", "trailer"}
               PROVE  \E a, z \in Label : Labels(wire, a, z)' /\ Here(a)' /\ Sent(z)'
    BY <1>0 DEF Framing
  <2>1. available /\ "empty" \notin disturbed
    BY <1>0 DEF Body!Loops, WriterRight
  <2>2. CASE net = "up"
    <3>1. Len(f) = n + 5 /\ \A j \in 0 .. n + 4 : f[1 + j] = FrameByte(n, j, offset)
      BY <1>f, <1>o, FramedIs
    <3>2. PICK b \in Label, y \in Label : Labels(wire \o f, b, y) /\ Here(b)
      BY <1>0, <1>c, <1>o, <2>1, <2>2, <3>1, FrameSent
    <3>3. PICK t \in Seq(Body!Byte) : t = x \o f
      <4>1. x \o f \in Seq(Body!Byte) OBVIOUS
      <4> QED BY <4>1
    <3>4. /\ Len(t) = Len(x) + Len(f)
          /\ \A i \in 1 .. Len(x) : t[i] = x[i]
          /\ \A i \in 1 .. Len(f) : t[Len(x) + i] = f[i]
      <4>1. /\ Len(x \o f) = Len(x) + Len(f)
            /\ \A i \in 1 .. Len(x) : (x \o f)[i] = x[i]
            /\ \A i \in 1 .. Len(f) : (x \o f)[Len(x) + i] = f[i]
        BY ONLY x \in Seq(Body!Byte), f \in Seq(Body!Byte), Concat
      <4> QED BY ONLY <4>1, <3>3, Zenon
    <3>5. Len(v) \in 0 .. Len(t) /\ Len(v) < Len(t) /\ Len(t) \in Nat
      BY <1>f, <1>p, <3>4
    <3>6. \A i \in 1 .. Len(v) : v[i] = t[i]
      <4> TAKE i \in 1 .. Len(v)
      <4>1. CASE i \in 1 .. Len(x) BY <4>1, <1>p, <3>4
      <4>2. CASE i > Len(x)
        <5>1. i - Len(x) \in 1 .. k /\ i - Len(x) \in 1 .. Len(f) /\ Len(x) + (i - Len(x)) = i
          BY <4>2, <1>f, <1>p
        <5> QED BY <5>1, <1>p, <3>4
      <4> QED BY <4>1, <4>2
    <3>7. PICK z \in Label : Labels(v, b, z) /\ z[2] <= z[1] + 4
      <4>1. Labels(t, b, y) BY <1>x, <3>2, <3>3
      <4> QED BY ONLY <4>1, <3>5, <3>6, Taken
    <3>8. Labels(wire, b, z)'
      <4>1. Labels(wire', b, z) BY <1>n, <2>2, <3>7
      <4> QED BY <4>1
    <3>9. Here(b)'
      BY <1>0, <3>2 DEF Here
    <3>10. Sent(z)'
      BY <1>l, <3>7 DEF Sent
    <3> QED BY <3>8, <3>9, <3>10
  <2>3. CASE net = "cut"
    <3>1. PICK a \in Label, z \in Label : Labels(wire, a, z) /\ Here(a) /\ Sent(z)
      BY DEF Framing
    <3>2. Labels(wire, a, z)'
      <4>1. Labels(wire', a, z) BY <1>n, <2>3, <3>1
      <4> QED BY <4>1
    <3>3. Here(a)'
      BY <1>0, <3>1 DEF Here
    <3>4. Sent(z)'
      BY <1>0, <1>l, <2>1, <3>1 DEF Sent
    <3> QED BY <3>2, <3>3, <3>4
  <2> QED BY <1>u, <2>2, <2>3
<1>3. Plain'
  <2> SUFFICES ASSUME form # "chunked", rd \in {"start", "data", "skip"}
               PROVE  /\ \A i \in 1 .. Len(wire') : wire'[i] = Body!Data(Unread' + i)
                      /\ wr' # "false" => Unread' + Len(wire') <= offset'
                      /\ form' = "length" /\ wr' = "false" => Unread' + Len(wire') < size'
                      /\ ~Lost' => Unread' + Len(wire') = offset'
                      /\ rd' = "data" /\ form' = "length" => left' = size' - Len(got')
    BY <1>0 DEF Plain
  <2>1. Unread' = Unread /\ Unread \in Int /\ Len(wire) \in Nat /\ Len(x) = Len(wire)
    BY <1>0, <1>x DEF Unread, Body!TypeOK
  <2>2. /\ \A i \in 1 .. Len(wire) : wire[i] = Body!Data(Unread + i)
        /\ Unread + Len(wire) <= offset
        /\ ~Lost => Unread + Len(wire) = offset
        /\ rd = "data" /\ form = "length" => left = size - Len(got)
    BY <1>0 DEF Plain
  <2>3. rd' = "data" /\ form' = "length" => left' = size' - Len(got')
    BY <1>0, <2>2
  <2>4. CASE net = "up"
    <3>1. Len(f) = n /\ \A i \in 1 .. n : f[i] = Body!Data(offset + i)
      BY <1>f, <1>o, <1>c, PiecesAre DEF Body!Framed
    <3>2. Unread + Len(wire) = offset
      BY <1>0, <2>2, <2>4 DEF Lost
    <3>3. k \in Nat /\ k < n
      BY <1>f, <3>1
    <3>a. Len(v) = Len(wire) + k
      BY <1>p, <1>x
    <3>4. \A i \in 1 .. Len(v) : v[i] = Body!Data(Unread + i)
      <4> TAKE i \in 1 .. Len(v)
      <4>1. CASE i \in 1 .. Len(wire)
        BY <4>1, <1>p, <1>x, <2>2
      <4>2. CASE i > Len(wire)
        <5>1. i - Len(wire) \in 1 .. k /\ i - Len(wire) \in 1 .. n
              /\ Len(wire) + (i - Len(wire)) = i /\ offset + (i - Len(wire)) = Unread + i
          <6>1. i \in Int /\ i <= Len(wire) + k /\ Len(wire) \in Nat /\ Unread \in Int
            BY <2>1, <3>3, <3>a
          <6>2. PICK l \in Nat : l = Len(wire) BY <6>1
          <6>3. PICK u \in Int : u = Unread BY <6>1
          <6>4. i \in Int /\ i <= l + k /\ i > l /\ u + l = offset /\ k \in Nat /\ k < n
                /\ offset \in Nat /\ n \in Nat
            BY ONLY <6>1, <6>2, <6>3, <4>2, <1>c, <1>o, <3>2, <3>3
          <6>5. i - l \in 1 .. k /\ i - l \in 1 .. n /\ l + (i - l) = i
                /\ offset + (i - l) = u + i
            BY ONLY <6>4, l \in Nat, u \in Int
          <6> QED BY <6>2, <6>3, <6>5
        <5> QED BY <5>1, <1>p, <2>1, <3>1
      <4> QED BY <4>1, <4>2, <2>1
    <3>5. form = "length" => Unread + Len(v) < size
      BY ONLY <1>c, <1>o, <2>1, <3>2, <3>3, <3>a
    <3>6. wire' = v
      BY <1>n, <2>4
    <3>7. \A i \in 1 .. Len(wire') : wire'[i] = Body!Data(Unread' + i)
      BY ONLY <2>1, <3>4, <3>6, Zenon
    <3>8. form' = "length" => Unread' + Len(wire') < size'
      BY <1>0, <2>1, <3>5, <3>6
    <3> QED BY <1>0, <1>l, <2>3, <3>7, <3>8
  <2>5. CASE net = "cut"
    <3>1. form = "length" => Unread + Len(wire) < size
      BY <1>c, <1>o, <2>1, <2>2
    <3>2. wire' = wire BY <1>n, <2>5
    <3> QED BY <1>0, <1>l, <2>1, <2>2, <2>3, <3>1, <3>2
  <2> QED BY <1>u, <2>4, <2>5
<1>4. WriterRight'
  BY <1>0 DEF WriterRight, Body!Loops
<1>5. ReaderRight'
  <2>1. UNCHANGED <<Body!headers, stopping, net, rd, left, got>> BY <1>0 DEF Body!headers
  <2>2. net # "up" => wire' = wire BY <1>n
  <2>3. disturbed \subseteq disturbed' BY <1>0
  <2> QED BY <1>0, <2>1, <2>2, <2>3, WritersKeepReader
<1> QED BY <1>1, <1>2, <1>3, <1>4, <1>5

-----------------------------------------------------------------------------
(* The steps of the reader.                                                    *)

\* A step after which the reader is over has only its result to answer for.
LEMMA ReaderReturns ==
    ASSUME BodyInv, UNCHANGED <<Body!headers, Body!written, net>>, disturbed \subseteq disturbed',
           disturbed' \subseteq disturbed \cup {"late", "refused"},
           wire' \in Seq(Body!Byte), left' \in 0 .. MaxBody, got' \in Seq(Body!Byte),
           rd' \in {"true", "400", "413", "415"},
           \A i \in 1 .. Len(got') : got'[i] = Body!Data(i),
           rd' = "413" => size > Limit,
           rd' = "true" => wire' = <<>> /\ (Body!Whole' \/ (form # "length" /\ net # "up")),
           rd' = "413" /\ net = "up" /\ "late" \notin disturbed' =>
              form = "length" /\ wire' = <<>> /\ offset = size,
           rd' \in {"400", "415"} => Body!Disturbed'
    PROVE  BodyInv'
<1>0. UNCHANGED <<form, size, encoded, offset, available, wr, stopping, net>>
  BY DEF Body!headers, Body!written
<1>1. Body!TypeOK'
  <2>1. disturbed' \subseteq {"late", "refused", "canceled", "empty"}
    BY DEF BodyInv, Body!TypeOK
  <2> QED BY <1>0, <2>1 DEF BodyInv, Body!TypeOK
<1>2. Framing'
  BY DEF Framing
<1>3. Plain'
  BY DEF Plain
<1>4. WriterRight'
  BY ReadersKeepWriter DEF BodyInv
<1>5. ReaderRight'
  BY <1>0 DEF ReaderRight
<1> QED BY <1>1, <1>2, <1>3, <1>4, <1>5 DEF BodyInv

LEMMA GotAll ==
    ASSUME NEW s \in Seq(Body!Byte), NEW n \in Nat, Len(s) = n,
           \A i \in 1 .. n : s[i] = Body!Data(i)
    PROVE  s = [i \in 1 .. n |-> Body!Data(i)]
<1> DEFINE t == [i \in 1 .. n |-> Body!Data(i)]
<1>1. \A i \in 1 .. n : t[i] = Body!Data(i) OBVIOUS
<1>2. t = [i \in 1 .. n |-> t[i]] OBVIOUS
<1>3. s = [i \in 1 .. n |-> s[i]] OBVIOUS
<1> HIDE DEF t
<1>4. s = t
  BY <1>1, <1>2, <1>3
<1> QED BY <1>4 DEF t

LEMMA BeginKeeps ==
    ASSUME Body!BodyAssumption, BodyInv, Body!Begin
    PROVE  BodyInv'
<1> USE DEF BodyInv
<1>0. rd = "start" /\ left' = size
      /\ UNCHANGED <<form, size, encoded, offset, available, wr, stopping, net, wire, got, disturbed>>
      /\ UNCHANGED <<Body!headers, Body!written, net>>
  BY DEF Body!Begin, Body!Reads, Body!headers, Body!written
<1>r. rd' = (IF encoded THEN "415"
             ELSE IF form = "chunked" THEN "size"
             ELSE IF form = "length" /\ size > Limit THEN "skip"
             ELSE IF form = "length" /\ size = 0 THEN "true" ELSE "data")
  BY DEF Body!Begin, Body!Reads
<1>g. got = <<>> /\ got \in Seq(Body!Byte) /\ wire \in Seq(Body!Byte) /\ size \in 0 .. MaxBody
      /\ MaxBody \in Nat /\ Limit \in Nat /\ offset \in Nat /\ Len(wire) \in Nat
  BY <1>0, Limits DEF Body!TypeOK, ReaderRight
<1>l. Len(got) = 0 /\ \A i \in 1 .. Len(got) : FALSE
  BY <1>g
<1>1. CASE encoded
  <2>1. rd' = "415" BY <1>1, <1>r
  <2>2. Body!Disturbed' BY <1>0, <1>1 DEF Body!Disturbed
  <2> QED BY <1>0, <1>g, <1>l, <2>1, <2>2, ReaderReturns
<1>2. CASE ~encoded /\ form = "chunked"
  <2>0. rd' = "size" BY <1>2, <1>r
  <2>1. Body!TypeOK' BY <1>0, <1>g, <2>0 DEF Body!TypeOK
  <2>2. Framing'
    <3>1. PICK a \in Label, z \in Label : Labels(wire, a, z) /\ Here(a) /\ Sent(z)
      BY <1>0, <1>2 DEF Framing
    <3>2. Labels(wire', a, z) BY <1>0, <3>1
    <3>3. Here(a)' BY <1>0, <1>l, <2>0, <3>1 DEF Here
    <3>4. Sent(z)' BY <1>0, <3>1 DEF Sent, Lost
    <3> QED BY <3>2, <3>3, <3>4 DEF Framing
  <2>3. Plain' BY <1>0, <1>2 DEF Plain
  <2>4. WriterRight' BY <1>0 DEF WriterRight
  <2>5. ReaderRight' BY <1>0, <1>2, <1>g, <1>l, <2>0 DEF ReaderRight
  <2> QED BY <2>1, <2>2, <2>3, <2>4, <2>5
<1>3. CASE ~encoded /\ form # "chunked"
  <2>p. /\ \A i \in 1 .. Len(wire) : wire[i] = Body!Data(i)
        /\ wr # "false" => Len(wire) <= offset
        /\ form = "length" /\ wr = "false" => Len(wire) < size
        /\ ~Lost => Len(wire) = offset
    <3>1. Unread = 0 BY <1>0, <1>l DEF Unread
    <3>2. \A i \in 1 .. Len(wire) : 0 + i = i OBVIOUS
    <3>3. 0 + Len(wire) = Len(wire) BY <1>g
    <3>4. /\ \A i \in 1 .. Len(wire) : wire[i] = Body!Data(Unread + i)
          /\ wr # "false" => Unread + Len(wire) <= offset
          /\ form = "length" /\ wr = "false" => Unread + Len(wire) < size
          /\ ~Lost => Unread + Len(wire) = offset
      BY <1>0, <1>3 DEF Plain
    <3> QED BY <3>1, <3>2, <3>3, <3>4
  <2>1. CASE form = "length" /\ size = 0
    <3>1. size <= Limit BY <1>g, <2>1
    <3>2. rd' = "true" BY <1>3, <1>r, <1>g, <2>1, <3>1
    <3>3. offset = 0 BY <1>g, <2>1 DEF WriterRight
    <3>4. wr # "false" /\ Len(wire) = 0 BY <1>g, <2>p, <2>1, <3>3
    <3>5. wire' = <<>> BY <1>0, <1>g, <3>4
    <3>6. Body!Whole'
      <4>1. got = [i \in 1 .. 0 |-> Body!Data(i)] BY <1>g
      <4> QED BY <1>0, <2>1, <3>3, <3>4, <4>1 DEF Body!Whole
    <3> QED BY <1>0, <1>g, <1>l, <3>2, <3>5, <3>6, ReaderReturns
  <2>2. CASE ~(form = "length" /\ size = 0)
    <3>0. rd' = IF form = "length" /\ size > Limit THEN "skip" ELSE "data"
      BY <1>3, <1>r, <2>2
    <3>1. Body!TypeOK' BY <1>0, <1>g, <3>0 DEF Body!TypeOK
    <3>2. Framing' BY <1>0, <1>3 DEF Framing
    <3>3. Plain'
      <4>1. Unread' = 0 BY <1>0, <1>g, <1>l DEF Unread
      <4>2. \A i \in 1 .. Len(wire) : 0 + i = i OBVIOUS
      <4>3. 0 + Len(wire) = Len(wire) /\ size - 0 = size BY <1>g
      <4>4. \A i \in 1 .. Len(wire') : wire'[i] = Body!Data(Unread' + i)
        BY <1>0, <2>p, <4>1, <4>2
      <4>5. /\ wr' # "false" => Unread' + Len(wire') <= offset'
            /\ form' = "length" /\ wr' = "false" => Unread' + Len(wire') < size'
        BY <1>0, <2>p, <4>1, <4>3
      <4>6. ~Lost' => Unread' + Len(wire') = offset'
        BY <1>0, <2>p, <4>1, <4>3 DEF Lost
      <4>7. left' = size' - Len(got')
        BY <1>0, <1>l, <4>3
      <4> QED BY <4>4, <4>5, <4>6, <4>7 DEF Plain
    <3>4. WriterRight' BY <1>0 DEF WriterRight
    <3>5. ReaderRight'
      <4>1. form = "length" => size > 0 BY <1>g, <2>2
      <4>2. form = "length" \/ form = "open" BY <1>3 DEF Body!TypeOK
      <4> QED BY <1>0, <1>g, <1>l, <3>0, <4>1, <4>2 DEF ReaderRight
    <3> QED BY <3>1, <3>2, <3>3, <3>4, <3>5
  <2> QED BY <2>1, <2>2
<1> QED BY <1>1, <1>2, <1>3

\* The next bytes for a reader of data.
LEMMA DataNext ==
    ASSUME Body!BodyAssumption, BodyInv, rd = "data", NEW i \in 1 .. Len(wire),
           form # "open" => i <= left
    PROVE  wire[i] = Body!Data(Len(got) + i)
<1>t. Len(wire) \in Nat /\ left \in Nat /\ Len(got) \in Nat
  BY Limits DEF BodyInv, Body!TypeOK
<1>1. CASE form = "chunked"
  <2>1. PICK a \in Label, z \in Label : Labels(wire, a, z) /\ Here(a)
    BY <1>1 DEF BodyInv, Framing
  <2>2. left <= a[1] /\ a[2] = a[1] + 3 - left /\ a[3] + a[1] = Len(got) + left
    BY <2>1 DEF Here
  <2>3. PICK n \in Nat, k \in Nat, d \in Nat : n = a[1] /\ k = a[2] /\ d = a[3]
    BY DEF Label
  <2>4. i <= left BY <1>1
  <2>5. i - 1 \in 0 .. Len(wire) /\ i - 1 < Len(wire) /\ (i - 1) + 1 = i /\ i \in Nat /\ i > 0
    BY <1>t
  <2>6. k + (i - 1) <= n + 2 /\ k + (i - 1) >= 3 /\ d + ((k + (i - 1)) - 2) = Len(got) + i
    <3>1. left <= n /\ k = n + 3 - left /\ d + n = Len(got) + left BY <2>2, <2>3
    <3>2. PICK g \in Nat : g = Len(got) BY <1>t
    <3>3. PICK l \in Nat : l = left BY <1>t
    <3>4. PICK j \in Nat : j = i BY <2>5
    <3>5. l <= n /\ k = n + 3 - l /\ d + n = g + l /\ j <= l /\ j > 0
      BY <2>4, <2>5, <3>1, <3>2, <3>3, <3>4
    <3>6. k + (j - 1) <= n + 2 /\ k + (j - 1) >= 3 /\ d + ((k + (j - 1)) - 2) = g + j
      BY ONLY <3>5, l \in Nat, k \in Nat, n \in Nat, d \in Nat, g \in Nat, j \in Nat
    <3> QED BY <3>2, <3>4, <3>6
  <2>7. SameFrame(a[1], a[2], i - 1)
    <3>1. k + (i - 1) <= n + 4 BY <2>5, <2>6
    <3> QED BY <2>3, <3>1 DEF SameFrame
  <2>8. wire[i] = FrameByte(a[1], a[2] + (i - 1), a[3])
    BY <1>t, <2>1, <2>5, <2>7, HeadIs
  <2>9. FrameByte(n, k + (i - 1), d) = Body!Data(d + ((k + (i - 1)) - 2))
    <3>1. PICK m \in Nat : m = k + (i - 1) BY <2>5
    <3>2. m # 0 /\ m # 1 /\ m # 2 /\ m # n + 3 /\ m # n + 4 BY <2>6, <3>1
    <3>3. FrameByte(n, m, d) = Body!Data(d + (m - 2)) BY ONLY <3>2 DEF FrameByte
    <3> QED BY <3>1, <3>3
  <2> QED BY <2>3, <2>6, <2>8, <2>9
<1>2. CASE form # "chunked"
  <2>1. Unread = Len(got) BY DEF Unread
  <2> QED BY <1>2, <2>1 DEF BodyInv, Plain
<1> QED BY <1>1, <1>2

LEMMA ReadDataKeeps ==
    ASSUME Body!BodyAssumption, BodyInv, Body!ReadData
    PROVE  BodyInv'
<1> USE DEF BodyInv
<1>0. rd = "data"
      /\ UNCHANGED <<form, size, encoded, offset, available, wr, stopping, net, disturbed>>
      /\ UNCHANGED <<Body!headers, Body!written, net>>
  BY DEF Body!ReadData, Body!Reads, Body!headers, Body!written
<1>n. PICK n \in 1 .. Len(wire) :
        /\ form # "open" => n <= left
        /\ got' = got \o SubSeq(wire, 1, n)
        /\ wire' = SubSeq(wire, n + 1, Len(wire))
        /\ left' = IF form = "open" THEN 0 ELSE left - n
        /\ rd' = IF form = "open" THEN "data" ELSE Body!After(left')
  BY DEF Body!ReadData, Body!Takes, Body!Reads
<1>t. left \in Nat /\ left <= MaxBody /\ MaxBody \in Nat /\ wire \in Seq(Body!Byte)
      /\ got \in Seq(Body!Byte)
      /\ size \in Nat /\ offset \in Nat
  BY Limits DEF Body!TypeOK
<1>w. PICK w \in Seq(Body!Byte) : w = wire
  BY <1>t
<1>g. PICK g \in Seq(Body!Byte) : g = got
  BY <1>t
<1>a. n \in 0 .. Len(w) /\ n \in 1 .. Len(w) /\ n \in Nat /\ n > 0 /\ Len(w) \in Nat
      /\ Len(g) \in Nat
  BY <1>n, <1>w
<1>v. wire' \in Seq(Body!Byte) /\ Len(wire') = Len(w) - n
      /\ \A i \in 1 .. Len(w) - n : wire'[i] = w[n + i]
  BY <1>n, <1>w, <1>a, Rest
<1>h. PICK h \in Seq(Body!Byte) : h = SubSeq(w, 1, n) /\ Len(h) = n /\ \A i \in 1 .. n : h[i] = w[i]
  <2>1. /\ SubSeq(w, 1, n) \in Seq(Body!Byte) /\ Len(SubSeq(w, 1, n)) = n
        /\ \A i \in 1 .. n : SubSeq(w, 1, n)[i] = w[i]
    BY <1>a, Begins
  <2> QED BY <2>1
<1>c. /\ got' \in Seq(Body!Byte) /\ Len(got') = Len(g) + n
      /\ \A i \in 1 .. Len(g) : got'[i] = g[i]
      /\ \A i \in 1 .. n : got'[Len(g) + i] = w[i]
  <2>1. /\ g \o h \in Seq(Body!Byte) /\ Len(g \o h) = Len(g) + Len(h)
        /\ \A i \in 1 .. Len(g) : (g \o h)[i] = g[i]
        /\ \A i \in 1 .. Len(h) : (g \o h)[Len(g) + i] = h[i]
    BY ONLY g \in Seq(Body!Byte), h \in Seq(Body!Byte), Concat
  <2>2. got' = g \o h BY <1>n, <1>w, <1>g, <1>h
  <2> QED BY ONLY <2>1, <2>2, <1>h, Zenon
<1>d. \A i \in 1 .. n : w[i] = Body!Data(Len(g) + i)
  <2> TAKE i \in 1 .. n
  <2>1. i \in 1 .. Len(wire) /\ (form # "open" => i <= left)
    <3>1. i \in Nat /\ i <= n /\ i >= 1 BY <1>a
    <3>2. form # "open" => n <= left BY <1>n
    <3>3. n <= Len(wire) /\ Len(wire) \in Nat BY <1>a, <1>w
    <3> QED BY ONLY <3>1, <3>2, <3>3, <1>a, <1>t
  <2>2. wire[i] = Body!Data(Len(got) + i)
    BY <1>0, <2>1, DataNext
  <2> QED BY <2>2, <1>w, <1>g
<1>e. \A i \in 1 .. Len(got') : got'[i] = Body!Data(i)
  <2> TAKE i \in 1 .. Len(got')
  <2>0. i \in Nat /\ i >= 1 /\ i <= Len(g) + n
    BY <1>a, <1>c
  <2>1. CASE i \in 1 .. Len(g)
    BY <2>1, <1>c, <1>g DEF ReaderRight
  <2>2. CASE i > Len(g)
    <3>1. i - Len(g) \in 1 .. n /\ Len(g) + (i - Len(g)) = i
      BY <2>0, <2>2, <1>a
    <3> QED BY <3>1, <1>c, <1>d
  <2> QED BY <2>0, <2>1, <2>2, <1>a
<1>l. left' \in 0 .. MaxBody
  BY <1>n, <1>a, <1>t
<1>1. CASE rd' = "true"
  <2>1. form # "open" /\ left = n /\ form # "chunked"
    BY <1>n, <1>a, <1>t, <1>1 DEF Body!After
  <2>2. form = "length" BY <2>1 DEF Body!TypeOK
  <2>3. /\ wr # "false" => Len(g) + Len(w) <= offset
        /\ wr = "false" => Len(g) + Len(w) < size
        /\ left = size - Len(g)
    <3>1. Unread = Len(got) BY <1>0 DEF Unread
    <3> QED BY <1>0, <1>w, <1>g, <2>2, <3>1 DEF Plain
  <2>4. offset <= size BY <2>2 DEF WriterRight
  <2>5. n <= Len(w) BY <1>a
  <2>6. wr # "false" /\ Len(g) + n = size /\ Len(w) = n /\ offset = size
    <3>1. PICK p \in Nat : p = Len(g) BY <1>a
    <3>2. PICK q \in Nat : q = Len(w) BY <1>a
    <3>3. size = p + n /\ n <= q BY <1>a, <1>t, <2>1, <2>3, <2>5, <3>1, <3>2
    <3>4. wr = "false" => p + q < size BY <2>3, <3>1, <3>2
    <3>5. wr # "false" BY ONLY <3>3, <3>4, <1>a, p \in Nat, q \in Nat
    <3>6. p + q <= offset BY <2>3, <3>1, <3>2, <3>5
    <3>7. q = n /\ offset = size BY ONLY <3>3, <3>6, <2>4, <1>a, <1>t, p \in Nat, q \in Nat
    <3> QED BY <3>1, <3>2, <3>3, <3>5, <3>7
  <2>7. wire' = <<>>
    <3>1. Len(wire') = 0 BY <1>v, <2>6, <1>a
    <3> QED BY <3>1, <1>v
  <2>8. Body!Whole'
    <3>1. Len(got') = offset BY <1>c, <2>6
    <3>2. got' = [i \in 1 .. offset |-> Body!Data(i)]
      BY <1>c, <1>e, <1>t, <3>1, GotAll
    <3> QED BY <1>0, <2>2, <2>6, <3>2 DEF Body!Whole
  <2> QED BY <1>0, <1>c, <1>e, <1>l, <1>v, <1>1, <2>7, <2>8, ReaderReturns
<1>2. CASE rd' # "true"
  <2>0. rd' \in {"data", "crlf"} /\ (rd' = "crlf" => form = "chunked" /\ left = n)
        /\ (rd' = "data" /\ form # "open" => left' > 0)
    BY <1>n, <1>a, <1>t, <1>2 DEF Body!After
  <2>1. Body!TypeOK'
    BY <1>0, <1>c, <1>l, <1>v, <2>0 DEF Body!TypeOK
  <2>2. Framing'
    <3> SUFFICES ASSUME form = "chunked"
                 PROVE  \E a, z \in Label : Labels(wire, a, z)' /\ Here(a)' /\ Sent(z)'
      BY <1>0 DEF Framing
    <3>1. PICK a \in Label, z \in Label : Labels(wire, a, z) /\ Here(a) /\ Sent(z)
      BY <1>0 DEF Framing
    <3>2. a[1] \in Nat /\ a[2] \in Nat /\ a[3] \in Nat /\ left <= a[1] /\ a[2] = a[1] + 3 - left
          /\ a[3] + a[1] = Len(g) + left
      BY <1>0, <1>g, <3>1 DEF Here, Label
    <3>3. n <= left /\ left' = left - n
      BY <1>n
    <3>4. a[2] + n = a[1] + 3 - left' /\ a[2] + n <= a[1] + 4 /\ left' <= a[1]
          /\ a[3] + a[1] = Len(got') + left' /\ left' \in Nat
      <4>1. PICK p \in Nat, k \in Nat, d \in Nat : p = a[1] /\ k = a[2] /\ d = a[3] BY <3>2
      <4>2. PICK e \in Nat : e = left BY <1>t
      <4>3. PICK q \in Nat : q = Len(g) BY <1>a
      <4>4. e <= p /\ k = p + 3 - e /\ d + p = q + e /\ n <= e /\ left' = e - n /\ Len(got') = q + n
        BY <1>c, <3>2, <3>3, <4>1, <4>2, <4>3
      <4>5. k + n = p + 3 - (e - n) /\ k + n <= p + 4 /\ e - n <= p /\ d + p = q + n + (e - n)
            /\ e - n \in Nat
        BY ONLY <4>4, <1>a, p \in Nat, k \in Nat, d \in Nat, e \in Nat, q \in Nat
      <4> QED BY <4>1, <4>4, <4>5
    <3>5. SameFrame(a[1], a[2], n)
      BY <3>4 DEF SameFrame
    <3>6. PICK y \in Label : Labels(wire', y, z) /\ y = <<a[1], a[2] + n, a[3]>>
      <4>1. Labels(w, a, z) BY <1>w, <3>1
      <4> QED BY ONLY <4>1, <3>5, <1>a, <1>v, Dropped
    <3>7. Here(y)'
      <4>1. y[1] = a[1] /\ y[2] = a[2] + n /\ y[3] = a[3] BY <3>6
      <4>2. CASE rd' = "data"
        BY <4>1, <4>2, <3>4 DEF Here
      <4>3. CASE rd' = "crlf"
        <5>1. left' = 0 /\ left > 0 BY <1>0, <1>a, <1>t, <3>3, <2>0, <4>3
        <5>2. a[1] > 0 /\ a[2] + n = a[1] + 3 /\ a[3] + a[1] = Len(got')
          <6>1. PICK p \in Nat, k \in Nat, d \in Nat : p = a[1] /\ k = a[2] /\ d = a[3] BY <3>2
          <6>2. PICK e \in Nat : e = left BY <1>t
          <6>3. PICK q \in Nat : q = Len(got')
            <7>1. PICK o \in Nat : o = Len(g) BY <1>a
            <7>2. Len(got') = o + n BY <1>c, <7>1
            <7>3. o + n \in Nat BY ONLY <1>a, o \in Nat
            <7> QED BY ONLY <7>2, <7>3, Zenon
          <6>4. e <= p /\ e > 0
            BY <3>2, <5>1, <6>1, <6>2
          <6>5. k + n = p + 3 - 0 /\ d + p = q + 0
            BY ONLY <3>4, <5>1, <6>1, <6>3, Zenon
          <6>6. p > 0 /\ k + n = p + 3 /\ d + p = q
            BY ONLY <6>4, <6>5, <1>a, p \in Nat, k \in Nat, d \in Nat, e \in Nat, q \in Nat
          <6> QED BY ONLY <6>1, <6>3, <6>6, Zenon
        <5> QED BY <4>1, <4>3, <5>2 DEF Here
      <4>4. rd' = "data" \/ rd' = "crlf" BY <2>0
      <4> QED BY ONLY <4>2, <4>3, <4>4, Zenon
    <3>8. Sent(z)' BY <1>0, <3>1 DEF Sent, Lost
    <3>9. Labels(wire, y, z)' BY <3>6
    <3> QED BY <3>7, <3>8, <3>9
  <2>3. Plain'
    <3> SUFFICES ASSUME form # "chunked"
                 PROVE  /\ \A i \in 1 .. Len(wire') : wire'[i] = Body!Data(Unread' + i)
                        /\ wr' # "false" => Unread' + Len(wire') <= offset'
                        /\ form' = "length" /\ wr' = "false" => Unread' + Len(wire') < size'
                        /\ ~Lost' => Unread' + Len(wire') = offset'
                        /\ rd' = "data" /\ form' = "length" => left' = size' - Len(got')
      BY <1>0 DEF Plain
    <3>1. Unread = Len(g) /\ Unread' = Len(g) + n
      BY <1>0, <1>c, <1>g, <2>0 DEF Unread
    <3>2. /\ \A i \in 1 .. Len(w) : w[i] = Body!Data(Len(g) + i)
          /\ wr # "false" => Len(g) + Len(w) <= offset
          /\ form = "length" /\ wr = "false" => Len(g) + Len(w) < size
          /\ ~Lost => Len(g) + Len(w) = offset
          /\ form = "length" => left = size - Len(g)
      BY <1>0, <1>w, <1>g, <3>1 DEF Plain
    <3>3. Unread' + Len(wire') = Len(g) + Len(w)
      <4>1. (Len(g) + n) + (Len(w) - n) = Len(g) + Len(w) BY ONLY <1>a
      <4> QED BY <4>1, <1>v, <3>1
    <3>4. \A i \in 1 .. Len(wire') : wire'[i] = Body!Data(Unread' + i)
      <4> TAKE i \in 1 .. Len(wire')
      <4>1. i \in 1 .. Len(w) - n /\ n + i \in 1 .. Len(w) /\ (Len(g) + n) + i = Len(g) + (n + i)
        <5>1. i \in 1 .. Len(w) - n BY <1>v
        <5> QED BY ONLY <5>1, <1>a
      <4> QED BY <4>1, <1>v, <3>1, <3>2
    <3>5. ~Lost' => ~Lost BY <1>0 DEF Lost
    <3>6. form = "length" => left' = size - Len(got')
      <4>1. form = "length" => left' = left - n BY <1>n
      <4> QED BY <4>1, <3>2, <1>a, <1>c, <1>t
    <3> QED BY <1>0, <3>2, <3>3, <3>4, <3>5, <3>6
  <2>4. WriterRight' BY <1>0 DEF WriterRight
  <2>5. ReaderRight'
    BY <1>0, <1>e, <2>0 DEF ReaderRight
  <2> QED BY <2>1, <2>2, <2>3, <2>4, <2>5
<1> QED BY <1>1, <1>2

LEMMA SkipKeeps ==
    ASSUME Body!BodyAssumption, BodyInv, Body!Skip
    PROVE  BodyInv'
<1> USE DEF BodyInv
<1>0. rd = "skip"
      /\ UNCHANGED <<form, size, encoded, offset, available, wr, stopping, net, got, disturbed>>
      /\ UNCHANGED <<Body!headers, Body!written, net>>
  BY DEF Body!Skip, Body!Reads, Body!headers, Body!written
<1>n. PICK n \in 1 .. Len(wire) :
        /\ n <= left
        /\ wire' = SubSeq(wire, n + 1, Len(wire))
        /\ left' = left - n
        /\ rd' = IF left' = 0 THEN "413" ELSE "skip"
  BY DEF Body!Skip, Body!Takes, Body!Reads
<1>t. left \in Nat /\ left <= MaxBody /\ MaxBody \in Nat /\ wire \in Seq(Body!Byte)
      /\ got \in Seq(Body!Byte)
      /\ size \in Nat /\ offset \in Nat /\ left <= size /\ form = "length" /\ size > Limit
      /\ offset <= size
  BY <1>0, Limits DEF Body!TypeOK, ReaderRight, WriterRight
<1>w. PICK w \in Seq(Body!Byte) : w = wire
  BY <1>t
<1>a. n \in 0 .. Len(w) /\ n \in 1 .. Len(w) /\ n \in Nat /\ n > 0 /\ Len(w) \in Nat /\ n <= left
      /\ n <= Len(w)
  BY <1>n, <1>w
<1>v. wire' \in Seq(Body!Byte) /\ Len(wire') = Len(w) - n
      /\ \A i \in 1 .. Len(w) - n : wire'[i] = w[n + i]
  BY <1>n, <1>w, <1>a, Rest
<1>p. /\ \A i \in 1 .. Len(w) : w[i] = Body!Data((size - left) + i)
      /\ wr # "false" => (size - left) + Len(w) <= offset
      /\ wr = "false" => (size - left) + Len(w) < size
      /\ ~Lost => (size - left) + Len(w) = offset
  <2>1. Unread = size - left BY <1>0 DEF Unread
  <2> QED BY <1>0, <1>t, <1>w, <2>1 DEF Plain
<1>g. \A i \in 1 .. Len(got') : got'[i] = Body!Data(i)
  BY <1>0 DEF ReaderRight
<1>l. left' \in 0 .. MaxBody /\ left' <= size
  BY <1>n, <1>a, <1>t
<1>1. CASE rd' = "413"
  <2>1. left = n BY <1>n, <1>a, <1>t, <1>1
  <2>2. Len(w) = n /\ offset = size
    BY ONLY <1>a, <1>t, <1>p, <2>1
  <2>3. wire' = <<>>
    <3>1. Len(wire') = 0 BY <1>v, <2>2, <1>a
    <3> QED BY <3>1, <1>v
  <2> QED BY <1>0, <1>g, <1>l, <1>t, <1>1, <2>2, <2>3, ReaderReturns
<1>2. CASE rd' # "413"
  <2>0. rd' = "skip" /\ left' > 0
    BY <1>n, <1>a, <1>t, <1>2
  <2>1. Body!TypeOK'
    BY <1>0, <1>l, <1>v, <2>0 DEF Body!TypeOK
  <2>2. Framing'
    BY <1>0, <1>t DEF Framing
  <2>3. Plain'
    <3>1. Unread' = (size - left) + n
      <4>1. size - (left - n) = (size - left) + n BY <1>a, <1>t
      <4> QED BY <1>0, <1>n, <2>0, <4>1 DEF Unread
    <3>3. Unread' + Len(wire') = (size - left) + Len(w)
      <4>1. ((size - left) + n) + (Len(w) - n) = (size - left) + Len(w) BY ONLY <1>a, <1>t
      <4> QED BY <4>1, <1>v, <3>1
    <3>4. \A i \in 1 .. Len(wire') : wire'[i] = Body!Data(Unread' + i)
      <4> TAKE i \in 1 .. Len(wire')
      <4>1. i \in 1 .. Len(w) - n /\ n + i \in 1 .. Len(w)
            /\ ((size - left) + n) + i = (size - left) + (n + i)
        <5>1. i \in 1 .. Len(w) - n BY <1>v
        <5> QED BY ONLY <5>1, <1>a, <1>t
      <4> QED BY <4>1, <1>v, <1>p, <3>1
    <3>5. ~Lost' => ~Lost BY <1>0 DEF Lost
    <3> QED BY <1>0, <1>p, <2>0, <3>3, <3>4, <3>5 DEF Plain
  <2>4. WriterRight' BY <1>0 DEF WriterRight
  <2>5. ReaderRight'
    BY <1>0, <1>g, <1>l, <1>t, <2>0 DEF ReaderRight
  <2> QED BY <2>1, <2>2, <2>3, <2>4, <2>5
<1> QED BY <1>1, <1>2

\* Where a line of an intact body ends: after its LF, or with a connection that has ended.
LEMMA LineIs ==
    ASSUME wire \in Seq(Body!Byte), Body!Line # <<>>, NEW m \in 1 .. 3,
           \A i \in 1 .. m - 1 : i <= Len(wire) => wire[i] # Body!LF,
           m <= Len(wire) => wire[m] = Body!LF
    PROVE  /\ wire # <<>> /\ Len(wire) > 0
           /\ m <= Len(wire) => Body!Line = SubSeq(wire, 1, m) /\ Len(Body!Line) = m
           /\ m > Len(wire) => Body!Line = wire /\ net # "up"
           /\ Body!Line[1] = wire[1] /\ Len(Body!Line) \in 1 .. Len(wire)
<1>l. Len(wire) \in Nat /\ m \in Nat
  OBVIOUS
<1>1. CASE m <= Len(wire)
  <2>1. m \in 1 .. Len(wire) /\ m \in 0 .. Len(wire) BY <1>1, <1>l
  <2>2. \A i \in 1 .. m - 1 : wire[i] # Body!LF BY <1>1, <1>l
  <2>3. Body!Line = SubSeq(wire, 1, m) BY <1>1, <2>1, <2>2, LineTo
  <2>4. Len(SubSeq(wire, 1, m)) = m /\ \A i \in 1 .. m : SubSeq(wire, 1, m)[i] = wire[i]
    BY <2>1, Begins
  <2>5. 1 \in 1 .. m /\ m \in 1 .. Len(wire) /\ Len(wire) > 0 BY <1>1, <1>l
  <2>6. wire # <<>> BY <2>5
  <2> QED BY <1>1, <1>l, <2>3, <2>4, <2>5, <2>6
<1>2. CASE m > Len(wire)
  <2>1. \A i \in 1 .. Len(wire) : wire[i] # Body!LF
    <3> TAKE i \in 1 .. Len(wire)
    <3>1. i \in 1 .. m - 1 /\ i <= Len(wire) BY <1>2, <1>l
    <3> QED BY <3>1
  <2>2. Body!Line = IF net # "up" THEN wire ELSE <<>> BY <2>1, LineOpen
  <2>3. net # "up" /\ Body!Line = wire /\ wire # <<>> BY <2>2
  <2>4. Len(wire) > 0 BY <2>3, <1>l
  <2> QED BY <1>2, <1>l, <2>3, <2>4
<1> QED BY <1>1, <1>2, <1>l

LEMMA BytesOfFrame ==
    ASSUME NEW n \in Nat, NEW d
    PROVE  /\ FrameByte(n, 0, d) = Body!Hex(n) /\ FrameByte(n, 1, d) = Body!CR
              /\ FrameByte(n, 2, d) = Body!LF
           /\ FrameByte(n, n + 3, d) = Body!CR /\ FrameByte(n, n + 4, d) = Body!LF
<1>1. n + 3 # 0 /\ n + 4 # 0 /\ n + 4 # 1 /\ n + 4 # n + 3
  OBVIOUS
<1>2. 2 # 0 /\ 2 # 1 /\ 2 # n + 3 /\ 1 # 0
  OBVIOUS
<1> QED BY <1>1, <1>2 DEF FrameByte

LEMMA SizeIsHex ==
    ASSUME Body!BodyAssumption, NEW n \in Nat, n <= MaxPiece
    PROVE  Body!Hex(n) \in {Body!Hex(i) : i \in 0 .. MaxPiece} /\ Body!Hex(n)[2] = n
<1>1. n \in 0 .. MaxPiece BY Limits
<1> QED BY <1>1, BytesDiffer

LEMMA ReadSizeKeeps ==
    ASSUME Body!BodyAssumption, BodyInv, Body!ReadSize
    PROVE  BodyInv'
<1> USE DEF BodyInv
<1>0. rd = "size" /\ Body!Line # <<>>
      /\ UNCHANGED <<form, size, encoded, offset, available, wr, stopping, net, got, disturbed>>
      /\ UNCHANGED <<Body!headers, Body!written, net>>
  BY DEF Body!ReadSize, Body!Reads, Body!headers, Body!written
<1>r. /\ wire' = SubSeq(wire, Len(Body!Line) + 1, Len(wire))
      /\ left' = IF Body!Line[1] \in {Body!Hex(n) : n \in 0 .. MaxPiece} THEN Body!Line[1][2] ELSE 0
      /\ rd' = (IF Body!Line[1] \notin {Body!Hex(n) : n \in 0 .. MaxPiece} THEN "400"
                ELSE IF left' = 0 THEN "trailer" ELSE "data")
  BY DEF Body!ReadSize, Body!Takes, Body!Reads
<1>t. MaxBody \in Nat /\ MaxPiece \in Nat /\ wire \in Seq(Body!Byte) /\ Len(wire) \in Nat
      /\ form = "chunked"
  BY <1>0, Limits DEF Body!TypeOK, ReaderRight
<1>1. PICK a \in Label, z \in Label : Labels(wire, a, z) /\ Here(a) /\ Sent(z)
  BY <1>0, <1>t DEF Framing
<1>2. PICK n \in Nat, d \in Nat : a = <<n, 0, d>> /\ d = Len(got)
  BY <1>0, <1>1 DEF Here, Label
<1>3. a[1] = n /\ a[2] = 0 /\ a[3] = d
  BY <1>2
<1>4. \A j \in 0 .. 4 : j \in 0 .. Len(wire) /\ j < Len(wire) =>
            wire[j + 1] = FrameByte(n, 0 + j, d) /\ n <= MaxPiece /\ d + n <= MaxBody
  <2> SUFFICES ASSUME NEW j \in 0 .. 4, j \in 0 .. Len(wire), j < Len(wire)
               PROVE  wire[j + 1] = FrameByte(n, 0 + j, d) /\ n <= MaxPiece /\ d + n <= MaxBody
    OBVIOUS
  <2>1. SameFrame(a[1], a[2], j) BY <1>3 DEF SameFrame
  <2>2. /\ wire[j + 1] = FrameByte(a[1], a[2] + j, a[3])
        /\ a[1] <= MaxPiece /\ a[3] + a[1] <= MaxBody
    BY <1>t, <1>1, <2>1, HeadIs
  <2> QED BY <1>3, <2>2
<1>5. /\ 1 <= Len(wire) => wire[1] = Body!Hex(n) /\ n <= MaxPiece /\ d + n <= MaxBody
      /\ 2 <= Len(wire) => wire[2] = Body!CR
      /\ 3 <= Len(wire) => wire[3] = Body!LF
  <2>1. 1 <= Len(wire) => wire[0 + 1] = FrameByte(n, 0 + 0, d) /\ n <= MaxPiece /\ d + n <= MaxBody
    <3>1. 1 <= Len(wire) => 0 \in 0 .. Len(wire) /\ 0 < Len(wire) BY <1>t
    <3> QED BY <1>4, <3>1
  <2>2. 2 <= Len(wire) => wire[1 + 1] = FrameByte(n, 0 + 1, d)
    <3>1. 2 <= Len(wire) => 1 \in 0 .. Len(wire) /\ 1 < Len(wire) BY <1>t
    <3> QED BY <1>4, <3>1
  <2>3. 3 <= Len(wire) => wire[2 + 1] = FrameByte(n, 0 + 2, d)
    <3>1. 3 <= Len(wire) => 2 \in 0 .. Len(wire) /\ 2 < Len(wire) BY <1>t
    <3> QED BY <1>4, <3>1
  <2>4. 0 + 1 = 1 /\ 1 + 1 = 2 /\ 2 + 1 = 3 /\ 0 + 0 = 0 /\ 0 + 2 = 2 OBVIOUS
  <2> QED BY <2>1, <2>2, <2>3, <2>4, BytesOfFrame
<1>6. /\ Len(wire) > 0
      /\ 3 <= Len(wire) => Len(Body!Line) = 3
      /\ 3 > Len(wire) => Body!Line = wire /\ net # "up"
      /\ Body!Line[1] = wire[1] /\ Len(Body!Line) \in 1 .. Len(wire)
  <2>1. \A i \in 1 .. 3 - 1 : i <= Len(wire) => wire[i] # Body!LF
    <3>1. \A i \in 1 .. 3 - 1 : i = 1 \/ i = 2 OBVIOUS
    <3> QED BY <1>5, <3>1, BytesDiffer
  <2> QED BY <1>0, <1>t, <1>5, <2>1, LineIs
<1>7. Body!Line[1] = Body!Hex(n) /\ n <= MaxPiece /\ d + n <= MaxBody
  <2>1. 1 <= Len(wire) BY <1>6, <1>t
  <2> QED BY <2>1, <1>5, <1>6
<1>8. left' = n /\ rd' = (IF n = 0 THEN "trailer" ELSE "data") /\ left' \in 0 .. MaxBody
  <2>1. Body!Line[1] \in {Body!Hex(i) : i \in 0 .. MaxPiece} /\ Body!Line[1][2] = n
    <3>1. Body!Hex(n) \in {Body!Hex(i) : i \in 0 .. MaxPiece} /\ Body!Hex(n)[2] = n
      BY <1>7, SizeIsHex
    <3> QED BY ONLY <3>1, <1>7, Zenon
  <2>2. left' = n BY ONLY <1>r, <2>1, Zenon
  <2>3. rd' = (IF n = 0 THEN "trailer" ELSE "data") BY ONLY <1>r, <2>1, <2>2, Zenon
  <2>4. n \in 0 .. MaxBody BY <1>7, <1>t
  <2> QED BY ONLY <2>2, <2>3, <2>4, Zenon
<1>v. wire' \in Seq(Body!Byte) /\ Len(wire') = Len(wire) - Len(Body!Line)
      /\ \A i \in 1 .. Len(wire) - Len(Body!Line) : wire'[i] = wire[Len(Body!Line) + i]
  <2>1. Len(Body!Line) \in 0 .. Len(wire) BY <1>6
  <2> QED BY <1>r, <1>t, <2>1, Rest
<1>9. Body!TypeOK'
  BY <1>0, <1>8, <1>v DEF Body!TypeOK
<1>y. PICK y \in Label : y = <<n, 3, d>> /\ y[1] = n /\ y[2] = 3 /\ y[3] = d
  <2>1. <<n, 3, d>> \in Label BY DEF Label
  <2> QED BY <2>1
<1>h. Here(y)'
  BY <1>0, <1>2, <1>8, <1>y DEF Here
<1>10. Framing'
  <2>1. CASE 3 <= Len(wire)
    <3>1. SameFrame(a[1], a[2], 3) /\ <<a[1], a[2] + 3, a[3]>> = y /\ 3 \in 0 .. Len(wire)
      BY <1>t, <1>3, <1>y, <2>1 DEF SameFrame
    <3>2. PICK x \in Label : Labels(wire', x, z) /\ x = <<a[1], a[2] + 3, a[3]>>
      <4>1. Len(wire') = Len(wire) - 3 /\ \A i \in 1 .. Len(wire) - 3 : wire'[i] = wire[3 + i]
        BY <1>v, <1>6, <2>1
      <4>2. PICK w \in Seq(Body!Byte) : w = wire BY <1>t
      <4>3. Labels(w, a, z) /\ Len(w) \in Nat BY <1>1, <4>2
      <4>4. Len(wire') = Len(w) - 3 /\ \A i \in 1 .. Len(w) - 3 : wire'[i] = w[3 + i]
        BY ONLY <4>1, <4>2, Zenon
      <4>5. SameFrame(a[1], a[2], 3) /\ 3 \in 0 .. Len(w) BY <3>1, <4>2
      <4>6. PICK m \in Nat : m = 3 OBVIOUS
      <4>7. Len(wire') = Len(w) - m /\ \A i \in 1 .. Len(w) - m : wire'[i] = w[m + i]
        BY ONLY <4>4, <4>6, Zenon
      <4>a. SameFrame(a[1], a[2], m) /\ m \in 0 .. Len(w)
        BY ONLY <4>5, <4>6, Zenon
      <4>8. PICK x \in Label : Labels(wire', x, z) /\ x = <<a[1], a[2] + m, a[3]>>
        BY ONLY <4>3, <4>7, <4>a, Dropped
      <4> QED BY ONLY <4>6, <4>8, Zenon
    <3>3. Labels(wire', y, z) BY <3>1, <3>2
    <3>4. Sent(z)' BY <1>0, <1>1 DEF Sent, Lost
    <3> QED BY <1>h, <3>3, <3>4 DEF Framing
  <2>2. CASE 3 > Len(wire)
    <3>1. Len(wire') = 0 BY <1>v, <1>6, <1>t, <2>2
    <3>2. Labels(wire', y, y) BY <3>1, NothingYet
    <3>3. Len(wire) \in 1 .. 2
      <4>1. PICK l \in Nat : l = Len(wire) BY <1>t
      <4>2. l > 0 /\ 3 > l BY <4>1, <1>6, <2>2
      <4>3. l \in 1 .. 2 BY ONLY l \in Nat, <4>2
      <4> QED BY <4>1, <4>3
    <3>4. z[2] = Len(wire)
      <4>1. PICK m \in 1 .. 2 : m = Len(wire) BY <3>3
      <4>2. SameFrame(a[1], a[2], m) /\ m \in 0 .. Len(wire)
        BY <1>3, <4>1 DEF SameFrame
      <4>3. Len(wire') = Len(wire) - m /\ \A i \in 1 .. Len(wire) - m : wire'[i] = wire[m + i]
        BY <3>1, <4>1
      <4>4. PICK x \in Label : Labels(wire', x, z) /\ x = <<a[1], a[2] + m, a[3]>>
        <5>1. PICK w \in Seq(Body!Byte) : w = wire BY <1>t
        <5>2. Labels(w, a, z) /\ Len(w) \in Nat BY <1>1, <5>1
        <5>3. Len(wire') = Len(w) - m /\ \A i \in 1 .. Len(w) - m : wire'[i] = w[m + i]
          BY ONLY <4>3, <5>1, Zenon
        <5>4. SameFrame(a[1], a[2], m) /\ m \in 0 .. Len(w) BY <4>2, <5>1
        <5> QED BY ONLY <5>2, <5>3, <5>4, Dropped
      <4>5. x = z BY <3>1, <4>4, Nothing
      <4> QED BY <1>3, <4>1, <4>4, <4>5
    <3>5. Lost
      <4>1. \A i \in 1 .. 2 : i # 0 /\ i # 5 OBVIOUS
      <4>2. z[2] # 0 /\ z[2] # 5 BY ONLY <3>3, <3>4, <4>1, Zenon
      <4> QED BY <1>1, <4>2 DEF Sent
    <3>6. Lost' BY <1>0, <3>5 DEF Lost
    <3>7. Sent(y)' BY <1>y, <3>6 DEF Sent
    <3> QED BY <1>h, <3>2, <3>7 DEF Framing
  <2> QED BY <2>1, <2>2, <1>t
<1>11. Plain' BY <1>0, <1>t DEF Plain
<1>12. WriterRight' BY <1>0 DEF WriterRight
<1>13. ReaderRight'
  BY <1>0, <1>t, <1>8 DEF ReaderRight
<1> QED BY <1>9, <1>10, <1>11, <1>12, <1>13

\* The line behind the data of an intact chunk, or behind the last one.
LEMMA CrlfIs ==
    ASSUME Body!BodyAssumption, wire \in Seq(Body!Byte), Body!Line # <<>>,
           1 <= Len(wire) => wire[1] = Body!CR, 2 <= Len(wire) => wire[2] = Body!LF
    PROVE  /\ Len(Body!Line) \in 1 .. Len(wire)
           /\ 2 <= Len(wire) => Body!Line = Body!CRLF /\ Len(Body!Line) = 2
           /\ 2 > Len(wire) => Len(wire) = 1 /\ Len(Body!Line) = 1 /\ Body!Line # Body!CRLF
              /\ net # "up"
<1>1. /\ Len(wire) > 0
      /\ 2 <= Len(wire) => Len(Body!Line) = 2 /\ Body!Line = SubSeq(wire, 1, 2)
      /\ 2 > Len(wire) => Body!Line = wire /\ net # "up"
      /\ Len(Body!Line) \in 1 .. Len(wire)
  <2>1. \A i \in 1 .. 2 - 1 : i <= Len(wire) => wire[i] # Body!LF
    <3>1. \A i \in 1 .. 2 - 1 : i = 1 OBVIOUS
    <3> QED BY <3>1, BytesDiffer
  <2> QED BY <2>1, LineIs
<1>2. PICK l \in Nat : l = Len(wire)
  OBVIOUS
<1>3. ASSUME 2 <= Len(wire)
      PROVE  Body!Line = Body!CRLF
  <2>1. 2 \in 0 .. Len(wire) BY <1>2, <1>3
  <2>2. PICK s \in Seq(Body!Byte) : s = SubSeq(wire, 1, 2) /\ Len(s) = 2
        /\ \A i \in 1 .. 2 : s[i] = wire[i]
    <3>1. /\ SubSeq(wire, 1, 2) \in Seq(Body!Byte) /\ Len(SubSeq(wire, 1, 2)) = 2
          /\ \A i \in 1 .. 2 : SubSeq(wire, 1, 2)[i] = wire[i]
      BY <2>1, Begins
    <3> QED BY <3>1
  <2>3. PICK c \in Seq(Body!Byte) : c = Body!CRLF /\ Len(c) = 2 /\ c[1] = Body!CR /\ c[2] = Body!LF
    BY CRLFIs
  <2>4. s[1] = Body!CR /\ s[2] = Body!LF /\ \A i \in 1 .. 2 : i = 1 \/ i = 2
    BY <1>2, <1>3, <2>2
  <2>5. \A i \in 1 .. 2 : s[i] = c[i]
    BY ONLY <2>3, <2>4, Zenon
  <2>6. s = c BY <2>2, <2>3, <2>5
  <2> QED BY <1>1, <1>3, <2>2, <2>3, <2>6
<1>4. ASSUME 2 > Len(wire)
      PROVE  Len(wire) = 1 /\ Len(Body!Line) = 1 /\ Body!Line # Body!CRLF /\ net # "up"
  <2>1. l > 0 /\ 2 > l BY <1>1, <1>2, <1>4
  <2>2. l = 1 BY ONLY l \in Nat, <2>1
  <2>3. Body!Line = wire /\ net # "up" /\ Len(wire) = 1 BY <1>1, <1>2, <1>4, <2>2
  <2>4. Len(Body!CRLF) # 1 BY CRLFIs
  <2> QED BY <2>3, <2>4
<1> QED BY <1>1, <1>3, <1>4

LEMMA ReadCrlfKeeps ==
    ASSUME Body!BodyAssumption, BodyInv, Body!ReadCrlf
    PROVE  BodyInv'
<1> USE DEF BodyInv
<1>0. rd = "crlf" /\ Body!Line # <<>>
      /\ UNCHANGED <<form, size, encoded, offset, available, wr, stopping, net, left, got, disturbed>>
      /\ UNCHANGED <<Body!headers, Body!written, net>>
  BY DEF Body!ReadCrlf, Body!Reads, Body!headers, Body!written
<1>r. /\ wire' = SubSeq(wire, Len(Body!Line) + 1, Len(wire))
      /\ rd' = IF Body!Line = Body!CRLF THEN "size" ELSE "true"
  BY DEF Body!ReadCrlf, Body!Takes, Body!Reads
<1>t. wire \in Seq(Body!Byte) /\ Len(wire) \in Nat /\ form = "chunked" /\ left \in 0 .. MaxBody
      /\ got \in Seq(Body!Byte) /\ \A i \in 1 .. Len(got) : got[i] = Body!Data(i)
  BY <1>0 DEF Body!TypeOK, ReaderRight
<1>1. PICK a \in Label, z \in Label : Labels(wire, a, z) /\ Here(a) /\ Sent(z)
  BY <1>0, <1>t DEF Framing
<1>2. PICK n \in Nat, k \in Nat, d \in Nat :
        a[1] = n /\ a[2] = k /\ a[3] = d /\ k = n + 3 /\ n > 0 /\ d + n = Len(got)
  BY <1>0, <1>1 DEF Here, Label
<1>5. /\ 1 <= Len(wire) => wire[1] = Body!CR
      /\ 2 <= Len(wire) => wire[2] = Body!LF
  <2>1. 1 <= Len(wire) => wire[0 + 1] = FrameByte(a[1], a[2] + 0, a[3])
    <3>1. 1 <= Len(wire) => 0 \in 0 .. Len(wire) /\ 0 < Len(wire) BY <1>t
    <3>2. SameFrame(a[1], a[2], 0) BY <1>2 DEF SameFrame
    <3> QED BY <1>t, <1>1, <3>1, <3>2, HeadIs
  <2>2. 2 <= Len(wire) => wire[1 + 1] = FrameByte(a[1], a[2] + 1, a[3])
    <3>1. 2 <= Len(wire) => 1 \in 0 .. Len(wire) /\ 1 < Len(wire) BY <1>t
    <3>2. SameFrame(a[1], a[2], 1) BY <1>2 DEF SameFrame
    <3> QED BY <1>t, <1>1, <3>1, <3>2, HeadIs
  <2>3. 0 + 1 = 1 /\ 1 + 1 = 2 /\ a[2] + 0 = n + 3 /\ a[2] + 1 = n + 4 BY <1>2
  <2>4. a[1] = n /\ a[3] = d BY <1>2
  <2>5. FrameByte(n, n + 3, d) = Body!CR /\ FrameByte(n, n + 4, d) = Body!LF BY BytesOfFrame
  <2> QED BY ONLY <2>1, <2>2, <2>3, <2>4, <2>5, Zenon
<1>6. /\ Len(Body!Line) \in 1 .. Len(wire)
      /\ 2 <= Len(wire) => Body!Line = Body!CRLF /\ Len(Body!Line) = 2
      /\ 2 > Len(wire) => Len(wire) = 1 /\ Len(Body!Line) = 1 /\ Body!Line # Body!CRLF /\ net # "up"
  BY <1>0, <1>t, <1>5, CrlfIs
<1>v. wire' \in Seq(Body!Byte) /\ Len(wire') = Len(wire) - Len(Body!Line)
      /\ \A i \in 1 .. Len(wire) - Len(Body!Line) : wire'[i] = wire[Len(Body!Line) + i]
  <2>1. Len(Body!Line) \in 0 .. Len(wire) BY <1>6
  <2> QED BY <1>r, <1>t, <2>1, Rest
<1>7. CASE 2 <= Len(wire)
  <2>1. rd' = "size" BY <1>r, <1>6, <1>7
  <2>2. Body!TypeOK' BY <1>0, <1>v, <2>1 DEF Body!TypeOK
  <2>3. Framing'
    <3>1. 2 \in 0 .. Len(wire) /\ 2 > 0 /\ a[1] > 0 /\ a[2] + 2 = a[1] + 5
      BY <1>t, <1>2, <1>7
    <3>2. Len(wire') = Len(wire) - 2 /\ \A i \in 1 .. Len(wire) - 2 : wire'[i] = wire[2 + i]
      BY <1>v, <1>6, <1>7
    <3>3. PICK y \in Label : Labels(wire', y, z) /\ y[2] = 0 /\ y[3] = a[3] + a[1]
      <4>1. PICK w \in Seq(Body!Byte) : w = wire BY <1>t
      <4>2. Labels(w, a, z) /\ Len(w) \in Nat BY <1>1, <4>1
      <4>3. Len(wire') = Len(w) - 2 /\ \A i \in 1 .. Len(w) - 2 : wire'[i] = w[2 + i]
        BY ONLY <3>2, <4>1, Zenon
      <4>4. 2 \in 0 .. Len(w) /\ 2 > 0 /\ a[1] > 0 /\ a[2] + 2 = a[1] + 5 BY <3>1, <4>1
      <4>5. PICK m \in Nat : m = 2 OBVIOUS
      <4>6. m > 0 /\ a[1] > 0 /\ a[2] + m = a[1] + 5
        BY ONLY <4>4, <4>5, Zenon
      <4>a. m \in 0 .. Len(w)
        BY ONLY <4>4, <4>5, Zenon
      <4>7. Len(wire') = Len(w) - m /\ \A i \in 1 .. Len(w) - m : wire'[i] = w[m + i]
        BY ONLY <4>3, <4>5, Zenon
      <4>8. PICK y \in Label :
              /\ Labels(wire', y, z)
              /\ m > 0 /\ a[1] > 0 /\ a[2] + m = a[1] + 5 => y[2] = 0 /\ y[3] = a[3] + a[1]
        BY ONLY <4>2, <4>a, <4>7, Dropped
      <4> QED BY ONLY <4>6, <4>8, Zenon
    <3>4. Here(y)' BY <1>0, <1>2, <2>1, <3>3 DEF Here
    <3>5. Sent(z)' BY <1>0, <1>1 DEF Sent, Lost
    <3> QED BY <3>3, <3>4, <3>5 DEF Framing
  <2>4. Plain' BY <1>0, <1>t DEF Plain
  <2>5. WriterRight' BY <1>0 DEF WriterRight
  <2>6. ReaderRight' BY <1>0, <1>t, <2>1 DEF ReaderRight
  <2> QED BY <2>2, <2>3, <2>4, <2>5, <2>6
<1>8. CASE 2 > Len(wire)
  <2>1. Len(wire) = 1 /\ Len(Body!Line) = 1 /\ Body!Line # Body!CRLF /\ net # "up" BY <1>6, <1>8
  <2>2. rd' = "true" BY <1>r, <2>1
  <2>3. wire' = <<>>
    <3>1. Len(wire') = 0 BY <1>v, <2>1
    <3> QED BY <3>1, <1>v
  <2> QED BY <1>0, <1>t, <1>v, <2>1, <2>2, <2>3, ReaderReturns
<1> QED BY <1>7, <1>8, <1>t

\* A chunked body whose connection was closed before its last byte came.
LEMMA ClosedForReason ==
    ASSUME BodyInv, form = "chunked", net # "up", NEW z \in Label, Sent(z),
           ~(z[1] = 0 /\ z[2] = 5)
    PROVE  Body!Disturbed
<1> SUFFICES ASSUME ~Body!Disturbed PROVE FALSE
  OBVIOUS
<1>1. net = "closed" /\ ~stopping /\ disturbed = {}
  BY DEF Body!Disturbed, BodyInv, Body!TypeOK
<1>2. wr = "true"
  BY <1>1 DEF BodyInv, Body!TypeOK, WriterRight
<1>3. ~available
  BY <1>1, <1>2 DEF BodyInv, WriterRight
<1>4. ~Lost
  BY <1>1, <1>2 DEF Lost
<1>5. z[1] = 0 /\ z[2] = 5
  BY <1>1, <1>3, <1>4 DEF Sent
<1> QED BY <1>5

LEMMA ReadTrailerKeeps ==
    ASSUME Body!BodyAssumption, BodyInv, Body!ReadTrailer
    PROVE  BodyInv'
<1> USE DEF BodyInv
<1>0. rd = "trailer" /\ Body!Line # <<>>
      /\ UNCHANGED <<form, size, encoded, offset, available, wr, stopping, net, left, got, disturbed>>
      /\ UNCHANGED <<Body!headers, Body!written, net>>
  BY DEF Body!ReadTrailer, Body!Reads, Body!headers, Body!written
<1>r. /\ wire' = SubSeq(wire, Len(Body!Line) + 1, Len(wire))
      /\ rd' = IF Body!Line = Body!CRLF THEN "true" ELSE "400"
  BY DEF Body!ReadTrailer, Body!Takes, Body!Reads
<1>t. wire \in Seq(Body!Byte) /\ Len(wire) \in Nat /\ form = "chunked" /\ left \in 0 .. MaxBody
      /\ got \in Seq(Body!Byte) /\ \A i \in 1 .. Len(got) : got[i] = Body!Data(i)
  BY <1>0 DEF Body!TypeOK, ReaderRight
<1>1. PICK a \in Label, z \in Label : Labels(wire, a, z) /\ Here(a) /\ Sent(z)
  BY <1>0, <1>t DEF Framing
<1>2. PICK d \in Nat : a[1] = 0 /\ a[2] = 3 /\ a[3] = d /\ d = Len(got)
  BY <1>0, <1>1 DEF Here, Label
<1>5. /\ 1 <= Len(wire) => wire[1] = Body!CR
      /\ 2 <= Len(wire) => wire[2] = Body!LF
  <2>1. 1 <= Len(wire) => wire[0 + 1] = FrameByte(a[1], a[2] + 0, a[3])
    <3>1. 1 <= Len(wire) => 0 \in 0 .. Len(wire) /\ 0 < Len(wire) BY <1>t
    <3>2. SameFrame(a[1], a[2], 0) BY <1>2 DEF SameFrame
    <3> QED BY <1>t, <1>1, <3>1, <3>2, HeadIs
  <2>2. 2 <= Len(wire) => wire[1 + 1] = FrameByte(a[1], a[2] + 1, a[3])
    <3>1. 2 <= Len(wire) => 1 \in 0 .. Len(wire) /\ 1 < Len(wire) BY <1>t
    <3>2. SameFrame(a[1], a[2], 1) BY <1>2 DEF SameFrame
    <3> QED BY <1>t, <1>1, <3>1, <3>2, HeadIs
  <2>3. 0 + 1 = 1 /\ 1 + 1 = 2 /\ a[2] + 0 = 0 + 3 /\ a[2] + 1 = 0 + 4 BY <1>2
  <2>4. a[1] = 0 /\ a[3] = d BY <1>2
  <2>5. FrameByte(0, 0 + 3, d) = Body!CR /\ FrameByte(0, 0 + 4, d) = Body!LF BY BytesOfFrame
  <2> QED BY ONLY <2>1, <2>2, <2>3, <2>4, <2>5, Zenon
<1>6. /\ Len(Body!Line) \in 1 .. Len(wire)
      /\ 2 <= Len(wire) => Body!Line = Body!CRLF /\ Len(Body!Line) = 2
      /\ 2 > Len(wire) => Len(wire) = 1 /\ Len(Body!Line) = 1 /\ Body!Line # Body!CRLF /\ net # "up"
  BY <1>0, <1>t, <1>5, CrlfIs
<1>v. wire' \in Seq(Body!Byte) /\ Len(wire') = Len(wire) - Len(Body!Line)
      /\ \A i \in 1 .. Len(wire) - Len(Body!Line) : wire'[i] = wire[Len(Body!Line) + i]
  <2>1. Len(Body!Line) \in 0 .. Len(wire) BY <1>6
  <2> QED BY <1>r, <1>t, <2>1, Rest
<1>w. PICK w \in Seq(Body!Byte) : w = wire
  BY <1>t
<1>m. PICK m \in Nat : m = Len(Body!Line)
  BY <1>6
<1>n. m \in 0 .. Len(w)
  BY <1>6, <1>w, <1>m
<1>x. Labels(w, a, z) /\ Len(w) \in Nat
  BY <1>1, <1>w
<1>y. Len(wire') = Len(w) - m /\ \A i \in 1 .. Len(w) - m : wire'[i] = w[m + i]
  BY ONLY <1>v, <1>w, <1>m, Zenon
<1>7. CASE 2 <= Len(wire)
  <2>1. rd' = "true" BY <1>r, <1>6, <1>7
  <2>2. SameFrame(a[1], a[2], m)
    BY <1>2, <1>6, <1>7, <1>m DEF SameFrame
  <2>3. PICK y \in Label : Labels(wire', y, z) /\ y = <<a[1], a[2] + m, a[3]>>
    BY ONLY <1>x, <1>n, <1>y, <2>2, Dropped
  <2>4. y[1] = 0 /\ y[2] = 5 /\ y[3] = d
    <3>1. y[1] = a[1] /\ y[2] = a[2] + m /\ y[3] = a[3] BY ONLY <2>3
    <3>2. m = 2 BY <1>6, <1>7, <1>m
    <3>3. 3 + 2 = 5 OBVIOUS
    <3> QED BY ONLY <1>2, <3>1, <3>2, <3>3, Zenon
  <2>5. wire' = <<>>
    <3>1. PICK v \in Seq(Body!Byte) : v = wire' BY <1>v
    <3>2. Labels(v, y, z) /\ Len(v) \in Nat BY <2>3, <3>1
    <3>3. PICK l \in Nat : l = 0 OBVIOUS
    <3>4. SameFrame(y[1], y[2], l) /\ l \in 0 .. Len(v)
      BY <2>4, <3>2, <3>3 DEF SameFrame
    <3>5. l < Len(v) => y[2] + l <= y[1] + 4
      BY ONLY <3>2, <3>4, HeadIs
    <3>6. Len(v) = 0 BY <2>4, <3>2, <3>3, <3>5
    <3> QED BY <3>1, <3>6
  <2>6. y = z
    <3>1. Len(wire') = 0 BY <2>5
    <3> QED BY <2>3, <3>1, Nothing
  <2>7. ~available /\ "empty" \notin disturbed /\ wr # "false" /\ offset = d
    BY <1>1, <2>4, <2>6 DEF Sent
  <2>8. Body!Whole'
    <3>1. got = [i \in 1 .. offset |-> Body!Data(i)]
      BY <1>t, <1>2, <2>7, GotAll
    <3> QED BY <1>0, <1>t, <2>7, <3>1 DEF Body!Whole
  <2> QED BY <1>0, <1>t, <1>v, <2>1, <2>5, <2>8, ReaderReturns
<1>8. CASE 2 > Len(wire)
  <2>1. Len(wire) = 1 /\ Len(Body!Line) = 1 /\ Body!Line # Body!CRLF /\ net # "up" BY <1>6, <1>8
  <2>2. rd' = "400" BY <1>r, <2>1
  <2>3. SameFrame(a[1], a[2], m)
    BY <1>2, <1>m, <2>1 DEF SameFrame
  <2>4. PICK y \in Label : Labels(wire', y, z) /\ y = <<a[1], a[2] + m, a[3]>>
    BY ONLY <1>x, <1>n, <1>y, <2>3, Dropped
  <2>5. y = z
    <3>1. Len(wire') = 0 BY <1>v, <2>1
    <3> QED BY <2>4, <3>1, Nothing
  <2>6. z[2] = 4
    BY <1>2, <1>m, <2>1, <2>4, <2>5
  <2>7. Body!Disturbed
    BY <1>1, <1>t, <2>1, <2>6, ClosedForReason
  <2>8. Body!Disturbed' BY <1>0, <2>7 DEF Body!Disturbed
  <2> QED BY <1>0, <1>t, <1>v, <2>2, <2>8, ReaderReturns
<1> QED BY <1>7, <1>8, <1>t

LEMMA EndsForReason ==
    ASSUME Body!BodyAssumption, BodyInv, wire = <<>>, net # "up", form # "open",
           rd \in {"data", "size", "crlf", "trailer"}
    PROVE  Body!Disturbed
<1> USE DEF BodyInv
<1>1. CASE form = "chunked"
  <2>1. PICK a \in Label, z \in Label : Labels(wire, a, z) /\ Here(a) /\ Sent(z)
    BY <1>1 DEF Framing
  <2>2. a = z
    <3>1. Len(wire) = 0 OBVIOUS
    <3> QED BY <2>1, <3>1, Nothing
  <2>3. a[1] \in Nat /\ a[2] \in Nat BY DEF Label
  <2>4. left \in Nat /\ (rd = "data" => left > 0)
    BY <1>1, Limits DEF ReaderRight, Body!TypeOK
  <2>5. ~(a[1] = 0 /\ a[2] = 5)
    BY <2>1, <2>3, <2>4 DEF Here
  <2> QED BY <1>1, <2>1, <2>2, <2>5, ClosedForReason
<1>2. CASE form # "chunked"
  <2>1. form = "length" /\ rd = "data" BY <1>2 DEF Body!TypeOK, ReaderRight
  <2> SUFFICES ASSUME ~Body!Disturbed PROVE FALSE
    OBVIOUS
  <2>2. net = "closed" /\ ~stopping /\ disturbed = {}
    BY DEF Body!Disturbed, Body!TypeOK
  <2>3. wr = "true" /\ offset = size
    BY <2>1, <2>2 DEF Body!TypeOK, WriterRight
  <2>4. ~Lost BY <2>2, <2>3 DEF Lost
  <2>5. Unread = Len(got) BY <2>1 DEF Unread
  <2>6. Unread + Len(wire) = offset /\ left = size - Len(got)
    BY <2>1, <2>4 DEF Plain
  <2>7. Len(wire) = 0 /\ Len(got) \in Nat /\ left > 0 /\ offset \in Nat
    BY <2>1 DEF Body!TypeOK, ReaderRight
  <2> QED BY <2>3, <2>5, <2>6, <2>7
<1> QED BY <1>1, <1>2

LEMMA ReadEndsKeeps ==
    ASSUME Body!BodyAssumption, BodyInv, Body!ReadEnds
    PROVE  BodyInv'
<1>0. rd \in Body!Reading /\ wire = <<>> /\ net # "up"
      /\ UNCHANGED <<form, size, encoded, offset, available, wr, stopping, net, wire, left, got,
                     disturbed>>
      /\ UNCHANGED <<Body!headers, Body!written, net>>
  BY DEF Body!ReadEnds, Body!Ended, Body!Reads, Body!headers, Body!written
<1>r. rd' = IF form = "open" THEN "true" ELSE IF rd = "skip" THEN "413" ELSE "400"
  BY DEF Body!ReadEnds, Body!Reads, Body!Fails
<1>t. wire' \in Seq(Body!Byte) /\ left' \in 0 .. MaxBody /\ got' \in Seq(Body!Byte)
      /\ \A i \in 1 .. Len(got') : got'[i] = Body!Data(i)
  BY <1>0 DEF BodyInv, Body!TypeOK, ReaderRight
<1>1. rd' = "413" => size > Limit
  BY <1>r DEF BodyInv, ReaderRight
<1>2. rd' \in {"400", "415"} => Body!Disturbed'
  <2>1. rd' \in {"400", "415"} => Body!Disturbed
    BY <1>0, <1>r, EndsForReason DEF Body!Reading
  <2>2. Body!Disturbed => Body!Disturbed' BY <1>0 DEF Body!Disturbed
  <2> QED BY <2>1, <2>2
<1>3. rd' = "true" => wire' = <<>> /\ form # "length" /\ net # "up"
  BY <1>0, <1>r
<1> QED BY <1>0, <1>r, <1>t, <1>1, <1>2, <1>3, ReaderReturns

LEMMA ReadErrorKeeps ==
    ASSUME Body!BodyAssumption, BodyInv, Body!ReadError
    PROVE  BodyInv'
<1>0. net = "cut" /\ wire' = <<>>
      /\ UNCHANGED <<form, size, encoded, offset, available, wr, stopping, net, left, got, disturbed>>
      /\ UNCHANGED <<Body!headers, Body!written, net>>
  BY DEF Body!ReadError, Body!Reads, Body!headers, Body!written
<1>r. rd' = IF rd = "skip" THEN "413" ELSE "400"
  BY DEF Body!ReadError, Body!Reads, Body!Fails
<1>t. wire' \in Seq(Body!Byte) /\ left' \in 0 .. MaxBody /\ got' \in Seq(Body!Byte)
      /\ \A i \in 1 .. Len(got') : got'[i] = Body!Data(i)
  BY <1>0 DEF BodyInv, Body!TypeOK, ReaderRight
<1>1. rd' = "413" => size > Limit
  BY <1>r DEF BodyInv, ReaderRight
<1>2. Body!Disturbed' BY <1>0 DEF Body!Disturbed
<1> QED BY <1>0, <1>r, <1>t, <1>1, <1>2, ReaderReturns

LEMMA ReadLateKeeps ==
    ASSUME Body!BodyAssumption, BodyInv, Body!ReadLate
    PROVE  BodyInv'
<1>0. /\ disturbed' = disturbed \cup {"late"}
      /\ UNCHANGED <<form, size, encoded, offset, available, wr, stopping, net, left, got>>
      /\ UNCHANGED <<Body!headers, Body!written, net>>
  BY DEF Body!ReadLate, Body!Reads, Body!headers, Body!written
<1>r. rd' = IF rd = "skip" THEN "413" ELSE "400"
  BY DEF Body!ReadLate, Body!Reads, Body!Fails
<1>w. wire' \in Seq(Body!Byte)
  <2>1. PICK n \in 0 .. Len(wire) : wire' = SubSeq(wire, n + 1, Len(wire))
    BY DEF Body!ReadLate, Body!Takes
  <2> QED BY <2>1, Rest DEF BodyInv, Body!TypeOK
<1>t. left' \in 0 .. MaxBody /\ got' \in Seq(Body!Byte)
      /\ \A i \in 1 .. Len(got') : got'[i] = Body!Data(i)
  BY <1>0 DEF BodyInv, Body!TypeOK, ReaderRight
<1>1. rd' = "413" => size > Limit
  BY <1>r DEF BodyInv, ReaderRight
<1>2. Body!Disturbed' BY <1>0 DEF Body!Disturbed
<1>3. "late" \in disturbed' BY <1>0
<1> QED BY <1>0, <1>r, <1>w, <1>t, <1>1, <1>2, <1>3, ReaderReturns

LEMMA RefuseKeeps ==
    ASSUME Body!BodyAssumption, BodyInv, Body!Refuse
    PROVE  BodyInv'
<1>0. /\ disturbed' = disturbed \cup {"refused"} /\ rd' = "400"
      /\ UNCHANGED <<form, size, encoded, offset, available, wr, stopping, net, left, got>>
      /\ UNCHANGED <<Body!headers, Body!written, net>>
  BY DEF Body!Refuse, Body!Reads, Body!headers, Body!written
<1>w. wire' \in Seq(Body!Byte)
  <2>1. PICK n \in 1 .. Len(wire) : wire' = SubSeq(wire, n + 1, Len(wire))
    BY DEF Body!Refuse, Body!Takes
  <2>2. n \in 0 .. Len(wire) /\ wire \in Seq(Body!Byte) BY DEF BodyInv, Body!TypeOK
  <2> QED BY <2>1, <2>2, Rest
<1>t. left' \in 0 .. MaxBody /\ got' \in Seq(Body!Byte)
      /\ \A i \in 1 .. Len(got') : got'[i] = Body!Data(i)
  BY <1>0 DEF BodyInv, Body!TypeOK, ReaderRight
<1>1. Body!Disturbed' BY <1>0 DEF Body!Disturbed
<1> QED BY <1>0, <1>w, <1>t, <1>1, ReaderReturns

LEMMA BodyStutters ==
    ASSUME BodyInv, UNCHANGED Body!vars
    PROVE  BodyInv'
<1> USE DEF BodyInv
<1>0. UNCHANGED <<form, size, encoded, offset, available, wr, stopping, net, wire, rd, left, got,
                  disturbed>>
  BY DEF Body!vars, Body!headers, Body!written
<1>1. Body!TypeOK'
  BY <1>0 DEF Body!TypeOK
<1>2. Framing'
  <2>1. \A z \in Label : Sent(z) => Sent(z)' BY <1>0 DEF Sent, Lost
  <2> QED BY <1>0, <2>1, FramingKept
<1>3. Plain'
  <2>1. form = "length" /\ wr' = "false" => offset < size \/ wr = "false" BY <1>0
  <2>2. Lost => Lost' BY <1>0 DEF Lost
  <2> QED BY <1>0, <2>1, <2>2, PlainKept
<1>4. WriterRight'
  BY <1>0 DEF WriterRight
<1>5. ReaderRight'
  BY <1>0 DEF ReaderRight, Body!Whole, Body!Disturbed
<1> QED BY <1>1, <1>2, <1>3, <1>4, <1>5

LEMMA BodyNext ==
    ASSUME Body!BodyAssumption, BodyInv, [Body!Next]_(Body!vars)
    PROVE  BodyInv'
<1>1. CASE Body!Done BY <1>1, DoneKeeps
<1>2. CASE \E n \in 1 .. MaxPiece : Body!Write(n) BY <1>2, WriteKeeps
<1>3. CASE Body!WriteEmpty BY <1>3, WriteEmptyKeeps
<1>4. CASE Body!Cancel BY <1>4, CancelKeeps
<1>5. CASE \E n \in 1 .. MaxPiece : Body!WriteFails(n) BY <1>5, WriteFailsKeeps
<1>6. CASE Body!LoopEnds BY <1>6, LoopEndsKeeps
<1>7. CASE Body!Stop BY <1>7, StopKeeps
<1>8. CASE Body!Close BY <1>8, CloseKeeps
<1>9. CASE Body!Cut BY <1>9, CutKeeps
<1>10. CASE Body!Begin BY <1>10, BeginKeeps
<1>11. CASE Body!ReadData BY <1>11, ReadDataKeeps
<1>12. CASE Body!Skip BY <1>12, SkipKeeps
<1>13. CASE Body!ReadSize BY <1>13, ReadSizeKeeps
<1>14. CASE Body!ReadCrlf BY <1>14, ReadCrlfKeeps
<1>15. CASE Body!ReadTrailer BY <1>15, ReadTrailerKeeps
<1>16. CASE Body!ReadEnds BY <1>16, ReadEndsKeeps
<1>17. CASE Body!ReadError BY <1>17, ReadErrorKeeps
<1>18. CASE Body!Refuse BY <1>18, RefuseKeeps
<1>19. CASE Body!ReadLate BY <1>19, ReadLateKeeps
<1>20. CASE UNCHANGED Body!vars BY <1>20, BodyStutters
<1> QED BY <1>1, <1>2, <1>3, <1>4, <1>5, <1>6, <1>7, <1>8, <1>9, <1>10, <1>11, <1>12, <1>13,
           <1>14, <1>15, <1>16, <1>17, <1>18, <1>19, <1>20 DEF Body!Next, Body!Provider, Body!Reader

LEMMA BodyInvMeans ==
    ASSUME Body!BodyAssumption, BodyInv
    PROVE  Body!SuccessIsWhole /\ Body!LeavesNothing /\ Body!FailsForReason
<1> USE DEF BodyInv
<1>1. Body!SuccessIsWhole
  BY DEF Body!SuccessIsWhole, Body!TypeOK, ReaderRight
<1>2. Body!LeavesNothing
  BY DEF Body!LeavesNothing, ReaderRight
<1>3. Body!FailsForReason
  BY DEF Body!FailsForReason, ReaderRight, Body!Disturbed
<1> QED BY <1>1, <1>2, <1>3

\* For any length and chunks, and however the network cuts the body into reads: the
\* receiver gets the provider's bytes in their order and none of the framing's, a body
\* reported as read is the whole body but for the two ends that read_content() cannot tell
\* from it, nothing of a body that was read is left for the next message, and a body is
\* refused only for a reason.
THEOREM BodiesAreWhole ==
    Body!BodyAssumption =>
      (Body!Spec => [](Body!SuccessIsWhole /\ Body!LeavesNothing /\ Body!FailsForReason))
<1> SUFFICES ASSUME Body!BodyAssumption
             PROVE  Body!Spec =>
                      [](Body!SuccessIsWhole /\ Body!LeavesNothing /\ Body!FailsForReason)
  OBVIOUS
<1>1. Body!Init => BodyInv
  BY BodyStarts
<1>2. BodyInv /\ [Body!Next]_(Body!vars) => BodyInv'
  BY BodyNext
<1>3. BodyInv => Body!SuccessIsWhole /\ Body!LeavesNothing /\ Body!FailsForReason
  BY BodyInvMeans
<1> QED BY <1>1, <1>2, <1>3, PTL DEF Body!Spec
=============================================================================
