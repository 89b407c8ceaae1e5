-------------------------- MODULE ConnectionProofs --------------------------
(***************************************************************************)
(* How a connection is made and used: the requests that one connection of  *)
(* HttpRouting carries stay in step, for any scripts of the client, the    *)
(* descriptors of Sockets have one owner each, for any number of threads,  *)
(* descriptors, addresses and calls, the answers of HttpAnswer are as long *)
(* as they say, for any ranges and sizes, and the calls of HttpCalls reach *)
(* the handler that is for them, for any handlers, mounts and contents.    *)
(***************************************************************************)
EXTENDS HttpRouting, FiniteSetTheorems, SequenceTheorems, TLAPS

Status == {100, 200, 400, 401, 404, 417, 500}
HeadOf(i) == <<"head", i>>
BodyOf(i) == <<"body", i>>
OnWire(x) == \E n \in 1 .. Len(wire) : wire[n] = x

\* What is on the wire is the head behind the request that the worker is at, if the client
\* has sent it, and bodies, each at most once, and none before its head.
Wire ==
    /\ wire \in Seq({"head", "body"} \X Nat)
    /\ head \in {cur, cur + 1}
    /\ \A n \in 1 .. Len(wire) :
        \/ wire[n] = HeadOf(cur + 1) /\ head = cur + 1
        \/ \E j \in 1 .. head : wire[n] = BodyOf(j) /\ HasBody(script[j])
    /\ \A m, n \in 1 .. Len(wire) : wire[m] = wire[n] => m = n
    /\ \A n \in 1 .. Len(wire) : wire[n] = BodyOf(cur + 1) => n > 1 /\ wire[n - 1] = HeadOf(cur + 1)
    /\ owes => /\ head > 0 /\ HasBody(script[head]) /\ ~OnWire(BodyOf(head))
               /\ head = cur + 1 => wire # <<>> /\ wire[Len(wire)] = HeadOf(head)

Active == {"routing", "reader", "content", "handler"}

\* The client waits for a final answer, which a request has when the worker is done
\* with it, and before only with 417.
Answered ==
    /\ answers \in Seq([req : Nat, status : Status])
    /\ \A n \in 1 .. Len(answers) : answers[n].req \in 1 .. cur
    /\ OneAnswer
    /\ at \in Active \cup {"head", "terminated"} => cur > 0
    /\ at = "head" => Finals(cur) = {}
    /\ at \in Active /\ Finals(cur) # {} => r.expect = "417" /\ Cardinality(Finals(cur)) = 1
    /\ head = cur + 1 /\ cur > 0 => Finals(cur) # {}

Unread == OnWire(BodyOf(cur)) \/ (owes /\ head = cur)

\* A body that is unread when the worker is done with its request is one of Leaves.
Settled ==
    /\ at \in {"keep", "closed", "handler"} /\ cur > 0 /\ Unread => Leaves(cur)
    /\ at \in {"head", "routing"} => reads = 0
    /\ at = "reader" /\ reads > 0 /\ Unread => Leaves(cur)
    /\ \A i \in 1 .. cur : i < cur /\ OnWire(BodyOf(i)) => Leaves(i)
    /\ at = "lost" => \E i \in 1 .. cur : Leaves(i)

Routed ==
    /\ at = "reader" => Reader /\ ~Pre
    /\ at = "content" => Expects
    /\ StaysUp

Typed == TypeOK /\ script \in Seq(Request)

\* What StaysUp says of the request whose exception ends the process.
Escapes ==
    \/ r.throws \in {"pre", "error", "post", "log"}
    \/ r.throws \in {"file", "reader"} /\ Dispatched(r, r.throws)
    \/ r.throws = "expect" /\ r.expect # "no"

RoutingInv == Typed /\ Wire /\ Answered /\ Settled /\ Routed

-----------------------------------------------------------------------------
(* Of the definitions. *)

LEMMA Elements ==
  ASSUME NEW S, NEW s \in Seq(S)
  PROVE  Len(s) \in Nat /\ \A n \in 1 .. Len(s) : s[n] \in S
OBVIOUS

LEMMA Current ==
  ASSUME Typed, Wire, cur > 0
  PROVE  /\ cur \in 1 .. Len(script) /\ cur \in 1 .. head /\ 1 .. cur \subseteq 1 .. head
         /\ r \in Request /\ r = script[cur]
<1>1. head \in 0 .. Len(script) /\ cur \in 0 .. head /\ Len(script) \in Nat
  BY DEF Typed, TypeOK
<1>2. cur \in 1 .. Len(script) /\ cur \in 1 .. head /\ 1 .. cur \subseteq 1 .. head
  BY <1>1
<1> QED BY <1>2 DEF Typed, r

LEMMA LeavesStays ==
  ASSUME script' = script, late \subseteq late', NEW i, Leaves(i)
  PROVE  Leaves(i)'
BY DEF Leaves, HasBody, Dispatched

LEMMA FinalsFinite ==
  ASSUME answers \in Seq([req : Nat, status : Status]), NEW i
  PROVE  IsFiniteSet(Finals(i)) /\ Cardinality(Finals(i)) \in Nat
         /\ (Finals(i) = {} <=> Cardinality(Finals(i)) = 0)
<1>1. Len(answers) \in Nat /\ Finals(i) \subseteq 1 .. Len(answers)
  BY DEF Finals
<1>2. IsFiniteSet(1 .. Len(answers))
  BY <1>1, FS_Interval
<1>3. IsFiniteSet(Finals(i))
  BY <1>1, <1>2, FS_Subset
<1> QED BY <1>3, FS_CardinalityType, FS_EmptySet

\* One more answer to the request that the worker is at.
LEMMA FinalsMore ==
  ASSUME answers \in Seq([req : Nat, status : Status]), cur \in Nat, cur' = cur,
         NEW status \in Status, Answers(status)
  PROVE  /\ answers' \in Seq([req : Nat, status : Status])
         /\ \A n \in 1 .. Len(answers') :
                \/ answers'[n].req = cur
                \/ n \in 1 .. Len(answers) /\ answers'[n] = answers[n]
         /\ \A i : i # cur => Finals(i)' = Finals(i)
         /\ status = 100 => Finals(cur)' = Finals(cur)
         /\ status # 100 => Cardinality(Finals(cur)') = Cardinality(Finals(cur)) + 1
<1> DEFINE a == [req |-> cur, status |-> status]
           k == Len(answers) + 1
<1>1. a \in [req : Nat, status : Status] /\ answers' = Append(answers, a)
  BY DEF Answers
<1>2. a.req = cur /\ a.status = status
  OBVIOUS
<1> HIDE DEF a
<1>3. answers' \in Seq([req : Nat, status : Status]) /\ Len(answers') = k
      /\ k \notin 1 .. Len(answers) /\ 1 .. k = (1 .. Len(answers)) \cup {k}
  BY <1>1
<1>4. answers'[k] = a /\ \A n \in 1 .. Len(answers) : answers'[n] = answers[n]
  BY <1>1
<1> HIDE DEF k
<1> DEFINE F(i) == {n \in 1 .. Len(answers') : answers'[n].req = i /\ answers'[n].status # 100}
<1>5. \A i : F(i) = Finals(i) \cup {n \in {k} : i = cur /\ status # 100}
  BY <1>2, <1>3, <1>4 DEF Finals
<1>50. Finals(cur)' = F(cur) /\ \A i : Finals(i)' = F(i)
  BY DEF Finals
<1> HIDE DEF F
<1>6. ASSUME status # 100 PROVE Cardinality(Finals(cur)') = Cardinality(Finals(cur)) + 1
  <2>1. Finals(cur)' = Finals(cur) \cup {k}
    BY <1>5, <1>50, <1>6
  <2>3. k \notin Finals(cur)
    BY <1>3 DEF Finals
  <2>2. IsFiniteSet(Finals(cur))
    BY FinalsFinite
  <2> QED BY <2>1, <2>2, <2>3, FS_AddElement
<1>7. \A n \in 1 .. Len(answers') :
          \/ answers'[n].req = cur
          \/ n \in 1 .. Len(answers) /\ answers'[n] = answers[n]
  BY <1>2, <1>3, <1>4
<1> QED BY <1>3, <1>5, <1>50, <1>6, <1>7

LEMMA UnreadHasBody ==
  ASSUME Wire, Unread, cur \in Nat
  PROVE  HasBody(script[cur])
<1>1. CASE owes /\ head = cur
  BY <1>1 DEF Wire
<1>2. CASE OnWire(BodyOf(cur))
  <2>1. PICK n \in 1 .. Len(wire) : wire[n] = BodyOf(cur)
    BY <1>2 DEF OnWire
  <2>2. wire[n] # HeadOf(cur + 1)
    BY <2>1 DEF HeadOf, BodyOf
  <2>3. PICK j \in 1 .. head : wire[n] = BodyOf(j) /\ HasBody(script[j])
    BY <2>2 DEF Wire
  <2> QED BY <2>1, <2>3 DEF BodyOf
<1> QED BY <1>1, <1>2 DEF Unread

-----------------------------------------------------------------------------
(* What the steps of the worker have in common. *)

Consumes == wire # <<>> /\ wire[1] = BodyOf(cur) /\ wire' = Tail(wire)

LEMMA TailOf ==
  ASSUME wire \in Seq({"head", "body"} \X Nat), wire # <<>>, wire' = Tail(wire)
  PROVE  /\ wire' \in Seq({"head", "body"} \X Nat)
         /\ Len(wire) \in Nat \ {0} /\ Len(wire') = Len(wire) - 1
         /\ \A n \in 1 .. Len(wire') : n + 1 \in 1 .. Len(wire) /\ wire'[n] = wire[n + 1]
         /\ wire' # <<>> => wire'[Len(wire')] = wire[Len(wire)]
OBVIOUS

LEMMA WireKept ==
  ASSUME Typed, Wire, UNCHANGED <<script, head, owes, cur>>, wire' = wire \/ Consumes
  PROVE  /\ Wire'
         /\ \A x : OnWire(x)' => OnWire(x)
         /\ Consumes => ~Unread'
<1>0. cur \in Nat /\ head \in Nat
  BY DEF Typed, TypeOK
<1>1. CASE wire' = wire /\ ~Consumes
  BY <1>1 DEF Wire, OnWire
<1>2. CASE Consumes
  <2>0. wire # <<>> /\ wire[1] = BodyOf(cur) /\ wire' = Tail(wire)
    BY <1>2 DEF Consumes
  <2>1. wire \in Seq({"head", "body"} \X Nat)
    BY DEF Wire
  <2>2. /\ wire' \in Seq({"head", "body"} \X Nat)
        /\ Len(wire) \in Nat \ {0} /\ Len(wire') = Len(wire) - 1
        /\ \A n \in 1 .. Len(wire') : n + 1 \in 1 .. Len(wire) /\ wire'[n] = wire[n + 1]
        /\ wire' # <<>> => wire'[Len(wire')] = wire[Len(wire)]
    BY <2>0, <2>1, TailOf
  <2>3. \A x : OnWire(x)' => OnWire(x)
    BY <2>2 DEF OnWire
  <2>4. ~OnWire(BodyOf(cur))'
    <3> SUFFICES ASSUME NEW n \in 1 .. Len(wire'), wire'[n] = BodyOf(cur) PROVE FALSE
      BY <1>0 DEF OnWire, BodyOf
    <3>1. n + 1 \in 1 .. Len(wire) /\ wire'[n] = wire[n + 1]
      BY <2>2
    <3>2. wire[n + 1] = wire[1]
      BY <2>0, <3>1
    <3>3. 1 \in 1 .. Len(wire)
      BY <2>2
    <3>4. n + 1 = 1
      BY <3>1, <3>2, <3>3 DEF Wire
    <3>5. n \in Nat /\ n >= 1
      BY <2>2
    <3> QED BY <3>4, <3>5
  <2>5. OnWire(BodyOf(cur))
    <3>1. 1 \in 1 .. Len(wire)
      BY <2>2
    <3> QED BY <2>0, <3>1 DEF OnWire
  <2>6. ~(owes /\ head = cur)
    BY <2>5 DEF Wire
  <2>7. ~Unread'
    BY <2>4, <2>6 DEF Unread, BodyOf
  <2>8. \A n \in 1 .. Len(wire') :
          \/ wire'[n] = HeadOf(cur + 1) /\ head = cur + 1
          \/ \E j \in 1 .. head : wire'[n] = BodyOf(j) /\ HasBody(script[j])
    <3>1. \A n \in 1 .. Len(wire) :
            \/ wire[n] = HeadOf(cur + 1) /\ head = cur + 1
            \/ \E j \in 1 .. head : wire[n] = BodyOf(j) /\ HasBody(script[j])
      BY DEF Wire
    <3> QED BY <2>2, <3>1
  <2>9. \A m, n \in 1 .. Len(wire') : wire'[m] = wire'[n] => m = n
    <3> SUFFICES ASSUME NEW m \in 1 .. Len(wire'), NEW n \in 1 .. Len(wire'),
                        wire'[m] = wire'[n]
                 PROVE  m = n
      OBVIOUS
    <3>0. m + 1 \in 1 .. Len(wire) /\ n + 1 \in 1 .. Len(wire) /\ wire[m + 1] = wire[n + 1]
      BY <2>2
    <3>1. m + 1 = n + 1
      BY <3>0 DEF Wire
    <3> QED BY <2>2, <3>1
  <2>10. \A n \in 1 .. Len(wire') : wire'[n] = BodyOf(cur + 1) => n > 1 /\ wire'[n - 1] = HeadOf(cur + 1)
    <3> SUFFICES ASSUME NEW n \in 1 .. Len(wire'), wire'[n] = BodyOf(cur + 1)
                 PROVE  n > 1 /\ wire'[n - 1] = HeadOf(cur + 1)
      OBVIOUS
    <3>1. n + 1 \in 1 .. Len(wire) /\ wire[n + 1] = BodyOf(cur + 1) /\ (n + 1) - 1 = n
      BY <2>2
    <3>2. wire[n] = HeadOf(cur + 1)
      BY <3>1 DEF Wire
    <3>3. n # 1
      BY <2>0, <3>2 DEF HeadOf, BodyOf
    <3>4. n > 1 /\ n - 1 \in 1 .. Len(wire') /\ (n - 1) + 1 = n
      BY <2>2, <3>3
    <3> QED BY <2>2, <3>2, <3>4
  <2>11. owes => /\ head > 0 /\ HasBody(script[head]) /\ ~OnWire(BodyOf(head))'
                 /\ head = cur + 1 => wire' # <<>> /\ wire'[Len(wire')] = HeadOf(head)
    <3> SUFFICES ASSUME owes PROVE
             /\ head > 0 /\ HasBody(script[head]) /\ ~OnWire(BodyOf(head))'
             /\ head = cur + 1 => wire' # <<>> /\ wire'[Len(wire')] = HeadOf(head)
      OBVIOUS
    <3>1. head > 0 /\ HasBody(script[head]) /\ ~OnWire(BodyOf(head))
          /\ (head = cur + 1 => wire # <<>> /\ wire[Len(wire)] = HeadOf(head))
      BY DEF Wire
    <3>2. ~OnWire(BodyOf(head))'
      BY <2>3, <3>1 DEF BodyOf
    <3>3. ASSUME head = cur + 1 PROVE wire' # <<>>
      <4>1. wire[Len(wire)] # wire[1]
        BY <2>0, <3>1, <3>3 DEF HeadOf, BodyOf
      <4>2. Len(wire') # 0
        BY <2>2, <4>1
      <4> QED BY <4>2
    <3> QED BY <2>2, <3>1, <3>2, <3>3
  <2>12. Wire'
    BY <2>2, <2>8, <2>9, <2>10, <2>11 DEF Wire, HasBody, HeadOf, BodyOf
  <2> QED BY <2>3, <2>7, <2>12
<1> QED BY <1>1, <1>2

LEMMA SettledKept ==
  ASSUME Settled, UNCHANGED <<client, cur>>, late \subseteq late', cur \in Nat,
         \A x : OnWire(x)' => OnWire(x),
         at' \in {"head", "routing"} => reads' = 0,
         at' \in {"keep", "closed", "handler"} /\ cur > 0 /\ Unread' => Leaves(cur)',
         at' = "reader" /\ reads' > 0 /\ Unread' => Leaves(cur)',
         at' = "lost" => \E i \in 1 .. cur : Leaves(i)
  PROVE  Settled'
<1>1. \A i \in 1 .. cur : i < cur /\ OnWire(BodyOf(i))' => Leaves(i)'
  BY LeavesStays DEF Settled, client, BodyOf
<1>2. at' = "lost" => \E i \in 1 .. cur : Leaves(i)'
  BY LeavesStays DEF client
<1>3. \A i : OnWire(BodyOf(i))' = (\E n \in 1 .. Len(wire') : wire'[n] = BodyOf(i))
  BY DEF OnWire, BodyOf
<1> QED BY <1>1, <1>2 DEF Settled, BodyOf

\* The worker has read what it can of the body of its request.
LEMMA AfterReading ==
  ASSUME RoutingInv, cur > 0, Expects, UNCHANGED <<client, cur>>, Nothing \/ Own \/ Late
  PROVE  /\ wire' = wire \/ Consumes
         /\ late \subseteq late' /\ late' \subseteq late \cup {cur}
         /\ Unread' => Leaves(cur)'
<1>1. r = script[cur] /\ r.method \in {"POST", "DELETE"} /\ cur \in Nat
  BY Current DEF RoutingInv, Typed, TypeOK, Expects, r
<1>2. Typed /\ Wire
  BY DEF RoutingInv
<1>3. CASE Nothing
  <2>1. wire' = wire /\ late' = late /\ ReadsNothing
    BY <1>3 DEF Nothing
  <2>2. Unread' => Unread
    BY <2>1 DEF Unread, OnWire, BodyOf, client
  <2>3. ASSUME Unread PROVE Leaves(cur)'
    <3>1. HasBody(script[cur])
      BY <1>1, <1>2, <2>3, UnreadHasBody
    <3>2. r.method = "DELETE" /\ r.body = "chunked"
      BY <1>1, <2>1, <3>1 DEF ReadsNothing, HasBody
    <3> QED BY <1>1, <2>1, <3>1, <3>2 DEF Leaves, HasBody, client
  <2> QED BY <2>1, <2>2, <2>3
<1>4. CASE Own
  <2>1. late' = late /\ wire # <<>> /\ wire[1] = BodyOf(cur)
    BY <1>4 DEF Own, BodyOf
  <2>2. CASE r.body = "refused"
    <3>1. wire' = wire
      BY <1>4, <2>2 DEF Own
    <3>2. HasBody(r)
      BY <2>2 DEF HasBody
    <3> QED BY <1>1, <2>1, <2>2, <3>1, <3>2 DEF Leaves, HasBody, client
  <2>3. CASE r.body # "refused"
    <3>1. Consumes
      BY <1>4, <2>1, <2>3 DEF Own, Consumes
    <3> QED BY <1>2, <2>1, <3>1, WireKept DEF client
  <2> QED BY <2>2, <2>3
<1>5. CASE Late
  <2>1. wire' = wire /\ late' = late \cup {cur}
    BY <1>5 DEF Late
  <2>2. Unread' => Unread
    BY <2>1 DEF Unread, OnWire, BodyOf, client
  <2>3. ASSUME Unread PROVE Leaves(cur)'
    <3>1. HasBody(script[cur])
      BY <1>1, <1>2, <2>3, UnreadHasBody
    <3> QED BY <2>1, <3>1 DEF Leaves, HasBody, client
  <2> QED BY <2>1, <2>2, <2>3
<1> QED BY <1>3, <1>4, <1>5

\* What the worker takes for the body of its request without its being so.
LEMMA ForeignLeft ==
  ASSUME RoutingInv, at \in {"reader", "content"}, Foreign
  PROVE  \E i \in 1 .. cur : Leaves(i)
<1>1. cur > 0 /\ Expects
  BY DEF RoutingInv, Answered, Active, Routed, Reader
<1>2. cur \in 1 .. Len(script) /\ cur \in 1 .. head /\ r \in Request /\ r = script[cur]
  BY <1>1, Current DEF RoutingInv
<1>3. r.method \in {"POST", "DELETE"} /\ ~ReadsNothing /\ wire # <<>> /\ wire[1] # BodyOf(cur)
  BY <1>1 DEF Expects, Foreign, BodyOf
<1>4. 1 \in 1 .. Len(wire) /\ cur \in Nat /\ head \in {cur, cur + 1}
  BY <1>2, <1>3 DEF RoutingInv, Wire
<1>5. CASE wire[1] = HeadOf(cur + 1) /\ head = cur + 1
  <2>1. r.expect = "417"
    BY <1>1, <1>5 DEF RoutingInv, Answered, Active
  <2>2. r.body # "empty" /\ (r.method = "DELETE" => r.body \notin {"none", "chunked"})
    BY <1>3 DEF ReadsNothing
  <2>3. r.body \in {"none", "empty", "chunked", "length", "long", "refused"}
    BY <1>2 DEF Request
  <2>4. HasBody(r) \/ (r.body = "none" /\ r.method = "POST")
    BY <1>3, <2>2, <2>3 DEF HasBody
  <2>5. Leaves(cur)
    BY <1>2, <2>1, <2>4 DEF Leaves, HasBody
  <2> QED BY <1>2, <1>4, <2>5
<1>6. CASE ~(wire[1] = HeadOf(cur + 1) /\ head = cur + 1)
  <2>1. PICK j \in 1 .. head : wire[1] = BodyOf(j)
    BY <1>4, <1>6 DEF RoutingInv, Wire
  <2>2. j # cur + 1
    BY <1>4, <2>1 DEF RoutingInv, Wire
  <2>3. j # cur
    BY <1>3, <2>1
  <2>4. j \in 1 .. cur /\ j < cur
    BY <1>4, <2>2, <2>3
  <2>5. OnWire(BodyOf(j))
    BY <1>4, <2>1 DEF OnWire
  <2>6. Leaves(j)
    BY <2>4, <2>5 DEF RoutingInv, Settled
  <2> QED BY <2>4, <2>6
<1> QED BY <1>5, <1>6

\* The worker is done with its request, and waits for the next.
LEMMA DoneAnswered ==
  ASSUME RoutingInv, at \in Active \cup {"head"}, NEW status \in Status \ {100},
         Answers(status), UNCHANGED client, at' \in {"keep", "terminated"}, cur' = cur
  PROVE  Answered' /\ answers' \in Seq([req : Nat, status : Status])
<1>1. cur \in Nat /\ cur > 0 /\ answers \in Seq([req : Nat, status : Status])
      /\ UNCHANGED client /\ at' \in {"keep", "terminated"} /\ Answers(status)
  BY DEF RoutingInv, Typed, TypeOK, Answered, Active
<1>2. /\ answers' \in Seq([req : Nat, status : Status])
      /\ \A n \in 1 .. Len(answers') :
            \/ answers'[n].req = cur
            \/ n \in 1 .. Len(answers) /\ answers'[n] = answers[n]
      /\ \A i : i # cur => Finals(i)' = Finals(i)
      /\ Cardinality(Finals(cur)') = Cardinality(Finals(cur)) + 1
  <2>1. cur \in Nat /\ cur' = cur /\ answers \in Seq([req : Nat, status : Status])
        /\ status \in Status /\ status # 100 /\ Answers(status)
    BY <1>1
  <2> QED BY ONLY <2>1, FinalsMore
<1>3. \A i : Cardinality(Finals(i)) \in Nat /\ (Finals(i) = {} <=> Cardinality(Finals(i)) = 0)
  BY <1>1, FinalsFinite
<1>4. \A n \in 1 .. Len(answers') : answers'[n].req \in 1 .. cur
  <2>1. cur \in 1 .. cur
    BY <1>1
  <2>2. \A n \in 1 .. Len(answers) : answers[n].req \in 1 .. cur
    BY DEF RoutingInv, Answered
  <2> QED BY ONLY <1>2, <2>1, <2>2
<1>5. Finals(cur)' # {}
  <2>1. \A i : Finals(i)' = {} => Cardinality(Finals(i)') = 0
    BY FS_EmptySet
  <2>2. Cardinality(Finals(cur)') # 0
    BY <1>2, <1>3
  <2> QED BY <2>1, <2>2
<1>6. Cardinality(Finals(cur)') <= IF script[cur].expect = "417" THEN 2 ELSE 1
  <2>1. Cardinality(Finals(cur)) = 0 \/ (script[cur].expect = "417" /\ Cardinality(Finals(cur)) = 1)
    BY <1>3 DEF RoutingInv, Answered, r
  <2> QED BY <1>2, <2>1
<1>7. OneAnswer'
  <2> SUFFICES ASSUME NEW i \in 1 .. cur
               PROVE  /\ Cardinality(Finals(i)') <= IF script[i].expect = "417" THEN 2 ELSE 1
                      /\ Finals(i)' # {}
    BY <1>1 DEF OneAnswer, client
  <2>1. CASE i = cur
    BY <1>5, <1>6, <2>1
  <2>2. CASE i # cur
    <3>1. i < cur
      BY <1>1, <2>2
    <3> QED BY <1>2, <2>2, <3>1 DEF RoutingInv, Answered, OneAnswer
  <2> QED BY <2>1, <2>2
<1> QED BY <1>1, <1>2, <1>4, <1>5, <1>7 DEF Answered, Active, client

\* It goes on with its request.
LEMMA StaysAnswered ==
  ASSUME Answered, UNCHANGED <<client, cur, answers>>,
         \/ at \in Active /\ at' \in Active \cup {"lost", "terminated"}
         \/ at = "head" /\ at' = "terminated"
  PROVE  Answered'
<1>1. \A i : Finals(i)' = Finals(i)
  BY DEF Finals
<1>2. OneAnswer'
  BY <1>1 DEF Answered, OneAnswer, Active, client
<1>3. Finals(cur)' = Finals(cur) /\ r' = r
  BY DEF Finals, r, client
<1> QED BY <1>2, <1>3 DEF Answered, Active, client

-----------------------------------------------------------------------------
(* The client. *)

LEMMA InitRouting == RoutingAssumption /\ Init => RoutingInv
<1> SUFFICES ASSUME RoutingAssumption, Init PROVE RoutingInv
  OBVIOUS
<1>1. script \in Seq(Request) /\ Len(script) \in Nat
  BY DEF RoutingAssumption, Init
<1>0. owes \in BOOLEAN
  BY DEF Init
<1>2. Typed
  BY <1>0, <1>1 DEF Init, Typed, TypeOK
<1>3. Wire /\ Answered /\ Settled
  BY DEF Init, Wire, Answered, OneAnswer, Settled, Active
<1>4. Routed
  BY DEF Init, Routed, StaysUp
<1> QED BY <1>2, <1>3, <1>4 DEF RoutingInv

LEMMA SendHeadRouting == ASSUME RoutingInv, SendHead PROVE RoutingInv'
<1>1. /\ Up /\ head < Len(script) /\ head' = head + 1 /\ owes' = HasBody(script[head + 1])
      /\ wire' = Append(wire, HeadOf(head + 1))
      /\ UNCHANGED <<script, at, cur, reads, answers, late>>
  BY DEF SendHead, HeadOf
<1>2. cur \in Nat /\ head \in Nat /\ Len(script) \in Nat /\ cur <= head
      /\ wire \in Seq({"head", "body"} \X Nat) /\ head \in {cur, cur + 1}
  BY DEF RoutingInv, Typed, TypeOK, Wire
<1>3. head = cur
  <2> SUFFICES ASSUME head = cur + 1 PROVE FALSE
    BY <1>2
  <2>1. head \in 1 .. head
    BY <1>2
  <2>2. PICK n \in 1 .. Len(answers) : answers[n].req = cur + 1
    BY <2>1 DEF SendHead, Finals
  <2>3. answers[n].req \in 1 .. cur
    BY DEF RoutingInv, Answered
  <2> QED BY <1>2, <2>2, <2>3
<1>4. Typed'
  <2>1. head' \in 0 .. Len(script') /\ cur' \in 0 .. head' /\ 1 .. head \subseteq 1 .. head'
        /\ owes' \in BOOLEAN
    BY <1>1, <1>2 DEF HasBody
  <2> QED BY <1>1, <2>1 DEF RoutingInv, Typed, TypeOK
<1>5. /\ wire' \in Seq({"head", "body"} \X Nat) /\ Len(wire') = Len(wire) + 1 /\ Len(wire) \in Nat
      /\ wire'[Len(wire')] = HeadOf(cur + 1)
      /\ \A n \in 1 .. Len(wire) : wire'[n] = wire[n]
  <2>1. HeadOf(head + 1) \in {"head", "body"} \X Nat
    BY <1>2 DEF HeadOf
  <2> HIDE DEF HeadOf
  <2> QED BY <1>1, <1>2, <1>3, <2>1
<1>6. \A n \in 1 .. Len(wire) : \E j \in 1 .. cur : wire[n] = BodyOf(j) /\ HasBody(script[j])
  BY <1>2, <1>3 DEF RoutingInv, Wire
<1>7. \A i \in Nat : OnWire(BodyOf(i))' <=> OnWire(BodyOf(i))
  <2> SUFFICES ASSUME NEW i \in Nat
               PROVE (\E n \in 1 .. Len(wire') : wire'[n] = BodyOf(i))
                     <=> (\E n \in 1 .. Len(wire) : wire[n] = BodyOf(i))
    BY DEF OnWire, BodyOf
  <2>1. HeadOf(cur + 1) # BodyOf(i)
    BY DEF HeadOf, BodyOf
  <2>2. \A n \in 1 .. Len(wire') : n \in 1 .. Len(wire) \/ n = Len(wire')
    BY <1>5
  <2>3. \A n \in 1 .. Len(wire) : n \in 1 .. Len(wire')
    BY <1>5
  <2> QED BY <1>5, <2>1, <2>2, <2>3
<1>8. Wire'
  <2>1. \A n \in 1 .. Len(wire') : n = Len(wire') \/ (n \in 1 .. Len(wire) /\ wire'[n] = wire[n])
    BY <1>5
  <2>2. \A n \in 1 .. Len(wire') :
          \/ wire'[n] = HeadOf(cur' + 1) /\ head' = cur' + 1
          \/ \E j \in 1 .. head' : wire'[n] = BodyOf(j) /\ HasBody(script'[j])
    BY <1>1, <1>2, <1>3, <1>5, <1>6, <2>1 DEF HasBody
  <2>3. \A n \in 1 .. Len(wire) : wire[n] # HeadOf(cur + 1) /\ wire[n] # BodyOf(cur + 1)
    BY <1>2, <1>6 DEF HeadOf, BodyOf
  <2>4. \A m, n \in 1 .. Len(wire') : wire'[m] = wire'[n] => m = n
    BY <1>5, <2>1, <2>3 DEF RoutingInv, Wire
  <2>5. HeadOf(cur + 1) # BodyOf(cur + 1)
    BY DEF HeadOf, BodyOf
  <2>6. \A n \in 1 .. Len(wire') : wire'[n] # BodyOf(cur + 1)
    BY <1>5, <2>1, <2>3, <2>5
  <2>7. owes' => /\ head' > 0 /\ HasBody(script'[head']) /\ ~OnWire(BodyOf(head))'
                 /\ wire' # <<>> /\ wire'[Len(wire')] = HeadOf(head')
    <3>1. head' = cur + 1 /\ script' = script /\ head' > 0
      BY <1>1, <1>2, <1>3
    <3>2. owes' => HasBody(script'[head'])
      BY <1>1
    <3>3. ~OnWire(BodyOf(head))'
      BY <2>6, <3>1 DEF OnWire, BodyOf
    <3>4. wire' # <<>> /\ wire'[Len(wire')] = HeadOf(head')
      BY <1>5, <3>1
    <3> QED BY <3>1, <3>2, <3>3, <3>4
  <2> QED BY <1>1, <1>2, <1>3, <1>5, <2>2, <2>4, <2>6, <2>7 DEF Wire, HeadOf, BodyOf, HasBody
<1>9. Answered'
  <2>1. cur > 0 => Finals(cur)' # {}
    <3>1. cur > 0 => Finals(cur) # {}
      BY <1>2, <1>3 DEF SendHead
    <3> QED BY <1>1, <3>1 DEF Finals
  <2>2. OneAnswer' /\ Finals(cur)' = Finals(cur) /\ r' = r
    BY <1>1 DEF RoutingInv, Answered, OneAnswer, Finals, r
  <2> QED BY <1>1, <2>1, <2>2 DEF RoutingInv, Answered, Active
<1>10. Settled'
  <2>1. Unread' => Unread
    BY <1>1, <1>2, <1>3, <1>7 DEF Unread, BodyOf
  <2>2. \A i : Leaves(i)' <=> Leaves(i)
    BY <1>1 DEF Leaves, HasBody, Dispatched
  <2> QED BY <1>1, <1>2, <1>7, <2>1, <2>2 DEF RoutingInv, Settled, BodyOf
<1>11. Routed'
  BY <1>1 DEF RoutingInv, Routed, Reader, Expects, Pre, StaysUp, Dispatched, r
<1> QED BY <1>4, <1>8, <1>9, <1>10, <1>11 DEF RoutingInv

LEMMA SendBodyRouting == ASSUME RoutingInv, SendBody PROVE RoutingInv'
<1>1. /\ Up /\ owes /\ owes' = FALSE /\ wire' = Append(wire, BodyOf(head))
      /\ UNCHANGED <<script, head, at, cur, reads, answers, late>>
  BY DEF SendBody, BodyOf
<1>2. cur \in Nat /\ head \in Nat /\ head \in {cur, cur + 1} /\ head \in 1 .. head
      /\ wire \in Seq({"head", "body"} \X Nat)
  BY <1>1 DEF RoutingInv, Typed, TypeOK, Wire
<1>3. Typed'
  <2>1. owes' \in BOOLEAN
    BY <1>1
  <2> QED BY <1>1, <2>1 DEF RoutingInv, Typed, TypeOK
<1>4. /\ wire' \in Seq({"head", "body"} \X Nat) /\ Len(wire') = Len(wire) + 1 /\ Len(wire) \in Nat
      /\ wire'[Len(wire')] = BodyOf(head)
      /\ \A n \in 1 .. Len(wire) : wire'[n] = wire[n]
  <2>1. BodyOf(head) \in {"head", "body"} \X Nat
    BY <1>2 DEF BodyOf
  <2> HIDE DEF BodyOf
  <2> QED BY <1>1, <1>2, <2>1
<1>5. \A n \in 1 .. Len(wire') : n = Len(wire') \/ (n \in 1 .. Len(wire) /\ wire'[n] = wire[n])
  BY <1>4
<1>6. \A i \in Nat : OnWire(BodyOf(i))' => OnWire(BodyOf(i)) \/ i = head
  <2> SUFFICES ASSUME NEW i \in Nat, NEW n \in 1 .. Len(wire'), wire'[n] = BodyOf(i)
               PROVE  OnWire(BodyOf(i)) \/ i = head
    BY DEF OnWire, BodyOf
  <2>1. CASE n = Len(wire')
    BY <1>4, <2>1 DEF BodyOf
  <2>2. CASE n # Len(wire')
    BY <1>5, <2>2 DEF OnWire
  <2> QED BY <2>1, <2>2
<1>7. Wire'
  <2>1. \A n \in 1 .. Len(wire') :
          \/ wire'[n] = HeadOf(cur' + 1) /\ head' = cur' + 1
          \/ \E j \in 1 .. head' : wire'[n] = BodyOf(j) /\ HasBody(script'[j])
    <3>1. HasBody(script[head])
      BY <1>1 DEF RoutingInv, Wire
    <3> QED BY <1>1, <1>2, <1>4, <1>5, <3>1 DEF RoutingInv, Wire, HasBody
  <2>2. \A n \in 1 .. Len(wire) : wire[n] # BodyOf(head)
    BY <1>1 DEF RoutingInv, Wire, OnWire
  <2>3. \A m, n \in 1 .. Len(wire') : wire'[m] = wire'[n] => m = n
    BY <1>4, <1>5, <2>2 DEF RoutingInv, Wire
  <2>4. ASSUME NEW n \in 1 .. Len(wire'), wire'[n] = BodyOf(cur + 1)
        PROVE  n > 1 /\ wire'[n - 1] = HeadOf(cur + 1)
    <3>1. CASE n = Len(wire')
      <4>1. head = cur + 1
        BY <2>4, <3>1, <1>4 DEF BodyOf
      <4>2. wire # <<>> /\ wire[Len(wire)] = HeadOf(cur + 1)
        BY <1>1, <4>1 DEF RoutingInv, Wire
      <4>3. Len(wire) # 0
        BY <1>2, <4>2
      <4> QED BY <1>4, <3>1, <4>2, <4>3
    <3>2. CASE n # Len(wire')
      <4>1. n \in 1 .. Len(wire) /\ wire[n] = BodyOf(cur + 1)
        BY <1>5, <2>4, <3>2
      <4>2. n > 1 /\ wire[n - 1] = HeadOf(cur + 1)
        BY <4>1 DEF RoutingInv, Wire
      <4>3. n - 1 \in 1 .. Len(wire)
        BY <1>4, <4>1, <4>2
      <4> QED BY <1>4, <4>2, <4>3
    <3> QED BY <3>1, <3>2
  <2> QED BY <1>1, <1>2, <1>4, <2>1, <2>3, <2>4 DEF Wire, HeadOf, BodyOf, HasBody
<1>8. Answered'
  BY <1>1 DEF RoutingInv, Answered, OneAnswer, Finals, r, Active
<1>9. Settled'
  <2>1. Unread' => Unread
    BY <1>1, <1>2, <1>6 DEF Unread, BodyOf
  <2>2. \A i \in 1 .. cur : i < cur /\ OnWire(BodyOf(i))' => OnWire(BodyOf(i))
    BY <1>2, <1>6
  <2>3. \A i : Leaves(i)' <=> Leaves(i)
    BY <1>1 DEF Leaves, HasBody, Dispatched
  <2> QED BY <1>1, <2>1, <2>2, <2>3 DEF RoutingInv, Settled, BodyOf
<1>10. Routed'
  BY <1>1 DEF RoutingInv, Routed, Reader, Expects, Pre, StaysUp, Dispatched, r
<1> QED BY <1>3, <1>7, <1>8, <1>9, <1>10 DEF RoutingInv

LEMMA KeepBodyRouting == ASSUME RoutingInv, KeepBody PROVE RoutingInv'
<1>1. owes' = FALSE /\ UNCHANGED <<script, head, wire, at, cur, reads, answers, late>>
  BY DEF KeepBody
<1>2. Typed' /\ Wire'
  <2>1. owes' \in BOOLEAN
    BY <1>1
  <2>2. Typed'
    BY <1>1, <2>1 DEF RoutingInv, Typed, TypeOK
  <2>3. Wire'
    BY <1>1 DEF RoutingInv, Wire, HeadOf, BodyOf, HasBody
  <2> QED BY <2>2, <2>3
<1>3. Answered'
  BY <1>1 DEF RoutingInv, Answered, OneAnswer, Finals, r, Active
<1>4. Settled'
  <2>1. Unread' => Unread
    BY <1>1 DEF Unread, OnWire, BodyOf
  <2>2. \A i : Leaves(i)' <=> Leaves(i)
    BY <1>1 DEF Leaves, HasBody, Dispatched
  <2>3. \A i : OnWire(BodyOf(i))' <=> OnWire(BodyOf(i))
    BY <1>1 DEF OnWire, BodyOf
  <2> QED BY <1>1, <2>1, <2>2, <2>3 DEF RoutingInv, Settled, BodyOf
<1>5. Routed'
  BY <1>1 DEF RoutingInv, Routed, Reader, Expects, Pre, StaysUp, Dispatched, r
<1> QED BY <1>2, <1>3, <1>4, <1>5 DEF RoutingInv

-----------------------------------------------------------------------------
(* The worker. *)

LEMMA TakeHeadRouting == ASSUME RoutingInv, TakeHead PROVE RoutingInv'
<1>1. at = "keep" /\ wire # <<>> /\ reads' = 0 /\ UNCHANGED <<script, head, owes, answers, late>>
  BY DEF TakeHead, Goes, client
<1>2. cur \in Nat /\ head \in Nat /\ head \in {cur, cur + 1}
      /\ wire \in Seq({"head", "body"} \X Nat)
  BY DEF RoutingInv, Typed, TypeOK, Wire
<1>3. 1 \in 1 .. Len(wire)
  BY <1>1, <1>2
<1>4. CASE wire[1][1] = "head"
  <2>1. wire[1] = HeadOf(cur + 1) /\ head = cur + 1
    BY <1>3, <1>4 DEF RoutingInv, Wire, BodyOf
  <2>2. at' = "head" /\ cur' = cur + 1 /\ wire' = Tail(wire)
    BY <1>4, <2>1 DEF TakeHead, Goes, HeadOf
  <2>3. Typed'
    BY <1>1, <1>2, <2>1, <2>2 DEF RoutingInv, Typed, TypeOK
  <2>4. /\ wire' \in Seq({"head", "body"} \X Nat)
        /\ Len(wire) \in Nat \ {0} /\ Len(wire') = Len(wire) - 1
        /\ \A n \in 1 .. Len(wire') : n + 1 \in 1 .. Len(wire) /\ wire'[n] = wire[n + 1]
    BY <1>1, <1>2, <2>2, TailOf
  <2>5. \A n \in 1 .. Len(wire') : \E j \in 1 .. head : wire'[n] = BodyOf(j) /\ HasBody(script[j])
    <3> SUFFICES ASSUME NEW n \in 1 .. Len(wire')
                 PROVE  \E j \in 1 .. head : wire'[n] = BodyOf(j) /\ HasBody(script[j])
      OBVIOUS
    <3>1. n + 1 \in 1 .. Len(wire) /\ wire'[n] = wire[n + 1] /\ n + 1 # 1
      BY <2>4
    <3>2. wire[n + 1] # HeadOf(cur + 1)
      BY <1>3, <2>1, <3>1 DEF RoutingInv, Wire
    <3> QED BY <3>1, <3>2 DEF RoutingInv, Wire
  <2>6. \A i : OnWire(BodyOf(i))' => OnWire(BodyOf(i))
    BY <2>4 DEF OnWire, BodyOf
  <2>7. Wire'
    <3>1. \A m, n \in 1 .. Len(wire') : wire'[m] = wire'[n] => m = n
      <4> SUFFICES ASSUME NEW m \in 1 .. Len(wire'), NEW n \in 1 .. Len(wire'),
                          wire'[m] = wire'[n]
                   PROVE  m = n
        OBVIOUS
      <4>0. m + 1 \in 1 .. Len(wire) /\ n + 1 \in 1 .. Len(wire) /\ wire[m + 1] = wire[n + 1]
        BY <2>4
      <4>1. m + 1 = n + 1
        BY <4>0 DEF RoutingInv, Wire
      <4> QED BY <2>4, <4>1
    <3>2. \A n \in 1 .. Len(wire') : wire'[n] # BodyOf(cur' + 1)
      <4>1. \A j \in 1 .. head : BodyOf(j) # BodyOf(cur' + 1)
        BY <1>2, <2>1, <2>2 DEF BodyOf
      <4> QED BY <2>5, <4>1
    <3>3. owes => head > 0 /\ HasBody(script[head]) /\ ~OnWire(BodyOf(head))'
      BY <1>1, <2>6 DEF RoutingInv, Wire, BodyOf
    <3>4. head' = cur' /\ cur' # cur' + 1
      BY <1>1, <1>2, <2>1, <2>2
    <3> QED BY <1>1, <2>4, <2>5, <3>1, <3>2, <3>3, <3>4 DEF Wire, BodyOf, HeadOf, HasBody
  <2>8. Answered'
    <3>1. Finals(cur + 1) = {} /\ \A i : Finals(i)' = Finals(i)
      <4>1. \A n \in 1 .. Len(answers) : answers[n].req # cur + 1
        BY <1>2 DEF RoutingInv, Answered
      <4> QED BY <1>1, <4>1 DEF Finals
    <3>2. \A n \in 1 .. Len(answers) : answers[n].req \in 1 .. cur'
      BY <1>2, <2>2 DEF RoutingInv, Answered
    <3>3. ASSUME NEW i \in 1 .. cur'
          PROVE  /\ Cardinality(Finals(i)) <= IF script[i].expect = "417" THEN 2 ELSE 1
                 /\ i < cur' => Finals(i) # {}
      <4>1. CASE i = cur + 1
        <5>0. Finals(i) = {}
          BY <3>1, <4>1
        <5>1. ~(i < cur')
          BY <1>2, <2>2, <4>1
        <5>3. Cardinality(Finals(i)) = 0
          BY <5>0, FS_EmptySet
        <5>2. 0 <= IF script[i].expect = "417" THEN 2 ELSE 1
          OBVIOUS
        <5> QED BY <5>1, <5>2, <5>3
      <4>2. CASE i # cur + 1
        <5>1. i \in 1 .. cur
          BY <1>2, <2>2, <4>2
        <5> QED BY <1>1, <5>1 DEF RoutingInv, Answered, OneAnswer
      <4> QED BY <4>1, <4>2
    <3>4. OneAnswer'
      BY <1>1, <2>2, <3>1, <3>3 DEF OneAnswer
    <3>5. Finals(cur)' = {} /\ cur' > 0 /\ head' # cur' + 1
      BY <1>1, <1>2, <2>1, <2>2, <3>1 DEF Finals
    <3> QED BY <1>1, <2>2, <3>2, <3>4, <3>5 DEF RoutingInv, Answered, Active
  <2>9. Settled'
    <3>1. \A i : Leaves(i)' <=> Leaves(i)
      BY <1>1 DEF Leaves, HasBody, Dispatched
    <3>2. ASSUME NEW i \in 1 .. cur', i < cur', OnWire(BodyOf(i))' PROVE Leaves(i)
      <4>1. OnWire(BodyOf(i)) /\ i \in 1 .. cur
        BY <1>2, <2>2, <2>6, <3>2
      <4>2. CASE i = cur
        BY <1>1, <1>2, <4>1, <4>2 DEF RoutingInv, Settled, Unread
      <4>3. CASE i # cur
        BY <1>2, <4>1, <4>3 DEF RoutingInv, Settled
      <4> QED BY <4>2, <4>3
    <3> QED BY <1>1, <2>2, <3>1, <3>2 DEF Settled, BodyOf
  <2>10. Routed'
    BY <2>2 DEF Routed, StaysUp
  <2> QED BY <2>3, <2>7, <2>8, <2>9, <2>10 DEF RoutingInv
<1>5. CASE wire[1][1] # "head"
  <2>1. at' = "lost" /\ UNCHANGED <<cur, wire>>
    BY <1>5 DEF TakeHead, Goes
  <2>2. PICK j \in 1 .. head : wire[1] = BodyOf(j)
    BY <1>3, <1>5 DEF RoutingInv, Wire, HeadOf
  <2>3. j # cur + 1
    BY <1>3, <2>2 DEF RoutingInv, Wire
  <2>4. j \in 1 .. cur /\ OnWire(BodyOf(j))
    BY <1>2, <1>3, <2>2, <2>3 DEF OnWire
  <2>5. Leaves(j)
    <3>1. CASE j = cur
      BY <1>1, <1>2, <2>4, <3>1 DEF RoutingInv, Settled, Unread
    <3>2. CASE j # cur
      BY <1>2, <2>4, <3>2 DEF RoutingInv, Settled
    <3> QED BY <3>1, <3>2
  <2>6. Typed' /\ Wire'
    <3>1. Typed'
      BY <1>1, <2>1 DEF RoutingInv, Typed, TypeOK
    <3> QED BY <1>1, <2>1, <3>1, WireKept DEF RoutingInv
  <2>7. Answered'
    BY <1>1, <2>1 DEF RoutingInv, Answered, OneAnswer, Finals, Active
  <2>8. \A x : OnWire(x)' => OnWire(x)
    BY <2>1 DEF OnWire
  <2>9. Settled'
    BY <1>1, <1>2, <2>1, <2>4, <2>5, <2>8, SettledKept DEF RoutingInv, client
  <2>10. Routed'
    BY <2>1 DEF Routed, StaysUp
  <2> QED BY <2>6, <2>7, <2>9, <2>10 DEF RoutingInv
<1> QED BY <1>4, <1>5

LEMMA KeepAliveEndsRouting == ASSUME RoutingInv, KeepAliveEnds PROVE RoutingInv'
<1>1. at = "keep" /\ at' = "closed" /\ UNCHANGED <<script, head, owes, wire, cur, reads, answers, late>>
  BY DEF KeepAliveEnds, Goes, client
<1>2. Typed' /\ Wire'
  <2>1. Typed'
    BY <1>1 DEF RoutingInv, Typed, TypeOK
  <2> QED BY <1>1, <2>1, WireKept DEF RoutingInv
<1>3. Answered'
  BY <1>1 DEF RoutingInv, Answered, OneAnswer, Finals, Active
<1>4. Settled'
  <2>1. Unread' => Unread
    BY <1>1 DEF Unread, OnWire, BodyOf
  <2>2. \A i : (Leaves(i)' <=> Leaves(i)) /\ (OnWire(BodyOf(i))' <=> OnWire(BodyOf(i)))
    BY <1>1 DEF Leaves, HasBody, Dispatched, OnWire, BodyOf
  <2> QED BY <1>1, <2>1, <2>2 DEF RoutingInv, Settled, BodyOf
<1>5. Routed'
  BY <1>1 DEF Routed, StaysUp
<1> QED BY <1>2, <1>3, <1>4, <1>5 DEF RoutingInv

\* It goes on.
LEMMA GoesOnRouting ==
  ASSUME RoutingInv, NEW to \in Active \cup {"lost", "terminated"}, Goes(to),
         at \in Active \/ (at = "head" /\ to = "terminated"),
         UNCHANGED <<cur, answers>>, reads' \in 0 .. 2,
         wire' = wire \/ Consumes, late' \in {late, late \cup {cur}},
         to = "routing" => reads' = 0,
         to = "handler" /\ Unread' => Leaves(cur)',
         to = "reader" /\ reads' > 0 /\ Unread' => Leaves(cur)',
         to = "lost" => \E i \in 1 .. cur : Leaves(i),
         to = "reader" => Reader /\ ~Pre, to = "content" => Expects,
         to = "terminated" => Escapes
  PROVE  RoutingInv'
<1>1. at' = to /\ UNCHANGED <<script, head, owes>> /\ cur \in Nat /\ cur > 0 /\ UNCHANGED client
  BY DEF Goes, client, RoutingInv, Typed, TypeOK, Answered
<1>2. Answered'
  BY <1>1, StaysAnswered DEF RoutingInv
<1>3. Wire' /\ \A x : OnWire(x)' => OnWire(x)
  BY <1>1, WireKept DEF RoutingInv
<1>4. Typed'
  <2>1. cur \in 1 .. Len(script)
    BY <1>1, Current DEF RoutingInv
  <2> QED BY <1>1, <2>1 DEF RoutingInv, Typed, TypeOK, Active
<1>5. Settled'
  <2>1. late \subseteq late' /\ to \notin {"keep", "closed", "head"}
    BY DEF Active
  <2> QED BY <1>1, <1>3, <2>1, SettledKept DEF RoutingInv
<1>6. Routed'
  <2>1. r' = r
    BY <1>1 DEF r
  <2>2. to # "terminated" => StaysUp'
    BY <1>1 DEF StaysUp
  <2>3. to = "terminated" => StaysUp'
    BY <2>1 DEF StaysUp, Escapes, Dispatched
  <2> QED BY <1>1, <2>1, <2>2, <2>3 DEF Routed, Reader, Expects, Pre
<1> QED BY <1>2, <1>3, <1>4, <1>5, <1>6 DEF RoutingInv

\* A request ends, what is unread of it left or consumed, and the callbacks of errors,
\* of every answer and of the log may throw.
LEMMA EndsRouting ==
  ASSUME RoutingInv, at \in Active \cup {"head"}, NEW status \in Status \ {100},
         Finishes(status), cur' = cur, reads' = reads,
         wire' = wire \/ Consumes, late' \in {late, late \cup {cur}}, Unread' => Leaves(cur)'
  PROVE  RoutingInv'
<1>0. cur \in Nat /\ cur > 0 /\ reads \in 0 .. 2
  BY DEF RoutingInv, Typed, TypeOK, Answered, Active
<1>1. CASE Terminates
  <2>1. Goes("terminated") /\ answers' = answers
    BY <1>1 DEF Terminates
  <2>2. Escapes
    BY <1>1, <2>1 DEF Finishes, Terminates, Escapes, Answers, Goes
  <2> QED BY <1>0, <2>1, <2>2, GoesOnRouting
<1>2. CASE ~Terminates
  <2> DEFINE to == IF r.throws = "log" THEN "terminated" ELSE "keep"
  <2>1. Answers(status) /\ Goes(to)
    BY <1>2 DEF Finishes
  <2>2. at' = to /\ to \in {"keep", "terminated"} /\ UNCHANGED client
        /\ UNCHANGED <<script, head, owes>>
    BY <2>1 DEF Goes, client
  <2>3. to = "terminated" => Escapes
    BY DEF Escapes
  <2> HIDE DEF to
  <2>4. Answered' /\ answers' \in Seq([req : Nat, status : Status])
    BY <2>1, <2>2, DoneAnswered
  <2>5. Wire' /\ \A x : OnWire(x)' => OnWire(x)
    BY <2>2, WireKept DEF RoutingInv
  <2>6. Typed'
    <3>1. cur \in 1 .. Len(script) /\ cur \in 1 .. head /\ 1 .. cur \subseteq 1 .. head
      BY <1>0, Current DEF RoutingInv
    <3>2. \A n \in 1 .. Len(answers') : answers'[n].req \in 1 .. head /\ answers'[n].status \in Status
      <4>1. \A n \in 1 .. Len(answers') : answers'[n] \in [req : Nat, status : Status]
        BY <2>4, Elements
      <4>2. \A n \in 1 .. Len(answers') : answers'[n].req \in 1 .. cur
        BY <2>2, <2>4 DEF Answered
      <4>3. \A k \in 1 .. cur : k \in 1 .. head
        BY <3>1
      <4> QED BY <4>1, <4>2, <4>3
    <3>3. at' \in {"keep", "head", "routing", "reader", "content", "handler",
                   "closed", "lost", "terminated"}
      BY <2>2
    <3>4. TypeOK /\ late' \subseteq 1 .. Len(script)
      BY <3>1 DEF RoutingInv, Typed, TypeOK
    <3>5. TypeOK'
      BY <1>0, <2>2, <3>1, <3>2, <3>3, <3>4 DEF TypeOK, Status
    <3> QED BY <2>2, <3>5 DEF RoutingInv, Typed
  <2>7. Settled'
    <3>1. late \subseteq late' /\ at' \notin {"head", "routing", "reader", "lost"}
      BY <2>2
    <3> QED BY <1>0, <2>2, <2>5, <3>1, SettledKept DEF RoutingInv
  <2>8. Routed'
    <3>1. r' = r
      BY <2>2 DEF r
    <3>2. at' = "terminated" => Escapes'
      BY <2>2, <2>3, <3>1 DEF Escapes, Dispatched
    <3>3. at' \notin {"reader", "content"}
      BY <2>2
    <3> QED BY <3>2, <3>3 DEF Routed, StaysUp, Escapes
  <2> QED BY <2>4, <2>5, <2>6, <2>7, <2>8 DEF RoutingInv
<1> QED BY <1>1, <1>2

\* A request that has a body which is still unread, when nothing was read since.
LEMMA StillUnread ==
  ASSUME RoutingInv, UNCHANGED <<script, head, owes, wire, cur>>, Unread'
  PROVE  Unread /\ HasBody(script[cur])
<1>1. Unread
  BY DEF Unread, OnWire, BodyOf
<1> QED BY <1>1, UnreadHasBody DEF RoutingInv, Typed, TypeOK

LEMMA ExpectRouting == ASSUME RoutingInv, Expect PROVE RoutingInv'
<1>1. at = "head" /\ UNCHANGED <<script, head, owes, wire, cur, reads, late>>
  <2>1. at = "head" /\ UNCHANGED <<wire, cur, reads, late>> /\ r \in Request
    BY Current DEF Expect, RoutingInv, Answered, Active
  <2>2. r.expect \in {"no", "100", "417", "401"}
    BY <2>1 DEF Request
  <2>3. UNCHANGED client
    BY <2>2 DEF Expect, Finishes, Terminates, Goes
  <2> QED BY <2>1, <2>3 DEF client
<1>2. cur > 0 /\ cur \in Nat /\ Finals(cur) = {} /\ reads = 0
      /\ answers \in Seq([req : Nat, status : Status])
  BY <1>1 DEF RoutingInv, Typed, TypeOK, Answered, Settled
<1>3. cur \in 1 .. Len(script) /\ 1 .. cur \subseteq 1 .. head /\ r \in Request /\ r = script[cur]
  BY <1>2, Current DEF RoutingInv
<1>6. CASE r.expect # "no" /\ r.throws = "expect"
  <2>1. Goes("terminated") /\ answers' = answers
    BY <1>6 DEF Expect, Terminates
  <2>2. Escapes /\ reads' \in 0 .. 2
    BY <1>1, <1>2, <1>6 DEF Escapes
  <2> QED BY <1>1, <2>1, <2>2, GoesOnRouting
<1>4. CASE r.expect = "401" /\ r.throws # "expect"
  <2>1. Finishes(401)
    BY <1>4 DEF Expect
  <2>2. Unread' => Leaves(cur)'
    <3>1. ASSUME Unread' PROVE Leaves(cur)'
      <4>1. HasBody(script[cur])
        BY <1>1, <3>1, StillUnread
      <4> QED BY <1>1, <1>3, <1>4, <4>1 DEF Leaves, HasBody
    <3> QED BY <3>1
  <2>3. 401 \in Status \ {100}
    BY DEF Status
  <2> QED BY <1>1, <2>1, <2>2, <2>3, EndsRouting
<1>5. CASE r.expect # "401" /\ (r.expect = "no" \/ r.throws # "expect")
  <2>1. r.expect \in {"no", "100", "417"}
    BY <1>3, <1>5 DEF Request
  <2>2. at' = "routing" /\ (answers' = answers \/ Answers(100) \/ (r.expect = "417" /\ Answers(417)))
    <3>1. CASE r.expect = "no"
      BY <3>1 DEF Expect, Goes
    <3>2. CASE r.expect = "100"
      BY <1>5, <3>2 DEF Expect, Goes
    <3>3. CASE r.expect = "417"
      BY <1>5, <3>3 DEF Expect, Goes
    <3> QED BY <2>1, <3>1, <3>2, <3>3
  <2>3. /\ answers' \in Seq([req : Nat, status : Status])
        /\ \A n \in 1 .. Len(answers') :
              \/ answers'[n].req = cur
              \/ n \in 1 .. Len(answers) /\ answers'[n] = answers[n]
        /\ \A i : i # cur => Finals(i)' = Finals(i)
        /\ \/ Finals(cur)' = Finals(cur)
           \/ r.expect = "417" /\ Cardinality(Finals(cur)') = Cardinality(Finals(cur)) + 1
    <3>1. CASE answers' = answers
      BY <1>1, <1>2, <3>1 DEF Finals
    <3>2. CASE Answers(100)
      <4>1. 100 \in Status
        BY DEF Status
      <4> QED BY <1>1, <1>2, <3>2, <4>1, FinalsMore
    <3>3. CASE r.expect = "417" /\ Answers(417)
      <4>1. PICK status \in Status : status # 100 /\ Answers(status)
        BY <3>3 DEF Status
      <4>2. cur' = cur /\ answers \in Seq([req : Nat, status : Status]) /\ cur \in Nat
        BY <1>1, <1>2
      <4>3. /\ answers' \in Seq([req : Nat, status : Status])
            /\ \A n \in 1 .. Len(answers') :
                  \/ answers'[n].req = cur
                  \/ n \in 1 .. Len(answers) /\ answers'[n] = answers[n]
            /\ \A i : i # cur => Finals(i)' = Finals(i)
            /\ Cardinality(Finals(cur)') = Cardinality(Finals(cur)) + 1
        BY <4>1, <4>2, FinalsMore
      <4> QED BY <3>3, <4>3
    <3> QED BY <2>2, <3>1, <3>2, <3>3
  <2>4. \A n \in 1 .. Len(answers') : answers'[n].req \in 1 .. cur
    <3>1. cur \in 1 .. cur /\ \A n \in 1 .. Len(answers) : answers[n].req \in 1 .. cur
      BY <1>2 DEF RoutingInv, Answered
    <3> QED BY <2>3, <3>1
  <2>5. Finals(cur)' = {} \/ (r.expect = "417" /\ Cardinality(Finals(cur)') = 1)
    BY <1>2, <2>3, FS_EmptySet
  <2>6. OneAnswer'
    <3> SUFFICES ASSUME NEW i \in 1 .. cur
                 PROVE  /\ Cardinality(Finals(i)') <= IF script[i].expect = "417" THEN 2 ELSE 1
                        /\ i < cur => Finals(i)' # {}
      BY <1>1, <2>2 DEF OneAnswer
    <3>1. CASE i = cur
      <4>1. Cardinality(Finals(cur)') = 0 \/ (script[cur].expect = "417" /\ Cardinality(Finals(cur)') = 1)
        BY <1>3, <2>5, FS_EmptySet
      <4>2. Cardinality(Finals(cur)') <= IF script[cur].expect = "417" THEN 2 ELSE 1
        BY <4>1
      <4>3. ~(i < cur)
        BY <1>2, <3>1
      <4> QED BY <1>1, <3>1, <4>2, <4>3
    <3>2. CASE i # cur
      BY <2>3, <3>2 DEF RoutingInv, Answered, OneAnswer
    <3> QED BY <3>1, <3>2
  <2>7. Answered'
    <3>1. r' = r /\ head # cur + 1
      BY <1>1, <1>2 DEF r, RoutingInv, Answered
    <3> QED BY <1>1, <1>2, <2>2, <2>3, <2>4, <2>5, <2>6, <3>1 DEF Answered, Active
  <2>8. Typed'
    <3>1. \A n \in 1 .. Len(answers') : answers'[n].req \in 1 .. head /\ answers'[n].status \in Status
      <4>1. \A n \in 1 .. Len(answers') : answers'[n] \in [req : Nat, status : Status]
        BY <2>3, Elements
      <4>2. \A k \in 1 .. cur : k \in 1 .. head
        BY <1>3
      <4> QED BY <2>4, <4>1, <4>2
    <3> QED BY <1>1, <2>2, <3>1 DEF RoutingInv, Typed, TypeOK, Status
  <2>9. Wire' /\ \A x : OnWire(x)' => OnWire(x)
    BY <1>1, WireKept DEF RoutingInv
  <2>10. Settled'
    BY <1>1, <1>2, <2>2, <2>9, SettledKept DEF RoutingInv, client
  <2>11. Routed'
    BY <2>2 DEF Routed, StaysUp
  <2> QED BY <2>7, <2>8, <2>9, <2>10, <2>11 DEF RoutingInv
<1> QED BY <1>4, <1>5, <1>6

LEMMA RouteRouting == ASSUME RoutingInv, Route PROVE RoutingInv'
<1>1. at = "routing" /\ UNCHANGED <<script, head, owes, wire, cur, reads, late>>
  BY DEF Route, Finishes, Terminates, Goes, client
<1>2. cur > 0 /\ cur \in Nat /\ reads = 0
  BY <1>1 DEF RoutingInv, Typed, TypeOK, Answered, Active, Settled
<1>3. cur \in 1 .. Len(script) /\ r \in Request /\ r = script[cur]
  BY <1>2, Current DEF RoutingInv
<1>6. CASE EarlyThrows
  <2>1. Goes("terminated") /\ answers' = answers
    BY <1>6 DEF Route, Terminates
  <2>2. Escapes /\ reads' \in 0 .. 2 /\ at \in Active
    BY <1>1, <1>2, <1>6 DEF Escapes, EarlyThrows, File, Pre, Dispatched, Active
  <2> QED BY <1>1, <2>1, <2>2, GoesOnRouting
<1>4. CASE ~EarlyThrows /\ (Pre \/ File)
  <2>1. Finishes(200)
    BY <1>4 DEF Route
  <2>2. Unread' => Leaves(cur)'
    <3>1. ASSUME Unread' PROVE Leaves(cur)'
      <4>1. HasBody(script[cur])
        BY <1>1, <3>1, StillUnread
      <4> QED BY <1>1, <1>3, <1>4, <4>1 DEF Leaves, HasBody, Pre, File
    <3> QED BY <3>1
  <2>3. 200 \in Status \ {100} /\ at \in Active
    BY <1>1 DEF Status, Active
  <2> QED BY <1>1, <2>1, <2>2, <2>3, EndsRouting
<1>5. CASE ~EarlyThrows /\ ~(Pre \/ File)
  <2> DEFINE to == IF Reader THEN "reader" ELSE IF Expects THEN "content" ELSE "handler"
  <2>1. Goes(to) /\ answers' = answers
    BY <1>5 DEF Route
  <2>2. ASSUME to = "handler", Unread' PROVE Leaves(cur)'
    <3>1. HasBody(script[cur])
      BY <1>1, <2>2, StillUnread
    <3>2. ~Expects
      BY <2>2
    <3> QED BY <1>1, <1>3, <3>1, <3>2 DEF Leaves, HasBody, Expects
  <2>3. to \in {"reader", "content", "handler"} /\ (to = "reader" => Reader) /\ (to = "content" => Expects)
    OBVIOUS
  <2> HIDE DEF to
  <2>4. at \in Active /\ to \in Active \cup {"lost", "terminated"}
    BY <1>1, <2>3 DEF Active
  <2>5. reads' = 0 /\ reads' \in 0 .. 2 /\ ~(reads' > 0)
    BY <1>1, <1>2
  <2> QED BY <1>1, <1>5, <2>1, <2>2, <2>3, <2>4, <2>5, GoesOnRouting
<1> QED BY <1>4, <1>5, <1>6

LEMMA ContentRouting == ASSUME RoutingInv, Content PROVE RoutingInv'
<1>1. at = "content" /\ at \in Active /\ UNCHANGED <<cur, reads>> /\ UNCHANGED client
  BY DEF Content, Foreign, Finishes, Terminates, Goes, Active
<1>2. cur > 0 /\ Expects /\ reads' \in 0 .. 2
  BY <1>1 DEF RoutingInv, Typed, TypeOK, Answered, Routed
<1>3. CASE Foreign
  <2>1. Goes("lost") /\ UNCHANGED <<wire, answers, late>>
    BY <1>3 DEF Foreign
  <2>2. \E i \in 1 .. cur : Leaves(i)
    BY <1>1, <1>3, ForeignLeft
  <2> QED BY <1>1, <1>2, <2>1, <2>2, GoesOnRouting
<1>4. CASE (Nothing \/ Own \/ Late) /\ ~Foreign
  <2>1. /\ wire' = wire \/ Consumes
        /\ late' \in {late, late \cup {cur}}
        /\ Unread' => Leaves(cur)'
    <3>1. late' \in {late, late \cup {cur}}
      BY <1>4 DEF Nothing, Own, Late
    <3> QED BY <1>1, <1>2, <1>4, <3>1, AfterReading
  <2>2. CASE Goes("handler") /\ answers' = answers
    <3>1. "handler" \in Active
      BY DEF Active
    <3> QED BY <1>1, <1>2, <2>1, <2>2, <3>1, GoesOnRouting
  <2>3. CASE Finishes(400)
    <3>1. 400 \in Status \ {100}
      BY DEF Status
    <3> QED BY <1>1, <2>1, <2>3, <3>1, EndsRouting
  <2> QED BY <1>4, <2>2, <2>3 DEF Content
<1> QED BY <1>3, <1>4 DEF Content

LEMMA ReaderReadsRouting == ASSUME RoutingInv, ReaderReads PROVE RoutingInv'
<1>1. at = "reader" /\ at \in Active /\ reads < r.reads /\ reads' = reads + 1 /\ UNCHANGED cur
  BY DEF ReaderReads, Active
<1>2. cur > 0 /\ Reader /\ Expects /\ ~Pre /\ reads \in 0 .. 2
  BY <1>1 DEF RoutingInv, Typed, TypeOK, Answered, Routed, Reader
<1>3. reads' \in 0 .. 2
  <2>1. r.reads \in 0 .. 2
    BY <1>2, Current DEF RoutingInv, Request
  <2> QED BY <1>1, <1>2, <2>1
<1>4. CASE Foreign
  <2>1. Goes("lost") /\ UNCHANGED <<wire, answers, late>>
    BY <1>4 DEF Foreign
  <2>2. \E i \in 1 .. cur : Leaves(i)
    BY <1>1, <1>4, ForeignLeft
  <2> QED BY <1>1, <1>3, <2>1, <2>2, GoesOnRouting
<1>5. CASE ~Foreign
  <2>1. (Nothing \/ Own \/ Late) /\ Goes("reader") /\ answers' = answers
    BY <1>5 DEF ReaderReads
  <2>2. UNCHANGED client
    BY <2>1 DEF Goes
  <2>3. late' \in {late, late \cup {cur}}
    BY <2>1 DEF Nothing, Own, Late
  <2>4. (wire' = wire \/ Consumes) /\ (Unread' => Leaves(cur)')
    BY <1>1, <1>2, <2>1, <2>2, AfterReading
  <2>5. "reader" \in Active
    BY DEF Active
  <2> QED BY <1>1, <1>2, <1>3, <2>1, <2>3, <2>4, <2>5, GoesOnRouting
<1> QED BY <1>4, <1>5

LEMMA ReaderReturnsRouting == ASSUME RoutingInv, ReaderReturns PROVE RoutingInv'
<1>1. at = "reader" /\ at \in Active /\ reads = r.reads /\ Finishes(200)
      /\ UNCHANGED <<script, head, owes, wire, cur, reads, late>>
  BY DEF ReaderReturns, Finishes, Terminates, Goes, client, Active
<1>2. cur > 0 /\ Reader /\ ~Pre /\ reads \in 0 .. 2 /\ r = script[cur]
  BY <1>1 DEF RoutingInv, Typed, TypeOK, Answered, Routed, r
<1>3. ASSUME Unread' PROVE Leaves(cur)'
  <2>1. Unread /\ HasBody(script[cur])
    BY <1>1, <1>3, StillUnread
  <2>2. CASE reads = 0
    BY <1>1, <1>2, <2>1, <2>2 DEF Leaves, HasBody, Dispatched, Reader, Expects, Pre
  <2>3. CASE reads # 0
    <3>1. reads > 0
      BY <1>2, <2>3
    <3>2. Leaves(cur)
      BY <1>1, <2>1, <3>1 DEF RoutingInv, Settled
    <3> QED BY <1>1, <3>2 DEF Leaves, HasBody, Dispatched
  <2> QED BY <2>2, <2>3
<1>4. 200 \in Status \ {100}
  BY DEF Status
<1> QED BY <1>1, <1>3, <1>4, EndsRouting

LEMMA ReaderThrowsRouting == ASSUME RoutingInv, ReaderThrows PROVE RoutingInv'
<1>1. at \in Active /\ Goes("terminated") /\ UNCHANGED <<wire, cur, reads, answers, late>>
  BY DEF ReaderThrows, Terminates, Active
<1>2. Escapes /\ reads \in 0 .. 2
  BY DEF ReaderThrows, Escapes, RoutingInv, Routed, Reader, Pre, Dispatched, Typed, TypeOK
<1> QED BY <1>1, <1>2, GoesOnRouting

LEMMA HandleRouting == ASSUME RoutingInv, Handle PROVE RoutingInv'
<1> DEFINE status == IF r.method = "TRACE" THEN 400
                     ELSE IF "regular" \notin r.match THEN 404
                     ELSE IF r.throws = "regular" THEN 500 ELSE 200
<1>1. at = "handler" /\ at \in Active /\ Finishes(status)
      /\ UNCHANGED <<script, head, owes, wire, cur, reads, late>>
  BY DEF Handle, Finishes, Terminates, Goes, client, Active
<1>2. status \in Status \ {100}
  BY DEF Status
<1> HIDE DEF status
<1>3. ASSUME Unread' PROVE Leaves(cur)'
  <2>1. Unread /\ cur > 0
    BY <1>1, <1>3, StillUnread DEF RoutingInv, Answered
  <2>2. Leaves(cur)
    BY <1>1, <2>1 DEF RoutingInv, Settled
  <2> QED BY <1>1, <2>2 DEF Leaves, HasBody, Dispatched
<1> QED BY <1>1, <1>2, <1>3, EndsRouting

LEMMA NextRouting == RoutingInv /\ [Next]_vars => RoutingInv'
<1> SUFFICES ASSUME RoutingInv, [Next]_vars PROVE RoutingInv'
  OBVIOUS
<1>1. CASE SendHead \/ SendBody \/ KeepBody
  BY <1>1, SendHeadRouting, SendBodyRouting, KeepBodyRouting
<1>2. CASE TakeHead \/ KeepAliveEnds \/ Expect \/ Route
  BY <1>2, TakeHeadRouting, KeepAliveEndsRouting, ExpectRouting, RouteRouting
<1>3. CASE Content \/ ReaderReads \/ ReaderReturns \/ ReaderThrows \/ Handle
  BY <1>3, ContentRouting, ReaderReadsRouting, ReaderReturnsRouting, ReaderThrowsRouting,
     HandleRouting
<1>4. CASE UNCHANGED vars
  <2>1. UNCHANGED <<script, head, owes, wire, at, cur, reads, answers, late>>
    BY <1>4 DEF vars, client
  <2>2. Typed' /\ Wire'
    <3>1. Typed'
      BY <2>1 DEF RoutingInv, Typed, TypeOK
    <3> QED BY <2>1, <3>1, WireKept DEF RoutingInv
  <2>3. Answered'
    BY <2>1 DEF RoutingInv, Answered, OneAnswer, Finals, r, Active
  <2>4. Settled'
    BY <2>1 DEF RoutingInv, Settled, Unread, OnWire, BodyOf, Leaves, HasBody, Dispatched
  <2>5. Routed'
    BY <2>1 DEF RoutingInv, Routed, Reader, Expects, Pre, StaysUp, Dispatched, r
  <2> QED BY <2>2, <2>3, <2>4, <2>5 DEF RoutingInv
<1> QED BY <1>1, <1>2, <1>3, <1>4 DEF Next

\* Whatever the client sends and the handlers do, a body is taken for a head, or a head for
\* a body, only behind a request that leaves something behind or is answered before it is
\* read; each request has its final answer before the next is read, and one only but after
\* 417; and the process is ended only by an exception of a callback that is outside of the
\* try block of dispatch_request() and that this request has.
THEOREM ServerInStep == RoutingAssumption => (Spec => [](InStep /\ OneAnswer /\ StaysUp))
<1> SUFFICES ASSUME RoutingAssumption PROVE Spec => [](InStep /\ OneAnswer /\ StaysUp)
  OBVIOUS
<1>1. RoutingInv => InStep /\ OneAnswer /\ StaysUp
  BY DEF RoutingInv, Typed, Answered, Settled, Routed, InStep
<1> QED BY <1>1, InitRouting, NextRouting, PTL DEF Spec

-----------------------------------------------------------------------------
(* The descriptors that connections are made of. *)

CONSTANTS Thread, NoOne, Program, MaxFd, Addresses, MaxCalls        \* of Sockets
VARIABLES table, place, role, rp, sock, error, calls, robbed        \* place is its at

Socket == INSTANCE Sockets WITH at <- place

Codes == {"Success", "Connection", "BindIPAddress"}

\* A thread that works on the socket of one address, before it knows that it failed.
Connecting == {"connect", "wait", "failed"}
Working == {"flags", "bind"} \cup Connecting

\* What a thread may rely on as long as nobody has closed another's descriptor.
Local(t) ==
    /\ \A f \in Socket!Descriptor : table[f] = t => f = sock[t]
    /\ place[t] = "next" => sock[t] = Socket!INVALID
    /\ place[t] \in Working \cup {"close"} => sock[t] # Socket!INVALID
    /\ place[t] \in Working \cup {"idle"} => sock[t] = Socket!INVALID \/ table[sock[t]] = t
    /\ place[t] \in Connecting => role[t] # "server"
    /\ place[t] = "close" => table[sock[t]] = t \/ (role[t] # "server" /\ error[t] = "Connection")
    /\ place[t] = "idle" /\ calls[t] > 0 /\ rp[t] = Addresses /\ role[t] # "server"
           => error[t] # "Success"

\* A thread that has a socket has an address for it.
Addressed(t) == place[t] \in Working \cup {"close"} => rp[t] < Addresses

SocketsInv ==
    /\ Socket!OnlyClosedTwice
    /\ \A t \in Thread : Addressed(t)
    /\ robbed = <<>> => \A t \in Thread : Local(t)

-----------------------------------------------------------------------------
(* The lowest free number. *)

\* Strictly smaller sets are a well-founded order on the parts of a finite set, so that
\* among the initial parts of S that end in a member of S one is the smallest.
LEMMA Least ==
  ASSUME NEW n \in Nat, NEW S \in SUBSET (1 .. n), S # {}
  PROVE  \E k \in S : \A j \in S : k <= j
<1> DEFINE Upto(k) == {j \in S : j <= k}
           T == {Upto(k) : k \in S}
<1>1. IsFiniteSet(S)
  <2>1. 1 \in Int /\ n \in Int /\ S \subseteq 1 .. n
    OBVIOUS
  <2>2. IsFiniteSet(1 .. n)
    BY <2>1, FS_Interval
  <2> QED BY <2>1, <2>2, FS_Subset
<1>2. IsWellFoundedOn(StrictSubsetOrdering(S), SUBSET S)
  <2>1. FiniteSubsetsOf(S) = SUBSET S
    BY <1>1, FS_FiniteSubsetsOfFinite
  <2> QED BY <2>1, FS_StrictSubsetOrderingWellFounded
<1>3. T \subseteq SUBSET S /\ T # {}
  OBVIOUS
<1>4. PICK x \in T : \A y \in T : <<y, x>> \notin StrictSubsetOrdering(S)
  <2> HIDE DEF T
  <2> QED BY <1>2, <1>3, WFMin
<1>5. PICK k \in S : x = Upto(k)
  BY <1>4
<1>6. \A j \in S : k <= j
  <2> SUFFICES ASSUME NEW j \in S, j < k PROVE FALSE
    OBVIOUS
  <2>1. Upto(j) \in T
    OBVIOUS
  <2>2. k \in Nat /\ j \in Nat /\ S \subseteq Nat
    OBVIOUS
  <2>3. Upto(j) \subseteq Upto(k) /\ k \in Upto(k) /\ k \notin Upto(j)
    <3>1. ~(k <= j) /\ k <= k /\ \A i \in S : i <= j => i <= k
      BY <2>2
    <3> QED BY <3>1
  <2>4. <<Upto(j), x>> \in StrictSubsetOrdering(S)
    <3> HIDE DEF Upto
    <3> QED BY <2>1, <2>3, <1>3, <1>5 DEF StrictSubsetOrdering
  <2> QED BY <2>1, <2>4, <1>4
<1> QED BY <1>6

LEMMA Lowest ==
  ASSUME NEW n \in Nat, NEW S \in SUBSET (1 .. n), S # {}
  PROVE  Socket!Min(S) \in S
<1>1. PICK k \in S : \A j \in S : k <= j
  BY Least
<1> QED BY <1>1 DEF Socket!Min


-----------------------------------------------------------------------------
(* What a step of one thread leaves to the others. *)

Untouched(u) ==
    /\ place'[u] = place[u] /\ role'[u] = role[u] /\ rp'[u] = rp[u]
    /\ sock'[u] = sock[u] /\ error'[u] = error[u] /\ calls'[u] = calls[u]

Keeps(u) == \A f \in Socket!Descriptor : table'[f] = u <=> table[f] = u

LEMMA Others ==
  ASSUME Socket!TypeOK, NEW u \in Thread, Local(u), Untouched(u), Keeps(u)
  PROVE  Local(u)'
<1>1. sock[u] \in Socket!Descriptor \cup {Socket!INVALID}
  BY DEF Socket!TypeOK
<1>2. sock[u] # Socket!INVALID => (table'[sock[u]] = u <=> table[sock[u]] = u)
  BY <1>1 DEF Keeps
<1>3. (\A f \in Socket!Descriptor : table[f] = u => f = sock[u])'
  BY DEF Local, Untouched, Keeps
<1> QED BY <1>2, <1>3 DEF Local, Untouched

LEMMA OneThread ==
  ASSUME SocketsInv, NEW t \in Thread, Socket!TypeOK', robbed' = robbed, Addressed(t)',
         \A u \in Thread \ {t} : Untouched(u),
         robbed = <<>> /\ Local(t) => Local(t)' /\ \A u \in Thread \ {t} : Keeps(u)
  PROVE  SocketsInv'
<1>1. Socket!OnlyClosedTwice'
  BY DEF SocketsInv, Socket!OnlyClosedTwice
<1>2. ASSUME robbed = <<>>, NEW u \in Thread PROVE Local(u)'
  <2>1. Socket!TypeOK /\ Local(u) /\ Local(t)
    BY <1>2 DEF SocketsInv, Socket!OnlyClosedTwice
  <2>2. CASE u = t
    BY <2>1, <2>2, <1>2
  <2>3. CASE u # t
    BY <2>1, <2>3, <1>2, Others
  <2> QED BY <2>2, <2>3
<1>3. robbed' = <<>> => \A u \in Thread : Local(u)'
  BY <1>2
<1>4. ASSUME NEW u \in Thread PROVE Addressed(u)'
  <2>1. CASE u = t
    BY <2>1
  <2>2. CASE u # t
    BY <2>2 DEF Untouched, SocketsInv, Addressed
  <2> QED BY <2>1, <2>2
<1> QED BY <1>1, <1>3, <1>4 DEF SocketsInv

\* The descriptors of others, when a number changes hands that is not theirs.
LEMMA ChangesHands ==
  ASSUME Socket!TypeOK, NEW f, NEW x, table' = [table EXCEPT ![f] = x],
         NEW u \in Thread, x # u, f \in Socket!Descriptor => table[f] # u
  PROVE  Keeps(u)
BY DEF Socket!TypeOK, Keeps

LEMMA FreeNumber ==
  ASSUME Socket!SocketsAssumption, Socket!Free # {}
  PROVE  Socket!Min(Socket!Free) \in Socket!Descriptor /\ table[Socket!Min(Socket!Free)] = NoOne
<1>1. MaxFd \in Nat /\ Socket!Free \in SUBSET (1 .. MaxFd)
  BY DEF Socket!SocketsAssumption, Socket!Free, Socket!Descriptor
<1>2. Socket!Min(Socket!Free) \in Socket!Free
  BY <1>1, Lowest
<1> QED BY <1>2 DEF Socket!Free

-----------------------------------------------------------------------------
(* Types. *)

LEMMA InitSockets == Socket!SocketsAssumption /\ Socket!Init => SocketsInv
<1> SUFFICES ASSUME Socket!SocketsAssumption, Socket!Init PROVE SocketsInv
  OBVIOUS
<1>1. 0 \in 0 .. Addresses /\ 0 \in 0 .. MaxCalls
  BY DEF Socket!SocketsAssumption
<1>2. Socket!TypeOK
  BY <1>1 DEF Socket!Init, Socket!TypeOK, Socket!Roles
<1>3. \A t \in Thread : Local(t)
  BY DEF Socket!Init, Local, Socket!SocketsAssumption, Working, Connecting
<1>4. \A t \in Thread : Addressed(t)
  BY DEF Socket!Init, Addressed, Working, Connecting
<1> QED BY <1>2, <1>3, <1>4 DEF Socket!Init, SocketsInv, Socket!OnlyClosedTwice

\* Threads are neither the program nor nobody.
LEMMA Names ==
  ASSUME Socket!SocketsAssumption, NEW t \in Thread
  PROVE  t # NoOne /\ t # Program
BY DEF Socket!SocketsAssumption

LEMMA Counters ==
  ASSUME Socket!SocketsAssumption, Socket!TypeOK, NEW t \in Thread
  PROVE  /\ rp[t] \in Nat /\ Addresses \in Nat /\ 0 \in 0 .. Addresses
         /\ rp[t] < Addresses => rp[t] + 1 \in 0 .. Addresses
         /\ calls[t] < MaxCalls => calls[t] + 1 \in 0 .. MaxCalls
<1>1. Addresses \in Nat /\ MaxCalls \in Nat
  BY DEF Socket!SocketsAssumption
<1>2. rp[t] \in 0 .. Addresses /\ calls[t] \in 0 .. MaxCalls
  BY DEF Socket!TypeOK
<1> QED BY <1>1, <1>2

-----------------------------------------------------------------------------
(* The steps of the program and of a thread outside of its calls. *)

LEMMA ProgramSockets ==
  ASSUME Socket!SocketsAssumption, SocketsInv,
         Socket!ProgramOpens \/ \E f \in Socket!Descriptor : Socket!ProgramCloses(f)
  PROVE  SocketsInv'
<1>1. Socket!TypeOK
  BY DEF SocketsInv, Socket!OnlyClosedTwice
<1>2. UNCHANGED <<place, role, rp, sock, error, calls, robbed>>
  BY DEF Socket!ProgramOpens, Socket!ProgramCloses
<1>3. PICK f \in Socket!Descriptor, x \in {NoOne, Program} :
        table' = [table EXCEPT ![f] = x] /\ table[f] \in {NoOne, Program}
  BY FreeNumber DEF Socket!ProgramOpens, Socket!ProgramCloses
<1>4. Socket!TypeOK'
  BY <1>1, <1>2, <1>3 DEF Socket!TypeOK
<1>5. ASSUME NEW u \in Thread PROVE Untouched(u) /\ Keeps(u)
  <2>1. Keeps(u)
    BY <1>1, <1>3, ChangesHands, Names
  <2> QED BY <1>2, <2>1 DEF Untouched
<1>6. robbed' = <<>> => \A u \in Thread : Local(u)'
  BY <1>1, <1>2, <1>5, Others DEF SocketsInv
<1>7. \A u \in Thread : Addressed(u)'
  BY <1>2 DEF SocketsInv, Addressed
<1> QED BY <1>2, <1>4, <1>6, <1>7 DEF SocketsInv, Socket!OnlyClosedTwice

LEMMA CallSockets ==
  ASSUME Socket!SocketsAssumption, SocketsInv, NEW t \in Thread, NEW as \in Socket!Roles,
         Socket!Call(t, as)
  PROVE  SocketsInv'
<1>1. Socket!TypeOK
  BY DEF SocketsInv, Socket!OnlyClosedTwice
<1>2. calls[t] + 1 \in 0 .. MaxCalls /\ 0 \in 0 .. Addresses
  BY <1>1, Counters DEF Socket!Call
<1>3. Socket!TypeOK'
  BY <1>1, <1>2 DEF Socket!Call, Socket!Goes, Socket!TypeOK
<1>4. \A u \in Thread \ {t} : Untouched(u)
  BY <1>1 DEF Socket!Call, Socket!Goes, Untouched, Socket!TypeOK
<1>5. place'[t] = "next" /\ sock'[t] = Socket!INVALID /\ sock[t] = Socket!INVALID
  BY <1>1 DEF Socket!Call, Socket!Goes, Socket!TypeOK
<1>6. (Local(t) => Local(t)') /\ Addressed(t)'
  BY <1>5 DEF Local, Addressed, Socket!Call, Working, Connecting
<1>7. \A u \in Thread : Keeps(u)
  BY DEF Socket!Call, Keeps
<1> QED BY <1>3, <1>4, <1>6, <1>7, OneThread DEF Socket!Call

LEMMA CloseSockets ==
  ASSUME Socket!SocketsAssumption, SocketsInv, NEW t \in Thread, Socket!CloseSocket(t)
  PROVE  SocketsInv'
<1>1. Socket!TypeOK
  BY DEF SocketsInv, Socket!OnlyClosedTwice
<1>2. sock[t] \in Socket!Descriptor /\ UNCHANGED <<place, role, rp, error, calls>>
  BY <1>1 DEF Socket!CloseSocket, Socket!TypeOK
<1>3. robbed = <<>> => table[sock[t]] = t
  BY DEF Socket!CloseSocket, SocketsInv, Local
<1>4. robbed' = robbed
  BY <1>3 DEF Socket!CloseSocket, Socket!Closes
<1>5. Socket!TypeOK'
  BY <1>1, <1>2, <1>4 DEF Socket!CloseSocket, Socket!Closes, Socket!TypeOK
<1>6. ASSUME robbed = <<>>, NEW u \in Thread \ {t} PROVE Keeps(u)
  BY <1>1, <1>3, <1>6, ChangesHands, Names DEF Socket!CloseSocket, Socket!Closes
<1>7. ASSUME robbed = <<>>, Local(t) PROVE Local(t)'
  <2>1. sock'[t] = Socket!INVALID /\ place[t] = "idle" /\ place'[t] = "idle"
    BY <1>1, <1>2 DEF Socket!CloseSocket, Socket!TypeOK
  <2>2. \A f \in Socket!Descriptor : table'[f] # t
    BY <1>1, <1>2, <1>7, Names DEF Socket!CloseSocket, Socket!Closes, Local, Socket!TypeOK
  <2> QED BY <1>2, <1>7, <2>1, <2>2 DEF Local, Working, Connecting
<1>8. \A u \in Thread \ {t} : Untouched(u)
  BY <1>1, <1>2 DEF Socket!CloseSocket, Untouched, Socket!TypeOK
<1>9. Addressed(t)'
  BY <1>2 DEF SocketsInv, Addressed
<1> QED BY <1>4, <1>5, <1>6, <1>7, <1>8, <1>9, OneThread

-----------------------------------------------------------------------------
(* The steps of create_socket(). *)

LEMMA CreateSockets ==
  ASSUME Socket!SocketsAssumption, SocketsInv, NEW t \in Thread, Socket!CreateSocket(t)
  PROVE  SocketsInv'
<1>1. Socket!TypeOK
  BY DEF SocketsInv, Socket!OnlyClosedTwice
<1>2. UNCHANGED <<role, error, calls, robbed>> /\ place[t] = "next" /\ rp[t] < Addresses
  BY DEF Socket!CreateSocket
<1>3. CASE Socket!NextAddress(t) /\ UNCHANGED <<table, sock>>
  <2>1. rp[t] + 1 \in 0 .. Addresses
    BY <1>1, <1>2, Counters
  <2>2. Socket!TypeOK'
    BY <1>1, <1>2, <1>3, <2>1 DEF Socket!NextAddress, Socket!Goes, Socket!TypeOK
  <2>3. \A u \in Thread \ {t} : Untouched(u)
    BY <1>1, <1>2, <1>3 DEF Socket!NextAddress, Socket!Goes, Untouched, Socket!TypeOK
  <2>4. place'[t] = "next"
    BY <1>1, <1>3 DEF Socket!NextAddress, Socket!Goes, Socket!TypeOK
  <2>5. (Local(t) => Local(t)') /\ Addressed(t)'
    BY <1>2, <1>3, <2>4 DEF Local, Addressed, Working, Connecting
  <2>6. \A u \in Thread : Keeps(u)
    BY <1>3 DEF Keeps
  <2> QED BY <1>2, <2>2, <2>3, <2>5, <2>6, OneThread
<1>4. CASE ~(Socket!NextAddress(t) /\ UNCHANGED <<table, sock>>)
  <2> DEFINE f == Socket!Min(Socket!Free)
  <2>1. Socket!Free # {} /\ table' = [table EXCEPT ![f] = t] /\ sock' = [sock EXCEPT ![t] = f]
        /\ place' = [place EXCEPT ![t] = "flags"] /\ rp' = rp
    BY <1>4 DEF Socket!CreateSocket, Socket!Goes
  <2>2. f \in Socket!Descriptor /\ table[f] = NoOne
    BY <2>1, FreeNumber
  <2> HIDE DEF f
  <2>3. Socket!TypeOK'
    BY <1>1, <1>2, <2>1, <2>2 DEF Socket!TypeOK
  <2>4. ASSUME NEW u \in Thread \ {t} PROVE Untouched(u) /\ Keeps(u)
    <3>1. Keeps(u)
      BY <1>1, <2>1, <2>2, ChangesHands, Names
    <3> QED BY <1>1, <1>2, <2>1, <3>1 DEF Untouched, Socket!TypeOK
  <2>5. place'[t] = "flags" /\ sock'[t] = f /\ table'[f] = t /\ f # Socket!INVALID
    BY <1>1, <2>1, <2>2 DEF Socket!TypeOK, Socket!Descriptor, Socket!INVALID
  <2>6. ASSUME Local(t) PROVE \A g \in Socket!Descriptor : table'[g] = t => g = sock'[t]
    <3>1. \A g \in Socket!Descriptor : table[g] # t
      BY <1>1, <1>2, <2>6 DEF Local, Socket!Descriptor, Socket!INVALID
    <3> QED BY <1>1, <2>1, <2>2, <2>5, <3>1 DEF Socket!TypeOK
  <2>7. (Local(t) => Local(t)') /\ Addressed(t)'
    BY <1>2, <2>1, <2>5, <2>6 DEF Local, Addressed, Working, Connecting
  <2> QED BY <1>2, <2>3, <2>4, <2>7, OneThread
<1> QED BY <1>3, <1>4

\* A step on a socket that is still open: the thread goes on, comes back, or fails.
LEMMA WorksOn ==
  ASSUME Socket!SocketsAssumption, SocketsInv, NEW t \in Thread, place[t] \in Working,
         NEW to \in (Working \ {"flags"}) \cup {"idle", "close"}, place' = [place EXCEPT ![t] = to],
         to \in Connecting => place[t] \in Connecting \/ role[t] # "server",
         NEW e \in Codes, error' = [error EXCEPT ![t] = e],
         UNCHANGED <<table, role, rp, sock, calls, robbed>>
  PROVE  SocketsInv'
<1>1. Socket!TypeOK
  BY DEF SocketsInv, Socket!OnlyClosedTwice
<1>2. Socket!TypeOK'
  BY <1>1 DEF Socket!TypeOK, Working, Connecting, Codes
<1>3. \A u \in Thread \ {t} : Untouched(u) /\ Keeps(u)
  BY <1>1 DEF Untouched, Keeps, Socket!TypeOK
<1>4. place'[t] = to /\ error'[t] = e /\ rp[t] \in Nat /\ Addresses \in Nat
  BY <1>1, Counters DEF Socket!TypeOK
<1>5. ASSUME Local(t) PROVE Local(t)'
  <2>1. sock[t] # Socket!INVALID /\ table[sock[t]] = t /\ rp[t] # Addresses
    BY <1>4, <1>5 DEF Local, SocketsInv, Addressed
  <2> QED BY <1>4, <1>5, <2>1 DEF Local, Working, Connecting
<1>6. Addressed(t)'
  BY <1>4 DEF SocketsInv, Addressed
<1> QED BY <1>2, <1>3, <1>5, <1>6, OneThread

\* A descriptor that is not open is none of a thread that nobody has robbed.
LEMMA SetFlagsSockets ==
  ASSUME Socket!SocketsAssumption, SocketsInv, NEW t \in Thread, Socket!SetFlags(t)
  PROVE  SocketsInv'
<1>1. Socket!TypeOK
  BY DEF SocketsInv, Socket!OnlyClosedTwice
<1>2. UNCHANGED <<table, role, sock, error, calls, robbed>> /\ place[t] = "flags"
  BY DEF Socket!SetFlags
<1>3. CASE table[sock[t]] = NoOne
  <2>1. Socket!NextAddress(t)
    BY <1>3 DEF Socket!SetFlags
  <2>2. rp[t] + 1 \in 0 .. Addresses
    BY <1>1, <1>2, Counters DEF SocketsInv, Addressed, Working, Connecting
  <2>3. Socket!TypeOK'
    BY <1>1, <1>2, <2>1, <2>2 DEF Socket!NextAddress, Socket!Goes, Socket!TypeOK
  <2>4. \A u \in Thread \ {t} : Untouched(u)
    BY <1>1, <1>2, <2>1 DEF Socket!NextAddress, Socket!Goes, Untouched, Socket!TypeOK
  <2>5. place'[t] = "next" /\ Addressed(t)'
    BY <1>1, <2>1 DEF Socket!NextAddress, Socket!Goes, Socket!TypeOK, Addressed, Working, Connecting
  <2>6. ~Local(t)
    BY <1>2, <1>3, Names DEF Local, Working, Connecting
  <2> QED BY <1>2, <2>3, <2>4, <2>5, <2>6, OneThread
<1>4. CASE table[sock[t]] # NoOne
  <2> DEFINE to == IF role[t] = "client" THEN "connect" ELSE "bind"
  <2>1. place' = [place EXCEPT ![t] = to] /\ rp' = rp
    BY <1>4 DEF Socket!SetFlags, Socket!Goes
  <2>2. to \in (Working \ {"flags"}) \cup {"idle", "close"} /\ place[t] \in Working
    BY <1>2 DEF Working, Connecting
  <2>3. error[t] \in Codes /\ error' = [error EXCEPT ![t] = error[t]]
    BY <1>1, <1>2 DEF Socket!TypeOK, Codes
  <2>4. to \in Connecting => role[t] # "server"
    BY DEF Connecting
  <2> HIDE DEF to
  <2> QED BY <1>2, <2>1, <2>2, <2>3, <2>4, WorksOn
<1> QED BY <1>3, <1>4

LEMMA BindSockets ==
  ASSUME Socket!SocketsAssumption, SocketsInv, NEW t \in Thread,
         Socket!Bind(t) \/ Socket!BindFails(t)
  PROVE  SocketsInv'
<1>1. UNCHANGED <<table, role, rp, sock, calls, robbed>> /\ place[t] \in Working
  BY DEF Socket!Bind, Socket!BindFails, Working, Connecting
<1>2. error[t] \in Codes /\ error = [error EXCEPT ![t] = error[t]]
  BY DEF SocketsInv, Socket!OnlyClosedTwice, Socket!TypeOK, Codes
<1>3. CASE Socket!Bind(t)
  <2> DEFINE to == IF role[t] = "server" THEN "idle" ELSE "connect"
  <2>1. place' = [place EXCEPT ![t] = to] /\ to \in (Working \ {"flags"}) \cup {"idle", "close"}
    BY <1>3 DEF Socket!Bind, Socket!Goes, Working, Connecting
  <2>2. error' = [error EXCEPT ![t] = error[t]]
    BY <1>2, <1>3 DEF Socket!Bind
  <2>3. to \in Connecting => role[t] # "server"
    BY DEF Connecting
  <2> HIDE DEF to
  <2> QED BY <1>1, <1>2, <2>1, <2>2, <2>3, WorksOn
<1>4. CASE Socket!BindFails(t)
  <2> DEFINE e == IF role[t] = "server" THEN error[t] ELSE "BindIPAddress"
  <2>1. e \in Codes /\ error' = [error EXCEPT ![t] = e]
    BY <1>2, <1>4 DEF Socket!BindFails, Codes
  <2>2. place' = [place EXCEPT ![t] = "close"] /\ "close" \notin Connecting
    BY <1>4 DEF Socket!BindFails, Socket!Goes, Connecting
  <2> HIDE DEF e
  <2> QED BY <1>1, <2>1, <2>2, WorksOn
<1> QED BY <1>3, <1>4

LEMMA ConnectSockets ==
  ASSUME Socket!SocketsAssumption, SocketsInv, NEW t \in Thread, Socket!Connect(t) \/ Socket!Wait(t)
  PROVE  SocketsInv'
<1>1. UNCHANGED <<table, role, rp, sock, calls, robbed>> /\ place[t] \in Working \cap Connecting
  BY DEF Socket!Connect, Socket!Wait, Working, Connecting
<1>2. error[t] \in Codes
  BY DEF SocketsInv, Socket!OnlyClosedTwice, Socket!TypeOK, Codes
<1>3. PICK to \in {"idle", "wait", "failed"} : place' = [place EXCEPT ![t] = to]
  BY DEF Socket!Connect, Socket!Wait, Socket!Goes
<1>4. to \in (Working \ {"flags"}) \cup {"idle", "close"}
  BY DEF Working, Connecting
<1>5. PICK e \in Codes : error' = [error EXCEPT ![t] = e]
  <2>1. error' = [error EXCEPT ![t] = IF place'[t] = "idle" THEN "Success" ELSE error[t]]
    BY DEF Socket!Connect, Socket!Wait
  <2> QED BY <1>2, <2>1 DEF Codes
<1> QED BY <1>1, <1>3, <1>4, <1>5, WorksOn

\* The first close of a socket whose connect has failed: it is still its thread's.
LEMMA ConnectFailsSockets ==
  ASSUME Socket!SocketsAssumption, SocketsInv, NEW t \in Thread, Socket!ConnectFails(t)
  PROVE  SocketsInv'
<1>1. Socket!TypeOK
  BY DEF SocketsInv, Socket!OnlyClosedTwice
<1>2. UNCHANGED <<role, rp, sock, calls>> /\ place[t] = "failed"
      /\ place' = [place EXCEPT ![t] = "close"] /\ error' = [error EXCEPT ![t] = "Connection"]
      /\ table' = [table EXCEPT ![sock[t]] = NoOne]
  BY DEF Socket!ConnectFails, Socket!Goes, Socket!Closes
<1>3. robbed = <<>> => table[sock[t]] = t
  BY <1>2 DEF SocketsInv, Local, Working, Connecting
<1>4. robbed' = robbed
  BY <1>3 DEF Socket!ConnectFails, Socket!Closes
<1>5. Socket!TypeOK'
  BY <1>1, <1>2, <1>4 DEF Socket!TypeOK
<1>6. \A u \in Thread \ {t} : Untouched(u)
  BY <1>1, <1>2 DEF Untouched, Socket!TypeOK
<1>7. ASSUME robbed = <<>>, NEW u \in Thread \ {t} PROVE Keeps(u)
  BY <1>1, <1>2, <1>3, <1>7, ChangesHands, Names
<1>8. place'[t] = "close" /\ error'[t] = "Connection"
  BY <1>1, <1>2 DEF Socket!TypeOK
<1>9. Addressed(t)'
  BY <1>2 DEF SocketsInv, Addressed, Working, Connecting
<1>10. ASSUME robbed = <<>>, Local(t) PROVE Local(t)'
  <2>1. sock[t] # Socket!INVALID /\ role[t] # "server"
    BY <1>2, <1>10 DEF Local, Working, Connecting
  <2>2. \A f \in Socket!Descriptor : table'[f] = t => table[f] = t
    BY <1>1, <1>2, Names DEF Socket!TypeOK
  <2> QED BY <1>2, <1>8, <1>10, <2>1, <2>2 DEF Local, Working, Connecting
<1> QED BY <1>4, <1>5, <1>6, <1>7, <1>9, <1>10, OneThread

\* The close in create_socket(): of the thread's own descriptor, or the second close after
\* a connect that failed, whose number may be another's by now.
LEMMA TryNextSockets ==
  ASSUME Socket!SocketsAssumption, SocketsInv, NEW t \in Thread, Socket!TryNext(t)
  PROVE  SocketsInv'
<1>1. Socket!TypeOK
  BY DEF SocketsInv, Socket!OnlyClosedTwice
<1>2. UNCHANGED <<role, error, calls>> /\ place[t] = "close"
      /\ place' = [place EXCEPT ![t] = "next"] /\ rp' = [rp EXCEPT ![t] = rp[t] + 1]
      /\ sock' = [sock EXCEPT ![t] = Socket!INVALID] /\ table' = [table EXCEPT ![sock[t]] = NoOne]
  BY DEF Socket!TryNext, Socket!NextAddress, Socket!Goes, Socket!Closes
<1>3. rp[t] + 1 \in 0 .. Addresses
  BY <1>1, <1>2, Counters DEF SocketsInv, Addressed
<1>4. (robbed = <<>> \/ robbed \in Socket!Roles \X Codes)' => Socket!TypeOK'
  BY <1>1, <1>2, <1>3 DEF Socket!TypeOK, Codes
<1>5. \A u \in Thread \ {t} : Untouched(u)
  BY <1>1, <1>2 DEF Untouched, Socket!TypeOK
<1>6. place'[t] = "next" /\ sock'[t] = Socket!INVALID /\ Addressed(t)'
  BY <1>1, <1>2 DEF Socket!TypeOK, Addressed, Working, Connecting
<1>7. CASE robbed' = robbed
  <2>1. Socket!TypeOK'
    BY <1>1, <1>4, <1>7 DEF Socket!TypeOK, Codes
  <2>2. robbed = <<>> => table[sock[t]] \in {t, NoOne}
    BY <1>7 DEF Socket!TryNext, Socket!Closes
  <2>3. ASSUME robbed = <<>>, NEW u \in Thread \ {t} PROVE Keeps(u)
    BY <1>1, <1>2, <2>2, <2>3, ChangesHands, Names
  <2>4. ASSUME robbed = <<>>, Local(t) PROVE Local(t)'
    <3>1. \A f \in Socket!Descriptor : table'[f] # t
      BY <1>1, <1>2, <2>4, Names DEF Local, Socket!TypeOK
    <3> QED BY <1>6, <3>1 DEF Local, Working, Connecting
  <2> QED BY <1>5, <1>6, <1>7, <2>1, <2>3, <2>4, OneThread
<1>8. CASE robbed' # robbed
  <2>1. robbed = <<>> /\ table[sock[t]] # t /\ robbed' = <<role[t], error'[t]>>
    BY <1>8 DEF Socket!TryNext, Socket!Closes
  <2>2. role[t] # "server" /\ error[t] = "Connection"
    BY <1>2, <2>1 DEF SocketsInv, Local
  <2>3. robbed' = <<role[t], "Connection">> /\ role[t] \in Socket!Roles
    BY <1>1, <1>2, <2>1, <2>2 DEF Socket!TypeOK
  <2>4. robbed' \in Socket!Roles \X Codes /\ robbed' # <<>> /\ robbed'[1] # "server"
        /\ robbed'[2] = "Connection"
    BY <2>2, <2>3 DEF Codes
  <2>5. Socket!OnlyClosedTwice'
    BY <1>4, <2>4 DEF Socket!OnlyClosedTwice
  <2>6. ASSUME NEW u \in Thread PROVE Addressed(u)'
    BY <1>5, <1>6 DEF Untouched, Addressed, SocketsInv
  <2> QED BY <2>4, <2>5, <2>6 DEF SocketsInv
<1> QED BY <1>7, <1>8

LEMMA NoSocketSockets ==
  ASSUME Socket!SocketsAssumption, SocketsInv, NEW t \in Thread, Socket!NoSocket(t)
  PROVE  SocketsInv'
<1>1. Socket!TypeOK
  BY DEF SocketsInv, Socket!OnlyClosedTwice
<1>2. UNCHANGED <<table, role, rp, calls, robbed>> /\ place[t] = "next"
      /\ place' = [place EXCEPT ![t] = "idle"] /\ sock' = [sock EXCEPT ![t] = Socket!INVALID]
  BY DEF Socket!NoSocket, Socket!Goes
<1> DEFINE e == IF role[t] # "server" /\ error[t] = "Success" THEN "Connection" ELSE error[t]
<1>3. error' = [error EXCEPT ![t] = e] /\ e \in Codes
  BY <1>1 DEF Socket!NoSocket, Socket!TypeOK, Codes
<1>4. Socket!TypeOK'
  BY <1>1, <1>2, <1>3 DEF Socket!TypeOK, Codes
<1>5. \A u \in Thread \ {t} : Untouched(u) /\ Keeps(u)
  BY <1>1, <1>2, <1>3 DEF Untouched, Keeps, Socket!TypeOK
<1>6. place'[t] = "idle" /\ sock'[t] = Socket!INVALID /\ (role[t] # "server" => error'[t] # "Success")
  BY <1>1, <1>2, <1>3 DEF Socket!TypeOK
<1>7. ASSUME Local(t) PROVE Local(t)'
  <2>1. \A f \in Socket!Descriptor : table'[f] # t
    BY <1>2, <1>7 DEF Local, Socket!Descriptor, Socket!INVALID
  <2> QED BY <1>2, <1>6, <2>1 DEF Local, Working, Connecting
<1>8. Addressed(t)'
  BY <1>6 DEF Addressed, Working, Connecting
<1> QED BY <1>2, <1>4, <1>5, <1>7, <1>8, OneThread

-----------------------------------------------------------------------------
(* The invariant, and what follows from it. *)

LEMMA NextSockets == Socket!SocketsAssumption /\ SocketsInv /\ [Socket!Next]_Socket!vars => SocketsInv'
<1> SUFFICES ASSUME Socket!SocketsAssumption, SocketsInv, [Socket!Next]_Socket!vars PROVE SocketsInv'
  OBVIOUS
<1>1. CASE UNCHANGED Socket!vars
  BY <1>1 DEF Socket!vars, SocketsInv, Socket!OnlyClosedTwice, Socket!TypeOK, Addressed, Local
<1>2. CASE Socket!ProgramOpens \/ \E f \in Socket!Descriptor : Socket!ProgramCloses(f)
  BY <1>2, ProgramSockets
<1>3. ASSUME NEW t \in Thread, Socket!CloseSocket(t) \/ \E as \in Socket!Roles : Socket!Call(t, as)
      PROVE  SocketsInv'
  BY <1>3, CloseSockets, CallSockets
<1>4. ASSUME NEW t \in Thread, Socket!Step(t) PROVE SocketsInv'
  BY <1>4, CreateSockets, SetFlagsSockets, BindSockets, ConnectSockets, ConnectFailsSockets,
     TryNextSockets, NoSocketSockets DEF Socket!Step
<1> QED BY <1>1, <1>2, <1>3, <1>4 DEF Socket!Next

\* A thread has the descriptor that it was given and no other, a client without one is told
\* of an error, and the first close of another's descriptor is the second close of a socket
\* whose connect has failed (create_socket, create_client_socket).
THEOREM DescriptorsOwned == Socket!SocketsAssumption => (Socket!Spec => []Socket!SocketsSound)
<1> SUFFICES ASSUME Socket!SocketsAssumption PROVE Socket!Spec => []Socket!SocketsSound
  OBVIOUS
<1>1. Socket!Init => SocketsInv
  BY InitSockets
<1>2. SocketsInv /\ [Socket!Next]_Socket!vars => SocketsInv'
  BY NextSockets
<1>3. SocketsInv => Socket!SocketsSound
  <2> SUFFICES ASSUME SocketsInv PROVE Socket!NoneLeft
    BY DEF SocketsInv, Socket!SocketsSound
  <2> SUFFICES ASSUME NEW t \in Thread, place[t] = "idle", robbed = <<>>
               PROVE  /\ {f \in Socket!Descriptor : table[f] = t} = {sock[t]} \ {Socket!INVALID}
                      /\ calls[t] > 0 /\ rp[t] = Addresses /\ role[t] # "server"
                             => error[t] # "Success"
    BY DEF Socket!NoneLeft
  <2>1. Local(t) /\ sock[t] \in Socket!Descriptor \cup {Socket!INVALID}
    BY DEF SocketsInv, Socket!OnlyClosedTwice, Socket!TypeOK
  <2>2. sock[t] # Socket!INVALID => table[sock[t]] = t
    BY <2>1 DEF Local
  <2>3. \A f \in Socket!Descriptor : f # Socket!INVALID
    BY DEF Socket!Descriptor, Socket!INVALID
  <2> QED BY <2>1, <2>2, <2>3 DEF Local
<1> QED BY <1>1, <1>2, <1>3, PTL DEF Socket!Spec

-----------------------------------------------------------------------------
CONSTANTS MaxSize, Ranges, MaxRanges, Word, PartHead, LastBoundary          \* of HttpAnswer
VARIABLES method, header, ranges, stage, status, content, size, behind, thrown, apply,
          pieces, length, range, sent, written, ret                         \* stage is its at

Answer == INSTANCE HttpAnswer WITH at <- stage

Contents == {"none", "body", "length", "chunked", "open"}
Made == {"head", "body"}

\* The ranges that are taken are a beginning of the header, and none runs backwards.
AnswerTyped ==
    /\ Answer!TypeOK
    /\ header \in Seq(Ranges) /\ Len(header) <= MaxRanges
    /\ \A i \in DOMAIN ranges : ~Answer!Backwards(ranges[i])

\* What is not decided yet.
AnswerFresh ==
    /\ stage = "parse" => ranges = <<>>
    /\ stage \in {"parse", "routing"} => content = "none" /\ ~thrown /\ status = -1
    /\ stage \in {"parse", "routing", "error"} => ~apply /\ behind = <<"none", 0>>
    /\ stage \in {"parse", "routing", "error", "apply"} =>
        /\ pieces = <<>> /\ length = -1 /\ range = <<>>
        /\ size > 0 <=> content \in {"body", "length"}
        /\ status = 416 => ranges # header
    /\ stage # "done" => sent = <<>> /\ written = 0

\* A content of which no ranges are made is one that a handler has left when it threw, and
\* only a handler that returned has an answer with 206.
AnswerKept ==
    /\ ~apply /\ content # "none" => thrown
    /\ status = 206 => apply /\ ranges # <<>>

\* The pieces of a body are what its ranges cut out of it, or all of it.
AnswerCut ==
    IF ranges = <<>> THEN pieces = <<<<0, size>>>>
    ELSE /\ Len(pieces) = Len(ranges)
         /\ \A i \in DOMAIN ranges :
                LET p == Answer!OffsetAndLength(ranges[i], size)
                IN  Answer!Inside(p) /\ pieces[i] = Answer!Clip(p)

\* What is said of the length, from apply_ranges() to the last byte.
AnswerSaid ==
    stage \in Made =>
        /\ content # "body" => pieces = <<>>
        /\ content = "body" /\ apply => AnswerCut /\ length = Answer!Bytes(pieces) + Answer!Around
        /\ content = "none" => length \in IF stage = "head" THEN {-1, 0} ELSE {0}
        /\ content # "none" /\ ~apply => length = -1
        /\ content = "length" /\ apply =>
            \/ status = 416 /\ behind[1] # "none"
            \/ length = (Answer!Bytes(Answer!AskedOfProvider) + Answer!Around) % Word
        /\ content \in {"body", "length"} /\ Len(ranges) = 1 /\ status = 206 =>
            range = Answer!ContentRange(Answer!OffsetAndLength(ranges[1], size))

AnswerInv ==
    /\ AnswerTyped /\ AnswerFresh /\ AnswerKept /\ AnswerSaid
    /\ Answer!Framed /\ Answer!RangesRight /\ Answer!RefusesEmptyRanges
-----------------------------------------------------------------------------
(* Lengths modulo Word.                                                        *)

LEMMA Within == ASSUME NEW w \in Nat, NEW x \in Nat, x < w PROVE x % w = x
  OBVIOUS

LEMMA Below == ASSUME NEW w \in Nat, NEW x \in Int, x < 0, x + w >= 0 PROVE x % w = x + w
  OBVIOUS

LEMMA InWord == ASSUME NEW w \in Nat, NEW x \in Int, w > 0 PROVE x % w \in 0 .. w - 1
  OBVIOUS

LEMMA OneMore == ASSUME NEW n \in Int, NEW b \in Int PROVE n * b = (n - 1) * b + b
  OBVIOUS
LEMMA Mono == ASSUME NEW n \in Nat, NEW m \in Nat, n <= m, NEW b \in Nat PROVE n * b <= m * b
  OBVIOUS

-----------------------------------------------------------------------------
(* The bytes of some pieces.                                                   *)

\* Induction over the numbers up to N, for a set: else the least that is missing would not be.
LEMMA UpTo ==
  ASSUME NEW N \in Nat, NEW G, 0 \in G, \A n \in 1 .. N : n - 1 \in G => n \in G
  PROVE  \A n \in 0 .. N : n \in G
<1>. DEFINE B == {n \in 1 .. N : n \notin G}
<1>1. CASE B = {}
  <2>. SUFFICES ASSUME NEW n \in 0 .. N PROVE n \in G
    OBVIOUS
  <2>1. n = 0 \/ n \in 1 .. N
    OBVIOUS
  <2>. QED  BY <1>1, <2>1
<1>2. CASE B # {}
  <2>1. B \in SUBSET (1 .. N)
    OBVIOUS
  <2>2. PICK n \in B : \A j \in B : n <= j
    <3>. HIDE DEF B
    <3>. QED  BY <1>2, <2>1, Least
  <2>3. n \in 1 .. N /\ n \notin G
    OBVIOUS
  <2>4. n - 1 \notin G
    BY <2>3
  <2>5. n - 1 \in 1 .. N
    BY <2>3, <2>4
  <2>6. n - 1 \in B
    BY <2>4, <2>5
  <2>7. n <= n - 1
    <3>. HIDE DEF B
    <3>. QED  BY <2>2, <2>6
  <2>. QED  BY <2>3, <2>7
<1>. QED  BY <1>1, <1>2

LEMMA Highest ==
  ASSUME NEW n \in Nat, NEW S \in SUBSET (1 .. n), n \in S
  PROVE  Answer!Max(S) = n
<1>1. \A y \in S : n >= y
  OBVIOUS
<1>2. \A x \in S : (\A y \in S : x >= y) => x = n
  OBVIOUS
<1>. QED  BY <1>1, <1>2 DEF Answer!Max

\* The bytes of the pieces with the indexes in a set, added by increasing index.
IsSum(f, s, I) ==
    f = [S \in SUBSET I |-> IF S = {} THEN 0 ELSE f[S \ {Answer!Max(S)}] + s[Answer!Max(S)][2]]

LEMMA BytesAre == \A s : Answer!Bytes(s) = (CHOOSE f : IsSum(f, s, DOMAIN s))[DOMAIN s]
  BY Zenon DEF Answer!Bytes, Answer!FoldLeft, Answer!MapThenFoldSet, IsSum

Lengths == Seq(Nat \X Nat)

LEMMA SumExists ==
  ASSUME NEW s \in Lengths
  PROVE  \E f : IsSum(f, s, 1 .. Len(s))
<1>. DEFINE G == {n \in 0 .. Len(s) : \E f : IsSum(f, s, 1 .. n)}
<1>1. Len(s) \in Nat
  BY DEF Lengths
<1>2. 0 \in G
  <2>1. PICK f : f = [S \in SUBSET (1 .. 0) |-> 0]
    OBVIOUS
  <2>2. \A S \in SUBSET (1 .. 0) : S = {}
    OBVIOUS
  <2>3. f = [S \in SUBSET (1 .. 0) |-> IF S = {} THEN 0 ELSE f[S \ {Answer!Max(S)}] + s[Answer!Max(S)][2]]
    BY <2>1, <2>2, Zenon
  <2>4. IsSum(f, s, 1 .. 0)
    BY <2>3, Zenon DEF IsSum
  <2>. QED  BY <1>1, <2>4
<1>3. ASSUME NEW n \in 1 .. Len(s), n - 1 \in G PROVE n \in G
  <2>1. PICK f : IsSum(f, s, 1 .. n - 1)
    BY <1>3
  <2>2. \A S \in SUBSET (1 .. n - 1) :
          f[S] = IF S = {} THEN 0 ELSE f[S \ {Answer!Max(S)}] + s[Answer!Max(S)][2]
    BY <2>1 DEF IsSum
  <2>. DEFINE g == [S \in SUBSET (1 .. n) |-> IF n \in S THEN f[S \ {n}] + s[n][2] ELSE f[S]]
  <2>3. ASSUME NEW S \in SUBSET (1 .. n)
        PROVE  g[S] = IF S = {} THEN 0 ELSE g[S \ {Answer!Max(S)}] + s[Answer!Max(S)][2]
    <3>1. CASE n \in S
      <4>1. Answer!Max(S) = n /\ S # {}
        BY <1>1, <3>1, Highest
      <4>2. S \ {n} \in SUBSET (1 .. n) /\ n \notin S \ {n}
        OBVIOUS
      <4>3. g[S \ {n}] = f[S \ {n}]
        BY <4>2
      <4>4. g[S] = f[S \ {n}] + s[n][2]
        BY <3>1
      <4>. QED  BY <4>1, <4>3, <4>4, Zenon
    <3>2. CASE n \notin S
      <4>1. S \in SUBSET (1 .. n - 1) /\ g[S] = f[S]
        BY <1>1, <3>2
      <4>2. ASSUME NEW x PROVE g[S \ {x}] = f[S \ {x}]
        <5>1. S \ {x} \in SUBSET (1 .. n) /\ n \notin S \ {x}
          BY <3>2
        <5>. QED  BY <5>1
      <4>3. g[S \ {Answer!Max(S)}] = f[S \ {Answer!Max(S)}]
        BY <4>2, Zenon
      <4>4. f[S] = IF S = {} THEN 0 ELSE f[S \ {Answer!Max(S)}] + s[Answer!Max(S)][2]
        BY <2>2, <4>1, Zenon
      <4>. QED  BY <4>1, <4>3, <4>4, Zenon
    <3>. QED  BY <3>1, <3>2
  <2>4. PICK h : h = g
    OBVIOUS
  <2>5. h = [S \in SUBSET (1 .. n) |-> h[S]]
    BY <2>4
  <2>6. \A S \in SUBSET (1 .. n) :
          h[S] = IF S = {} THEN 0 ELSE h[S \ {Answer!Max(S)}] + s[Answer!Max(S)][2]
    <3>. HIDE DEF g
    <3>. QED  BY <2>3, <2>4, Zenon
  <2>7. IsSum(h, s, 1 .. n)
    <3>. HIDE DEF g
    <3>. QED  BY <2>5, <2>6, Zenon DEF IsSum
  <2>. QED  BY <1>1, <2>7
<1>4. \A n \in 0 .. Len(s) : n \in G
  <2>. HIDE DEF G
  <2>. QED  BY <1>1, <1>2, <1>3, UpTo
<1>5. Len(s) \in G
  <2>1. Len(s) \in 0 .. Len(s)
    BY <1>1
  <2>. HIDE DEF G
  <2>. QED  BY <1>4, <2>1
<1>. QED  BY <1>5

LEMMA SumIs ==
  ASSUME NEW s \in Lengths
  PROVE  \E f : /\ Answer!Bytes(s) = f[1 .. Len(s)]
                /\ f[{}] = 0
                /\ \A n \in 1 .. Len(s) : f[1 .. n] = f[1 .. n - 1] + s[n][2]
<1>1. Len(s) \in Nat /\ DOMAIN s = 1 .. Len(s)
  BY DEF Lengths
<1>2. PICK f : f = CHOOSE g : IsSum(g, s, DOMAIN s)
  OBVIOUS
<1>3. IsSum(f, s, 1 .. Len(s))
  BY <1>1, <1>2, SumExists, Zenon
<1>4. Answer!Bytes(s) = f[1 .. Len(s)]
  BY <1>1, <1>2, BytesAre, Zenon
<1>5. \A S \in SUBSET (1 .. Len(s)) :
        f[S] = IF S = {} THEN 0 ELSE f[S \ {Answer!Max(S)}] + s[Answer!Max(S)][2]
  BY <1>3 DEF IsSum
<1>6. f[{}] = 0
  BY <1>5
<1>7. ASSUME NEW n \in 1 .. Len(s)
      PROVE  f[1 .. n] = f[1 .. n - 1] + s[n][2]
  <2>1. 1 .. n \in SUBSET (1 .. Len(s)) /\ 1 .. n # {} /\ n \in 1 .. n
    BY <1>1
  <2>2. Answer!Max(1 .. n) = n
    BY <2>1, Highest
  <2>3. (1 .. n) \ {n} = 1 .. n - 1
    OBVIOUS
  <2>. QED  BY <1>5, <2>1, <2>2, <2>3, Zenon
<1>. QED  BY <1>4, <1>6, <1>7

\* Pieces of at most b bytes have at most b times as many.
LEMMA BytesBound ==
  ASSUME NEW s \in Lengths, NEW b \in Nat, \A i \in DOMAIN s : s[i][2] <= b
  PROVE  Answer!Bytes(s) \in Nat /\ Answer!Bytes(s) <= Len(s) * b
<1>1. Len(s) \in Nat /\ DOMAIN s = 1 .. Len(s) /\ \A i \in 1 .. Len(s) : s[i][2] \in Nat
  BY DEF Lengths
<1>2. PICK f : /\ Answer!Bytes(s) = f[1 .. Len(s)]
               /\ f[{}] = 0
               /\ \A n \in 1 .. Len(s) : f[1 .. n] = f[1 .. n - 1] + s[n][2]
  BY SumIs
<1>. DEFINE G == {n \in 0 .. Len(s) : f[1 .. n] \in Nat /\ f[1 .. n] <= n * b}
<1>3. 0 \in G
  <2>1. 1 .. 0 = {} /\ 0 * b = 0
    OBVIOUS
  <2>. QED  BY <1>1, <1>2, <2>1
<1>4. ASSUME NEW n \in 1 .. Len(s), n - 1 \in G PROVE n \in G
  <2>1. f[1 .. n - 1] \in Nat /\ f[1 .. n - 1] <= (n - 1) * b
    BY <1>4
  <2>2. f[1 .. n] = f[1 .. n - 1] + s[n][2] /\ s[n][2] \in Nat /\ s[n][2] <= b
    BY <1>1, <1>2
  <2>3. n * b = (n - 1) * b + b /\ n * b \in Int /\ (n - 1) * b \in Int
    BY OneMore
  <2>4. f[1 .. n] \in Nat /\ f[1 .. n] <= n * b
    BY <2>1, <2>2, <2>3
  <2>. QED  BY <1>1, <2>4
<1>5. \A n \in 0 .. Len(s) : n \in G
  <2>. HIDE DEF G
  <2>. QED  BY <1>1, <1>3, <1>4, UpTo
<1>6. Len(s) \in G
  <2>1. Len(s) \in 0 .. Len(s)
    BY <1>1
  <2>. HIDE DEF G
  <2>. QED  BY <1>5, <2>1
<1>. QED  BY <1>2, <1>6

LEMMA BytesOfNone == Answer!Bytes(<<>>) = 0
<1>1. <<>> \in Lengths /\ Len(<<>>) = 0 /\ 1 .. 0 = {}
  BY DEF Lengths
<1>. QED  BY <1>1, SumIs

-----------------------------------------------------------------------------
(* What is asked of a content for one range.                                   *)

LEMMA Larger == ASSUME NEW x \in Int, NEW y \in Int PROVE Answer!Max({x, y}) = IF x >= y THEN x ELSE y
<1>1. CASE x >= y
  <2>1. \A z \in {x, y} : (\A v \in {x, y} : z >= v) => z = x
    BY <1>1
  <2>2. \A v \in {x, y} : x >= v
    BY <1>1
  <2>. QED  BY <1>1, <2>1, <2>2 DEF Answer!Max
<1>2. CASE x < y
  <2>1. \A z \in {x, y} : (\A v \in {x, y} : z >= v) => z = y
    BY <1>2
  <2>2. \A v \in {x, y} : y >= v
    BY <1>2
  <2>. QED  BY <1>2, <2>1, <2>2 DEF Answer!Max
<1>. QED  BY <1>1, <1>2

LEMMA Smaller == ASSUME NEW x \in Int, NEW y \in Int PROVE Answer!Min({x, y}) = IF x <= y THEN x ELSE y
<1>1. CASE x <= y
  <2>1. \A z \in {x, y} : (\A v \in {x, y} : z <= v) => z = x
    BY <1>1
  <2>2. \A v \in {x, y} : x <= v
    BY <1>1
  <2>. QED  BY <1>1, <2>1, <2>2 DEF Answer!Min
<1>2. CASE x > y
  <2>1. \A z \in {x, y} : (\A v \in {x, y} : z <= v) => z = y
    BY <1>2
  <2>2. \A v \in {x, y} : y <= v
    BY <1>2
  <2>. QED  BY <1>2, <2>1, <2>2 DEF Answer!Min
<1>. QED  BY <1>1, <1>2

\* The numbers of a range and of a content, which no sum of them makes wrap around.
Plain(g, n) ==
    /\ g \in Ranges /\ ~Answer!Backwards(g)
    /\ n \in 0 .. MaxSize

LEMMA Numbers ==
  ASSUME Answer!AnswerAssumption
  PROVE  /\ MaxSize \in Nat /\ MaxRanges \in Nat /\ PartHead \in Nat /\ LastBoundary \in Nat
         /\ Word \in Nat /\ MaxSize < Word
         /\ (MaxRanges + 1) * (MaxSize + PartHead) + LastBoundary < Word
         /\ \A g \in Ranges : /\ g = <<g[1], g[2]>> /\ g[1] \in Nat \cup {-1} /\ g[2] \in Nat \cup {-1}
                              /\ g[1] + g[2] + MaxSize + 2 < Word
<1>1. /\ MaxSize \in Nat /\ MaxRanges \in Nat /\ PartHead \in Nat /\ LastBoundary \in Nat
      /\ Word \in Nat /\ (MaxRanges + 1) * (MaxSize + PartHead) + LastBoundary < Word
  BY DEF Answer!AnswerAssumption
<1>2. MaxSize <= (MaxRanges + 1) * (MaxSize + PartHead)
  <2>1. 1 * (MaxSize + PartHead) <= (MaxRanges + 1) * (MaxSize + PartHead)
    BY <1>1, Mono
  <2>. QED  BY <1>1, <2>1
<1>3. (MaxRanges + 1) * (MaxSize + PartHead) \in Int
  BY <1>1
<1>4. MaxSize < Word
  BY <1>1, <1>2, <1>3
<1>5. ASSUME NEW g \in Ranges
      PROVE  /\ g = <<g[1], g[2]>> /\ g[1] \in Nat \cup {-1} /\ g[2] \in Nat \cup {-1}
             /\ g[1] + g[2] + MaxSize + 2 < Word
  <2>1. g \in (Nat \cup {-1}) \X (Nat \cup {-1})
    BY DEF Answer!AnswerAssumption
  <2>2. g = <<g[1], g[2]>> /\ g[1] \in Nat \cup {-1} /\ g[2] \in Nat \cup {-1}
    BY <2>1
  <2>3. 2 * (g[1] + g[2] + MaxSize + 2) < Word
    BY DEF Answer!AnswerAssumption
  <2>4. g[1] >= -1 /\ g[2] >= -1 /\ g[1] \in Int /\ g[2] \in Int
    BY <2>2
  <2>. QED  BY <1>1, <2>2, <2>3, <2>4
<1>. QED  BY <1>1, <1>4, <1>5

\* A range that is open at the end and begins behind it: its length wraps around.
Behind(g, n) == g[1] # -1 /\ g[2] = -1 /\ g[1] > n

LEMMA OffsetIs ==
  ASSUME Answer!AnswerAssumption, NEW g, NEW n, Plain(g, n)
  PROVE  \E a \in Nat, b \in Nat :
            /\ Answer!OffsetAndLength(g, n) = <<a, b>> /\ a < Word /\ b < Word
            /\ IF g[1] = -1
               THEN /\ a <= n /\ b = n - a
                    /\ g[2] = -1 => a = 0
                    /\ g[2] # -1 => a = IF g[2] >= n THEN 0 ELSE n - g[2]
               ELSE /\ a = g[1]
                    /\ g[2] # -1 => g[2] >= a /\ b = g[2] - a + 1
                    /\ g[2] = -1 => b = IF a > n THEN n - a + Word ELSE n - a
<1>. DEFINE k == g[1]
            m == g[2]
<1>1. /\ n \in Nat /\ n < Word /\ Word \in Nat /\ g = <<k, m>>
      /\ k \in Nat \cup {-1} /\ m \in Nat \cup {-1} /\ k + m + n + 2 < Word
      /\ ~(k # -1 /\ m # -1 /\ k > m)
  <2>1. n \in Nat /\ n <= MaxSize /\ g \in Ranges
    BY Numbers DEF Plain
  <2>. QED  BY <2>1, Numbers DEF Plain, Answer!Backwards
<1>. HIDE DEF k, m
<1>2. CASE k = -1 /\ m = -1
  <2>1. Answer!OffsetAndLength(g, n) = <<0, n>>
    BY <1>1, <1>2, Zenon DEF Answer!OffsetAndLength
  <2>2. 0 \in Nat /\ 0 < Word /\ 0 <= n /\ n = n - 0
    BY <1>1
  <2>. QED  BY <1>1, <1>2, <2>1, <2>2 DEF k, m
<1>3. ~(k = -1 /\ m = -1) => g # <<-1, -1>>
  BY <1>1
<1>4. CASE k = -1 /\ m # -1
  <2>1. PICK a : a = IF m >= n THEN 0 ELSE n - m
    OBVIOUS
  <2>2. a \in Nat /\ a <= n /\ m \in Nat
    BY <1>1, <1>4, <2>1
  <2>3. Answer!Max({0, n - m}) = a
    <3>1. 0 \in Int /\ n - m \in Int
      BY <1>1, <2>2
    <3>2. Answer!Max({0, n - m}) = IF 0 >= n - m THEN 0 ELSE n - m
      BY <3>1, Larger
    <3>. QED  BY <1>1, <2>1, <2>2, <3>2
  <2>4. (n - 1 - a + 1) % Word = n - a
    <3>1. n - 1 - a + 1 = n - a /\ n - a \in Nat /\ n - a < Word
      BY <1>1, <2>2
    <3>. QED  BY <1>1, <3>1, Within
  <2>5. Answer!OffsetAndLength(g, n) = <<a, (n - 1 - a + 1) % Word>>
    BY <1>1, <1>3, <1>4, <2>3, Zenon DEF Answer!OffsetAndLength, k, m
  <2>6. n - a \in Nat /\ a < Word /\ n - a < Word
    BY <1>1, <2>2
  <2>. QED  BY <1>1, <1>4, <2>1, <2>2, <2>4, <2>5, <2>6 DEF k, m
<1>5. CASE k # -1 /\ m # -1
  <2>1. k \in Nat /\ m \in Nat /\ k <= m
    BY <1>1, <1>5
  <2>2. (m - k + 1) % Word = m - k + 1
    <3>1. m - k + 1 \in Nat /\ m - k + 1 < Word
      BY <1>1, <2>1
    <3>. QED  BY <1>1, <3>1, Within
  <2>3. Answer!OffsetAndLength(g, n) = <<k, (m - k + 1) % Word>>
    BY <1>1, <1>3, <1>5, Zenon DEF Answer!OffsetAndLength, k, m
  <2>4. m - k + 1 \in Nat /\ k < Word /\ m - k + 1 < Word
    BY <1>1, <2>1
  <2>. QED  BY <1>1, <1>5, <2>1, <2>2, <2>3, <2>4 DEF k, m
<1>6. CASE k # -1 /\ m = -1
  <2>1. k \in Nat
    BY <1>1, <1>6
  <2>2. Answer!OffsetAndLength(g, n) = <<k, (n - 1 - k + 1) % Word>>
    BY <1>1, <1>3, <1>6, Zenon DEF Answer!OffsetAndLength, k, m
  <2>3. PICK b : b = IF k > n THEN n - k + Word ELSE n - k
    OBVIOUS
  <2>4. (n - 1 - k + 1) % Word = b /\ b \in Nat /\ b < Word
    <3>1. n - 1 - k + 1 = n - k /\ n - k \in Int
      BY <1>1, <2>1
    <3>2. CASE k > n
      <4>1. n - k < 0 /\ n - k + Word >= 0
        BY <1>1, <1>6, <2>1, <3>2
      <4>2. (n - k) % Word = n - k + Word
        BY <1>1, <3>1, <4>1, Below
      <4>. QED  BY <1>1, <2>1, <2>3, <3>1, <3>2, <4>1, <4>2
    <3>3. CASE ~(k > n)
      <4>1. n - k \in Nat /\ n - k < Word
        BY <1>1, <2>1, <3>3
      <4>2. (n - k) % Word = n - k
        BY <1>1, <4>1, Within
      <4>. QED  BY <2>3, <3>1, <3>3, <4>1, <4>2
    <3>. QED  BY <3>2, <3>3
  <2>5. k < Word
    BY <1>1, <1>6, <2>1
  <2>. QED  BY <1>1, <1>6, <2>1, <2>2, <2>3, <2>4, <2>5 DEF k, m
<1>. QED  BY <1>2, <1>4, <1>5, <1>6

LEMMA PositionsAre ==
  ASSUME Answer!AnswerAssumption, NEW g \in Ranges, NEW n \in Nat, NEW lo \in Int, NEW hi \in Int, 0 <= lo, hi < n,
         \A i \in 0 .. n - 1 : lo <= i /\ i <= hi
            <=> /\ g[1] = -1 /\ g[2] # -1 => i >= n - g[2]
                /\ g[1] # -1 => i >= g[1] /\ (g[2] = -1 \/ i <= g[2])
  PROVE  Answer!Positions(g, n) = lo .. hi
<1>1. (g = <<-1, -1>>) <=> (g[1] = -1 /\ g[2] = -1)
  BY Numbers
<1>2. ASSUME NEW i \in 0 .. n - 1
      PROVE  (IF g = <<-1, -1>> THEN TRUE
              ELSE IF g[1] = -1 THEN i >= n - g[2]
              ELSE i >= g[1] /\ (g[2] = -1 \/ i <= g[2])) <=> i \in lo .. hi
  <2>1. i \in lo .. hi <=> lo <= i /\ i <= hi
    OBVIOUS
  <2>2. CASE g = <<-1, -1>>
    BY <1>1, <2>1, <2>2
  <2>3. CASE g # <<-1, -1>> /\ g[1] = -1
    BY <1>1, <2>1, <2>3
  <2>4. CASE g # <<-1, -1>> /\ g[1] # -1
    BY <1>1, <2>1, <2>4
  <2>. QED  BY <2>2, <2>3, <2>4
<1>3. lo .. hi \subseteq 0 .. n - 1
  OBVIOUS
<1>4. Answer!Positions(g, n) =
        {i \in 0 .. n - 1 : IF g = <<-1, -1>> THEN TRUE
                            ELSE IF g[1] = -1 THEN i >= n - g[2]
                            ELSE i >= g[1] /\ (g[2] = -1 \/ i <= g[2])}
  BY Zenon DEF Answer!Positions
<1>. QED  BY <1>2, <1>3, <1>4

\* What is cut out of a body of n bytes for a range.
LEMMA BodyRange ==
  ASSUME Answer!AnswerAssumption, NEW g, NEW n \in Nat, Plain(g, n), NEW p, p = Answer!OffsetAndLength(g, n)
  PROVE  /\ p \in Answer!Piece
         /\ p[1] < n <=> Answer!Positions(g, n) # {}
         /\ p[1] < n => \E q \in Answer!Piece :
                /\ q = <<p[1], Answer!Min({p[2], n - p[1]})>> /\ q[2] <= n
                /\ Answer!Covers(q) = Answer!Positions(g, n)
                /\ g[2] < n => q = p /\ (p[1] + p[2] - 1) % Word = p[1] + p[2] - 1
<1>. DEFINE k == g[1]
            m == g[2]
<1>1. /\ n \in Nat /\ n < Word /\ Word \in Nat /\ g = <<k, m>> /\ k \in Nat \cup {-1} /\ m \in Nat \cup {-1}
  <2>1. n <= MaxSize /\ g \in Ranges
    BY Numbers DEF Plain
  <2>. QED  BY <2>1, Numbers
<1>2. PICK a \in Nat, b \in Nat :
            /\ p = <<a, b>> /\ a < Word /\ b < Word
            /\ IF k = -1
               THEN /\ a <= n /\ b = n - a
                    /\ m = -1 => a = 0
                    /\ m # -1 => a = IF m >= n THEN 0 ELSE n - m
               ELSE /\ a = k
                    /\ m # -1 => m >= a /\ b = m - a + 1
                    /\ m = -1 => b = IF a > n THEN n - a + Word ELSE n - a
  BY OffsetIs
<1>3. ASSUME NEW lo \in Int, NEW hi \in Int, 0 <= lo, hi < n,
             \A i \in 0 .. n - 1 : lo <= i /\ i <= hi
                <=> /\ k = -1 /\ m # -1 => i >= n - m
                    /\ k # -1 => i >= k /\ (m = -1 \/ i <= m)
      PROVE  Answer!Positions(g, n) = lo .. hi
  <2>1. g \in Ranges
    BY DEF Plain
  <2>. QED  BY <1>3, <2>1, PositionsAre
<1>. HIDE DEF k, m
<1>4. p \in Answer!Piece /\ p[1] = a /\ p[2] = b
  BY <1>1, <1>2 DEF Answer!Piece
<1>5. PICK e : e = IF b <= n - a THEN b ELSE n - a
  OBVIOUS
<1>6. Answer!Min({b, n - a}) = e
  <2>1. b \in Int /\ n - a \in Int
    BY <1>1
  <2>. QED  BY <1>5, <2>1, Smaller
<1>7. CASE a < n
  <2>1. e \in Nat /\ e <= n /\ e <= b
    BY <1>1, <1>5, <1>7
  <2>2. a .. a + e - 1 = Answer!Positions(g, n)
    <3>1. ASSUME NEW i \in 0 .. n - 1
          PROVE  a <= i /\ i <= a + e - 1
                   <=> /\ k = -1 /\ m # -1 => i >= n - m
                       /\ k # -1 => i >= k /\ (m = -1 \/ i <= m)
      <4>1. CASE k = -1
        BY <1>1, <1>2, <1>5, <1>7, <4>1
      <4>2. CASE k # -1 /\ m = -1
        BY <1>1, <1>2, <1>5, <1>7, <4>2
      <4>3. CASE k # -1 /\ m # -1
        BY <1>1, <1>2, <1>5, <1>7, <4>3
      <4>. QED  BY <4>1, <4>2, <4>3
    <3>2. a \in Int /\ a + e - 1 \in Int /\ 0 <= a /\ a + e - 1 < n
      BY <1>1, <1>5, <2>1
    <3>. QED  BY <1>3, <3>1, <3>2
  <2>3. e > 0
    <3>1. n - a > 0
      BY <1>1, <1>7
    <3>2. b > 0
      BY <1>1, <1>2, <1>7
    <3>. QED  BY <1>5, <3>1, <3>2
  <2>4. Answer!Positions(g, n) # {}
    <3>1. a \in a .. a + e - 1
      BY <2>1, <2>3
    <3>. QED  BY <2>2, <3>1
  <2>5. <<a, e>> \in Answer!Piece
    BY <1>1, <1>2, <2>1 DEF Answer!Piece
  <2>6. Answer!Covers(<<a, e>>) = a .. a + e - 1
    BY DEF Answer!Covers
  <2>7. ASSUME m < n PROVE e = b /\ (a + b - 1) % Word = a + b - 1
    <3>1. b <= n - a /\ b > 0
      BY <1>1, <1>2, <1>7, <2>7, <2>3, <1>5
    <3>2. e = b
      BY <1>5, <3>1
    <3>3. a + b - 1 \in Nat /\ a + b - 1 < Word
      BY <1>1, <3>1
    <3>. QED  BY <1>1, <3>2, <3>3, Within
  <2>8. /\ <<a, e>> = <<p[1], Answer!Min({p[2], n - p[1]})>> /\ <<a, e>>[2] <= n
        /\ Answer!Covers(<<a, e>>) = Answer!Positions(g, n)
        /\ g[2] < n => <<a, e>> = p /\ (p[1] + p[2] - 1) % Word = p[1] + p[2] - 1
    <3>1. <<a, e>> = <<p[1], Answer!Min({p[2], n - p[1]})>>
      BY <1>4, <1>6
    <3>2. <<a, e>>[2] <= n
      BY <2>1
    <3>3. Answer!Covers(<<a, e>>) = Answer!Positions(g, n)
      BY <2>2, <2>6
    <3>4. g[2] < n => <<a, e>> = p /\ (p[1] + p[2] - 1) % Word = p[1] + p[2] - 1
      BY <1>2, <1>4, <2>7 DEF m
    <3>. QED  BY <3>1, <3>2, <3>3, <3>4
  <2>. QED  BY <1>4, <1>7, <2>4, <2>5, <2>8
<1>8. CASE ~(a < n)
  <2>1. Answer!Positions(g, n) = {}
    <3>1. ASSUME NEW i \in 0 .. n - 1
          PROVE  0 <= i /\ i <= 0 - 1
                   <=> /\ k = -1 /\ m # -1 => i >= n - m
                       /\ k # -1 => i >= k /\ (m = -1 \/ i <= m)
      <4>1. CASE k = -1
        BY <1>1, <1>2, <1>8, <4>1
      <4>2. CASE k # -1
        BY <1>1, <1>2, <1>8, <4>2
      <4>. QED  BY <4>1, <4>2
    <3>2. Answer!Positions(g, n) = 0 .. 0 - 1
      BY <1>1, <1>3, <3>1
    <3>. QED  BY <3>2
  <2>. QED  BY <1>4, <1>8, <2>1
<1>. QED  BY <1>7, <1>8

\* What a provider gives for a range, whose offset and length are taken of n bytes.
LEMMA ProviderRange ==
  ASSUME Answer!AnswerAssumption, size \in 0 .. MaxSize, NEW g, NEW n \in {0, size}, Plain(g, n),
         NEW p, p = Answer!OffsetAndLength(g, n)
  PROVE  /\ p \in Answer!Piece /\ Answer!Gives(p) \in Answer!Piece
         /\ Answer!Gets(p) /\ ~Behind(g, n) => Answer!Gives(p) = p /\ p[2] <= MaxSize
         /\ Answer!Gets(p) /\ (n = size \/ -1 \notin {g[1], g[2]}) =>
                Answer!Covers(Answer!Gives(p)) = Answer!Positions(g, size)
         /\ Answer!Gets(p) /\ n = size /\ Answer!Gives(p)[2] > 0 =>
                Answer!Gives(p) = p /\ (p[1] + p[2] - 1) % Word = p[1] + p[2] - 1
<1>. DEFINE k == g[1]
            m == g[2]
<1>1. /\ n \in Nat /\ size \in Nat /\ n <= size /\ size < Word /\ Word \in Nat /\ size <= MaxSize /\ MaxSize \in Nat
      /\ g = <<k, m>> /\ k \in Nat \cup {-1} /\ m \in Nat \cup {-1} /\ k + m + 2 < Word
  <2>1. n <= MaxSize /\ g \in Ranges /\ size \in Nat /\ size <= MaxSize /\ n \in Nat /\ n <= size
    BY Numbers DEF Plain
  <2>2. /\ g = <<k, m>> /\ k \in Nat \cup {-1} /\ m \in Nat \cup {-1} /\ k + m + MaxSize + 2 < Word
        /\ MaxSize < Word /\ Word \in Nat /\ MaxSize \in Nat
    BY <2>1, Numbers
  <2>. QED  BY <2>1, <2>2
<1>2. PICK a \in Nat, b \in Nat :
            /\ p = <<a, b>> /\ a < Word /\ b < Word
            /\ IF k = -1
               THEN /\ a <= n /\ b = n - a
                    /\ m = -1 => a = 0
                    /\ m # -1 => a = IF m >= n THEN 0 ELSE n - m
               ELSE /\ a = k
                    /\ m # -1 => m >= a /\ b = m - a + 1
                    /\ m = -1 => b = IF a > n THEN n - a + Word ELSE n - a
  BY OffsetIs
<1>3. ASSUME NEW lo \in Int, NEW hi \in Int, 0 <= lo, hi < size,
             \A i \in 0 .. size - 1 : lo <= i /\ i <= hi
                <=> /\ k = -1 /\ m # -1 => i >= size - m
                    /\ k # -1 => i >= k /\ (m = -1 \/ i <= m)
      PROVE  Answer!Positions(g, size) = lo .. hi
  <2>1. g \in Ranges
    BY DEF Plain
  <2>2. size \in Nat
    BY <1>1
  <2>. QED  BY ONLY <1>3, <2>1, <2>2, PositionsAre, Answer!AnswerAssumption DEF k, m
<1>4. Behind(g, n) <=> k # -1 /\ m = -1 /\ k > n
  BY DEF Behind
<1>. HIDE DEF k, m
<1>5. p \in Answer!Piece /\ p[1] = a /\ p[2] = b
  BY <1>1, <1>2 DEF Answer!Piece
<1>6. PICK e : e = IF Behind(g, n) THEN n ELSE a + b
  OBVIOUS
<1>7. Answer!End(p) = e /\ e \in Nat /\ (~Behind(g, n) => e >= a) /\ (Behind(g, n) => a > n)
  <2>1. Answer!End(p) = (a + b) % Word
    BY <1>5, Zenon DEF Answer!End
  <2>2. CASE Behind(g, n)
    <3>1. a + b = n + Word /\ a > n
      BY <1>1, <1>2, <1>4, <2>2
    <3>2. (n + Word) % Word = n
      BY <1>1
    <3>. QED  BY <1>1, <1>6, <2>1, <2>2, <3>1, <3>2
  <2>3. CASE ~Behind(g, n)
    <3>1. a + b < Word
      <4>1. CASE k = -1
        BY <1>1, <1>2, <4>1
      <4>2. CASE k # -1 /\ m # -1
        BY <1>1, <1>2, <4>2
      <4>3. CASE k # -1 /\ m = -1
        BY <1>1, <1>2, <1>4, <2>3, <4>3
      <4>. QED  BY <4>1, <4>2, <4>3
    <3>2. (a + b) % Word = a + b
      <4>1. a + b \in Nat
        OBVIOUS
      <4>. QED  BY <1>1, <3>1, <4>1, Within
    <3>. QED  BY <1>6, <2>1, <2>3, <3>2
  <2>. QED  BY <2>2, <2>3
<1>8. PICK l : l = IF e <= size THEN e ELSE size
  OBVIOUS
<1>9. PICK d : d = IF l >= a THEN l - a ELSE 0
  OBVIOUS
<1>10. Answer!Gives(p) = <<a, d>> /\ d \in Nat /\ d <= size /\ l \in Nat
  <2>1. Answer!Min({Answer!End(p), size}) = l /\ l \in Nat /\ l <= size
    <3>1. e \in Int /\ size \in Int
      BY <1>1, <1>7
    <3>2. Answer!Min({e, size}) = l
      BY <1>8, <3>1, Smaller
    <3>. QED  BY <1>1, <1>7, <1>8, <3>2
  <2>2. Answer!Max({0, l - a}) = d /\ d \in Nat /\ d <= size
    <3>1. 0 \in Int /\ l - a \in Int
      BY <2>1
    <3>2. Answer!Max({0, l - a}) = IF 0 >= l - a THEN 0 ELSE l - a
      BY <3>1, Larger
    <3>. QED  BY <1>1, <1>9, <2>1, <3>2
  <2>3. Answer!Gives(p) = <<a, Answer!Max({0, Answer!Min({Answer!End(p), size}) - a})>>
    BY <1>5, Zenon DEF Answer!Gives
  <2>. QED  BY <2>1, <2>2, <2>3
<1>11. Answer!Gives(p) \in Answer!Piece /\ Answer!Gives(p)[1] = a /\ Answer!Gives(p)[2] = d
  BY <1>1, <1>2, <1>10 DEF Answer!Piece
<1>12. Answer!Gets(p) <=> a >= e \/ e <= size
  BY <1>5, <1>7 DEF Answer!Gets
<1>13. Answer!Covers(Answer!Gives(p)) = a .. a + d - 1
  BY <1>11 DEF Answer!Covers
<1>14. CASE Answer!Gets(p) /\ ~Behind(g, n)
  <2>1. d = b /\ b <= size
    <3>1. e = a + b /\ (a >= e \/ e <= size)
      BY <1>6, <1>12, <1>14
    <3>2. CASE e <= size
      BY <1>1, <1>8, <1>9, <3>1, <3>2
    <3>3. CASE ~(e <= size)
      <4>1. b = 0
        BY <3>1, <3>3
      <4>2. l < a
        BY <1>1, <1>7, <1>8, <3>1, <3>3, <4>1
      <4>. QED  BY <1>1, <1>9, <1>10, <4>1, <4>2
    <3>. QED  BY <3>2, <3>3
  <2>2. Answer!Gives(p) = p /\ p[2] <= MaxSize
    BY <1>1, <1>2, <1>5, <1>10, <2>1
  <2>3. ASSUME n = size \/ -1 \notin {k, m} PROVE a .. a + d - 1 = Answer!Positions(g, size)
    <3>1. ASSUME NEW i \in 0 .. size - 1
          PROVE  a <= i /\ i <= a + d - 1
                   <=> /\ k = -1 /\ m # -1 => i >= size - m
                       /\ k # -1 => i >= k /\ (m = -1 \/ i <= m)
      <4>1. CASE k = -1 /\ n = size
        BY <1>1, <1>2, <2>1, <4>1
      <4>2. CASE k # -1 /\ m = -1 /\ n = size
        BY <1>1, <1>2, <1>4, <1>14, <2>1, <4>2
      <4>3. CASE k # -1 /\ m # -1
        BY <1>1, <1>2, <2>1, <4>3
      <4>. QED  BY <2>3, <4>1, <4>2, <4>3
    <3>2. a \in Int /\ a + d - 1 \in Int /\ 0 <= a /\ a + d - 1 < size
      <4>1. CASE k = -1
        BY <1>1, <1>2, <2>1, <4>1
      <4>2. CASE k # -1 /\ m = -1
        BY <1>1, <1>2, <1>4, <1>14, <2>1, <4>2
      <4>3. CASE k # -1 /\ m # -1
        BY <1>1, <1>2, <1>6, <1>12, <1>14, <2>1, <4>3
      <4>. QED  BY <4>1, <4>2, <4>3
    <3>. QED  BY <1>3, <3>1, <3>2
  <2>4. d > 0 => (a + b - 1) % Word = a + b - 1
    <3>. SUFFICES ASSUME d > 0 PROVE (a + b - 1) % Word = a + b - 1
      OBVIOUS
    <3>1. e = a + b /\ (a >= e \/ e <= size)
      BY <1>6, <1>12, <1>14
    <3>2. a + b - 1 \in Nat /\ a + b - 1 < Word
      BY <1>1, <2>1, <3>1
    <3>. QED  BY <1>1, <3>2, Within
  <2>. QED  BY <1>2, <1>5, <1>11, <1>13, <1>14, <2>2, <2>3, <2>4 DEF k, m
<1>15. CASE Answer!Gets(p) /\ Behind(g, n)
  <2>1. k # -1 /\ m = -1 /\ k > n /\ a = k /\ e = n
    BY <1>2, <1>4, <1>6, <1>15
  <2>2. d = 0
    BY <1>1, <1>8, <1>9, <2>1
  <2>3. n = size => a .. a + d - 1 = Answer!Positions(g, size)
    <3>. SUFFICES ASSUME n = size PROVE a .. a + d - 1 = Answer!Positions(g, size)
      OBVIOUS
    <3>1. a .. a + d - 1 = {} /\ 0 .. 0 - 1 = {}
      BY <2>2
    <3>2. ASSUME NEW i \in 0 .. size - 1
          PROVE  0 <= i /\ i <= 0 - 1
                   <=> /\ k = -1 /\ m # -1 => i >= size - m
                       /\ k # -1 => i >= k /\ (m = -1 \/ i <= m)
      BY <1>1, <2>1
    <3>3. 0 \in Int /\ 0 - 1 \in Int /\ 0 <= 0 /\ 0 - 1 < size
      BY <1>1
    <3>4. Answer!Positions(g, size) = 0 .. 0 - 1
      BY ONLY <1>3, <3>2, <3>3
    <3>. QED  BY <3>1, <3>4
  <2>4. -1 \in {g[1], g[2]}
    BY <2>1 DEF m
  <2>5. ~(Answer!Gives(p)[2] > 0)
    BY <1>11, <2>2
  <2>. QED  BY <1>5, <1>11, <1>13, <1>15, <2>3, <2>4, <2>5
<1>. QED  BY <1>5, <1>11, <1>14, <1>15

-----------------------------------------------------------------------------
(* What is known of every state.                                               *)

LEMMA Taken ==
  ASSUME Answer!AnswerAssumption, AnswerTyped
  PROVE  /\ size \in 0 .. MaxSize /\ size \in Nat /\ MaxSize \in Nat
         /\ Len(ranges) \in Nat /\ Len(ranges) <= MaxRanges /\ DOMAIN ranges = 1 .. Len(ranges)
         /\ \A i \in DOMAIN ranges : Plain(ranges[i], size) /\ Plain(ranges[i], 0)
<1>1. /\ size \in 0 .. MaxSize /\ ranges \in Seq(Ranges) /\ Len(ranges) <= Len(header)
      /\ Len(header) \in Nat /\ Len(header) <= MaxRanges /\ MaxSize \in Nat /\ MaxRanges \in Nat
  BY Numbers DEF AnswerTyped, Answer!TypeOK, Answer!IsPrefix
<1>2. Len(ranges) \in Nat /\ DOMAIN ranges = 1 .. Len(ranges) /\ \A i \in DOMAIN ranges : ranges[i] \in Ranges
  BY <1>1
<1>3. \A i \in DOMAIN ranges : ~Answer!Backwards(ranges[i])
  BY DEF AnswerTyped
<1>4. \A i \in DOMAIN ranges : Plain(ranges[i], size) /\ Plain(ranges[i], 0)
  BY <1>1, <1>2, <1>3 DEF Plain
<1>. QED  BY <1>1, <1>2, <1>4

\* No answer is longer than a size_t counts.
LEMMA Room ==
  ASSUME Answer!AnswerAssumption, AnswerTyped
  PROVE  /\ Answer!Around \in Nat
         /\ Len(ranges) * MaxSize \in Nat /\ Len(ranges) * MaxSize + Answer!Around < Word
         /\ ranges = <<>> => MaxSize + Answer!Around < Word /\ Answer!Around = 0
<1>. DEFINE k == Len(ranges)
<1>1. /\ k \in Nat /\ k <= MaxRanges /\ MaxRanges \in Nat /\ MaxSize \in Nat /\ PartHead \in Nat
      /\ LastBoundary \in Nat /\ Word \in Nat /\ MaxSize < Word
      /\ (MaxRanges + 1) * (MaxSize + PartHead) + LastBoundary < Word
  BY Taken, Numbers
<1>2. Answer!Around = IF k > 1 THEN k * PartHead + LastBoundary ELSE 0
  BY DEF Answer!Around
<1>3. ranges = <<>> => k = 0
  OBVIOUS
<1>. HIDE DEF k
<1>4. k * (MaxSize + PartHead) <= (MaxRanges + 1) * (MaxSize + PartHead)
  BY <1>1, Mono
<1>5. k * (MaxSize + PartHead) = k * MaxSize + k * PartHead
  BY <1>1
<1>6. k * MaxSize \in Nat /\ k * PartHead \in Nat /\ (MaxRanges + 1) * (MaxSize + PartHead) \in Nat
  BY <1>1
<1>7. k * MaxSize + k * PartHead + LastBoundary < Word
  BY <1>1, <1>4, <1>5, <1>6
<1>8. Answer!Around \in Nat /\ k * MaxSize + Answer!Around < Word
  BY <1>1, <1>2, <1>6, <1>7
<1>9. k = 0 => MaxSize + Answer!Around < Word /\ Answer!Around = 0
  BY <1>1, <1>2
<1>. QED  BY <1>3, <1>6, <1>8, <1>9 DEF k

\* A sequence that has a piece for each range.
LEMMA PieceForEach ==
  ASSUME NEW k \in Nat, NEW s, s = [i \in 1 .. k |-> s[i]], \A i \in 1 .. k : s[i] \in Answer!Piece
  PROVE  s \in Seq(Answer!Piece) /\ Len(s) = k /\ DOMAIN s = 1 .. k
<1>1. s \in [1 .. k -> Answer!Piece]
  OBVIOUS
<1>. QED  BY <1>1

LEMMA PiecesHaveLengths ==
  ASSUME Answer!AnswerAssumption, NEW s \in Seq(Answer!Piece)
  PROVE  s \in Lengths
<1>1. Answer!Piece \subseteq Nat \X Nat
  BY Numbers DEF Answer!Piece
<1>2. s \in [1 .. Len(s) -> Answer!Piece] /\ Len(s) \in Nat
  OBVIOUS
<1>3. s \in [1 .. Len(s) -> Nat \X Nat]
  BY <1>1, <1>2
<1>. QED  BY <1>2, <1>3 DEF Lengths

\* The one piece that is all of a content.
LEMMA Whole ==
  ASSUME Answer!AnswerAssumption, AnswerTyped
  PROVE  /\ <<<<0, size>>>> \in Seq(Answer!Piece) /\ Len(<<<<0, size>>>>) = 1
         /\ DOMAIN <<<<0, size>>>> = {1}
         /\ Answer!Bytes(<<<<0, size>>>>) \in Nat /\ Answer!Bytes(<<<<0, size>>>>) <= MaxSize
<1>1. size \in 0 .. MaxSize /\ size \in Nat /\ MaxSize \in Nat /\ MaxSize < Word /\ Word \in Nat
  BY Taken, Numbers
<1>2. <<0, size>> \in Answer!Piece
  BY <1>1 DEF Answer!Piece
<1>3. PICK s : s = <<<<0, size>>>>
  OBVIOUS
<1>4. s \in Seq(Answer!Piece) /\ Len(s) = 1 /\ DOMAIN s = {1} /\ s[1][2] = size
  BY <1>2, <1>3
<1>5. Answer!Bytes(s) \in Nat /\ Answer!Bytes(s) <= 1 * MaxSize
  <2>1. s \in Lengths
    BY <1>4, PiecesHaveLengths
  <2>2. \A i \in DOMAIN s : s[i][2] <= MaxSize
    BY <1>1, <1>4
  <2>3. Answer!Bytes(s) \in Nat /\ Answer!Bytes(s) <= Len(s) * MaxSize
    BY <1>1, <2>1, <2>2, BytesBound
  <2>. QED  BY <1>4, <2>3
<1>. QED  BY <1>1, <1>3, <1>4, <1>5

\* What is asked of a content that knows its length.
LEMMA AskedIs ==
  ASSUME Answer!AnswerAssumption, AnswerTyped, NEW n \in {0, size}
  PROVE  /\ Answer!Asked(n) \in Seq(Answer!Piece) /\ Len(Answer!Asked(n)) = Len(ranges)
         /\ DOMAIN Answer!Asked(n) = DOMAIN ranges
         /\ \A i \in DOMAIN ranges : Answer!Asked(n)[i] = Answer!OffsetAndLength(ranges[i], n)
<1>1. Len(ranges) \in Nat /\ DOMAIN ranges = 1 .. Len(ranges) /\ size \in 0 .. MaxSize /\ size \in Nat
  BY Taken
<1>2. PICK s : s = Answer!Asked(n)
  OBVIOUS
<1>3. s = [i \in 1 .. Len(ranges) |-> Answer!OffsetAndLength(ranges[i], n)]
  BY <1>1, <1>2 DEF Answer!Asked
<1>4. \A i \in 1 .. Len(ranges) : s[i] = Answer!OffsetAndLength(ranges[i], n)
  BY <1>3
<1>5. ASSUME NEW i \in 1 .. Len(ranges) PROVE s[i] \in Answer!Piece
  <2>1. Plain(ranges[i], n)
    BY <1>1, Taken
  <2>. QED  BY <1>1, <1>4, <2>1, ProviderRange
<1>6. s = [i \in 1 .. Len(ranges) |-> s[i]]
  BY <1>3
<1>7. s \in Seq(Answer!Piece) /\ Len(s) = Len(ranges) /\ DOMAIN s = 1 .. Len(ranges)
  BY <1>1, <1>5, <1>6, PieceForEach
<1>. QED  BY <1>1, <1>2, <1>4, <1>7

AskedOf == IF Len(ranges) = 1 THEN size ELSE 0

LEMMA AskedOfProviderIs ==
  ASSUME Answer!AnswerAssumption, AnswerTyped
  PROVE  /\ Answer!AskedOfProvider \in Seq(Answer!Piece) /\ AskedOf \in {0, size}
         /\ ranges = <<>> => Answer!AskedOfProvider = <<<<0, size>>>>
         /\ ranges # <<>> => Answer!AskedOfProvider = Answer!Asked(AskedOf)
<1>1. AskedOf \in {0, size} /\ Answer!AskedOfProvider = IF ranges = <<>> THEN <<<<0, size>>>> ELSE Answer!Asked(AskedOf)
  BY DEF AskedOf, Answer!AskedOfProvider
<1>2. Answer!Asked(AskedOf) \in Seq(Answer!Piece) /\ <<<<0, size>>>> \in Seq(Answer!Piece)
  BY <1>1, AskedIs, Whole
<1>. QED  BY <1>1, <1>2

-----------------------------------------------------------------------------
(* Before an answer is written.                                                *)

Early == {"parse", "routing", "error", "apply"}

LEMMA NotYet ==
  ASSUME AnswerTyped', AnswerFresh', AnswerKept', stage' \in Early
  PROVE  AnswerInv'
<1>1. stage' # "done" /\ stage' \notin Made
  BY DEF Early, Made
<1>2. AnswerSaid'
  BY <1>1 DEF AnswerSaid
<1>3. Answer!Framed'
  BY <1>1 DEF Answer!Framed, AnswerTyped
<1>4. Answer!RangesRight'
  BY <1>1 DEF Answer!RangesRight
<1>5. Answer!RefusesEmptyRanges'
  BY DEF Answer!RefusesEmptyRanges, Early
<1>. QED  BY <1>2, <1>3, <1>4, <1>5 DEF AnswerInv

LEMMA InitAnswer ==
  ASSUME Answer!AnswerAssumption, Answer!Init
  PROVE  AnswerInv
<1>1. /\ MaxSize \in Nat /\ MaxRanges \in Nat /\ Word \in Nat /\ MaxSize < Word
  BY Numbers
<1>2. header \in Seq(Ranges) /\ Len(header) <= MaxRanges /\ Len(header) \in Nat
  <2>1. PICK m \in 0 .. MaxRanges : header \in [1 .. m -> Ranges]
    BY DEF Answer!Init, Answer!BoundedSeq, Answer!SeqOf
  <2>2. m \in Nat /\ m <= MaxRanges
    BY <1>1, <2>1
  <2>3. header \in Seq(Ranges) /\ Len(header) = m
    BY <2>1, <2>2
  <2>. QED  BY <2>2, <2>3
<1>3. ranges = <<>> /\ ranges \in Seq(Ranges) /\ Answer!IsPrefix(ranges, header) /\ DOMAIN ranges = {}
  <2>1. ranges = <<>>
    BY DEF Answer!Init
  <2>2. SubSeq(ranges, 1, Len(ranges)) = SubSeq(header, 1, Len(ranges))
    BY <1>2, <2>1
  <2>. QED  BY <1>2, <2>1, <2>2 DEF Answer!IsPrefix
<1>4. Answer!TypeOK
  <2>1. 0 \in 0 .. MaxSize /\ -1 \in -1 .. Word - 1 /\ <<>> \in Seq(Answer!Piece) /\ 0 \in Nat
    BY <1>1
  <2>2. <<"none", 0>> \in {"none", "length", "chunked", "open"} \X (0 .. MaxSize)
    BY <2>1
  <2>. QED  BY <1>3, <2>1, <2>2 DEF Answer!Init, Answer!TypeOK
<1>5. AnswerTyped /\ AnswerFresh /\ AnswerKept
  BY <1>2, <1>3, <1>4 DEF Answer!Init, AnswerTyped, AnswerFresh, AnswerKept
<1>6. AnswerSaid /\ Answer!Framed /\ Answer!RangesRight /\ Answer!RefusesEmptyRanges
  BY <1>4 DEF Answer!Init, AnswerSaid, Made, Answer!Framed, Answer!RangesRight, Answer!RefusesEmptyRanges
<1>. QED  BY <1>5, <1>6 DEF AnswerInv

LEMMA ParseAnswer ==
  ASSUME Answer!AnswerAssumption, AnswerInv, Answer!Parse
  PROVE  AnswerInv'
<1>1. Answer!TypeOK /\ header \in Seq(Ranges) /\ Len(header) <= MaxRanges /\ Len(header) \in Nat
  BY DEF AnswerInv, AnswerTyped
<1>2. PICK n \in 0 .. Len(header) :
        /\ \A i \in 1 .. n : ~Answer!Backwards(header[i])
        /\ ranges' = SubSeq(header, 1, n)
        /\ IF n = Len(header) THEN status' = -1 /\ stage' = "routing"
                              ELSE status' = 416 /\ stage' = "error"
  BY DEF Answer!Parse, Answer!Goes
<1>3. /\ stage = "parse"
      /\ UNCHANGED <<method, header, content, size, behind, thrown, apply, pieces, length, range, sent, written, ret>>
  BY DEF Answer!Parse, Answer!heads, Answer!output
<1>4. /\ ranges' \in Seq(Ranges) /\ Len(ranges') = n /\ DOMAIN ranges' = 1 .. n
      /\ \A i \in 1 .. n : ranges'[i] = header[i]
  BY <1>1, <1>2
<1>5. Answer!IsPrefix(ranges, header)'
  <2>1. SubSeq(ranges', 1, n) = SubSeq(header, 1, n)
    BY <1>1, <1>2, <1>4
  <2>2. Len(ranges') <= Len(header)
    BY <1>1, <1>2, <1>4
  <2>. QED  BY <1>3, <1>4, <2>1, <2>2 DEF Answer!IsPrefix
<1>6. Answer!TypeOK'
  BY <1>1, <1>2, <1>3, <1>4, <1>5 DEF Answer!TypeOK
<1>7. AnswerTyped'
  <2>1. \A i \in 1 .. n : ~Answer!Backwards(ranges'[i])
    BY <1>2, <1>4 DEF Answer!Backwards
  <2>. QED  BY <1>1, <1>3, <1>4, <1>6, <2>1 DEF AnswerTyped
<1>8. AnswerFresh'
  <2>1. status' = 416 => ranges' # header'
    BY <1>1, <1>2, <1>3, <1>4
  <2>2. AnswerFresh
    BY DEF AnswerInv
  <2>. QED  BY <1>2, <1>3, <2>1, <2>2 DEF AnswerFresh
<1>9. AnswerKept'
  <2>1. AnswerKept
    BY DEF AnswerInv
  <2>. QED  BY <1>2, <1>3, <2>1 DEF AnswerKept
<1>10. stage' \in Early
  BY <1>2 DEF Early
<1>. QED  BY <1>7, <1>8, <1>9, <1>10, NotYet

\* The request stays as it is from here on.
LEMMA RequestStays ==
  ASSUME AnswerInv, UNCHANGED <<method, header, ranges>>, Answer!TypeOK'
  PROVE  AnswerTyped'
<1>1. header \in Seq(Ranges) /\ Len(header) <= MaxRanges /\ \A i \in DOMAIN ranges : ~Answer!Backwards(ranges[i])
  BY DEF AnswerInv, AnswerTyped
<1>. QED  BY <1>1 DEF AnswerTyped, Answer!Backwards

LEMMA RequestTyped ==
  ASSUME AnswerInv, UNCHANGED <<method, header, ranges>>
  PROVE  method' \in {"GET", "HEAD"} /\ ranges' \in Seq(Ranges) /\ Answer!IsPrefix(ranges, header)'
<1>1. Answer!TypeOK
  BY DEF AnswerInv, AnswerTyped
<1>. QED  BY <1>1 DEF Answer!TypeOK, Answer!IsPrefix

LEMMA NotFoundAnswer ==
  ASSUME Answer!AnswerAssumption, AnswerInv, Answer!NotFound
  PROVE  AnswerInv'
<1>1. /\ stage = "routing" /\ status' = 404 /\ stage' = "error"
      /\ UNCHANGED <<method, header, ranges, content, size, behind, thrown, apply, pieces, length, range,
                     sent, written, ret>>
  BY DEF Answer!NotFound, Answer!Goes, Answer!request, Answer!heads, Answer!output
<1>2. Answer!TypeOK /\ AnswerFresh /\ AnswerKept
  BY DEF AnswerInv, AnswerTyped
<1>3. Answer!TypeOK'
  BY <1>1, <1>2, RequestTyped DEF Answer!TypeOK
<1>4. AnswerTyped'
  BY <1>1, <1>3, RequestStays
<1>5. AnswerFresh' /\ AnswerKept' /\ stage' \in Early
  BY <1>1, <1>2 DEF AnswerFresh, AnswerKept, Early
<1>. QED  BY <1>4, <1>5, NotYet

LEMMA HandledAnswer ==
  ASSUME Answer!AnswerAssumption, AnswerInv, NEW c \in Contents, NEW n \in 0 .. MaxSize, Answer!Handled(c, n)
  PROVE  AnswerInv'
<1>1. /\ stage = "routing" /\ content' = c /\ size' = n /\ apply' = TRUE /\ stage' = "apply"
      /\ n > 0 <=> c \in {"body", "length"}
      /\ status' = IF ranges = <<>> THEN 200 ELSE 206
      /\ UNCHANGED <<method, header, ranges, behind, thrown, pieces, length, range, sent, written, ret>>
  BY DEF Answer!Handled, Answer!Sets, Answer!Goes, Answer!request, Answer!heads, Answer!output
<1>2. Answer!TypeOK /\ AnswerFresh /\ AnswerKept
  BY DEF AnswerInv, AnswerTyped
<1>3. Answer!TypeOK'
  BY <1>1, <1>2, RequestTyped DEF Answer!TypeOK, Contents
<1>4. AnswerTyped'
  BY <1>1, <1>3, RequestStays
<1>5. AnswerFresh' /\ AnswerKept' /\ stage' \in Early
  BY <1>1, <1>2 DEF AnswerFresh, AnswerKept, Early
<1>. QED  BY <1>4, <1>5, NotYet

LEMMA ThrowsAnswer ==
  ASSUME Answer!AnswerAssumption, AnswerInv, NEW c \in Contents, NEW n \in 0 .. MaxSize, Answer!Throws(c, n)
  PROVE  AnswerInv'
<1>1. /\ stage = "routing" /\ content' = c /\ size' = n /\ thrown' = TRUE /\ stage' = "error"
      /\ n > 0 <=> c \in {"body", "length"}
      /\ status' = 500
      /\ UNCHANGED <<method, header, ranges, behind, apply, pieces, length, range, sent, written, ret>>
  BY DEF Answer!Throws, Answer!Sets, Answer!Goes, Answer!request, Answer!heads, Answer!output
<1>2. Answer!TypeOK /\ AnswerFresh /\ AnswerKept
  BY DEF AnswerInv, AnswerTyped
<1>3. Answer!TypeOK'
  BY <1>1, <1>2, RequestTyped DEF Answer!TypeOK, Contents
<1>4. AnswerTyped'
  BY <1>1, <1>3, RequestStays
<1>5. AnswerFresh' /\ AnswerKept' /\ stage' \in Early
  BY <1>1, <1>2 DEF AnswerFresh, AnswerKept, Early
<1>. QED  BY <1>4, <1>5, NotYet

LEMMA NoErrorHandlerAnswer ==
  ASSUME Answer!AnswerAssumption, AnswerInv, Answer!NoErrorHandler
  PROVE  AnswerInv'
<1>1. /\ stage = "error" /\ stage' = "apply"
      /\ UNCHANGED <<method, header, ranges, status, content, size, behind, thrown, apply, pieces, length, range,
                     sent, written, ret>>
  BY DEF Answer!NoErrorHandler, Answer!Goes, Answer!request, Answer!answer, Answer!heads, Answer!output
<1>2. Answer!TypeOK /\ AnswerFresh /\ AnswerKept
  BY DEF AnswerInv, AnswerTyped
<1>3. Answer!TypeOK'
  BY <1>1, <1>2, RequestTyped DEF Answer!TypeOK
<1>4. AnswerTyped'
  BY <1>1, <1>3, RequestStays
<1>5. AnswerFresh' /\ AnswerKept' /\ stage' \in Early
  BY <1>1, <1>2 DEF AnswerFresh, AnswerKept, Early
<1>. QED  BY <1>4, <1>5, NotYet

LEMMA ErrorHandledAnswer ==
  ASSUME Answer!AnswerAssumption, AnswerInv, NEW n \in 0 .. MaxSize, Answer!ErrorHandled(n)
  PROVE  AnswerInv'
<1>1. /\ stage = "error" /\ apply' = TRUE /\ stage' = "apply"
      /\ UNCHANGED <<method, header, ranges, status, thrown, pieces, length, range, sent, written, ret>>
  BY DEF Answer!ErrorHandled, Answer!Goes, Answer!request, Answer!heads, Answer!output
<1>2. Answer!TypeOK /\ AnswerFresh /\ AnswerKept /\ n \in Nat
  BY Numbers DEF AnswerInv, AnswerTyped
<1>3. /\ content' \in Contents /\ size' \in 0 .. MaxSize
      /\ size' > 0 <=> content' \in {"body", "length"}
      /\ behind' \in {"none", "length", "chunked", "open"} \X (0 .. MaxSize)
  <2>1. CASE n > 0
    <3>1. /\ content' = "body" /\ size' = n
          /\ behind' = IF content \in {"none", "body"} THEN <<"none", 0>> ELSE <<content, size>>
      BY <2>1 DEF Answer!ErrorHandled, Answer!SetsBody, Answer!Sets
    <3>2. 0 \in 0 .. MaxSize
      BY Numbers
    <3>. QED  BY <1>2, <2>1, <3>1, <3>2 DEF Contents, Answer!TypeOK
  <2>2. CASE ~(n > 0)
    <3>1. UNCHANGED <<content, size, behind>>
      BY <2>2 DEF Answer!ErrorHandled
    <3>. QED  BY <1>1, <1>2, <3>1 DEF Contents, Answer!TypeOK, AnswerFresh
  <2>. QED  BY <2>1, <2>2
<1>4. Answer!TypeOK'
  BY <1>1, <1>2, <1>3, RequestTyped DEF Answer!TypeOK, Contents
<1>5. AnswerTyped'
  BY <1>1, <1>4, RequestStays
<1>6. AnswerFresh' /\ AnswerKept' /\ stage' \in Early
  BY <1>1, <1>2, <1>3 DEF AnswerFresh, AnswerKept, Early
<1>. QED  BY <1>5, <1>6, NotYet

-----------------------------------------------------------------------------
(* apply_ranges().                                                             *)

LEMMA StageMade ==
  ASSUME AnswerTyped', AnswerKept', AnswerSaid', stage' \in Made,
         UNCHANGED <<sent, written>>, AnswerFresh, stage # "done", Answer!RefusesEmptyRanges'
  PROVE  AnswerInv'
<1>1. stage' # "done" /\ stage' \notin Early
  BY DEF Made, Early
<1>2. AnswerFresh'
  BY <1>1 DEF AnswerFresh, Early
<1>3. Answer!Framed' /\ Answer!RangesRight'
  BY <1>1 DEF Answer!Framed, Answer!RangesRight, AnswerTyped
<1>. QED  BY <1>2, <1>3 DEF AnswerInv

\* What apply_ranges() makes of a body: each range cuts something out of it, or one does not.
LEMMA BodyCut ==
  ASSUME Answer!AnswerAssumption, AnswerTyped, size > 0, NEW ps, NEW cut,
         ps = IF ranges = <<>> THEN <<<<0, size>>>> ELSE Answer!Asked(size),
         cut = [i \in DOMAIN ps |-> Answer!Clip(ps[i])], \A i \in DOMAIN ps : Answer!Inside(ps[i])
  PROVE  /\ cut \in Seq(Answer!Piece) /\ Answer!Bytes(cut) \in Nat /\ Answer!Bytes(cut) + Answer!Around < Word
         /\ ranges = <<>> => cut = <<<<0, size>>>>
         /\ ranges # <<>> => /\ Len(cut) = Len(ranges)
                             /\ \A i \in DOMAIN ranges :
                                    LET p == Answer!OffsetAndLength(ranges[i], size)
                                    IN  Answer!Inside(p) /\ cut[i] = Answer!Clip(p)
<1>1. /\ size \in 0 .. MaxSize /\ size \in Nat /\ MaxSize \in Nat /\ size <= MaxSize
      /\ Len(ranges) \in Nat /\ DOMAIN ranges = 1 .. Len(ranges)
  BY Taken
<1>2. CASE ranges = <<>>
  <2>1. ps = <<<<0, size>>>> /\ DOMAIN ps = {1} /\ ps[1] = <<0, size>>
    BY <1>2
  <2>2. Answer!Clip(ps[1]) = <<0, size>>
    <3>1. Answer!Min({size, size - 0}) = size
      <4>1. size \in Int /\ size - 0 \in Int /\ size <= size - 0
        BY <1>1
      <4>. QED  BY <4>1, Smaller
    <3>2. Answer!Clip(ps[1]) = <<0, Answer!Min({size, size - 0})>>
      BY <2>1 DEF Answer!Clip
    <3>. QED  BY <3>1, <3>2
  <2>3. cut = <<<<0, size>>>>
    BY <2>1, <2>2
  <2>4. Answer!Bytes(cut) \in Nat /\ Answer!Bytes(cut) <= MaxSize /\ cut \in Seq(Answer!Piece)
    BY <2>3, Whole
  <2>5. MaxSize + Answer!Around < Word /\ Answer!Around \in Nat /\ Word \in Nat
    BY <1>2, Room, Numbers
  <2>. QED  BY <1>1, <1>2, <2>3, <2>4, <2>5
<1>3. CASE ranges # <<>>
  <2>1. /\ ps = Answer!Asked(size) /\ DOMAIN ps = DOMAIN ranges
        /\ \A i \in DOMAIN ranges : ps[i] = Answer!OffsetAndLength(ranges[i], size)
    BY <1>3, AskedIs
  <2>2. cut = [i \in 1 .. Len(ranges) |-> cut[i]] /\ \A i \in 1 .. Len(ranges) : cut[i] = Answer!Clip(ps[i])
    BY <1>1, <2>1
  <2>3. ASSUME NEW i \in 1 .. Len(ranges)
        PROVE  cut[i] \in Answer!Piece /\ cut[i][2] <= MaxSize
    <3>1. ps[i] = Answer!OffsetAndLength(ranges[i], size) /\ Answer!Inside(ps[i]) /\ Plain(ranges[i], size)
      BY <1>1, <2>1, Taken
    <3>2. ps[i][1] < size
      BY <3>1 DEF Answer!Inside
    <3>3. PICK q \in Answer!Piece : q = <<ps[i][1], Answer!Min({ps[i][2], size - ps[i][1]})>> /\ q[2] <= size
      BY <1>1, <3>1, <3>2, BodyRange
    <3>4. cut[i] = q
      BY <2>2, <3>3 DEF Answer!Clip
    <3>5. q \in Answer!Piece /\ q[2] <= size
      BY <3>3
    <3>6. q[2] \in Nat
      BY <3>5, Numbers DEF Answer!Piece
    <3>7. q[2] <= MaxSize
      BY <1>1, <3>5, <3>6
    <3>. QED  BY ONLY <3>4, <3>5, <3>7
  <2>4. cut \in Seq(Answer!Piece) /\ Len(cut) = Len(ranges) /\ DOMAIN cut = 1 .. Len(ranges)
    BY <1>1, <2>2, <2>3, PieceForEach
  <2>5. Answer!Bytes(cut) \in Nat /\ Answer!Bytes(cut) <= Len(ranges) * MaxSize
    <3>1. cut \in Lengths
      BY <2>4, PiecesHaveLengths
    <3>2. \A i \in DOMAIN cut : cut[i][2] <= MaxSize
      BY <2>3, <2>4
    <3>. QED  BY <1>1, <2>4, <3>1, <3>2, BytesBound
  <2>6. Answer!Bytes(cut) + Answer!Around < Word
    <3>1. /\ Len(ranges) * MaxSize \in Nat /\ Len(ranges) * MaxSize + Answer!Around < Word
          /\ Answer!Around \in Nat /\ Word \in Nat
      BY Room, Numbers
    <3>. QED  BY <2>5, <3>1
  <2>7. \A i \in DOMAIN ranges : LET p == Answer!OffsetAndLength(ranges[i], size)
                                 IN  Answer!Inside(p) /\ cut[i] = Answer!Clip(p)
    BY <1>1, <2>1, <2>2
  <2>. QED  BY <1>3, <2>4, <2>5, <2>6, <2>7
<1>. QED  BY <1>2, <1>3

LEMMA ApplyToBodyAnswer ==
  ASSUME Answer!AnswerAssumption, AnswerInv, Answer!ApplyRanges, Answer!ApplyToBody
  PROVE  AnswerInv'
<1>1. /\ stage = "apply" /\ apply /\ stage' = "head" /\ content = "body"
      /\ UNCHANGED <<method, header, ranges, behind, thrown, apply, sent, written, ret>>
  BY DEF Answer!ApplyRanges, Answer!ApplyToBody, Answer!Goes, Answer!request, Answer!output
<1>2. Answer!TypeOK /\ AnswerFresh /\ AnswerKept /\ AnswerTyped
  BY DEF AnswerInv, AnswerTyped
<1>3. /\ size > 0 /\ size \in 0 .. MaxSize /\ size \in Nat /\ (status = 416 => ranges # header)
      /\ Len(ranges) \in Nat /\ DOMAIN ranges = 1 .. Len(ranges) /\ Word \in Nat /\ 0 < Word
  <2>1. size > 0 /\ (status = 416 => ranges # header)
    BY <1>1, <1>2 DEF AnswerFresh
  <2>. QED  BY <1>2, <2>1, Taken, Numbers
<1>4. PICK ps : ps = IF ranges = <<>> THEN <<<<0, size>>>> ELSE Answer!Asked(size)
  OBVIOUS
<1>5. PICK cut : cut = [i \in DOMAIN ps |-> Answer!Clip(ps[i])]
  OBVIOUS
<1>6. PICK good \in BOOLEAN : good <=> \A i \in DOMAIN ps : Answer!Inside(ps[i])
  OBVIOUS
<1>7. /\ pieces' = IF good THEN cut ELSE <<>>
      /\ content' = IF good THEN "body" ELSE behind[1]
      /\ size' = IF good \/ behind[1] = "none" THEN size ELSE behind[2]
      /\ status' = IF good THEN status ELSE 416
      /\ length' = IF good THEN Answer!Bytes(pieces') + Answer!Around ELSE 0
      /\ range' = IF Len(ranges) = 1 THEN Answer!ContentRange(ps[1]) ELSE <<>>
  BY <1>4, <1>5, <1>6 DEF Answer!ApplyToBody
<1>8. /\ behind' = behind /\ behind[1] \in {"none", "length", "chunked", "open"} /\ behind[2] \in 0 .. MaxSize
      /\ behind[1] # "body"
  BY <1>1, <1>2 DEF Answer!TypeOK
<1>9. AnswerKept'
  BY <1>1, <1>2, <1>7 DEF AnswerKept
<1>10. CASE good
  <2>1. /\ pieces' = cut /\ content' = "body" /\ size' = size /\ status' = status
        /\ length' = Answer!Bytes(cut) + Answer!Around
    BY <1>7, <1>10
  <2>2. /\ cut \in Seq(Answer!Piece) /\ Answer!Bytes(cut) \in Nat /\ Answer!Bytes(cut) + Answer!Around < Word
        /\ ranges = <<>> => cut = <<<<0, size>>>>
        /\ ranges # <<>> => /\ Len(cut) = Len(ranges)
                            /\ \A i \in DOMAIN ranges :
                                    LET p == Answer!OffsetAndLength(ranges[i], size)
                                    IN  Answer!Inside(p) /\ cut[i] = Answer!Clip(p)
    BY <1>2, <1>3, <1>4, <1>5, <1>6, <1>10, BodyCut
  <2>3. length' \in -1 .. Word - 1
    BY <1>3, <2>1, <2>2, <1>2, Room
  <2>4. Answer!TypeOK'
    BY <1>1, <1>2, <2>1, <2>2, <2>3, RequestTyped DEF Answer!TypeOK
  <2>5. AnswerTyped'
    BY <1>1, <2>4, RequestStays
  <2>6. AnswerCut'
    BY <1>1, <2>1, <2>2 DEF AnswerCut, Answer!Inside, Answer!Clip, Answer!OffsetAndLength
  <2>7. length' = (Answer!Bytes(pieces) + Answer!Around)'
    BY <1>1, <2>1 DEF Answer!Around, Answer!Bytes, Answer!FoldLeft, Answer!MapThenFoldSet
  <2>8. Len(ranges) = 1 => range' = Answer!ContentRange(Answer!OffsetAndLength(ranges[1], size))'
    <3>. SUFFICES ASSUME Len(ranges) = 1
                  PROVE  range' = Answer!ContentRange(Answer!OffsetAndLength(ranges[1], size))'
      OBVIOUS
    <3>1. ranges # <<>> /\ 1 \in DOMAIN ranges
      BY <1>3
    <3>2. ps[1] = Answer!OffsetAndLength(ranges[1], size)
      BY <1>2, <1>4, <3>1, AskedIs
    <3>3. range' = Answer!ContentRange(Answer!OffsetAndLength(ranges[1], size))
      BY <1>7, <3>2
    <3>. QED  BY <1>1, <2>1, <3>3 DEF Answer!ContentRange, Answer!OffsetAndLength
  <2>9. AnswerSaid'
    BY <1>1, <2>1, <2>6, <2>7, <2>8 DEF AnswerSaid, Made
  <2>10. Answer!RefusesEmptyRanges'
    <3>. SUFFICES ASSUME status \in {206, 416}, ranges = header
                  PROVE  status # 416 /\ \A i \in DOMAIN ranges : Answer!Positions(ranges[i], size) # {}
      BY <1>1, <2>1 DEF Answer!RefusesEmptyRanges, Answer!Positions
    <3>1. status # 416 /\ ranges # <<>>
      BY <1>2, <1>3 DEF AnswerKept
    <3>2. ASSUME NEW i \in DOMAIN ranges PROVE Answer!Positions(ranges[i], size) # {}
      <4>1. PICK p : p = Answer!OffsetAndLength(ranges[i], size)
        OBVIOUS
      <4>2. p[1] < size
        BY <2>2, <3>1, <4>1 DEF Answer!Inside
      <4>3. Plain(ranges[i], size)
        BY <1>2, Taken
      <4>4. size \in Nat
        BY <1>3
      <4>. QED  BY ONLY <4>1, <4>2, <4>3, <4>4, Answer!AnswerAssumption, BodyRange
    <3>. QED  BY <3>1, <3>2
  <2>. QED  BY <1>1, <1>2, <1>9, <2>5, <2>9, <2>10, StageMade DEF Made
<1>11. CASE ~good
  <2>1. /\ pieces' = <<>> /\ content' = behind[1] /\ status' = 416 /\ length' = 0
        /\ size' = IF behind[1] = "none" THEN size ELSE behind[2]
    BY <1>7, <1>11
  <2>2. Answer!TypeOK'
    <3>1. length' \in -1 .. Word - 1
      BY <1>3, <2>1
    <3>2. size' \in 0 .. MaxSize
      BY <1>3, <1>8, <2>1
    <3>3. pieces' \in Seq(Answer!Piece)
      BY <2>1
    <3>. QED  BY <1>1, <1>2, <1>8, <2>1, <3>1, <3>2, <3>3, RequestTyped DEF Answer!TypeOK
  <2>3. AnswerTyped'
    BY <1>1, <2>2, RequestStays
  <2>4. AnswerSaid'
    BY <1>1, <1>8, <2>1 DEF AnswerSaid, Made
  <2>5. Answer!RefusesEmptyRanges'
    <3>. SUFFICES ASSUME behind[1] = "none", ranges = header
                  PROVE  \E i \in DOMAIN ranges : Answer!Positions(ranges[i], size) = {}
      BY <1>1, <1>8, <2>1 DEF Answer!RefusesEmptyRanges, Answer!Positions
    <3>1. ranges # <<>>
      <4>. SUFFICES ASSUME ranges = <<>> PROVE FALSE
        OBVIOUS
      <4>1. DOMAIN ps = {1} /\ ps[1] = <<0, size>>
        BY <1>4
      <4>2. Answer!Inside(ps[1])
        BY <1>3, <4>1 DEF Answer!Inside
      <4>. QED  BY <1>6, <1>11, <4>1, <4>2
    <3>2. PICK i \in DOMAIN ps : ~Answer!Inside(ps[i])
      BY <1>6, <1>11
    <3>3. i \in DOMAIN ranges /\ ps[i] = Answer!OffsetAndLength(ranges[i], size)
      BY <1>2, <1>4, <3>1, <3>2, AskedIs
    <3>4. ~(ps[i][1] < size)
      BY <3>2 DEF Answer!Inside
    <3>5. Plain(ranges[i], size)
      BY <1>2, <3>3, Taken
    <3>6. Answer!Positions(ranges[i], size) = {}
      BY <1>3, <3>3, <3>4, <3>5, BodyRange
    <3>. QED  BY <3>3, <3>6
  <2>. QED  BY <1>1, <1>2, <1>9, <2>3, <2>4, <2>5, StageMade DEF Made
<1>. QED  BY <1>10, <1>11

LEMMA ApplyToProviderAnswer ==
  ASSUME Answer!AnswerAssumption, AnswerInv, Answer!ApplyRanges, Answer!ApplyToProvider
  PROVE  AnswerInv'
<1>1. /\ stage = "apply" /\ apply /\ stage' = "head" /\ content = "length"
      /\ UNCHANGED <<method, header, ranges, behind, thrown, apply, sent, written, ret, pieces, content, size, status>>
      /\ length' = (Answer!Bytes(Answer!AskedOfProvider) + Answer!Around) % Word
      /\ range' = IF Len(ranges) = 1 THEN Answer!ContentRange(Answer!AskedOfProvider[1]) ELSE <<>>
  BY DEF Answer!ApplyRanges, Answer!ApplyToProvider, Answer!Goes, Answer!request, Answer!output
<1>2. Answer!TypeOK /\ AnswerFresh /\ AnswerKept /\ AnswerTyped
  BY DEF AnswerInv, AnswerTyped
<1>3. length' \in -1 .. Word - 1
  <2>1. Answer!AskedOfProvider \in Lengths
    BY <1>2, AskedOfProviderIs, PiecesHaveLengths
  <2>2. Answer!Bytes(Answer!AskedOfProvider) \in Nat
    <3>1. PICK s : s = Answer!AskedOfProvider
      OBVIOUS
    <3>2. \A i \in DOMAIN s : s[i][2] <= Word
      <4>1. s \in Seq(Answer!Piece)
        BY <1>2, <3>1, AskedOfProviderIs
      <4>. QED  BY <4>1, Numbers DEF Answer!Piece
    <3>. QED  BY <2>1, <3>1, <3>2, Numbers, BytesBound
  <2>3. Answer!Bytes(Answer!AskedOfProvider) + Answer!Around \in Int /\ Word \in Nat /\ Word > 0
    BY <1>2, <2>2, Room, Numbers
  <2>4. length' \in 0 .. Word - 1
    BY <1>1, <2>3, InWord
  <2>. QED  BY <2>3, <2>4
<1>4. Answer!TypeOK'
  BY <1>1, <1>2, <1>3, RequestTyped DEF Answer!TypeOK
<1>5. AnswerTyped'
  BY <1>1, <1>4, RequestStays
<1>6. AnswerKept'
  BY <1>1, <1>2 DEF AnswerKept
<1>7. Len(ranges) = 1 => range' = Answer!ContentRange(Answer!OffsetAndLength(ranges[1], size))'
  <2>. SUFFICES ASSUME Len(ranges) = 1
                PROVE  range' = Answer!ContentRange(Answer!OffsetAndLength(ranges[1], size))'
    OBVIOUS
  <2>1. ranges # <<>> /\ 1 \in DOMAIN ranges /\ AskedOf = size
    BY <1>2, Taken DEF AskedOf
  <2>2. Answer!AskedOfProvider[1] = Answer!OffsetAndLength(ranges[1], size)
    BY <1>2, <2>1, AskedOfProviderIs, AskedIs
  <2>3. range' = Answer!ContentRange(Answer!OffsetAndLength(ranges[1], size))
    BY <1>1, <2>2
  <2>. QED  BY <1>1, <2>3 DEF Answer!ContentRange, Answer!OffsetAndLength
<1>8. length' = ((Answer!Bytes(Answer!AskedOfProvider) + Answer!Around) % Word)'
  <2>1. Answer!Around' = Answer!Around
    BY <1>1 DEF Answer!Around
  <2>2. Answer!AskedOfProvider' = Answer!AskedOfProvider
    BY <1>1 DEF Answer!AskedOfProvider, Answer!Asked, Answer!OffsetAndLength
  <2>. QED  BY <1>1, <2>1, <2>2
<1>9. AnswerSaid'
  BY <1>1, <1>2, <1>7, <1>8 DEF AnswerSaid, AnswerFresh, Made
<1>10. Answer!RefusesEmptyRanges'
  BY <1>1 DEF Answer!RefusesEmptyRanges
<1>. QED  BY <1>1, <1>2, <1>5, <1>6, <1>9, <1>10, StageMade DEF Made

LEMMA ApplyToOtherAnswer ==
  ASSUME Answer!AnswerAssumption, AnswerInv, Answer!ApplyRanges, Answer!ApplyToOther
  PROVE  AnswerInv'
<1>1. /\ stage = "apply" /\ apply /\ stage' = "head" /\ content \in {"none", "chunked", "open"}
      /\ UNCHANGED <<method, header, ranges, behind, thrown, apply, sent, written, ret,
                     pieces, content, size, status, length, range>>
  BY DEF Answer!ApplyRanges, Answer!ApplyToOther, Answer!Goes, Answer!request, Answer!output
<1>2. Answer!TypeOK /\ AnswerFresh /\ AnswerKept /\ AnswerTyped
  BY DEF AnswerInv, AnswerTyped
<1>3. Answer!TypeOK'
  BY <1>1, <1>2, RequestTyped DEF Answer!TypeOK
<1>4. AnswerTyped'
  BY <1>1, <1>3, RequestStays
<1>5. AnswerKept'
  BY <1>1, <1>2 DEF AnswerKept
<1>6. AnswerSaid'
  BY <1>1, <1>2 DEF AnswerSaid, AnswerFresh, Made
<1>7. Answer!RefusesEmptyRanges'
  BY <1>1, <1>2 DEF Answer!RefusesEmptyRanges, AnswerFresh
<1>. QED  BY <1>1, <1>2, <1>4, <1>5, <1>6, <1>7, StageMade DEF Made

LEMMA NoRangesAnswer ==
  ASSUME Answer!AnswerAssumption, AnswerInv, Answer!NoRanges
  PROVE  AnswerInv'
<1>1. /\ stage = "apply" /\ ~apply /\ stage' = "head"
      /\ pieces' = IF content = "body" THEN <<<<0, size>>>> ELSE <<>>
      /\ UNCHANGED <<method, header, ranges, status, content, size, behind, thrown, apply, length, range,
                     sent, written, ret>>
  BY DEF Answer!NoRanges, Answer!Goes, Answer!request, Answer!answer, Answer!output
<1>2. Answer!TypeOK /\ AnswerFresh /\ AnswerKept /\ AnswerTyped
  BY DEF AnswerInv, AnswerTyped
<1>3. pieces' \in Seq(Answer!Piece)
  BY <1>1, <1>2, Whole
<1>4. Answer!TypeOK'
  BY <1>1, <1>2, <1>3, RequestTyped DEF Answer!TypeOK
<1>5. AnswerTyped'
  BY <1>1, <1>4, RequestStays
<1>6. AnswerKept'
  BY <1>1, <1>2 DEF AnswerKept
<1>7. AnswerSaid'
  BY <1>1, <1>2 DEF AnswerSaid, AnswerFresh, AnswerKept, Made
<1>8. Answer!RefusesEmptyRanges'
  BY <1>1, <1>2 DEF Answer!RefusesEmptyRanges, AnswerFresh, AnswerKept
<1>. QED  BY <1>1, <1>2, <1>5, <1>6, <1>7, <1>8, StageMade DEF Made

LEMMA HeadersAnswer ==
  ASSUME Answer!AnswerAssumption, AnswerInv, Answer!Headers
  PROVE  AnswerInv'
<1>1. /\ stage = "head" /\ stage' = IF method = "HEAD" THEN "done" ELSE "body"
      /\ length' = IF length = -1 /\ content = "none" THEN 0 ELSE length
      /\ UNCHANGED <<method, header, ranges, status, content, size, behind, thrown, apply, pieces, range,
                     sent, written, ret>>
  BY DEF Answer!Headers, Answer!Goes, Answer!request, Answer!answer, Answer!output
<1>2. Answer!TypeOK /\ AnswerFresh /\ AnswerKept /\ AnswerTyped /\ AnswerSaid /\ Answer!RefusesEmptyRanges
  BY DEF AnswerInv, AnswerTyped
<1>3. Answer!TypeOK'
  <2>1. length' \in -1 .. Word - 1
    <3>1. length \in -1 .. Word - 1 /\ 0 \in -1 .. Word - 1
      BY <1>2, Numbers DEF Answer!TypeOK
    <3>. QED  BY <1>1, <3>1
  <2>. QED  BY <1>1, <1>2, <2>1, RequestTyped DEF Answer!TypeOK
<1>4. AnswerTyped'
  BY <1>1, <1>3, RequestStays
<1>5. AnswerKept'
  BY <1>1, <1>2 DEF AnswerKept
<1>6. Answer!RefusesEmptyRanges'
  BY <1>1, <1>2 DEF Answer!RefusesEmptyRanges, Answer!Positions
<1>7. CASE method = "HEAD"
  <2>1. stage' = "done" /\ method' # "GET"
    BY <1>1, <1>7
  <2>2. AnswerFresh' /\ AnswerSaid'
    BY <2>1 DEF AnswerFresh, AnswerSaid, Made
  <2>3. Answer!Framed' /\ Answer!RangesRight'
    BY <1>3, <2>1 DEF Answer!Framed, Answer!RangesRight
  <2>. QED  BY <1>4, <1>5, <1>6, <2>2, <2>3 DEF AnswerInv
<1>8. CASE method # "HEAD"
  <2>1. stage' = "body"
    BY <1>1, <1>8
  <2>2. (/\ content # "body" => pieces = <<>>
         /\ content = "body" /\ apply => AnswerCut /\ length = Answer!Bytes(pieces) + Answer!Around
         /\ content = "none" => length \in {-1, 0}
         /\ content # "none" /\ ~apply => length = -1
         /\ content = "length" /\ apply =>
             \/ status = 416 /\ behind[1] # "none"
             \/ length = (Answer!Bytes(Answer!AskedOfProvider) + Answer!Around) % Word
         /\ content \in {"body", "length"} /\ Len(ranges) = 1 /\ status = 206 =>
             range = Answer!ContentRange(Answer!OffsetAndLength(ranges[1], size)))
    BY <1>1, <1>2 DEF AnswerSaid, Made
  <2>3. AnswerCut' = AnswerCut
    BY <1>1 DEF AnswerCut, Answer!Inside, Answer!Clip, Answer!OffsetAndLength
  <2>4. Answer!Around' = Answer!Around
    BY <1>1 DEF Answer!Around
  <2>5. Answer!AskedOfProvider' = Answer!AskedOfProvider
    BY <1>1 DEF Answer!AskedOfProvider, Answer!Asked, Answer!OffsetAndLength
  <2>6. Answer!ContentRange(Answer!OffsetAndLength(ranges[1], size))'
          = Answer!ContentRange(Answer!OffsetAndLength(ranges[1], size))
    BY <1>1 DEF Answer!ContentRange, Answer!OffsetAndLength
  <2>7. content # "none" => length' = length
    BY <1>1
  <2>8. content = "none" => length' = 0
    BY <1>1, <2>2
  <2>9. AnswerSaid'
    BY <1>1, <2>1, <2>2, <2>3, <2>4, <2>5, <2>6, <2>7, <2>8 DEF AnswerSaid, Made
  <2>. QED  BY <1>1, <1>2, <1>4, <1>5, <1>6, <2>1, <2>9, StageMade DEF Made
<1>. QED  BY <1>7, <1>8

-----------------------------------------------------------------------------
(* What is written.                                                            *)

LEMMA StageDone ==
  ASSUME AnswerInv, stage = "body", stage' = "done", Answer!TypeOK', Answer!Framed', Answer!RangesRight',
         UNCHANGED <<method, header, ranges, status, content, size, behind, thrown, apply, pieces, length, range>>
  PROVE  AnswerInv'
<1>1. AnswerTyped'
  BY RequestStays
<1>2. AnswerFresh' /\ AnswerSaid'
  BY DEF AnswerFresh, AnswerSaid, Made
<1>3. AnswerKept'
  BY DEF AnswerInv, AnswerKept
<1>4. Answer!RefusesEmptyRanges'
  BY DEF AnswerInv, Answer!RefusesEmptyRanges, Answer!Positions
<1>. QED  BY <1>1, <1>2, <1>3, <1>4 DEF AnswerInv

LEMMA WriteBodyAnswer ==
  ASSUME Answer!AnswerAssumption, AnswerInv, Answer!WriteBody
  PROVE  AnswerInv'
<1>1. /\ stage = "body" /\ stage' = "done" /\ content \in {"none", "body"} /\ sent' = pieces
      /\ written' = Answer!Bytes(pieces) + IF content = "body" /\ apply THEN Answer!Around ELSE 0
      /\ UNCHANGED <<method, header, ranges, status, content, size, behind, thrown, apply, pieces, length, range, ret>>
  BY DEF Answer!WriteBody, Answer!Goes, Answer!request, Answer!answer, Answer!heads
<1>2. Answer!TypeOK /\ AnswerFresh /\ AnswerKept /\ AnswerTyped /\ AnswerSaid
  BY DEF AnswerInv, AnswerTyped
<1>3. Answer!Bytes(pieces) \in Nat /\ pieces \in Seq(Answer!Piece)
  <2>1. PICK s : s = pieces
    OBVIOUS
  <2>2. s \in Seq(Answer!Piece)
    BY <1>2, <2>1 DEF Answer!TypeOK
  <2>3. \A i \in DOMAIN s : s[i][2] <= Word
    BY <2>2, Numbers DEF Answer!Piece
  <2>. QED  BY <2>1, <2>2, <2>3, Numbers, PiecesHaveLengths, BytesBound
<1>4. Answer!TypeOK'
  <2>1. written' \in Nat
    BY <1>1, <1>2, <1>3, Room
  <2>. QED  BY <1>1, <1>2, <1>3, <2>1, RequestTyped DEF Answer!TypeOK
<1>5. /\ content # "body" => pieces = <<>>
      /\ content = "body" /\ apply => AnswerCut /\ length = Answer!Bytes(pieces) + Answer!Around
      /\ content = "none" => length = 0
      /\ content # "none" /\ ~apply => length = -1 /\ thrown
      /\ content = "body" /\ Len(ranges) = 1 /\ status = 206 =>
             range = Answer!ContentRange(Answer!OffsetAndLength(ranges[1], size))
      /\ status = 206 => apply /\ ranges # <<>>
  BY <1>1, <1>2 DEF AnswerSaid, AnswerKept, Made
<1>6. length = written' \/ (thrown /\ ~apply /\ length = -1)
  <2>1. CASE content = "none"
    BY <1>1, <1>5, <2>1, BytesOfNone
  <2>2. CASE content = "body" /\ apply
    BY <1>1, <1>5, <2>2
  <2>3. CASE content = "body" /\ ~apply
    BY <1>5, <2>3
  <2>. QED  BY <1>1, <2>1, <2>2, <2>3
<1>7. Answer!Framed'
  BY <1>1, <1>4, <1>6 DEF Answer!Framed
<1>8. Answer!RangesRight'
  <2>. SUFFICES ASSUME status = 206, pieces # <<>>
                PROVE  /\ Len(pieces) = Len(ranges)
                       /\ \A i \in DOMAIN ranges : Answer!Covers(pieces[i]) = Answer!Positions(ranges[i], size)
                       /\ Len(ranges) = 1 /\ ranges[1][2] < size /\ pieces[1][2] > 0 =>
                            range = <<pieces[1][1], pieces[1][1] + pieces[1][2] - 1, size>>
    BY <1>1 DEF Answer!RangesRight, Answer!Covers, Answer!Positions
  <2>1. content = "body" /\ ranges # <<>> /\ apply
    BY <1>1, <1>5
  <2>2. /\ Len(pieces) = Len(ranges)
        /\ \A i \in DOMAIN ranges : LET p == Answer!OffsetAndLength(ranges[i], size)
                                    IN  Answer!Inside(p) /\ pieces[i] = Answer!Clip(p)
    BY <1>5, <2>1 DEF AnswerCut
  <2>3. ASSUME NEW i \in DOMAIN ranges, NEW p, p = Answer!OffsetAndLength(ranges[i], size)
        PROVE  /\ Answer!Covers(pieces[i]) = Answer!Positions(ranges[i], size)
               /\ ranges[i][2] < size => pieces[i] = p /\ (p[1] + p[2] - 1) % Word = p[1] + p[2] - 1
    <3>1. p[1] < size /\ pieces[i] = <<p[1], Answer!Min({p[2], size - p[1]})>>
      BY <2>2, <2>3 DEF Answer!Inside, Answer!Clip
    <3>2. Plain(ranges[i], size) /\ size \in Nat
      BY <1>2, <2>3, Taken
    <3>3. PICK q \in Answer!Piece :
                /\ q = <<p[1], Answer!Min({p[2], size - p[1]})>> /\ q[2] <= size
                /\ Answer!Covers(q) = Answer!Positions(ranges[i], size)
                /\ ranges[i][2] < size => q = p /\ (p[1] + p[2] - 1) % Word = p[1] + p[2] - 1
      BY ONLY <2>3, <3>1, <3>2, Answer!AnswerAssumption, BodyRange
    <3>4. pieces[i] = q
      BY <3>1, <3>3
    <3>. QED  BY <3>3, <3>4
  <2>4. ASSUME Len(ranges) = 1, ranges[1][2] < size
        PROVE  range = <<pieces[1][1], pieces[1][1] + pieces[1][2] - 1, size>>
    <3>1. PICK p : p = Answer!OffsetAndLength(ranges[1], size)
      OBVIOUS
    <3>2. 1 \in DOMAIN ranges
      BY <1>2, <2>4, Taken
    <3>3. pieces[1] = p /\ (p[1] + p[2] - 1) % Word = p[1] + p[2] - 1
      BY <2>3, <2>4, <3>1, <3>2
    <3>4. range = <<p[1], (p[1] + p[2] - 1) % Word, size>>
      BY <1>5, <2>1, <2>4, <3>1 DEF Answer!ContentRange
    <3>. QED  BY <3>3, <3>4
  <2>. QED  BY <2>2, <2>3, <2>4
<1>. QED  BY <1>1, <1>4, <1>7, <1>8, StageDone

\* A provider that is asked for all of it gives all of it.
LEMMA GivesWhole ==
  ASSUME Answer!AnswerAssumption, AnswerTyped
  PROVE  Answer!Gives(<<0, size>>) = <<0, size>>
<1>1. size \in Nat /\ size < Word /\ Word \in Nat
  BY Taken, Numbers
<1>2. Answer!End(<<0, size>>) = size
  <2>1. 0 + size = size /\ size % Word = size
    BY <1>1, Within
  <2>. QED  BY <2>1 DEF Answer!End
<1>3. Answer!Min({size, size}) = size
  BY <1>1, Smaller
<1>4. Answer!Max({0, size - 0}) = size
  <2>1. 0 \in Int /\ size - 0 \in Int /\ size - 0 = size
    BY <1>1
  <2>2. Answer!Max({0, size - 0}) = IF 0 >= size - 0 THEN 0 ELSE size - 0
    BY <2>1, Larger
  <2>. QED  BY <1>1, <2>1, <2>2
<1>5. Answer!Gives(<<0, size>>) = <<0, Answer!Max({0, Answer!Min({Answer!End(<<0, size>>), size}) - 0})>>
  BY DEF Answer!Gives
<1>. QED  BY <1>2, <1>3, <1>4, <1>5

\* What a provider gives is a piece for each range, and what was asked for if no length wraps.
LEMMA GivenIs ==
  ASSUME Answer!AnswerAssumption, AnswerTyped, NEW ps, ps = Answer!AskedOfProvider,
         NEW given, given = [i \in DOMAIN ps |-> Answer!Gives(ps[i])]
  PROVE  /\ given \in Seq(Answer!Piece)
         /\ ranges # <<>> => Len(given) = Len(ranges)
         /\ (\A i \in DOMAIN ps : Answer!Gets(ps[i])) /\ (\A i \in DOMAIN ranges : ~Answer!Wraps(ranges[i]))
                => given = ps /\ Answer!Bytes(ps) \in Nat /\ Answer!Bytes(ps) + Answer!Around < Word
<1>1. /\ ps \in Seq(Answer!Piece) /\ AskedOf \in {0, size}
      /\ ranges = <<>> => ps = <<<<0, size>>>>
      /\ ranges # <<>> => ps = Answer!Asked(AskedOf)
  BY AskedOfProviderIs
<1>2. /\ Len(ranges) \in Nat /\ DOMAIN ranges = 1 .. Len(ranges) /\ size \in 0 .. MaxSize /\ MaxSize \in Nat
  BY Taken
<1>3. CASE ranges = <<>>
  <2>1. DOMAIN ps = {1} /\ ps[1] = <<0, size>> /\ ps = <<<<0, size>>>>
    BY <1>1, <1>3
  <2>2. given = ps
    BY <2>1, GivesWhole
  <2>3. Answer!Bytes(ps) \in Nat /\ Answer!Bytes(ps) <= MaxSize
    BY <2>1, Whole
  <2>4. MaxSize + Answer!Around < Word /\ Answer!Around \in Nat /\ Word \in Nat
    BY <1>3, Room, Numbers
  <2>5. Answer!Bytes(ps) + Answer!Around < Word
    BY ONLY <1>2, <2>3, <2>4
  <2>6. given \in Seq(Answer!Piece)
    BY <1>1, <2>2
  <2>. QED  BY ONLY <1>3, <2>2, <2>3, <2>5, <2>6
<1>4. CASE ranges # <<>>
  <2>1. /\ DOMAIN ps = 1 .. Len(ranges) /\ Len(ps) = Len(ranges)
        /\ \A i \in 1 .. Len(ranges) : ps[i] = Answer!OffsetAndLength(ranges[i], AskedOf)
    BY <1>1, <1>2, <1>4, AskedIs
  <2>2. given = [i \in 1 .. Len(ranges) |-> given[i]] /\ \A i \in 1 .. Len(ranges) : given[i] = Answer!Gives(ps[i])
    BY <2>1
  <2>3. ASSUME NEW i \in 1 .. Len(ranges)
        PROVE  /\ Answer!Gives(ps[i]) \in Answer!Piece
               /\ Answer!Gets(ps[i]) /\ ~Answer!Wraps(ranges[i]) => Answer!Gives(ps[i]) = ps[i] /\ ps[i][2] <= MaxSize
    <3>1. Plain(ranges[i], AskedOf)
      BY <1>1, <1>2, Taken
    <3>2. Answer!Wraps(ranges[i]) <=> Behind(ranges[i], AskedOf)
      BY Zenon DEF Answer!Wraps, Behind, AskedOf
    <3>3. PICK p : p = ps[i]
      OBVIOUS
    <3>4. p = Answer!OffsetAndLength(ranges[i], AskedOf)
      BY <2>1, <3>3
    <3>5. /\ Answer!Gives(p) \in Answer!Piece
          /\ Answer!Gets(p) /\ ~Behind(ranges[i], AskedOf) => Answer!Gives(p) = p /\ p[2] <= MaxSize
      BY ONLY <1>1, <1>2, <3>1, <3>4, Answer!AnswerAssumption, ProviderRange
    <3>. QED  BY <3>2, <3>3, <3>5
  <2>4. given \in Seq(Answer!Piece) /\ Len(given) = Len(ranges)
    BY <1>2, <2>2, <2>3, PieceForEach
  <2>5. ASSUME \A i \in DOMAIN ps : Answer!Gets(ps[i]), \A i \in DOMAIN ranges : ~Answer!Wraps(ranges[i])
        PROVE  given = ps /\ Answer!Bytes(ps) \in Nat /\ Answer!Bytes(ps) + Answer!Around < Word
    <3>1. \A i \in 1 .. Len(ranges) : given[i] = ps[i] /\ ps[i][2] <= MaxSize
      BY <1>2, <2>1, <2>2, <2>3, <2>5
    <3>2. ps = [i \in 1 .. Len(ranges) |-> ps[i]]
      BY <1>1, <2>1
    <3>3. given = ps
      BY <2>2, <3>1, <3>2
    <3>4. Answer!Bytes(ps) \in Nat /\ Answer!Bytes(ps) <= Len(ranges) * MaxSize
      <4>1. ps \in Lengths
        BY <1>1, PiecesHaveLengths
      <4>2. \A i \in DOMAIN ps : ps[i][2] <= MaxSize
        BY <2>1, <3>1
      <4>. QED  BY <1>2, <2>1, <4>1, <4>2, BytesBound
    <3>5. /\ Len(ranges) * MaxSize \in Nat /\ Len(ranges) * MaxSize + Answer!Around < Word
          /\ Answer!Around \in Nat /\ Word \in Nat
      BY Room, Numbers
    <3>. QED  BY <3>3, <3>4, <3>5
  <2>. QED  BY <1>4, <2>4, <2>5
<1>. QED  BY <1>3, <1>4

LEMMA WriteProviderAnswer ==
  ASSUME Answer!AnswerAssumption, AnswerInv, Answer!WriteProvider
  PROVE  AnswerInv'
<1>1. PICK ps : ps = Answer!AskedOfProvider
  OBVIOUS
<1>2. PICK given : given = [i \in DOMAIN ps |-> Answer!Gives(ps[i])]
  OBVIOUS
<1>3. PICK ok \in BOOLEAN : ok <=> \A i \in DOMAIN ps : Answer!Gets(ps[i])
  OBVIOUS
<1>4. /\ stage = "body" /\ stage' = "done" /\ content = "length"
      /\ UNCHANGED <<method, header, ranges, status, content, size, behind, thrown, apply, pieces, length, range>>
  BY DEF Answer!WriteProvider, Answer!Goes, Answer!request, Answer!answer, Answer!heads
<1>5. /\ sent' = IF ok THEN given ELSE <<>>
      /\ written' = IF ok THEN Answer!Bytes(sent') + Answer!Around ELSE 0
      /\ ret' = ok
  BY <1>1, <1>2, <1>3 DEF Answer!WriteProvider
<1>6. Answer!TypeOK /\ AnswerFresh /\ AnswerKept /\ AnswerTyped /\ AnswerSaid
  BY DEF AnswerInv, AnswerTyped
<1>7. /\ given \in Seq(Answer!Piece)
      /\ ranges # <<>> => Len(given) = Len(ranges)
      /\ ok /\ (\A i \in DOMAIN ranges : ~Answer!Wraps(ranges[i]))
            => given = ps /\ Answer!Bytes(ps) \in Nat /\ Answer!Bytes(ps) + Answer!Around < Word
  BY <1>1, <1>2, <1>3, <1>6, GivenIs
<1>8. sent' \in Seq(Answer!Piece) /\ written' \in Nat /\ ret' \in BOOLEAN
  <2>1. \A i \in DOMAIN given : given[i][2] <= Word
    BY <1>7, Numbers DEF Answer!Piece
  <2>2. Answer!Bytes(given) \in Nat
    BY <1>7, <2>1, Numbers, PiecesHaveLengths, BytesBound
  <2>3. Answer!Around \in Nat /\ <<>> \in Seq(Answer!Piece)
    BY <1>6, Room
  <2>. QED  BY <1>5, <1>7, <2>2, <2>3
<1>9. Answer!TypeOK'
  BY <1>4, <1>6, <1>8, RequestTyped DEF Answer!TypeOK
<1>10. /\ ~apply => length = -1 /\ thrown
       /\ apply => \/ status = 416 /\ behind[1] # "none"
                   \/ length = (Answer!Bytes(ps) + Answer!Around) % Word
       /\ Len(ranges) = 1 /\ status = 206 =>
             range = Answer!ContentRange(Answer!OffsetAndLength(ranges[1], size))
       /\ status = 206 => apply /\ ranges # <<>>
  BY <1>1, <1>4, <1>6 DEF AnswerSaid, AnswerKept, Made
<1>11. Answer!Framed'
  <2>. SUFFICES ASSUME ok, apply, ~(status = 416 /\ behind[1] # "none"),
                       \A i \in DOMAIN ranges : ~Answer!Wraps(ranges[i])
                PROVE  length = written'
    <3>1. \A i \in DOMAIN ranges : Answer!Wraps(ranges[i])' <=> Answer!Wraps(ranges[i])
      BY <1>4 DEF Answer!Wraps
    <3>. QED  BY <1>4, <1>5, <1>9, <1>10, <3>1 DEF Answer!Framed
  <2>1. given = ps /\ Answer!Bytes(ps) \in Nat /\ Answer!Bytes(ps) + Answer!Around < Word
    BY <1>7
  <2>2. Answer!Around \in Nat /\ Word \in Nat
    BY <1>6, Room, Numbers
  <2>3. (Answer!Bytes(ps) + Answer!Around) % Word = Answer!Bytes(ps) + Answer!Around
    <3>1. Answer!Bytes(ps) + Answer!Around \in Nat
      BY <2>1, <2>2
    <3>. QED  BY <2>1, <2>2, <3>1, Within
  <2>. QED  BY <1>5, <1>10, <2>1, <2>3
<1>12. Answer!RangesRight'
  <2>. SUFFICES ASSUME ok, status = 206
                PROVE  /\ Len(given) = Len(ranges)
                       /\ \A i \in DOMAIN ranges :
                            \/ Answer!Covers(given[i]) = Answer!Positions(ranges[i], size)
                            \/ Len(ranges) > 1 /\ -1 \in {ranges[i][1], ranges[i][2]}
                       /\ Len(ranges) = 1 /\ given[1][2] > 0 =>
                            range = <<given[1][1], given[1][1] + given[1][2] - 1, size>>
    BY <1>4, <1>5 DEF Answer!RangesRight, Answer!Covers, Answer!Positions
  <2>1. /\ ranges # <<>> /\ Len(given) = Len(ranges) /\ AskedOf \in {0, size}
        /\ Len(ranges) \in Nat /\ DOMAIN ranges = 1 .. Len(ranges) /\ size \in 0 .. MaxSize
    BY <1>6, <1>7, <1>10, Taken DEF AskedOf
  <2>2. /\ DOMAIN ps = DOMAIN ranges
        /\ \A i \in DOMAIN ranges : ps[i] = Answer!OffsetAndLength(ranges[i], AskedOf)
    BY <1>1, <1>6, <2>1, AskedOfProviderIs, AskedIs
  <2>3. ASSUME NEW i \in DOMAIN ranges, NEW p, p = ps[i]
        PROVE  /\ given[i] = Answer!Gives(p)
               /\ AskedOf = size \/ -1 \notin {ranges[i][1], ranges[i][2]} =>
                     Answer!Covers(given[i]) = Answer!Positions(ranges[i], size)
               /\ AskedOf = size /\ given[i][2] > 0 => given[i] = p /\ (p[1] + p[2] - 1) % Word = p[1] + p[2] - 1
    <3>1. given[i] = Answer!Gives(p) /\ Answer!Gets(p)
      BY <1>2, <1>3, <2>2, <2>3
    <3>2. p = Answer!OffsetAndLength(ranges[i], AskedOf) /\ Plain(ranges[i], AskedOf)
      BY <1>6, <2>1, <2>2, <2>3, Taken
    <3>3. /\ (AskedOf = size \/ -1 \notin {ranges[i][1], ranges[i][2]}) =>
                Answer!Covers(Answer!Gives(p)) = Answer!Positions(ranges[i], size)
          /\ AskedOf = size /\ Answer!Gives(p)[2] > 0 =>
                Answer!Gives(p) = p /\ (p[1] + p[2] - 1) % Word = p[1] + p[2] - 1
      BY ONLY <2>1, <3>1, <3>2, Answer!AnswerAssumption, ProviderRange
    <3>. QED  BY <3>1, <3>3
  <2>4. Len(ranges) = 1 => AskedOf = size
    BY DEF AskedOf
  <2>5. Len(ranges) = 1 \/ Len(ranges) > 1
    BY <2>1
  <2>6. ASSUME Len(ranges) = 1, given[1][2] > 0
        PROVE  range = <<given[1][1], given[1][1] + given[1][2] - 1, size>>
    <3>1. PICK p : p = ps[1]
      OBVIOUS
    <3>2. 1 \in DOMAIN ranges /\ AskedOf = size
      BY <2>1, <2>4, <2>6
    <3>3. given[1] = p /\ (p[1] + p[2] - 1) % Word = p[1] + p[2] - 1
      BY <2>3, <2>6, <3>1, <3>2
    <3>4. range = Answer!ContentRange(p)
      BY <1>10, <2>2, <2>6, <3>1, <3>2
    <3>5. range = <<p[1], (p[1] + p[2] - 1) % Word, size>>
      BY <3>4 DEF Answer!ContentRange
    <3>. QED  BY <3>3, <3>5
  <2>7. ASSUME NEW i \in DOMAIN ranges
        PROVE  \/ Answer!Covers(given[i]) = Answer!Positions(ranges[i], size)
               \/ Len(ranges) > 1 /\ -1 \in {ranges[i][1], ranges[i][2]}
    BY <2>3, <2>4, <2>5
  <2>. QED  BY <2>1, <2>6, <2>7
<1>. QED  BY <1>4, <1>9, <1>11, <1>12, StageDone

LEMMA WriteOtherAnswer ==
  ASSUME Answer!AnswerAssumption, AnswerInv, Answer!WriteOther
  PROVE  AnswerInv'
<1>1. /\ stage = "body" /\ stage' = "done" /\ content \in {"chunked", "open"} /\ written' \in 0 .. MaxSize
      /\ UNCHANGED <<method, header, ranges, status, content, size, behind, thrown, apply, pieces, length, range,
                     sent, ret>>
  BY DEF Answer!WriteOther, Answer!Goes, Answer!request, Answer!answer, Answer!heads
<1>2. Answer!TypeOK /\ AnswerFresh /\ AnswerKept /\ AnswerSaid
  BY DEF AnswerInv, AnswerTyped
<1>3. Answer!TypeOK'
  BY <1>1, <1>2, Numbers, RequestTyped DEF Answer!TypeOK
<1>4. ~apply => thrown /\ length = -1
  BY <1>1, <1>2 DEF AnswerSaid, AnswerKept, Made
<1>5. Answer!Framed'
  BY <1>1, <1>3, <1>4 DEF Answer!Framed
<1>6. sent = <<>>
  BY <1>1, <1>2 DEF AnswerFresh
<1>7. Answer!RangesRight'
  BY <1>1, <1>6 DEF Answer!RangesRight
<1>. QED  BY <1>1, <1>3, <1>5, <1>7, StageDone

-----------------------------------------------------------------------------
(* Every step.                                                                 *)

LEMMA NextAnswer ==
  ASSUME Answer!AnswerAssumption, AnswerInv, [Answer!Next]_(Answer!vars)
  PROVE  AnswerInv'
<1>1. CASE UNCHANGED Answer!vars
  <2>1. UNCHANGED <<method, header, ranges, stage, status, content, size, behind, thrown, apply, pieces, length,
                    range, sent, written, ret>>
    BY <1>1 DEF Answer!vars, Answer!request, Answer!answer, Answer!heads, Answer!output
  <2>2. Answer!TypeOK'
    BY <2>1, RequestTyped DEF AnswerInv, AnswerTyped, Answer!TypeOK
  <2>3. AnswerTyped'
    BY <2>1, <2>2, RequestStays
  <2>4. AnswerFresh' /\ AnswerKept'
    BY <2>1 DEF AnswerInv, AnswerFresh, AnswerKept
  <2>5. AnswerSaid'
    <3>1. AnswerCut' = AnswerCut
      BY <2>1 DEF AnswerCut, Answer!Inside, Answer!Clip, Answer!OffsetAndLength
    <3>2. Answer!Around' = Answer!Around
      BY <2>1 DEF Answer!Around
    <3>3. Answer!AskedOfProvider' = Answer!AskedOfProvider
      BY <2>1 DEF Answer!AskedOfProvider, Answer!Asked, Answer!OffsetAndLength
    <3>4. Answer!ContentRange(Answer!OffsetAndLength(ranges[1], size))'
            = Answer!ContentRange(Answer!OffsetAndLength(ranges[1], size))
      BY <2>1 DEF Answer!ContentRange, Answer!OffsetAndLength
    <3>. QED  BY <2>1, <3>1, <3>2, <3>3, <3>4 DEF AnswerInv, AnswerSaid
  <2>6. Answer!Framed'
    <3>1. \A i \in DOMAIN ranges : Answer!Wraps(ranges[i])' <=> Answer!Wraps(ranges[i])
      BY <2>1 DEF Answer!Wraps
    <3>2. Answer!Framed
      BY DEF AnswerInv
    <3>. QED  BY <2>1, <2>2, <3>1, <3>2 DEF Answer!Framed
  <2>7. Answer!RangesRight' /\ Answer!RefusesEmptyRanges'
    BY <2>1 DEF AnswerInv, Answer!RangesRight, Answer!RefusesEmptyRanges, Answer!Positions, Answer!Covers
  <2>. QED  BY <2>3, <2>4, <2>5, <2>6, <2>7 DEF AnswerInv
<1>2. CASE Answer!Parse
  BY <1>2, ParseAnswer
<1>3. CASE Answer!NotFound
  BY <1>3, NotFoundAnswer
<1>4. CASE Answer!NoErrorHandler
  BY <1>4, NoErrorHandlerAnswer
<1>5. CASE \E c \in Contents, n \in 0 .. MaxSize : Answer!Handled(c, n) \/ Answer!Throws(c, n)
  BY <1>5, HandledAnswer, ThrowsAnswer
<1>6. CASE \E n \in 0 .. MaxSize : Answer!ErrorHandled(n)
  BY <1>6, ErrorHandledAnswer
<1>7. CASE Answer!ApplyRanges
  <2>1. Answer!ApplyToBody \/ Answer!ApplyToProvider \/ Answer!ApplyToOther
    BY <1>7 DEF Answer!ApplyRanges
  <2>. QED  BY <1>7, <2>1, ApplyToBodyAnswer, ApplyToProviderAnswer, ApplyToOtherAnswer
<1>8. CASE Answer!NoRanges
  BY <1>8, NoRangesAnswer
<1>9. CASE Answer!Headers
  BY <1>9, HeadersAnswer
<1>10. CASE Answer!WriteBody
  BY <1>10, WriteBodyAnswer
<1>11. CASE Answer!WriteProvider
  BY <1>11, WriteProviderAnswer
<1>12. CASE Answer!WriteOther
  BY <1>12, WriteOtherAnswer
<1>. QED  BY <1>1, <1>2, <1>3, <1>4, <1>5, <1>6, <1>7, <1>8, <1>9, <1>10, <1>11, <1>12 DEF Answer!Next, Contents

\* An answer on a connection that goes on says how long it is and is as long, apart from the
\* cases that the property names; it has for each range the bytes that it stands for; and
\* ranges of a body are refused when one stands for no byte and never else
\* (Server::process_request, apply_ranges, write_response_core): for contents, ranges and
\* numbers of them without bounds, as long as size_t counts an answer.
THEOREM AnswersAreFramed ==
  Answer!AnswerAssumption =>
    (Answer!Spec => [](Answer!Framed /\ Answer!RangesRight /\ Answer!RefusesEmptyRanges))
<1>. SUFFICES ASSUME Answer!AnswerAssumption
              PROVE  Answer!Spec => [](Answer!Framed /\ Answer!RangesRight /\ Answer!RefusesEmptyRanges)
  OBVIOUS
<1>1. Answer!Init => AnswerInv
  BY InitAnswer
<1>2. AnswerInv /\ [Answer!Next]_(Answer!vars) => AnswerInv'
  BY NextAnswer
<1>3. AnswerInv => Answer!Framed /\ Answer!RangesRight /\ Answer!RefusesEmptyRanges
  BY DEF AnswerInv
<1>. QED  BY <1>1, <1>2, <1>3, PTL DEF Answer!Spec

-----------------------------------------------------------------------------
(* A call on its way to a handler and back, for any calls, handlers, mounts and files. *)

CONSTANTS Calls, Handlers, Mounts, Files, IndexHtml, MaxSetup, MaxHandlers        \* of HttpCalls
VARIABLES caller, server, setups, call, request, got, answer, result
                                            \* caller is its client, request its wire

Call == INSTANCE HttpCalls WITH client <- caller, wire <- request

Credentials == {"basic", "bearer", "proxy basic", "proxy bearer"}
Value == {"text/plain", "gzip", "form", "multipart", "chunked", "length"} \cup Credentials
            \cup {c.type : c \in Calls}
Headers == [Call!Name -> Seq(Value)]
Defaults == {Call!NoHeaders, Call!Emplace(Call!NoHeaders, "Content-Type", "text/plain"),
             Call!Emplace(Call!NoHeaders, "Accept-Encoding", "gzip")}

\* What the program may have set up.
SetUp ==
    /\ caller \in [default : Defaults, auth : SUBSET Credentials, compress : BOOLEAN,
                   decompress : BOOLEAN, zlib : BOOLEAN]
    /\ server \in [handlers : Seq(Handlers), mounts : Seq(Mounts), zlib : BOOLEAN]

\* The type a call has for its content, and whether that is compressed.
TypeOf(c) ==
    IF Call!Retyped THEN "text/plain"
    ELSE IF c.form = "params" THEN "form"
    ELSE IF c.form = "items" THEN "multipart"
    ELSE IF c.method \in Call!WithContent \cup {"DELETE"} THEN c.type
    ELSE ""
Zips(c) == Call!Compresses /\ c.method \in Call!WithContent

\* The headers h say so, and nothing of a length or of credentials.
Tells(h, type, zipped) ==
    /\ h \in Headers
    /\ Call!Header(h, "Content-Type") = type
    /\ Call!HasHeader(h, "Content-Type") \/ type = ""
    /\ (IF zipped THEN Call!Header(h, "Content-Encoding") = "gzip"
        ELSE ~Call!HasHeader(h, "Content-Encoding"))
    /\ ~Call!HasHeader(h, "Content-Length")
    /\ ~Call!HasHeader(h, "Authorization") /\ ~Call!HasHeader(h, "Proxy-Authorization")

\* The body b is that of the call c.
CallBody(b, c) ==
    /\ b.cut = c.fails
    /\ b.gzip = Zips(c) \/ Call!IsEmpty(b)
    /\ IF c.form = "items" THEN b.multipart /\ b.items = c.items
       ELSE /\ ~b.multipart /\ b.items = <<>>
            /\ c.form # "params" => b.text = Call!Text(c)

Contained(rq) == IF Call!IsEmpty(rq.body) THEN rq.stream ELSE rq.body

RequestOf(rq, c) ==
    /\ rq.method = c.method
    /\ Tells(rq.headers, TypeOf(c), Zips(c))
    /\ CallBody(Contained(rq), c)
    /\ c.method = "DELETE" /\ Call!Text(c) # <<>> => ~Call!IsEmpty(rq.body)

LEMMA CallIs ==
    ASSUME Call!CallsAssumption, NEW c \in Calls
    PROVE  /\ c.method \in {"GET", "HEAD", "DELETE", "OPTIONS"} \cup Call!WithContent
           /\ c.form \in {"none", "text", "params", "items", "provider", "chunked"}
           /\ c.form = "text" => c.method \in Call!WithContent \cup {"DELETE"}
           /\ c.form = "params" => c.method \in {"POST", "PUT"}
           /\ c.form = "items" => c.method = "POST"
           /\ c.form \in {"provider", "chunked"} => c.method \in Call!WithContent
           /\ c.fails => c.form \in {"provider", "chunked"}
           /\ c.pieces \in Seq(Seq(Nat)) /\ c.type \in Value /\ c.fails \in BOOLEAN
           /\ c.form = "none" => c.pieces = <<>>
           /\ c # Call!None
BY DEF Call!CallsAssumption, Value

LEMMA NoPieces == Call!FlattenSeq(<<>>) = <<>>
BY DEF Call!FlattenSeq

LEMMA NoIndex == DOMAIN <<>> = {}
<1>1. Len(<<>>) = 0 /\ DOMAIN <<>> = 1 .. Len(<<>>)
  OBVIOUS
<1> QED BY <1>1

LEMMA LastIndex ==
    ASSUME NEW S, NEW s \in Seq(S), s # <<>>
    PROVE  Len(s) \in DOMAIN s
<1>1. DOMAIN s = 1 .. Len(s) /\ Len(s) \in Nat /\ Len(s) # 0
  BY EmptySeq, LenProperties
<1>2. PICK n \in Nat : n = Len(s)
  BY <1>1
<1>3. n \in 1 .. n
  BY <1>1, <1>2
<1> QED BY <1>1, <1>2, <1>3

LEMMA HeaderIs ==
    ASSUME NEW h \in Headers, NEW n \in Call!Name
    PROVE  /\ Call!HasHeader(h, n) \in BOOLEAN
           /\ ~Call!HasHeader(h, n) => Call!Header(h, n) = ""
BY DEF Call!HasHeader, Call!Header

LEMMA EmplaceGives ==
    ASSUME NEW h \in Headers, NEW n \in Call!Name, NEW v \in Value
    PROVE  /\ Call!Emplace(h, n, v) \in Headers
           /\ Call!HasHeader(Call!Emplace(h, n, v), n)
           /\ Call!Header(Call!Emplace(h, n, v), n) = IF Call!HasHeader(h, n) THEN Call!Header(h, n) ELSE v
           /\ \A m \in Call!Name \ {n} : /\ Call!HasHeader(Call!Emplace(h, n, v), m) <=> Call!HasHeader(h, m)
                                         /\ Call!Header(Call!Emplace(h, n, v), m) = Call!Header(h, m)
<1> DEFINE e == Call!Emplace(h, n, v)
<1>1. h[n] \in Seq(Value)
  BY DEF Headers
<1>2. e = [h EXCEPT ![n] = Append(h[n], v)]
  BY DEF Call!Emplace
<1>3. e[n] = Append(h[n], v) /\ \A m \in Call!Name \ {n} : e[m] = h[m]
  BY <1>2 DEF Headers
<1>4. Append(h[n], v) \in Seq(Value) /\ Append(h[n], v) # <<>>
  BY <1>1, AppendProperties
<1>5. e \in Headers
  BY <1>1, <1>2, <1>4 DEF Headers
<1>6. h[n] = <<>> => Head(Append(h[n], v)) = v
  BY <1>1
<1>7. h[n] # <<>> => Head(Append(h[n], v)) = Head(h[n])
  BY <1>1
<1>8. Call!HasHeader(e, n) /\ Call!Header(e, n) = IF Call!HasHeader(h, n) THEN Call!Header(h, n) ELSE v
  BY <1>3, <1>4, <1>6, <1>7 DEF Call!HasHeader, Call!Header
<1>9. ASSUME NEW m \in Call!Name \ {n}
      PROVE  (Call!HasHeader(e, m) <=> Call!HasHeader(h, m)) /\ Call!Header(e, m) = Call!Header(h, m)
  BY <1>3 DEF Call!HasHeader, Call!Header
<1> QED BY <1>5, <1>8, <1>9

Emplaced(h, e, n, v) ==
    /\ e \in Headers /\ Call!HasHeader(e, n)
    /\ Call!Header(e, n) = IF Call!HasHeader(h, n) THEN Call!Header(h, n) ELSE v
    /\ \A m \in Call!Name \ {n} :
        (Call!HasHeader(e, m) <=> Call!HasHeader(h, m)) /\ Call!Header(e, m) = Call!Header(h, m)

LEMMA EmplaceSays ==
    ASSUME NEW h \in Headers, NEW n \in Call!Name, NEW v \in Value
    PROVE  Emplaced(h, Call!Emplace(h, n, v), n, v)
BY EmplaceGives DEF Emplaced

LEMMA NamesDiffer ==
    /\ "Content-Type" \in Call!Name /\ "Content-Encoding" \in Call!Name /\ "Content-Length" \in Call!Name
    /\ "Transfer-Encoding" \in Call!Name /\ "Accept-Encoding" \in Call!Name
    /\ "Authorization" \in Call!Name /\ "Proxy-Authorization" \in Call!Name
BY DEF Call!Name

LEMMA ValuesAre ==
    "text/plain" \in Value /\ "gzip" \in Value /\ "form" \in Value /\ "multipart" \in Value
    /\ "chunked" \in Value /\ "length" \in Value /\ Credentials \subseteq Value
BY DEF Value

LEMMA DefaultTells ==
    ASSUME SetUp
    PROVE  Tells(caller.default, IF Call!Retyped THEN "text/plain" ELSE "", FALSE)
<1>1. Call!NoHeaders \in Headers /\ \A n \in Call!Name : ~Call!HasHeader(Call!NoHeaders, n)
  BY DEF Call!NoHeaders, Headers, Call!HasHeader
<1>2. \A n \in Call!Name : Call!Header(Call!NoHeaders, n) = ""
  BY <1>1, HeaderIs
<1>3. caller.default \in Defaults
  BY DEF SetUp
<1>4. CASE caller.default = Call!NoHeaders
  BY <1>1, <1>2, <1>4, NamesDiffer DEF Tells, Call!Retyped
<1>5. CASE caller.default = Call!Emplace(Call!NoHeaders, "Content-Type", "text/plain")
  <2> DEFINE d == Call!Emplace(Call!NoHeaders, "Content-Type", "text/plain")
  <2>1. /\ d \in Headers /\ Call!HasHeader(d, "Content-Type") /\ Call!Header(d, "Content-Type") = "text/plain"
        /\ \A m \in Call!Name \ {"Content-Type"} : ~Call!HasHeader(d, m) /\ Call!Header(d, m) = ""
    BY <1>1, <1>2, NamesDiffer, ValuesAre, EmplaceGives
  <2>2. Tells(d, "text/plain", FALSE) /\ Call!HasHeader(d, "Content-Type")
    BY <2>1, NamesDiffer DEF Tells
  <2> QED BY <1>5, <2>2 DEF Call!Retyped
<1>6. CASE caller.default = Call!Emplace(Call!NoHeaders, "Accept-Encoding", "gzip")
  <2> DEFINE d == Call!Emplace(Call!NoHeaders, "Accept-Encoding", "gzip")
  <2>1. /\ d \in Headers
        /\ \A m \in Call!Name \ {"Accept-Encoding"} : ~Call!HasHeader(d, m) /\ Call!Header(d, m) = ""
    BY <1>1, <1>2, NamesDiffer, ValuesAre, EmplaceGives
  <2>2. Tells(d, "", FALSE) /\ ~Call!HasHeader(d, "Content-Type")
    BY <2>1, NamesDiffer DEF Tells
  <2> QED BY <1>6, <2>2 DEF Call!Retyped
<1> QED BY <1>3, <1>4, <1>5, <1>6 DEF Defaults

\* A header that Tells does not speak of.
LEMMA OtherTells ==
    ASSUME NEW h, NEW t, NEW z \in BOOLEAN, Tells(h, t, z), NEW v \in Value,
           NEW n \in {"Accept-Encoding", "Transfer-Encoding"}
    PROVE  Tells(Call!Emplace(h, n, v), t, z)
<1>1. h \in Headers /\ n \in Call!Name
  BY NamesDiffer DEF Tells
<1>2. /\ Call!Emplace(h, n, v) \in Headers
      /\ \A m \in Call!Name \ {n} : /\ Call!HasHeader(Call!Emplace(h, n, v), m) <=> Call!HasHeader(h, m)
                                    /\ Call!Header(Call!Emplace(h, n, v), m) = Call!Header(h, m)
  BY <1>1, EmplaceGives
<1> QED BY <1>2, NamesDiffer DEF Tells

LEMMA OwnTells ==
    ASSUME SetUp, NEW c
    PROVE  Tells(Call!OwnHeaders(c), IF Call!Retyped THEN "text/plain" ELSE "", FALSE)
<1> DEFINE type == IF Call!Retyped THEN "text/plain" ELSE ""
<1>1. Tells(caller.default, type, FALSE)
  BY DefaultTells
<1> HIDE DEF type
<1>2. Tells(Call!Emplace(caller.default, "Accept-Encoding", "gzip"), type, FALSE)
  BY <1>1, ValuesAre, OtherTells
<1> QED BY <1>1, <1>2 DEF Call!OwnHeaders, type

LEMMA TypedTells ==
    ASSUME SetUp, NEW c, NEW t \in Value \cup {""}
    PROVE  Tells(Call!Typed(Call!OwnHeaders(c), t), IF Call!Retyped THEN "text/plain" ELSE t, FALSE)
<1> DEFINE h == Call!OwnHeaders(c)
           own == IF Call!Retyped THEN "text/plain" ELSE ""
<1>1. Tells(h, own, FALSE)
  BY OwnTells
<1>2. CASE t = ""
  BY <1>1, <1>2 DEF Call!Typed
<1>3. CASE t # ""
  <2>0. t \in Value
    BY <1>3
  <2> HIDE DEF h
  <2>1. h \in Headers
    BY <1>1 DEF Tells
  <2>2. /\ Call!Emplace(h, "Content-Type", t) \in Headers
        /\ Call!HasHeader(Call!Emplace(h, "Content-Type", t), "Content-Type")
        /\ Call!Header(Call!Emplace(h, "Content-Type", t), "Content-Type") =
                IF Call!HasHeader(h, "Content-Type") THEN Call!Header(h, "Content-Type") ELSE t
        /\ \A m \in Call!Name \ {"Content-Type"} :
                /\ Call!HasHeader(Call!Emplace(h, "Content-Type", t), m) <=> Call!HasHeader(h, m)
                /\ Call!Header(Call!Emplace(h, "Content-Type", t), m) = Call!Header(h, m)
    BY <2>0, <2>1, NamesDiffer, EmplaceGives
  <2>3. Call!HasHeader(h, "Content-Type") <=> Call!Retyped
    <3>1. Call!Retyped => Call!HasHeader(h, "Content-Type")
      BY <1>1 DEF Tells
    <3>2. ~Call!Retyped => ~Call!HasHeader(h, "Content-Type")
      <4>1. caller.default \in Headers /\ ~Call!Retyped => ~Call!HasHeader(caller.default, "Content-Type")
        BY DefaultTells DEF Call!Retyped, Tells
      <4>2. Call!HasHeader(Call!Emplace(caller.default, "Accept-Encoding", "gzip"), "Content-Type")
              <=> Call!HasHeader(caller.default, "Content-Type")
        BY DefaultTells, EmplaceGives, NamesDiffer, ValuesAre DEF Tells
      <4> QED BY <4>1, <4>2, DefaultTells DEF h, Call!OwnHeaders, Tells
    <3> QED BY <3>1, <3>2
  <2>4. Call!Header(Call!Emplace(h, "Content-Type", t), "Content-Type") =
          IF Call!Retyped THEN "text/plain" ELSE t
    BY <1>1, <2>2, <2>3 DEF Tells
  <2>5. Call!Typed(h, t) = Call!Emplace(h, "Content-Type", t)
    BY <1>3 DEF Call!Typed
  <2>6. Tells(Call!Emplace(h, "Content-Type", t), IF Call!Retyped THEN "text/plain" ELSE t, FALSE)
    BY <1>1, <2>2, <2>4, NamesDiffer DEF Tells
  <2> QED BY <2>5, <2>6 DEF h
<1> QED BY <1>2, <1>3

LEMMA ZippedTells ==
    ASSUME NEW h, NEW t, Tells(h, t, FALSE)
    PROVE  Tells(Call!Emplace(h, "Content-Encoding", "gzip"), t, TRUE)
<1>1. h \in Headers
  BY DEF Tells
<1>2. /\ Call!Emplace(h, "Content-Encoding", "gzip") \in Headers
      /\ Call!HasHeader(h, "Content-Encoding")
            \/ Call!Header(Call!Emplace(h, "Content-Encoding", "gzip"), "Content-Encoding") = "gzip"
      /\ \A m \in Call!Name \ {"Content-Encoding"} :
                /\ Call!HasHeader(Call!Emplace(h, "Content-Encoding", "gzip"), m) <=> Call!HasHeader(h, m)
                /\ Call!Header(Call!Emplace(h, "Content-Encoding", "gzip"), m) = Call!Header(h, m)
  BY <1>1, NamesDiffer, ValuesAre, EmplaceGives
<1> QED BY <1>2, NamesDiffer DEF Tells

\* A body before it is compressed.
Uncompressed(b) ==
    /\ DOMAIN b = {"text", "items", "multipart", "gzip", "cut"}
    /\ b.multipart \in BOOLEAN /\ b.gzip = FALSE /\ b.cut = FALSE

LEMMA ZippedBody ==
    ASSUME NEW b, Uncompressed(b), NEW g
    PROVE  /\ [b EXCEPT !.gzip = g].text = b.text /\ [b EXCEPT !.gzip = g].items = b.items
           /\ [b EXCEPT !.gzip = g].multipart = b.multipart
           /\ [b EXCEPT !.gzip = g].gzip = g /\ [b EXCEPT !.gzip = g].cut = FALSE
BY DEF Uncompressed

LEMMA PlainBody ==
    ASSUME NEW t
    PROVE  /\ Uncompressed(Call!Body(t)) /\ Call!Body(t).text = t /\ Call!Body(t).items = <<>>
           /\ Call!Body(t).multipart = FALSE
BY DEF Uncompressed, Call!Body

LEMMA PartsBody ==
    ASSUME NEW i, NEW z, z = [Call!Body(<<>>) EXCEPT !.items = i, !.multipart = TRUE]
    PROVE  Uncompressed(z) /\ z.text = <<>> /\ z.items = i /\ z.multipart = TRUE
<1>1. DOMAIN z = DOMAIN Call!Body(<<>>)
  OBVIOUS
<1>2. DOMAIN Call!Body(<<>>) = {"text", "items", "multipart", "gzip", "cut"}
  BY DEF Call!Body
<1>3. z.gzip = FALSE /\ z.cut = FALSE /\ z.text = <<>>
  BY DEF Call!Body
<1>4. z.items = i /\ z.multipart = TRUE
  BY DEF Call!Body
<1> QED BY <1>1, <1>2, <1>3, <1>4 DEF Uncompressed

\* send_with_content_provider().
LEMMA SendGives ==
    ASSUME Call!CallsAssumption, SetUp, NEW c \in Calls, NEW b, NEW t \in Value \cup {""},
           c.method \in Call!WithContent,
           Uncompressed(b),
           IF c.form = "items" THEN b.multipart /\ b.items = c.items
           ELSE ~b.multipart /\ b.items = <<>> /\ (c.form # "params" => b.text = Call!Text(c)),
           (IF Call!Retyped THEN "text/plain" ELSE t) = TypeOf(c),
           Call!SendWithContentProvider(c, b, t) # Call!None
    PROVE  RequestOf(Call!SendWithContentProvider(c, b, t), c)
<1> DEFINE typed == Call!Typed(Call!OwnHeaders(c), t)
           h == IF Call!Compresses THEN Call!Emplace(typed, "Content-Encoding", "gzip") ELSE typed
           Streams(headers, zipped) ==
            [Call!Request(c, headers, Call!Body(<<>>)) EXCEPT !.provider = TRUE,
                !.stream =
                [Call!Body(Call!Text(c)) EXCEPT !.gzip = zipped, !.cut = c.fails]]
           rq == Call!SendWithContentProvider(c, b, t)
<1>1. Call!Compresses \in BOOLEAN /\ Zips(c) = Call!Compresses
  BY DEF Call!Compresses, Zips, SetUp
<1>2. Tells(typed, TypeOf(c), FALSE)
  BY TypedTells
<1>3. Tells(h, TypeOf(c), Call!Compresses)
  BY <1>1, <1>2, ZippedTells
<1>4. c.method # "DELETE"
  BY DEF Call!WithContent
<1>5. ASSUME NEW g, Tells(g, TypeOf(c), Call!Compresses), c.form \in {"provider", "chunked"}
      PROVE  RequestOf(Streams(g, Call!Compresses), c)
  <2>1. /\ Streams(g, Call!Compresses).method = c.method /\ Streams(g, Call!Compresses).headers = g
        /\ Streams(g, Call!Compresses).body = Call!Body(<<>>)
        /\ Streams(g, Call!Compresses).stream =
                [Call!Body(Call!Text(c)) EXCEPT !.gzip = Call!Compresses, !.cut = c.fails]
    BY DEF Call!Request
  <2>2. Call!IsEmpty(Call!Body(<<>>))
    BY DEF Call!IsEmpty, Call!Body
  <2>3. Contained(Streams(g, Call!Compresses)) =
            [Call!Body(Call!Text(c)) EXCEPT !.gzip = Call!Compresses, !.cut = c.fails]
    BY <2>1, <2>2 DEF Contained
  <2>4. CallBody([Call!Body(Call!Text(c)) EXCEPT !.gzip = Call!Compresses, !.cut = c.fails], c)
    BY <1>1, <1>5 DEF CallBody, Call!Body
  <2> HIDE DEF Streams
  <2> QED BY <1>1, <1>4, <1>5, <2>1, <2>3, <2>4 DEF RequestOf
<1>6. CASE c.form = "chunked"
  <2>1. Tells(Call!Emplace(h, "Transfer-Encoding", "chunked"), TypeOf(c), Call!Compresses)
    BY <1>1, <1>3, ValuesAre, OtherTells
  <2>2. rq = Streams(Call!Emplace(h, "Transfer-Encoding", "chunked"), Call!Compresses)
    BY <1>6 DEF Call!SendWithContentProvider
  <2> HIDE DEF Streams, h, rq
  <2> QED BY <1>5, <1>6, <2>1, <2>2 DEF rq
<1>7. CASE c.form = "provider" /\ ~Call!Compresses
  <2>1. rq = Streams(h, Call!Compresses)
    BY <1>1, <1>7 DEF Call!SendWithContentProvider
  <2> HIDE DEF Streams, h, rq
  <2> QED BY <1>3, <1>5, <1>7, <2>1 DEF rq
<1>8. CASE c.form = "provider" /\ Call!Compresses
  <2>1. ~c.fails /\ rq = Call!Request(c, h, Call!CompressPieces(c))
    BY <1>8 DEF Call!SendWithContentProvider
  <2>2. c.pieces \in Seq(Seq(Nat)) /\ c.fails = FALSE
    BY <2>1, CallIs
  <2>3. \/ Call!CompressPieces(c) = [Call!Body(Call!Text(c)) EXCEPT !.gzip = TRUE]
        \/ Call!CompressPieces(c) = Call!Body(<<>>) /\ Call!Text(c) = <<>>
    <3>1. CASE c.pieces = <<>>
      <4>1. Call!Text(c) = <<>>
        BY <3>1, NoPieces DEF Call!Text
      <4>2. DOMAIN c.pieces = {}
        BY <3>1, NoIndex
      <4>3. Call!CompressPieces(c) = [Call!Body(<<>>) EXCEPT !.gzip = FALSE]
        BY <4>1, <4>2 DEF Call!CompressPieces
      <4> QED BY <4>1, <4>3 DEF Call!Body
    <3>2. CASE c.pieces # <<>>
      <4>1. PICK p \in Seq(Seq(Nat)) : p = c.pieces
        BY <2>2
      <4>2. SubSeq(p, 1, Len(p)) = p /\ Len(p) \in DOMAIN p
        BY <3>2, <4>1, SubSeqFull, LastIndex
      <4>3. \E i \in DOMAIN p : Len(Call!FlattenSeq(SubSeq(p, 1, i))) = Len(Call!FlattenSeq(p))
        BY <4>2
      <4>4. (\E i \in DOMAIN c.pieces :
                Len(Call!FlattenSeq(SubSeq(c.pieces, 1, i))) = Len(Call!FlattenSeq(c.pieces))) = TRUE
        BY <4>1, <4>3
      <4> QED BY <4>4 DEF Call!CompressPieces, Call!Text
    <3> QED BY <3>1, <3>2
  <2>4. /\ CallBody(Call!CompressPieces(c), c)
        /\ (Call!IsEmpty(Call!CompressPieces(c)) => CallBody(Call!Body(<<>>), c))
    <3> DEFINE q == [Call!Body(Call!Text(c)) EXCEPT !.gzip = TRUE]
    <3>1. q.text = Call!Text(c) /\ q.items = <<>> /\ q.multipart = FALSE /\ q.gzip = TRUE /\ q.cut = FALSE
      <4> DEFINE b0 == Call!Body(Call!Text(c))
      <4>1. /\ Uncompressed(b0) /\ b0.text = Call!Text(c) /\ b0.items = <<>> /\ b0.multipart = FALSE
        BY PlainBody
      <4>2. q = [b0 EXCEPT !.gzip = TRUE]
        OBVIOUS
      <4> HIDE DEF b0, q
      <4> QED BY <4>1, <4>2, ZippedBody
    <3> HIDE DEF q
    <3>2. CallBody(q, c) /\ ~Call!IsEmpty(q)
      BY <1>1, <1>8, <2>2, <3>1 DEF CallBody, Call!IsEmpty
    <3>3. Call!Text(c) = <<>> => CallBody(Call!Body(<<>>), c)
      BY <1>1, <1>8, <2>2 DEF CallBody, Call!Body, Call!IsEmpty
    <3> QED BY <2>3, <3>2, <3>3 DEF q
  <2>5. rq.method = c.method /\ rq.headers = h /\ rq.body = Call!CompressPieces(c) /\ rq.stream = Call!Body(<<>>)
    <3> HIDE DEF h, rq
    <3> QED BY <2>1 DEF Call!Request
  <2> HIDE DEF h, rq
  <2>6. CallBody(Contained(rq), c)
    BY <2>4, <2>5 DEF Contained
  <2> QED BY <1>1, <1>3, <1>4, <1>8, <2>5, <2>6 DEF RequestOf, rq
<1>9. CASE c.form \notin {"provider", "chunked"}
  <2>1. rq = Call!Request(c, h, [b EXCEPT !.gzip = Call!Compresses])
    BY <1>9 DEF Call!SendWithContentProvider
  <2>2. c.fails = FALSE
    BY <1>9, CallIs
  <2> DEFINE z == [b EXCEPT !.gzip = Call!Compresses]
  <2>3. /\ z.text = b.text /\ z.items = b.items /\ z.multipart = b.multipart /\ z.cut = FALSE
        /\ z.gzip = Call!Compresses
    <3>1. PICK g \in BOOLEAN : g = Call!Compresses
      BY <1>1
    <3>2. z = [b EXCEPT !.gzip = g]
      BY <3>1
    <3>3. /\ [b EXCEPT !.gzip = g].text = b.text /\ [b EXCEPT !.gzip = g].items = b.items
          /\ [b EXCEPT !.gzip = g].multipart = b.multipart
          /\ [b EXCEPT !.gzip = g].gzip = g /\ [b EXCEPT !.gzip = g].cut = FALSE
      BY ONLY Uncompressed(b), ZippedBody
    <3> HIDE DEF z
    <3> QED BY ONLY <3>1, <3>2, <3>3
  <2>4. CallBody(z, c)
    BY <1>1, <2>2, <2>3 DEF CallBody
  <2>5. Call!IsEmpty(z) => CallBody(Call!Body(<<>>), c)
    BY <1>1, <2>2, <2>3, <2>4 DEF CallBody, Call!Body, Call!IsEmpty
  <2>6. rq.method = c.method /\ rq.headers = h /\ rq.body = z /\ rq.stream = Call!Body(<<>>)
    <3> HIDE DEF h, rq, z
    <3>1. rq = Call!Request(c, h, z)
      BY <2>1 DEF z
    <3> QED BY <3>1 DEF Call!Request
  <2> HIDE DEF h, rq, z
  <2>7. CallBody(Contained(rq), c)
    BY <2>4, <2>5, <2>6 DEF Contained
  <2> QED BY <1>1, <1>3, <1>4, <2>6, <2>7 DEF RequestOf, rq
<1> QED BY <1>6, <1>7, <1>8, <1>9

\* Get, Head, Post, Put, Patch, Delete and Options.
LEMMA MadeGives ==
    ASSUME Call!CallsAssumption, SetUp, NEW c \in Calls, Call!Made(c) # Call!None
    PROVE  RequestOf(Call!Made(c), c)
<1> DEFINE own == IF Call!Retyped THEN "text/plain" ELSE ""
<1>0. /\ c.method \in {"GET", "HEAD", "DELETE", "OPTIONS"} \cup Call!WithContent
      /\ c.form \in {"none", "text", "params", "items", "provider", "chunked"}
      /\ c.form = "text" => c.method \in Call!WithContent \cup {"DELETE"}
      /\ c.form = "params" => c.method \in {"POST", "PUT"}
      /\ c.form = "items" => c.method = "POST"
      /\ c.form \in {"provider", "chunked"} => c.method \in Call!WithContent
      /\ c.fails => c.form \in {"provider", "chunked"}
      /\ c.type \in Value /\ c.fails \in BOOLEAN
      /\ c.form = "none" => c.pieces = <<>>
  BY CallIs
<1>1. /\ Call!Body(<<>>).text = <<>> /\ Call!Body(<<>>).items = <<>> /\ Call!Body(<<>>).multipart = FALSE
      /\ Call!Body(<<>>).gzip = FALSE /\ Call!Body(<<>>).cut = FALSE /\ Call!IsEmpty(Call!Body(<<>>))
  BY DEF Call!Body, Call!IsEmpty
<1>2. CASE c.method \in {"GET", "HEAD", "OPTIONS"}
  <2>1. c.form = "none" /\ c.fails = FALSE /\ c.method \notin Call!WithContent
    BY <1>0, <1>2 DEF Call!WithContent
  <2>2. Call!Text(c) = <<>>
    BY <1>0, <2>1, NoPieces DEF Call!Text
  <2>3. Zips(c) = FALSE /\ TypeOf(c) = own
    BY <1>2, <2>1 DEF Zips, TypeOf, Call!WithContent
  <2>4. CallBody(Call!Body(<<>>), c)
    BY <1>1, <2>1, <2>2 DEF CallBody
  <2>5. Call!Made(c) = Call!Request(c, Call!OwnHeaders(c), Call!Body(<<>>))
    BY <1>2 DEF Call!Made, Call!Get, Call!HeadOf, Call!Options
  <2>6. /\ Call!Made(c).method = c.method /\ Call!Made(c).headers = Call!OwnHeaders(c)
        /\ Call!Made(c).body = Call!Body(<<>>) /\ Call!Made(c).stream = Call!Body(<<>>)
    BY <2>5 DEF Call!Request
  <2>7. Tells(Call!OwnHeaders(c), TypeOf(c), FALSE)
    BY <2>3, OwnTells
  <2>8. Contained(Call!Made(c)) = Call!Body(<<>>)
    BY <2>6 DEF Contained
  <2> QED BY <1>2, <2>3, <2>4, <2>6, <2>7, <2>8 DEF RequestOf
<1>3. CASE c.method = "DELETE"
  <2>1. c.form \in {"none", "text"} /\ c.fails = FALSE /\ c.method \notin Call!WithContent
    BY <1>0, <1>3 DEF Call!WithContent
  <2>2. Zips(c) = FALSE /\ TypeOf(c) = IF Call!Retyped THEN "text/plain" ELSE c.type
    BY <1>3, <2>1 DEF Zips, TypeOf
  <2>3. Call!Made(c) = Call!Request(c, Call!Typed(Call!OwnHeaders(c), c.type), Call!Body(Call!Text(c)))
    BY <1>3 DEF Call!Made, Call!Delete
  <2>4. /\ Call!Made(c).method = c.method /\ Call!Made(c).headers = Call!Typed(Call!OwnHeaders(c), c.type)
        /\ Call!Made(c).body = Call!Body(Call!Text(c)) /\ Call!Made(c).stream = Call!Body(<<>>)
    BY <2>3 DEF Call!Request
  <2>5. Tells(Call!Typed(Call!OwnHeaders(c), c.type), TypeOf(c), FALSE)
    BY <1>0, <2>2, TypedTells
  <2>6. CallBody(Call!Body(Call!Text(c)), c)
    BY <2>1, <2>2 DEF CallBody, Call!Body
  <2>7. IF Call!Text(c) = <<>> THEN Call!Body(Call!Text(c)) = Call!Body(<<>>)
        ELSE ~Call!IsEmpty(Call!Body(Call!Text(c)))
    BY DEF Call!IsEmpty, Call!Body
  <2>8. Contained(Call!Made(c)) = Call!Body(Call!Text(c))
    BY <1>1, <2>4, <2>7 DEF Contained
  <2> QED BY <2>2, <2>4, <2>5, <2>6, <2>7, <2>8 DEF RequestOf
<1>4. CASE c.method \in Call!WithContent
  <2>1. TypeOf(c) = IF Call!Retyped THEN "text/plain" ELSE IF c.form = "params" THEN "form"
                    ELSE IF c.form = "items" THEN "multipart" ELSE c.type
    BY <1>4 DEF TypeOf
  <2>2. CASE c.form = "params"
    <3> DEFINE b == Call!Body(Call!ParamsToQueryStr(c.params))
    <3>1. Call!Made(c) = Call!SendWithContentProvider(c, b, "form")
      BY <1>0, <2>2 DEF Call!Made, Call!Post, Call!Put
    <3>2. /\ Uncompressed(b)
          /\ ~b.multipart /\ b.items = <<>>
      BY PlainBody
    <3> HIDE DEF b
    <3>3. TypeOf(c) = IF Call!Retyped THEN "text/plain" ELSE "form"
      BY <2>1, <2>2
    <3>4. /\ IF c.form = "items" THEN b.multipart /\ b.items = c.items
             ELSE ~b.multipart /\ b.items = <<>> /\ (c.form # "params" => b.text = Call!Text(c))
          /\ Call!SendWithContentProvider(c, b, "form") # Call!None /\ "form" \in Value \cup {""}
      BY <2>2, <3>1, <3>2, ValuesAre
    <3> QED BY <1>4, <3>1, <3>2, <3>3, <3>4, SendGives
  <2>3. CASE c.form = "items"
    <3> DEFINE b == [Call!Body(<<>>) EXCEPT !.items = c.items, !.multipart = TRUE]
    <3>1. Call!Made(c) = Call!SendWithContentProvider(c, b, "multipart")
      BY <1>0, <2>3 DEF Call!Made, Call!Post
    <3>2. /\ Uncompressed(b)
          /\ b.multipart /\ b.items = c.items
      BY PartsBody
    <3> HIDE DEF b
    <3>3. TypeOf(c) = IF Call!Retyped THEN "text/plain" ELSE "multipart"
      BY <2>1, <2>3
    <3>4. /\ IF c.form = "items" THEN b.multipart /\ b.items = c.items
             ELSE ~b.multipart /\ b.items = <<>> /\ (c.form # "params" => b.text = Call!Text(c))
          /\ Call!SendWithContentProvider(c, b, "multipart") # Call!None /\ "multipart" \in Value \cup {""}
      BY <2>3, <3>1, <3>2, ValuesAre
    <3> QED BY <1>4, <3>1, <3>2, <3>3, <3>4, SendGives
  <2>4. CASE c.form \notin {"params", "items"}
    <3> DEFINE b == Call!Body(Call!Text(c))
    <3>1. Call!Made(c) = Call!SendWithContentProvider(c, b, c.type)
      BY <1>4, <2>4 DEF Call!Made, Call!Post, Call!Put, Call!Patch, Call!WithContent
    <3>2. /\ Uncompressed(b)
          /\ ~b.multipart /\ b.items = <<>> /\ b.text = Call!Text(c)
      BY PlainBody
    <3> HIDE DEF b
    <3>3. c.type \in Value \cup {""}
      BY <1>0
    <3>4. TypeOf(c) = IF Call!Retyped THEN "text/plain" ELSE c.type
      BY <2>1, <2>4
    <3>5. /\ IF c.form = "items" THEN b.multipart /\ b.items = c.items
             ELSE ~b.multipart /\ b.items = <<>> /\ (c.form # "params" => b.text = Call!Text(c))
          /\ Call!SendWithContentProvider(c, b, c.type) # Call!None
      BY <2>4, <3>1, <3>2
    <3> QED BY <1>4, <3>1, <3>2, <3>3, <3>4, <3>5, SendGives
  <2> QED BY <2>2, <2>3, <2>4
<1> QED BY <1>0, <1>2, <1>3, <1>4

\* What write_request() makes of it.
Signed == IF "basic" \in caller.auth THEN "basic"
          ELSE IF "bearer" \in caller.auth THEN "bearer" ELSE ""

Reports(h, type, c) ==
    /\ h \in Headers
    /\ (Call!Header(h, "Content-Type") = "multipart") <=> (type = "multipart")
    /\ (Call!Header(h, "Content-Encoding") = "gzip") <=> Zips(c)

Written(w, c) ==
    /\ w.method = c.method
    /\ Reports(w.headers, TypeOf(c), c)
    /\ Call!Header(w.headers, "Authorization") = Signed
    /\ CallBody(w.body, c)
    /\ c.method = "DELETE" /\ Call!Text(c) # <<>> => Call!HasHeader(w.headers, "Content-Length")

LEMMA StillReports ==
    ASSUME NEW h, NEW t, NEW c, Reports(h, t, c), NEW v \in Value,
           NEW n \in Call!Name \ {"Content-Type", "Content-Encoding"}
    PROVE  Reports(Call!Emplace(h, n, v), t, c)
<1>1. h \in Headers
  BY DEF Reports
<1>2. /\ Call!Emplace(h, n, v) \in Headers
      /\ \A m \in Call!Name \ {n} : Call!Header(Call!Emplace(h, n, v), m) = Call!Header(h, m)
  BY <1>1, EmplaceGives
<1> QED BY <1>2, NamesDiffer DEF Reports

\* e is h with the credentials a under the name n, when the client has them.
Signs(h, e, n, a) ==
    /\ e \in Headers
    /\ \A m \in Call!Name \ {n} :
        (Call!HasHeader(e, m) <=> Call!HasHeader(h, m)) /\ Call!Header(e, m) = Call!Header(h, m)
    /\ Call!HasHeader(e, n) <=> Call!HasHeader(h, n) \/ a \in caller.auth
    /\ Call!Header(e, n) = IF ~Call!HasHeader(h, n) /\ a \in caller.auth THEN a ELSE Call!Header(h, n)
    /\ \A t, c : Reports(h, t, c) => Reports(e, t, c)

LEMMA AuthorizedGives ==
    ASSUME NEW h \in Headers, NEW n \in {"Authorization", "Proxy-Authorization"},
           NEW a \in Credentials
    PROVE  Signs(h, Call!Authorized(h, n, a), n, a)
<1>1. n \in Call!Name \ {"Content-Type", "Content-Encoding"} /\ a \in Value
  BY NamesDiffer, ValuesAre
<1>2. CASE a \in caller.auth
  <2>1. Call!Authorized(h, n, a) = Call!Emplace(h, n, a)
    BY <1>2 DEF Call!Authorized
  <2>2. /\ Call!Emplace(h, n, a) \in Headers
        /\ Call!HasHeader(Call!Emplace(h, n, a), n)
        /\ Call!Header(Call!Emplace(h, n, a), n) = IF Call!HasHeader(h, n) THEN Call!Header(h, n) ELSE a
        /\ \A m \in Call!Name \ {n} : /\ Call!HasHeader(Call!Emplace(h, n, a), m) <=> Call!HasHeader(h, m)
                                      /\ Call!Header(Call!Emplace(h, n, a), m) = Call!Header(h, m)
    BY <1>1, EmplaceGives
  <2>3. \A t, c : Reports(h, t, c) => Reports(Call!Emplace(h, n, a), t, c)
    BY <1>1, StillReports
  <2> QED BY <1>2, <2>1, <2>2, <2>3 DEF Signs
<1>3. CASE a \notin caller.auth
  <2>1. Call!Authorized(h, n, a) = h
    BY <1>3 DEF Call!Authorized
  <2> QED BY <1>3, <2>1 DEF Signs
<1> QED BY <1>2, <1>3

LEMMA WriteGives ==
    ASSUME Call!CallsAssumption, SetUp, NEW c \in Calls, NEW rq, RequestOf(rq, c)
    PROVE  Written(Call!WriteRequest(rq), c)
<1> DEFINE plain == IF Call!IsEmpty(rq.body) \/ Call!HasHeader(rq.headers, "Content-Type") THEN rq.headers
                    ELSE Call!Emplace(rq.headers, "Content-Type", "text/plain")
           sized == \/ ~Call!IsEmpty(rq.body)
                    \/ rq.provider /\ ~Call!HasHeader(rq.headers, "Transfer-Encoding")
                    \/ ~rq.provider /\ rq.method \in Call!WithContent
           framed == IF sized THEN Call!Emplace(plain, "Content-Length", "length") ELSE plain
           basic == Call!Authorized(framed, "Authorization", "basic")
           proxy == Call!Authorized(basic, "Proxy-Authorization", "proxy basic")
           bearer == Call!Authorized(proxy, "Authorization", "bearer")
           last == Call!Authorized(bearer, "Proxy-Authorization", "proxy bearer")
           w == Call!WriteRequest(rq)
<1>1. /\ w.method = rq.method /\ w.headers = last /\ w.body = Contained(rq)
  BY DEF Call!WriteRequest, Contained
<1>2. Tells(rq.headers, TypeOf(c), Zips(c))
  BY DEF RequestOf
<1>3. Reports(rq.headers, TypeOf(c), c)
  <2>1. rq.headers \in Headers /\ Call!Header(rq.headers, "Content-Type") = TypeOf(c)
    BY <1>2 DEF Tells
  <2>2. (Call!Header(rq.headers, "Content-Encoding") = "gzip") <=> Zips(c)
    BY <1>2, HeaderIs, NamesDiffer DEF Tells
  <2> QED BY <2>1, <2>2 DEF Reports
<1>4. Reports(plain, TypeOf(c), c) /\ ~Call!HasHeader(plain, "Authorization")
  <2>1. CASE Call!IsEmpty(rq.body) \/ Call!HasHeader(rq.headers, "Content-Type")
    <3>1. plain = rq.headers
      BY <2>1
    <3> QED BY <1>2, <1>3, <3>1 DEF Tells
  <2>2. CASE ~(Call!IsEmpty(rq.body) \/ Call!HasHeader(rq.headers, "Content-Type"))
    <3> DEFINE e == Call!Emplace(rq.headers, "Content-Type", "text/plain")
    <3>1. plain = e
      BY <2>2
    <3>2. TypeOf(c) = "" /\ rq.headers \in Headers /\ ~Call!HasHeader(rq.headers, "Authorization")
      BY <1>2, <2>2 DEF Tells
    <3>9. Emplaced(rq.headers, e, "Content-Type", "text/plain")
      BY <3>2, NamesDiffer, ValuesAre, EmplaceSays
    <3> HIDE DEF e, plain
    <3>3. /\ e \in Headers
          /\ Call!Header(e, "Content-Type") =
                IF Call!HasHeader(rq.headers, "Content-Type") THEN Call!Header(rq.headers, "Content-Type")
                ELSE "text/plain"
          /\ \A m \in Call!Name \ {"Content-Type"} :
                /\ Call!HasHeader(e, m) <=> Call!HasHeader(rq.headers, m)
                /\ Call!Header(e, m) = Call!Header(rq.headers, m)
      BY <3>9, NamesDiffer DEF Emplaced
    <3>4. Call!Header(e, "Content-Type") = "text/plain"
      BY <2>2, <3>3
    <3>5. Call!Header(e, "Content-Encoding") = Call!Header(rq.headers, "Content-Encoding")
      BY <3>3, NamesDiffer
    <3>6. ~Call!HasHeader(e, "Authorization")
      BY <3>2, <3>3, NamesDiffer
    <3>7. Reports(e, TypeOf(c), c)
      BY <1>3, <3>2, <3>3, <3>4, <3>5 DEF Reports
    <3> QED BY <3>1, <3>6, <3>7 DEF e
  <2> QED BY <2>1, <2>2
<1> HIDE DEF plain
<1>5. /\ Reports(framed, TypeOf(c), c) /\ ~Call!HasHeader(framed, "Authorization")
      /\ ~Call!IsEmpty(rq.body) => Call!HasHeader(framed, "Content-Length")
  <2> DEFINE e == Call!Emplace(plain, "Content-Length", "length")
  <2>1. Reports(e, TypeOf(c), c)
    BY <1>4, NamesDiffer, ValuesAre, StillReports
  <2>2. plain \in Headers
    BY <1>4 DEF Reports
  <2>3. /\ Call!HasHeader(e, "Content-Length")
        /\ (Call!HasHeader(e, "Authorization") <=> Call!HasHeader(plain, "Authorization"))
    BY <2>2, NamesDiffer, ValuesAre, EmplaceGives
  <2> HIDE DEF e
  <2>4. CASE sized
    BY <1>4, <2>1, <2>3, <2>4 DEF e
  <2>5. CASE ~sized
    BY <1>4, <2>5
  <2> QED BY <2>4, <2>5
<1> HIDE DEF framed
<1>6. {"basic", "bearer", "proxy basic", "proxy bearer"} = Credentials
  BY DEF Credentials
<1>7. /\ basic \in Headers /\ Reports(basic, TypeOf(c), c)
      /\ Call!HasHeader(basic, "Content-Length") <=> Call!HasHeader(framed, "Content-Length")
      /\ Call!HasHeader(basic, "Authorization") <=> "basic" \in caller.auth
      /\ "basic" \in caller.auth => Call!Header(basic, "Authorization") = "basic"
  <2>1. framed \in Headers
    BY <1>5 DEF Reports
  <2>2. Signs(framed, basic, "Authorization", "basic")
    BY <1>6, <2>1, AuthorizedGives
  <2> HIDE DEF basic
  <2> QED BY <1>5, <2>2, NamesDiffer DEF Signs
<1> HIDE DEF basic
<1>8. /\ proxy \in Headers /\ Reports(proxy, TypeOf(c), c)
      /\ Call!HasHeader(proxy, "Content-Length") <=> Call!HasHeader(basic, "Content-Length")
      /\ Call!HasHeader(proxy, "Authorization") <=> Call!HasHeader(basic, "Authorization")
      /\ Call!Header(proxy, "Authorization") = Call!Header(basic, "Authorization")
  <2>1. Signs(basic, proxy, "Proxy-Authorization", "proxy basic")
    BY <1>6, <1>7, AuthorizedGives
  <2> HIDE DEF proxy
  <2> QED BY <1>7, <2>1, NamesDiffer DEF Signs
<1> HIDE DEF proxy
<1>9. /\ bearer \in Headers /\ Reports(bearer, TypeOf(c), c)
      /\ Call!HasHeader(bearer, "Content-Length") <=> Call!HasHeader(proxy, "Content-Length")
      /\ Call!Header(bearer, "Authorization") =
            IF ~Call!HasHeader(proxy, "Authorization") /\ "bearer" \in caller.auth THEN "bearer"
            ELSE Call!Header(proxy, "Authorization")
  <2>1. Signs(proxy, bearer, "Authorization", "bearer")
    BY <1>6, <1>8, AuthorizedGives
  <2> HIDE DEF bearer
  <2> QED BY <1>8, <2>1, NamesDiffer DEF Signs
<1> HIDE DEF bearer
<1>10. /\ last \in Headers /\ Reports(last, TypeOf(c), c)
       /\ Call!HasHeader(last, "Content-Length") <=> Call!HasHeader(bearer, "Content-Length")
       /\ Call!Header(last, "Authorization") = Call!Header(bearer, "Authorization")
  <2>1. Signs(bearer, last, "Proxy-Authorization", "proxy bearer")
    BY <1>6, <1>9, AuthorizedGives
  <2> HIDE DEF last
  <2> QED BY <1>9, <2>1, NamesDiffer DEF Signs
<1> HIDE DEF last, w
<1>11. Call!Header(last, "Authorization") = Signed
  <2>1. ~Call!HasHeader(proxy, "Authorization") => Call!Header(proxy, "Authorization") = ""
    BY <1>8, NamesDiffer, HeaderIs
  <2> QED BY <1>7, <1>8, <1>9, <1>10, <2>1 DEF Signed
<1>12. c.method = "DELETE" /\ Call!Text(c) # <<>> => Call!HasHeader(last, "Content-Length")
  BY <1>5, <1>7, <1>8, <1>9, <1>10 DEF RequestOf
<1>13. Written(w, c)
  BY <1>1, <1>10, <1>11, <1>12 DEF Written, RequestOf
<1> QED BY <1>13 DEF w

LEMMA FirstIs ==
    ASSUME NEW n \in Nat, NEW S \in SUBSET (1 .. n), S # {}
    PROVE  Call!Min(S) \in S /\ \A j \in S : Call!Min(S) <= j
BY Least DEF Call!Min

-----------------------------------------------------------------------------
\* What is read is the content of the call c, or there is a reason.
Delivered(x, c) ==
    CASE c.form = "params" -> TRUE
      [] c.form = "items" -> IF Call!Retyped THEN x.text = Call!FormBytes ELSE x.items = c.items
      [] OTHER -> x.text = Call!Text(c)

Lacking(c) == IF c.form = "items" THEN c.items = <<>> ELSE c.type = "multipart"

Reading(x, c) ==
    /\ x.ok \in BOOLEAN
    /\ x.ok => ~c.fails /\ Delivered(x, c)
    /\ ~x.ok => /\ x.status \in {400, 415}
                /\ x.status = 415 => Call!Compresses /\ ~server.zlib
                /\ x.status = 400 => c.fails \/ Lacking(c)

LEMMA ReadGives ==
    ASSUME Call!CallsAssumption, SetUp, NEW c \in Calls, NEW w, Written(w, c),
           c.method \in Call!WithContent \cup {"DELETE"}
    PROVE  Reading(Call!ReadContent(w), c)
<1> DEFINE zipped == Call!Header(w.headers, "Content-Encoding") = "gzip"
           multipart == Call!Header(w.headers, "Content-Type") = "multipart"
           x == Call!ReadContent(w)
<1>0. /\ c.fails \in BOOLEAN /\ c.fails => c.form \in {"provider", "chunked"}
      /\ c.form = "params" => c.method \in {"POST", "PUT"}
      /\ c.form = "items" => c.method = "POST"
      /\ c.form \in {"provider", "chunked"} => c.method \in Call!WithContent
  BY CallIs
<1>1. /\ w.method = c.method /\ (zipped <=> Zips(c)) /\ (multipart <=> TypeOf(c) = "multipart")
      /\ CallBody(w.body, c)
      /\ c.method = "DELETE" /\ Call!Text(c) # <<>> => Call!HasHeader(w.headers, "Content-Length")
  BY DEF Written, Reports
<1>2. Zips(c) => Call!Compresses
  BY DEF Zips
<1>3. server.zlib \in BOOLEAN /\ Zips(c) \in BOOLEAN
  BY DEF SetUp, Zips, Call!Compresses
<1>4. multipart => ~Call!Retyped /\ c.form # "params" /\ (c.form = "items" \/ c.type = "multipart")
  BY <1>1 DEF TypeOf
<1>5. c.form = "items" /\ ~Call!Retyped => multipart
  BY <1>1 DEF TypeOf
<1>6. CASE w.method = "DELETE" /\ ~Call!HasHeader(w.headers, "Content-Length")
  <2>1. x = Call!Read(TRUE, 0, <<>>, <<>>)
    BY <1>6 DEF Call!ReadContent
  <2>2. x.ok = TRUE /\ x.text = <<>>
    BY <2>1 DEF Call!Read
  <2>3. Call!Text(c) = <<>> /\ c.form \notin {"params", "items", "provider", "chunked"} /\ ~c.fails
    BY <1>0, <1>1, <1>6 DEF Call!WithContent
  <2> HIDE DEF x
  <2> QED BY <2>2, <2>3 DEF Reading, Delivered, x
<1>7. CASE /\ ~(w.method = "DELETE" /\ ~Call!HasHeader(w.headers, "Content-Length"))
           /\ zipped /\ ~server.zlib
  <2>1. x = Call!Read(FALSE, 415, <<>>, <<>>)
    BY <1>7 DEF Call!ReadContent
  <2>2. x.ok = FALSE /\ x.status = 415
    BY <2>1 DEF Call!Read
  <2>3. Call!Compresses
    BY <1>1, <1>2, <1>7
  <2> HIDE DEF x
  <2>4. x.status \in {400, 415} /\ x.status # 400 /\ ~x.ok /\ x.ok \in BOOLEAN
    <3>1. x.status \in {400, 415} /\ x.status # 400
      BY ONLY <2>2, SMT
    <3>2. x.ok \in BOOLEAN
      BY ONLY <2>2, Zenon
    <3>3. ~x.ok
      BY ONLY <2>2, Zenon
    <3> QED BY ONLY <3>1, <3>2, <3>3
  <2>5. Reading(x, c)
    BY ONLY <1>7, <2>3, <2>4 DEF Reading
  <2> QED BY <2>5 DEF x
<1>8. CASE /\ ~(w.method = "DELETE" /\ ~Call!HasHeader(w.headers, "Content-Length"))
           /\ ~(zipped /\ ~server.zlib)
           /\ w.body.cut \/ (w.body.gzip # zipped /\ ~Call!IsEmpty(w.body))
  <2>1. x = Call!Read(FALSE, 400, <<>>, <<>>)
    BY <1>8 DEF Call!ReadContent
  <2>2. x.ok = FALSE /\ x.status = 400
    BY <2>1 DEF Call!Read
  <2>3. w.body.gzip = zipped \/ Call!IsEmpty(w.body)
    BY <1>1, <1>3 DEF CallBody
  <2>4. c.fails
    BY <1>1, <1>8, <2>3 DEF CallBody
  <2> HIDE DEF x
  <2>5. x.status \in {400, 415} /\ x.status # 415 /\ ~x.ok /\ x.ok \in BOOLEAN
    <3>1. x.status \in {400, 415} /\ x.status # 415
      BY ONLY <2>2, SMT
    <3>2. x.ok \in BOOLEAN
      BY ONLY <2>2, Zenon
    <3>3. ~x.ok
      BY ONLY <2>2, Zenon
    <3> QED BY ONLY <3>1, <3>2, <3>3
  <2>6. Reading(x, c)
    BY ONLY <2>4, <2>5 DEF Reading
  <2> QED BY <2>6 DEF x
<1>9. CASE /\ ~(w.method = "DELETE" /\ ~Call!HasHeader(w.headers, "Content-Length"))
           /\ ~(zipped /\ ~server.zlib)
           /\ ~(w.body.cut \/ (w.body.gzip # zipped /\ ~Call!IsEmpty(w.body)))
  <2>0. ~c.fails
    BY <1>1, <1>9 DEF CallBody
  <2>1. CASE multipart /\ w.body.items = <<>>
    <3>1. x = Call!Read(FALSE, 400, <<>>, <<>>)
      BY <1>9, <2>1 DEF Call!ReadContent
    <3>2. x.ok = FALSE /\ x.status = 400
      BY <3>1 DEF Call!Read
    <3>3. Lacking(c)
      BY <1>1, <1>4, <2>1 DEF Lacking, CallBody
    <3> HIDE DEF x
    <3>4. x.status \in {400, 415} /\ x.status # 415 /\ ~x.ok /\ x.ok \in BOOLEAN
      <4>1. x.status \in {400, 415} /\ x.status # 415
        BY ONLY <3>2, SMT
      <4>2. x.ok \in BOOLEAN
        BY ONLY <3>2, Zenon
      <4>3. ~x.ok
        BY ONLY <3>2, Zenon
      <4> QED BY ONLY <4>1, <4>2, <4>3
    <3>5. Reading(x, c)
      BY ONLY <3>3, <3>4 DEF Reading
    <3> QED BY <3>5 DEF x
  <2>2. CASE multipart /\ w.body.items # <<>>
    <3>1. x = Call!Read(TRUE, 0, <<>>, w.body.items)
      BY <1>9, <2>2 DEF Call!ReadContent
    <3>2. x.ok = TRUE /\ x.items = w.body.items
      BY <3>1 DEF Call!Read
    <3>3. c.form = "items" /\ w.body.items = c.items /\ ~Call!Retyped
      BY <1>1, <1>4, <2>2 DEF CallBody
    <3> HIDE DEF x
    <3> QED BY <2>0, <3>2, <3>3 DEF Reading, Delivered, x
  <2>3. CASE ~multipart
    <3> DEFINE text == IF w.body.multipart THEN Call!FormBytes ELSE w.body.text
    <3>1. x = Call!Read(TRUE, 0, text, <<>>)
      BY <1>9, <2>3 DEF Call!ReadContent
    <3>2. x.ok = TRUE /\ x.text = text
      BY <3>1 DEF Call!Read
    <3>3. c.form = "items" => Call!Retyped /\ text = Call!FormBytes
      BY <1>1, <1>5, <2>3 DEF CallBody
    <3>4. c.form \notin {"items", "params"} => text = Call!Text(c)
      BY <1>1 DEF CallBody
    <3> HIDE DEF x, text
    <3> QED BY <2>0, <3>2, <3>3, <3>4 DEF Reading, Delivered, x
  <2> QED BY <2>1, <2>2, <2>3
<1> QED BY <1>6, <1>7, <1>8, <1>9

-----------------------------------------------------------------------------
\* An answer is one of the program or a refusal for a reason.
AnswerIs(a, g, c) ==
    /\ a.status \in {200, 400, 404, 415} /\ a.gzip \in BOOLEAN
    /\ a.gzip => server.zlib /\ a.status = 200
    /\ a.status = 200 =>
        /\ g # Call!None
        /\ a.text = IF "dir" \in DOMAIN g \/ server.handlers[g.handler].answer # "nothing"
                    THEN Call!Answered ELSE <<>>
    /\ a.status = 404 => g = Call!None
    /\ a.status = 415 => Call!Compresses /\ ~server.zlib
    /\ a.status = 400 => c.fails \/ Lacking(c)

\* Before the answer a call has returned only what its provider gave up.
Cancelled == result.error = "Canceled" /\ result.status = 0 /\ result.raw = FALSE

CallsInv ==
    /\ SetUp
    /\ call = Call!None => request = Call!None /\ got = Call!None /\ answer = Call!None /\ result = Call!None
    /\ call # Call!None => call \in Calls
    /\ request # Call!None => Written(request, call)
    /\ answer # Call!None => call # Call!None /\ AnswerIs(answer, got, call)
    /\ answer = Call!None => got = Call!None /\ (result # Call!None => Cancelled)
    /\ call # Call!None /\ result = Call!None => ~call.fails
    /\ Call!HandlerIsFor /\ Call!ResultForReason

LEMMA ResultIs ==
    ASSUME NEW e, NEW s, NEW t, NEW rq
    PROVE  /\ Call!Result(e, s, t, rq) # Call!None
           /\ Call!Result(e, s, t, rq).error = e /\ Call!Result(e, s, t, rq).status = s
           /\ Call!Result(e, s, t, rq).text = t /\ Call!Result(e, s, t, rq).raw = rq
BY DEF Call!Result, Call!None

LEMMA InitCalls == Call!CallsAssumption /\ Call!Init => CallsInv
<1> SUFFICES ASSUME Call!CallsAssumption, Call!Init PROVE CallsInv
  OBVIOUS
<1>1. SetUp
  <2>1. <<>> \in Seq(Handlers) /\ <<>> \in Seq(Mounts)
    OBVIOUS
  <2> QED BY <2>1 DEF Call!Init, SetUp, Defaults
<1>2. call = Call!None /\ request = Call!None /\ got = Call!None /\ answer = Call!None /\ result = Call!None
  BY DEF Call!Init
<1>3. Call!HandlerIsFor /\ Call!ResultForReason
  BY <1>2 DEF Call!HandlerIsFor, Call!ResultForReason
<1> QED BY <1>1, <1>2, <1>3 DEF CallsInv

\* The settings are made before the call.
LEMMA SetupKeeps ==
    ASSUME Call!CallsAssumption, CallsInv,
           Call!Builds \/ Call!Configure \/ Call!Register \/ Call!Mount \/ Call!Unmount
    PROVE  CallsInv'
<1>1. call = Call!None /\ request = Call!None /\ got = Call!None /\ answer = Call!None /\ result = Call!None
  BY DEF CallsInv, Call!Builds, Call!Configure, Call!Register, Call!Mount, Call!Unmount, Call!Setup
<1>2. UNCHANGED <<call, request, got, answer, result>>
  BY DEF Call!Builds, Call!Configure, Call!Register, Call!Mount, Call!Unmount
<1>3. SetUp'
  <2>1. /\ caller \in [default : Defaults, auth : SUBSET Credentials, compress : BOOLEAN,
                       decompress : BOOLEAN, zlib : BOOLEAN]
        /\ server \in [handlers : Seq(Handlers), mounts : Seq(Mounts), zlib : BOOLEAN]
    BY DEF CallsInv, SetUp
  <2>2. CASE Call!Builds
    BY <2>1, <2>2 DEF Call!Builds, SetUp
  <2>3. CASE Call!Configure
    <3>1. PICK c \in {[caller EXCEPT !.default = Call!Emplace(Call!NoHeaders, "Content-Type", "text/plain")],
                 [caller EXCEPT !.default = Call!Emplace(Call!NoHeaders, "Accept-Encoding", "gzip")],
                 [caller EXCEPT !.compress = TRUE], [caller EXCEPT !.decompress = FALSE]}
                \cup {[caller EXCEPT !.auth = @ \cup {a}] :
                        a \in {"basic", "bearer", "proxy basic", "proxy bearer"}} : caller' = c
      BY <2>3 DEF Call!Configure
    <3>2. server' = server
      BY <2>3 DEF Call!Configure
    <3>3. /\ Call!Emplace(Call!NoHeaders, "Content-Type", "text/plain") \in Defaults
          /\ Call!Emplace(Call!NoHeaders, "Accept-Encoding", "gzip") \in Defaults
      BY DEF Defaults
    <3>4. \A a \in {"basic", "bearer", "proxy basic", "proxy bearer"} : a \in Credentials
      BY DEF Credentials
    <3>5. caller' \in [default : Defaults, auth : SUBSET Credentials, compress : BOOLEAN,
                       decompress : BOOLEAN, zlib : BOOLEAN]
      <4>1. \A d \in Defaults : [caller EXCEPT !.default = d] \in
                [default : Defaults, auth : SUBSET Credentials, compress : BOOLEAN,
                 decompress : BOOLEAN, zlib : BOOLEAN]
        BY <2>1
      <4>2. /\ [caller EXCEPT !.compress = TRUE] \in
                [default : Defaults, auth : SUBSET Credentials, compress : BOOLEAN,
                 decompress : BOOLEAN, zlib : BOOLEAN]
            /\ [caller EXCEPT !.decompress = FALSE] \in
                [default : Defaults, auth : SUBSET Credentials, compress : BOOLEAN,
                 decompress : BOOLEAN, zlib : BOOLEAN]
        BY <2>1
      <4>3. \A a \in Credentials : [caller EXCEPT !.auth = @ \cup {a}] \in
                [default : Defaults, auth : SUBSET Credentials, compress : BOOLEAN,
                 decompress : BOOLEAN, zlib : BOOLEAN]
        BY <2>1
      <4>4. CASE \E a \in {"basic", "bearer", "proxy basic", "proxy bearer"} :
                    caller' = [caller EXCEPT !.auth = @ \cup {a}]
        <5>1. PICK a \in {"basic", "bearer", "proxy basic", "proxy bearer"} :
                    caller' = [caller EXCEPT !.auth = @ \cup {a}]
          BY <4>4
        <5>2. a \in Credentials
          BY <3>4
        <5> QED BY <4>3, <5>1, <5>2
      <4>5. CASE \/ caller' = [caller EXCEPT !.default = Call!Emplace(Call!NoHeaders, "Content-Type", "text/plain")]
                 \/ caller' = [caller EXCEPT !.default = Call!Emplace(Call!NoHeaders, "Accept-Encoding", "gzip")]
        BY <3>3, <4>1, <4>5
      <4>6. CASE \/ caller' = [caller EXCEPT !.compress = TRUE]
                 \/ caller' = [caller EXCEPT !.decompress = FALSE]
        BY <4>2, <4>6
      <4> QED BY <3>1, <4>4, <4>5, <4>6
    <3> QED BY <2>1, <3>2, <3>5 DEF SetUp
  <2>4. CASE Call!Register
    <3>1. PICK h \in Handlers : server' = [server EXCEPT !.handlers = Append(@, h)]
      BY <2>4 DEF Call!Register
    <3>2. caller' = caller
      BY <2>4 DEF Call!Register
    <3>3. Append(server.handlers, h) \in Seq(Handlers)
      BY <2>1, AppendProperties
    <3> QED BY <2>1, <3>1, <3>2, <3>3 DEF SetUp
  <2>5. CASE Call!Mount
    <3>1. PICK m \in Mounts : server' = [server EXCEPT !.mounts = Append(@, m)]
      BY <2>5 DEF Call!Mount
    <3>2. caller' = caller
      BY <2>5 DEF Call!Mount
    <3>3. Append(server.mounts, m) \in Seq(Mounts)
      BY <2>1, AppendProperties
    <3> QED BY <2>1, <3>1, <3>2, <3>3 DEF SetUp
  <2>6. CASE Call!Unmount
    <3>1. PICK i \in DOMAIN server.mounts : server' = [server EXCEPT !.mounts = Call!RemoveAt(@, i)]
      BY <2>6 DEF Call!Unmount
    <3>2. caller' = caller
      BY <2>6 DEF Call!Unmount
    <3>3. Call!RemoveAt(server.mounts, i) \in Seq(Mounts)
      <4>1. PICK s \in Seq(Mounts) : s = server.mounts
        BY <2>1
      <4>2. Call!RemoveAt(s, i) \in Seq(Mounts)
        BY <4>1 DEF Call!RemoveAt
      <4> QED BY <4>1, <4>2
    <3> QED BY <2>1, <3>1, <3>2, <3>3 DEF SetUp
  <2> QED BY <2>2, <2>3, <2>4, <2>5, <2>6
<1>4. Call!HandlerIsFor' /\ Call!ResultForReason'
  BY <1>1, <1>2 DEF Call!HandlerIsFor, Call!ResultForReason
<1> QED BY <1>1, <1>2, <1>3, <1>4 DEF CallsInv

\* The settings stay, and what was written by them.
LEMMA WrittenStays ==
    ASSUME UNCHANGED caller, Written(request', call')
    PROVE  Written(request, call)'
BY DEF Written, Reports, CallBody, Zips, Call!Compresses, TypeOf, Call!Retyped, Signed, Call!Header,
       Call!HasHeader,
       Call!IsEmpty, Call!Text, Headers

LEMMA AnswerStays ==
    ASSUME UNCHANGED <<caller, server>>, AnswerIs(answer', got', call')
    PROVE  AnswerIs(answer, got, call)'
BY DEF AnswerIs, Call!Compresses, Lacking

LEMMA SendKeeps ==
    ASSUME Call!CallsAssumption, CallsInv, Call!Send
    PROVE  CallsInv'
<1>1. call = Call!None /\ request = Call!None /\ got = Call!None /\ answer = Call!None /\ result = Call!None
  BY DEF CallsInv, Call!Send
<1>2. PICK c \in Calls :
        /\ call' = c
        /\ request' = IF Call!Made(c) = Call!None THEN Call!None ELSE Call!WriteRequest(Call!Made(c))
        /\ result' = IF c.fails THEN Call!Result("Canceled", 0, <<>>, FALSE) ELSE Call!None
  BY DEF Call!Send
<1>3. caller' = caller /\ server' = server /\ got' = Call!None /\ answer' = Call!None
  BY <1>1 DEF Call!Send
<1>4. SetUp /\ SetUp'
  BY <1>3 DEF CallsInv, SetUp
<1>5. call' # Call!None /\ call' \in Calls /\ c.fails \in BOOLEAN
  BY <1>2, CallIs
<1>6. request' # Call!None => Written(request, call)'
  <2> SUFFICES ASSUME request' # Call!None PROVE Written(request, call)'
    OBVIOUS
  <2>1. Call!Made(c) # Call!None /\ request' = Call!WriteRequest(Call!Made(c))
    BY <1>2
  <2>2. Written(request', c)
    BY <1>4, <2>1, MadeGives, WriteGives
  <2>3. Written(request', call')
    BY <1>2, <2>2
  <2> QED BY <1>3, <2>3, WrittenStays
<1>7. Call!HandlerIsFor'
  BY <1>3 DEF Call!HandlerIsFor
<1>8. /\ result' # Call!None => Cancelled' /\ call'.fails
      /\ result' = Call!None => ~call'.fails
  <2>1. CASE c.fails
    <3>1. result' = Call!Result("Canceled", 0, <<>>, FALSE)
      BY <1>2, <2>1
    <3>2. /\ Call!Result("Canceled", 0, <<>>, FALSE) # Call!None
          /\ Call!Result("Canceled", 0, <<>>, FALSE).error = "Canceled"
          /\ Call!Result("Canceled", 0, <<>>, FALSE).status = 0
          /\ Call!Result("Canceled", 0, <<>>, FALSE).raw = FALSE
      BY DEF Call!Result, Call!None
    <3>3. result' # Call!None /\ result'.error = "Canceled" /\ result'.status = 0 /\ result'.raw = FALSE
      BY ONLY <3>1, <3>2
    <3> QED BY <1>2, <2>1, <3>3 DEF Cancelled
  <2>2. CASE ~c.fails
    BY <1>2, <2>2
  <2> QED BY <2>1, <2>2
<1>9. Call!ResultForReason'
  BY <1>8 DEF Cancelled, Call!ResultForReason
<1> QED BY <1>3, <1>4, <1>5, <1>6, <1>7, <1>8, <1>9 DEF CallsInv

-----------------------------------------------------------------------------
LEMMA EncodedIs ==
    ASSUME SetUp, NEW w, NEW kind, NEW t
    PROVE  /\ Call!Encoded(w, kind, t).status = 200 /\ Call!Encoded(w, kind, t).text = t
           /\ Call!Encoded(w, kind, t).gzip \in BOOLEAN
           /\ Call!Encoded(w, kind, t).gzip => server.zlib
           /\ Call!Encoded(w, kind, t) # Call!None
<1> DEFINE zips == /\ kind # "image" /\ server.zlib
                   /\ Call!Header(w.headers, "Accept-Encoding") = "gzip"
                   /\ kind = "chunked" \/ (kind # "provider" /\ t # <<>>)
<1>1. zips \in BOOLEAN /\ (zips => server.zlib)
  BY DEF SetUp
<1>2. Call!Encoded(w, kind, t) = [status |-> 200, text |-> t, gzip |-> zips]
  BY DEF Call!Encoded
<1> HIDE DEF zips
<1> QED BY <1>1, <1>2 DEF Call!None

LEMMA RefusesIs ==
    ASSUME NEW s
    PROVE  /\ Call!Refuses(s).status = s /\ Call!Refuses(s).gzip = FALSE /\ Call!Refuses(s) # Call!None
BY DEF Call!Refuses, Call!None

LEMMA FileIs ==
    ASSUME NEW p, Call!FileOf(p) # Call!None
    PROVE  "dir" \in DOMAIN Call!FileOf(p) /\ "handler" \notin DOMAIN Call!FileOf(p)
BY DEF Call!FileOf

\* What a handler gets that is the first to match.
Handed(i, path, q, x, w) ==
    [handler |-> i, path |-> path, params |-> q, read |-> x,
     auth |-> Call!Header(w.headers, "Authorization")]

LEMMA HandedIs ==
    ASSUME NEW i, NEW path, NEW q, NEW x, NEW w
    PROVE  /\ Handed(i, path, q, x, w).handler = i /\ Handed(i, path, q, x, w).path = path
           /\ Handed(i, path, q, x, w).read = x
           /\ Handed(i, path, q, x, w).auth = Call!Header(w.headers, "Authorization")
           /\ "dir" \notin DOMAIN Handed(i, path, q, x, w)
           /\ Handed(i, path, q, x, w) # Call!None
BY DEF Handed, Call!None

LEMMA HandlerGives ==
    ASSUME SetUp, UNCHANGED <<caller, server, call>>, NEW own \in BOOLEAN, NEW path, NEW q,
           NEW x, Reading(x, call), x.ok \/ own, NEW w, Written(w, call),
           Call!Matching(call.method, own, path) # {},
           got' = Handed(Call!Min(Call!Matching(call.method, own, path)), path, q, x, w)
    PROVE  Call!HandlerIsFor'
<1> DEFINE S == Call!Matching(call.method, own, path)
           i == Call!Min(S)
           h == server.handlers[i]
<1>1. PICK n \in Nat : n = Len(server.handlers) /\ DOMAIN server.handlers = 1 .. n
  BY LenProperties DEF SetUp
<1>2. S \in SUBSET (1 .. n) /\ S # {}
  BY <1>1 DEF Call!Matching
<1>3. i \in S /\ \A j \in S : i <= j
  <2> HIDE DEF S
  <2> QED BY <1>2, FirstIs
<1>4. h.list = Call!ListOf(call.method) /\ h.reads = own /\ path \in h.paths
  BY <1>3 DEF Call!Matching
<1> HIDE DEF i
<1>5. \A j \in 1 .. i - 1 :
        ~(/\ server.handlers[j].list = h.list /\ server.handlers[j].reads = h.reads
          /\ path \in server.handlers[j].paths)
  <2> SUFFICES ASSUME NEW j \in 1 .. i - 1, server.handlers[j].list = h.list,
                      server.handlers[j].reads = h.reads, path \in server.handlers[j].paths
               PROVE  FALSE
    OBVIOUS
  <2>1. i \in 1 .. n
    BY <1>2, <1>3
  <2>2. j \in 1 .. n /\ ~(i <= j)
    BY <2>1
  <2>3. j \in S
    BY <1>1, <1>4, <2>2 DEF Call!Matching
  <2> QED BY <1>3, <2>2, <2>3
<1>6. ~h.reads => ~call.fails
  BY <1>4 DEF Reading
<1>7. x.ok => Delivered(x, call)
  BY DEF Reading
<1>8. Call!Header(w.headers, "Authorization") = Signed
  BY DEF Written
<1>9. /\ got'.handler = i /\ got'.path = path /\ got'.read = x
      /\ got'.auth = Call!Header(w.headers, "Authorization")
  BY HandedIs DEF i
<1> HIDE DEF h
<1>10. server'.handlers[got'.handler] = h
  BY <1>9 DEF h
<1>11. h.list = Call!ListOf(call'.method) /\ got'.path \in h.paths
  BY <1>4, <1>9
<1>12. \A j \in 1 .. got'.handler - 1 :
        LET g == server'.handlers[j]
        IN  ~(g.list = h.list /\ g.reads = h.reads /\ got'.path \in g.paths)
  BY <1>5, <1>9
<1>13. ~h.reads => ~call'.fails
  BY <1>6
<1>14. got'.read.ok =>
        CASE call'.form = "params" -> TRUE
          [] call'.form = "items" -> IF Call!Retyped' THEN got'.read.text = Call!FormBytes
                                    ELSE got'.read.items = call'.items
          [] OTHER -> got'.read.text = Call!Text(call')
  <2>1. Call!Retyped' = Call!Retyped
    BY DEF Call!Retyped, Call!HasHeader
  <2> QED BY <1>7, <1>9, <2>1 DEF Delivered
<1>15. got'.auth = (IF "basic" \in caller'.auth THEN "basic"
                    ELSE IF "bearer" \in caller'.auth THEN "bearer" ELSE "")
  BY <1>8, <1>9 DEF Signed
<1> QED BY <1>10, <1>11, <1>12, <1>13, <1>14, <1>15 DEF Call!HandlerIsFor

\* What routing() may end in: a file, a handler that runs, one that cannot read, or a refusal.
Ended(g, a, c) ==
    \/ /\ "dir" \in DOMAIN g /\ "handler" \notin DOMAIN g /\ g # Call!None
       /\ \E w, kind : a = Call!Encoded(w, kind, Call!Answered)
    \/ /\ g # Call!None /\ "dir" \notin DOMAIN g
       /\ \E w, kind : /\ kind = server.handlers[g.handler].answer
                        /\ a = Call!Encoded(w, kind, IF kind = "nothing" THEN <<>> ELSE Call!Answered)
    \/ \E x : /\ Reading(x, c) /\ ~x.ok /\ a = Call!Refuses(x.status)
    \/ g = Call!None /\ a = Call!Refuses(404)

LEMMA TextGives ==
    ASSUME NEW a, NEW g, NEW c, a.status = 200, a.gzip \in BOOLEAN, a.gzip => server.zlib,
           g # Call!None,
           a.text = IF "dir" \in DOMAIN g \/ server.handlers[g.handler].answer # "nothing"
                    THEN Call!Answered ELSE <<>>
    PROVE  AnswerIs(a, g, c)
<1>1. a.status \in {200, 400, 404, 415} /\ a.status # 404 /\ a.status # 415 /\ a.status # 400
  BY SMT
<1> QED BY <1>1, Zenon DEF AnswerIs

LEMMA EndedGives ==
    ASSUME SetUp, NEW g, NEW a, NEW c, Ended(g, a, c)
    PROVE  a # Call!None /\ AnswerIs(a, g, c)
<1>1. CASE /\ "dir" \in DOMAIN g /\ g # Call!None
           /\ \E w, kind : a = Call!Encoded(w, kind, Call!Answered)
  <2>1. PICK w, kind : a = Call!Encoded(w, kind, Call!Answered)
    BY <1>1
  <2>2. /\ a.status = 200 /\ a.text = Call!Answered /\ a.gzip \in BOOLEAN
        /\ a.gzip => server.zlib
        /\ a # Call!None
    BY <2>1, EncodedIs
  <2> QED BY <1>1, <2>2, TextGives
<1>2. CASE /\ g # Call!None /\ "dir" \notin DOMAIN g
           /\ \E w, kind : /\ kind = server.handlers[g.handler].answer
                           /\ a = Call!Encoded(w, kind, IF kind = "nothing" THEN <<>> ELSE Call!Answered)
  <2>1. PICK w, kind : /\ kind = server.handlers[g.handler].answer
                       /\ a = Call!Encoded(w, kind, IF kind = "nothing" THEN <<>> ELSE Call!Answered)
    BY <1>2
  <2>2. /\ a.status = 200 /\ a.text = (IF kind = "nothing" THEN <<>> ELSE Call!Answered)
        /\ a.gzip \in BOOLEAN /\ (a.gzip => server.zlib)
        /\ a # Call!None
    BY <2>1, EncodedIs
  <2>3. a.text = IF "dir" \in DOMAIN g \/ server.handlers[g.handler].answer # "nothing"
                 THEN Call!Answered ELSE <<>>
    BY <1>2, <2>1, <2>2
  <2> QED BY <1>2, <2>2, <2>3, TextGives
<1>3. CASE \E x : /\ Reading(x, c) /\ ~x.ok /\ a = Call!Refuses(x.status)
  <2>1. PICK x : /\ Reading(x, c) /\ ~x.ok /\ a = Call!Refuses(x.status)
    BY <1>3
  <2>2. a.status = x.status /\ a.gzip = FALSE /\ a # Call!None
    BY <2>1, RefusesIs
  <2>3. /\ x.status \in {400, 415}
        /\ x.status = 415 => Call!Compresses /\ ~server.zlib
        /\ x.status = 400 => c.fails \/ Lacking(c)
    BY <2>1 DEF Reading
  <2>4. a.status \in {400, 404, 415} /\ a.status # 404
    BY <2>2, <2>3, SMT
  <2>5. /\ a.status = 404 => g = Call!None
        /\ a.status = 415 => Call!Compresses /\ ~server.zlib
        /\ a.status = 400 => c.fails \/ Lacking(c)
    BY <2>2, <2>3, <2>4
  <2>6. AnswerIs(a, g, c)
    <3>1. a.status \in {200, 400, 404, 415} /\ a.status # 200
      BY ONLY <2>4, SMT
    <3>2. a.gzip \in BOOLEAN /\ ~a.gzip
      BY ONLY <2>2, Zenon
    <3> QED BY ONLY <3>1, <3>2, <2>5 DEF AnswerIs
  <2> QED BY <2>2, <2>6
<1>4. CASE g = Call!None /\ a = Call!Refuses(404)
  <2>1. a.status = 404 /\ a # Call!None
    BY <1>4 DEF Call!Refuses, Call!None
  <2>2. a.gzip = FALSE
    BY <1>4, RefusesIs
  <2>3. a.status \in {400, 404, 415} /\ a.status # 415 /\ a.status # 400
    BY <2>1, SMT
  <2>4. /\ a.status = 404 => g = Call!None
        /\ a.status = 415 => Call!Compresses /\ ~server.zlib
        /\ a.status = 400 => c.fails \/ Lacking(c)
    BY <1>4, <2>3
  <2>5. AnswerIs(a, g, c)
    <3>1. a.status \in {200, 400, 404, 415} /\ a.status # 200
      BY ONLY <2>3, SMT
    <3>2. a.gzip \in BOOLEAN /\ ~a.gzip
      BY ONLY <2>2, Zenon
    <3> QED BY ONLY <3>1, <3>2, <2>4 DEF AnswerIs
  <2> QED BY <2>1, <2>5
<1> QED BY <1>1, <1>2, <1>3, <1>4 DEF Ended

LEMMA ServeKeeps ==
    ASSUME Call!CallsAssumption, CallsInv, Call!Serve
    PROVE  CallsInv'
<1>1. /\ request # Call!None /\ answer = Call!None /\ Call!Routing(request)
      /\ caller' = caller /\ server' = server /\ setups' = setups /\ call' = call
      /\ request' = request /\ result' = result
  BY DEF Call!Serve
<1>2. /\ call # Call!None /\ call \in Calls /\ Written(request, call) /\ SetUp /\ got = Call!None
      /\ result # Call!None => Cancelled
      /\ result = Call!None => ~call.fails
      /\ Call!ResultForReason
  BY <1>1 DEF CallsInv
<1> DEFINE line == Call!ParseRequestLine(request.path)
           readers == Call!Matching(request.method, TRUE, line.path)
           regular == Call!Matching(request.method, FALSE, line.path)
           expects == request.method \in Call!WithContent \cup {"DELETE"}
           read == IF expects THEN Call!ReadContent(request) ELSE Call!Read(TRUE, 0, <<>>, <<>>)
           isFile == Call!ListOf(request.method) = "Get" /\ Call!FileOf(line.path) # Call!None
           form == IF Call!Header(request.headers, "Content-Type") = "form" THEN Call!ParseQueryText(read.text)
                   ELSE <<>>
<1>3. request.method = call.method
  BY <1>2 DEF Written
<1>4. Reading(read, call)
  <2>1. CASE expects
    BY <1>2, <1>3, <2>1, ReadGives
  <2>2. CASE ~expects
    <3>1. read = Call!Read(TRUE, 0, <<>>, <<>>)
      BY <2>2
    <3>2. read.ok = TRUE /\ read.text = <<>>
      BY <3>1 DEF Call!Read
    <3>3. call.form = "none" /\ ~call.fails
      BY <1>2, <1>3, <2>2, CallIs DEF Call!WithContent
    <3>4. Call!Text(call) = <<>>
      BY <1>2, <3>3, CallIs, NoPieces DEF Call!Text
    <3> HIDE DEF read
    <3> QED BY <3>2, <3>3, <3>4 DEF Reading, Delivered
  <2> QED BY <2>1, <2>2
<1>5. IF Call!ListOf(request.method) = "Get" /\ Call!FileOf(line.path) # Call!None
      THEN /\ got' = Call!FileOf(line.path)
           /\ \E kind \in Call!FileKind : answer' = Call!Encoded(request, kind, Call!Answered)
      ELSE IF readers # {} /\ expects
      THEN IF read.ok THEN Call!Runs(Call!Min(readers), request, line, read, <<>>)
           ELSE /\ answer' = Call!Refuses(read.status)
                /\ got' = Handed(Call!Min(readers), line.path, line.params, read, request)
      ELSE IF ~read.ok THEN answer' = Call!Refuses(read.status) /\ UNCHANGED got
      ELSE IF regular # {} THEN Call!Runs(Call!Min(regular), request, line, read, form)
      ELSE answer' = Call!Refuses(404) /\ UNCHANGED got
  BY <1>1 DEF Call!Routing, Handed
<1> HIDE DEF line, read, form, expects
<1>6. ASSUME NEW i, NEW q, Call!Runs(i, request, line, read, q)
      PROVE  /\ got' = Handed(i, line.path, line.params \o q, read, request)
             /\ Ended(got', answer', call)
  <2>1. /\ got' = Handed(i, line.path, line.params \o q, read, request)
        /\ answer' = LET kind == server.handlers[i].answer
                     IN  Call!Encoded(request, kind, IF kind = "nothing" THEN <<>> ELSE Call!Answered)
    BY <1>6 DEF Call!Runs, Handed
  <2>2. got' # Call!None /\ "dir" \notin DOMAIN got' /\ got'.handler = i
    BY <2>1, HandedIs
  <2> QED BY <2>1, <2>2 DEF Ended
<1>7. Ended(got', answer', call) /\ Call!HandlerIsFor'
  <2>1. CASE isFile
    <3>1. got' = Call!FileOf(line.path) /\ \E kind : answer' = Call!Encoded(request, kind, Call!Answered)
      BY <1>5, <2>1
    <3>2. "dir" \in DOMAIN got' /\ "handler" \notin DOMAIN got' /\ got' # Call!None
      BY <2>1, <3>1, FileIs
    <3> QED BY <3>1, <3>2 DEF Ended, Call!HandlerIsFor
  <2>2. CASE ~isFile /\ readers # {} /\ expects
    <3>1. PICK q : got' = Handed(Call!Min(readers), line.path, q, read, request)
      BY <1>5, <1>6, <2>2
    <3>2. Call!HandlerIsFor'
      BY <1>1, <1>2, <1>3, <1>4, <2>2, <3>1, HandlerGives
    <3>3. Ended(got', answer', call)
      BY <1>4, <1>5, <1>6, <2>2 DEF Ended
    <3> QED BY <3>2, <3>3
  <2>3. CASE /\ ~isFile /\ ~(readers # {} /\ expects)
             /\ ~read.ok
    <3>1. got' = Call!None /\ answer' = Call!Refuses(read.status)
      BY <1>2, <1>5, <2>3
    <3> QED BY <1>4, <2>3, <3>1 DEF Ended, Call!HandlerIsFor
  <2>4. CASE /\ ~isFile /\ ~(readers # {} /\ expects)
             /\ read.ok /\ regular # {}
    <3>1. Call!Runs(Call!Min(regular), request, line, read, form)
      BY <1>5, <2>4
    <3>2. got' = Handed(Call!Min(regular), line.path, line.params \o form, read, request)
      BY <1>6, <3>1
    <3>3. Call!HandlerIsFor'
      BY <1>1, <1>2, <1>3, <1>4, <2>4, <3>2, HandlerGives
    <3> QED BY <1>6, <3>1, <3>3
  <2>5. CASE /\ ~isFile /\ ~(readers # {} /\ expects)
             /\ read.ok /\ regular = {}
    <3>1. got' = Call!None /\ answer' = Call!Refuses(404)
      BY <1>2, <1>5, <2>5
    <3> QED BY <3>1 DEF Ended, Call!HandlerIsFor
  <2> QED BY <2>1, <2>2, <2>3, <2>4, <2>5
<1>8. answer' # Call!None /\ AnswerIs(answer, got, call)'
  <2>1. answer' # Call!None /\ AnswerIs(answer', got', call')
    BY <1>1, <1>2, <1>7, EndedGives
  <2> QED BY <1>1, <2>1, AnswerStays
<1>9. SetUp'
  BY <1>1, <1>2 DEF SetUp
<1>10. Written(request, call)'
  BY <1>1, <1>2, WrittenStays
<1>11. Call!ResultForReason'
  <2>1. result' # Call!None => Cancelled /\ ((result.error = "Canceled") <=> call.fails)
    BY <1>1, <1>2 DEF Call!ResultForReason
  <2> QED BY <1>1, <2>1 DEF Call!ResultForReason, Cancelled
<1> QED BY <1>1, <1>2, <1>7, <1>8, <1>9, <1>10, <1>11 DEF CallsInv

LEMMA HandlerStays ==
    ASSUME Call!HandlerIsFor, UNCHANGED <<caller, server, call, got>>
    PROVE  Call!HandlerIsFor'
<1>1. Call!Retyped' <=> Call!Retyped
  BY DEF Call!Retyped, Call!HasHeader
<1> QED BY <1>1 DEF Call!HandlerIsFor

LEMMA ReceiveKeeps ==
    ASSUME Call!CallsAssumption, CallsInv, Call!Receive
    PROVE  CallsInv'
<1>1. /\ answer # Call!None /\ result = Call!None
      /\ caller' = caller /\ server' = server /\ call' = call /\ request' = request /\ got' = got
      /\ answer' = answer
  BY DEF Call!Receive
<1>2. /\ call # Call!None /\ call \in Calls /\ SetUp /\ AnswerIs(answer, got, call) /\ ~call.fails
      /\ request # Call!None => Written(request, call)
      /\ Call!HandlerIsFor
  BY <1>1 DEF CallsInv
<1>3. /\ caller.zlib \in BOOLEAN /\ server.zlib \in BOOLEAN /\ caller.decompress \in BOOLEAN
      /\ answer.gzip \in BOOLEAN
  BY <1>2 DEF SetUp, AnswerIs
<1>4. /\ result' # Call!None /\ result'.error # "Canceled"
      /\ result'.error = "Read" => ~caller.zlib /\ server.zlib
      /\ result'.status \in {0, answer.status}
      /\ result'.raw => ~caller.decompress
      /\ result'.status # 0 /\ call.method # "HEAD" => result'.text = answer.text
  <2>1. CASE call.method = "HEAD"
    <3>1. result' = Call!Result("Success", answer.status, <<>>, FALSE)
      BY <2>1 DEF Call!Receive
    <3> QED BY <2>1, <3>1 DEF Call!Result, Call!None
  <2>2. CASE call.method # "HEAD" /\ answer.gzip /\ caller.decompress /\ caller.zlib
    <3>1. result' = Call!Result("Success", answer.status, answer.text, FALSE)
      BY <2>2 DEF Call!Receive
    <3> QED BY <2>2, <3>1 DEF Call!Result, Call!None
  <2>3. CASE call.method # "HEAD" /\ answer.gzip /\ caller.decompress /\ ~caller.zlib
    <3>1. result' = Call!Result("Read", 0, <<>>, FALSE)
      BY <2>3 DEF Call!Receive
    <3>2. server.zlib
      BY <1>2, <2>3 DEF AnswerIs
    <3> QED BY <2>3, <3>1, <3>2 DEF Call!Result, Call!None
  <2>4. CASE call.method # "HEAD" /\ ~(answer.gzip /\ caller.decompress)
    <3>1. result' = Call!Result("Success", answer.status, answer.text, answer.gzip)
      BY <2>4 DEF Call!Receive
    <3> QED BY <2>4, <3>1 DEF Call!Result, Call!None
  <2> QED BY <2>1, <2>2, <2>3, <2>4
<1>5. Call!ResultForReason'
  <2>1. (result'.error = "Canceled") <=> call'.fails
    BY <1>1, <1>2, <1>4
  <2>2. result'.error = "Read" => ~caller'.zlib /\ server'.zlib
    BY <1>1, <1>4
  <2>3. result'.status = 415 => Call!Compresses' /\ ~server'.zlib
    BY <1>1, <1>2, <1>4 DEF AnswerIs, Call!Compresses
  <2>4. result'.status = 404 => got' = Call!None
    BY <1>1, <1>2, <1>4 DEF AnswerIs
  <2>5. result'.status = 400 =>
            IF call'.form = "items" THEN call'.items = <<>> ELSE call'.type = "multipart"
    BY <1>1, <1>2, <1>4 DEF AnswerIs, Lacking
  <2>6. result'.status = 200 => got' # Call!None
    BY <1>1, <1>2, <1>4 DEF AnswerIs
  <2>7. result'.raw => ~caller'.decompress
    BY <1>1, <1>4
  <2>8. result'.status = 200 /\ call'.method # "HEAD" =>
            result'.text = IF "dir" \in DOMAIN got' \/ server'.handlers[got'.handler].answer # "nothing"
                           THEN Call!Answered ELSE <<>>
    BY <1>1, <1>2, <1>4 DEF AnswerIs
  <2> QED BY <2>1, <2>2, <2>3, <2>4, <2>5, <2>6, <2>7, <2>8 DEF Call!ResultForReason
<1>6. SetUp' /\ (request' # Call!None => Written(request, call)')
  BY <1>1, <1>2, WrittenStays DEF SetUp
<1>7. AnswerIs(answer, got, call)' /\ Call!HandlerIsFor'
  <2>1. AnswerIs(answer, got, call)'
    BY <1>1, <1>2, AnswerStays
  <2> QED BY <1>1, <1>2, <2>1, HandlerStays
<1> QED BY <1>1, <1>2, <1>4, <1>5, <1>6, <1>7 DEF CallsInv

LEMMA StutterCalls == ASSUME CallsInv, UNCHANGED Call!vars PROVE CallsInv'
<1>1. /\ caller' = caller /\ server' = server /\ call' = call /\ request' = request /\ got' = got
      /\ answer' = answer /\ result' = result
  BY DEF Call!vars
<1>2. SetUp' /\ (request # Call!None => Written(request, call)')
  BY <1>1, WrittenStays DEF CallsInv, SetUp
<1>3. answer # Call!None => AnswerIs(answer, got, call)'
  BY <1>1, AnswerStays DEF CallsInv
<1>4. Call!HandlerIsFor'
  BY <1>1, HandlerStays DEF CallsInv
<1>5. Call!ResultForReason'
  BY <1>1 DEF CallsInv, Call!ResultForReason, Call!Compresses
<1> QED BY <1>1, <1>2, <1>3, <1>4, <1>5 DEF CallsInv, Cancelled

\* Whatever the program has set up, a call reaches the first handler that is for it, with
\* its content whole and the client's credentials, and it fails only for a reason
\* (Client::Post and the others, Server::routing).
THEOREM CallsAreAnswered ==
    Call!CallsAssumption => (Call!Spec => [](Call!HandlerIsFor /\ Call!ResultForReason))
<1> SUFFICES ASSUME Call!CallsAssumption
             PROVE  Call!Spec => [](Call!HandlerIsFor /\ Call!ResultForReason)
  OBVIOUS
<1>1. Call!Init => CallsInv
  BY InitCalls
<1>2. CallsInv /\ [Call!Next]_(Call!vars) => CallsInv'
  BY SetupKeeps, SendKeeps, ServeKeeps, ReceiveKeeps, StutterCalls DEF Call!Next
<1>3. CallsInv => Call!HandlerIsFor /\ Call!ResultForReason
  BY DEF CallsInv
<1> QED BY <1>1, <1>2, <1>3, PTL DEF Call!Spec
=============================================================================
