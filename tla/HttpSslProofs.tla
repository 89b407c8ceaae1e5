--------------------------- MODULE HttpSslProofs ---------------------------
(***************************************************************************)
(* What holds of the connection of HttpSsl, for any number of              *)
(* authorizations, calls and stops, with its proofs.                       *)
(***************************************************************************)
EXTENDS HttpSsl, TLAPS

Frame == [at : Stages, ret : BOOLEAN, auth : 0 .. Authorizations, redirects : 0 .. Redirects]

Ways == {"kept", "proxy", "plain"}

\* Where the innermost call of send() is.
Here == IF calls = <<>> THEN "idle" ELSE calls[Len(calls)].at

\* The stages of a call that has not been counted yet, and those under socket_mutex_.
Locked == {"connect", "tunnel", "again", "ssl", "stuck"}
Waiting == {"lock"} \cup Locked

\* The calls below the innermost one wait in handle_request().
Below == {"request", "redirecting"}
Chain == \A i \in 1 .. Len(calls) - 1 : calls[i].at \in Below

\* What the stage of the innermost call says of the connection.
Staged ==
    /\ mutex = "held" <=> Here \in Locked
    /\ flight = Len(calls) - (IF Here \in Waiting THEN 1 ELSE 0)
    /\ Here = "connect" => sock = "none"
    /\ Here \in Locked => ssl = "none"
    /\ Here = "request" /\ failed = {} => ssl # "none"
    /\ Here # "idle" => ended = "none"
    /\ Here \in {"tunnel", "again"} => config.proxied
    /\ Here = "redirect" => config.follow
    /\ sock # "none" /\ ssl = "none" => denied = TRUE \/ Here \in {"tunnel", "again", "ssl", "stuck"}

Verifying ==
    /\ config.verify /\ ssl = "unverified" => changed
    /\ AnswersVerified

SslInv == TypeOK /\ Chain /\ Staged /\ SslFreed /\ Verifying /\ ErrorNamed

LEMMA InitSsl == SslAssumption /\ Init => SslInv
<1> SUFFICES ASSUME SslAssumption, Init PROVE SslInv
  OBVIOUS
<1>1. calls = <<>> /\ Here = "idle" /\ calls \in Seq(Frame)
  BY DEF Init, Here, Frame
<1>2. TypeOK
  <2>1. flight \in Nat /\ objects \in Nat /\ sends \in 0 .. MaxSends /\ stops \in 0 .. MaxStops
    BY DEF Init, SslAssumption
  <2>2. /\ {unmade, changed, denied} \subseteq BOOLEAN /\ unverified \subseteq Ways
        /\ shut \in BOOLEAN /\ flag \in BOOLEAN
    BY DEF Init
  <2> QED BY <1>1, <2>1, <2>2 DEF Init, TypeOK, Errors, Frame, Ways
<1>3. Chain /\ Staged /\ SslFreed /\ Verifying /\ ErrorNamed
  BY <1>1 DEF Init, Chain, Staged, SslFreed, Verifying, AnswersVerified, ErrorNamed, Locked, Waiting
<1> QED BY <1>2, <1>3 DEF SslInv

-----------------------------------------------------------------------------
(* The stack of calls. *)

LEMMA TopIsHere ==
  ASSUME calls \in Seq(Frame), NEW stage \in Stages, At(stage)
  PROVE  failed = {} /\ calls # <<>> /\ Len(calls) \in Nat \ {0} /\ Here = stage
         /\ Top = calls[Len(calls)] /\ Top \in Frame
<1>1. failed = {} /\ calls # <<>> /\ Last(calls).at = stage
  BY DEF At, Top
<1>2. Len(calls) \in Nat \ {0}
  BY <1>1
<1>3. Last(calls) = calls[Len(calls)] /\ calls[Len(calls)] \in Frame
  BY <1>2 DEF Last
<1> QED BY <1>1, <1>2, <1>3 DEF Here, Top

LEMMA GoesOn ==
  ASSUME calls \in Seq(Frame), calls # <<>>, Chain, NEW stage \in Stages, Goes(stage)
  PROVE  calls' \in Seq(Frame) /\ calls' # <<>> /\ Len(calls') = Len(calls) /\ Chain' /\ Here' = stage
<1>1. Len(calls) \in Nat \ {0} /\ calls[Len(calls)] \in Frame
  OBVIOUS
<1>2. [calls[Len(calls)] EXCEPT !.at = stage] \in Frame
  BY <1>1 DEF Frame
<1>3. calls' = [calls EXCEPT ![Len(calls)] = [calls[Len(calls)] EXCEPT !.at = stage]]
  BY DEF Goes
<1>4. calls' \in Seq(Frame) /\ Len(calls') = Len(calls) /\ calls' # <<>>
  BY <1>1, <1>2, <1>3
<1>5. calls'[Len(calls)].at = stage
  BY <1>1, <1>2, <1>3 DEF Frame
<1>6. \A i \in 1 .. Len(calls) - 1 : calls'[i] = calls[i]
  BY <1>1, <1>3
<1> QED BY <1>1, <1>4, <1>5, <1>6 DEF Here, Chain

LEMMA Finishes ==
  ASSUME calls \in Seq(Frame), calls # <<>>, Chain, NEW stage \in Stages, NEW ret \in BOOLEAN,
         calls' = [calls EXCEPT ![Len(calls)].at = stage, ![Len(calls)].ret = ret]
  PROVE  calls' \in Seq(Frame) /\ calls' # <<>> /\ Len(calls') = Len(calls) /\ Chain' /\ Here' = stage
<1> DEFINE g == [[calls[Len(calls)] EXCEPT !.at = stage] EXCEPT !.ret = ret]
<1>1. Len(calls) \in Nat \ {0} /\ calls[Len(calls)] \in Frame
  OBVIOUS
<1>2. g \in Frame /\ g.at = stage
  BY <1>1 DEF Frame
<1>3. calls' = [calls EXCEPT ![Len(calls)] = g]
  BY <1>1
<1> HIDE DEF g
<1>4. calls' \in Seq(Frame) /\ Len(calls') = Len(calls) /\ calls' # <<>>
  BY <1>1, <1>2, <1>3
<1>5. calls'[Len(calls)].at = stage
  BY <1>1, <1>2, <1>3
<1>6. \A i \in 1 .. Len(calls) - 1 : calls'[i] = calls[i]
  BY <1>1, <1>3
<1> QED BY <1>1, <1>4, <1>5, <1>6 DEF Here, Chain

\* send() returns to the program or to the call below.
LEMMA GoesBack ==
  ASSUME calls \in Seq(Frame), calls # <<>>, Chain, NEW ret \in BOOLEAN, NEW e, Returns(ret, e)
  PROVE  /\ calls' \in Seq(Frame) /\ Len(calls') = Len(calls) - 1 /\ Chain'
         /\ error' = e /\ Len(calls) \in Nat \ {0}
         /\ \/ /\ Here' = "idle" /\ Len(calls) = 1
               /\ (ret = TRUE /\ ended' = "answered") \/ (ret = FALSE /\ ended' = e)
            \/ Here' \in {"done", "redirected"} /\ Len(calls) > 1 /\ ended' = ended
<1>1. Len(calls) \in Nat \ {0}
  OBVIOUS
<1>2. error' = e
  BY DEF Returns
<1>3. CASE Len(calls) = 1
  <2>1. calls' = <<>>
    BY <1>3 DEF Returns
  <2>2. calls' \in Seq(Frame) /\ Len(calls') = 0
    BY <2>1
  <2>3. Chain' /\ Here' = "idle"
    BY <2>1, <2>2 DEF Chain, Here
  <2>4. (ret = TRUE /\ ended' = "answered") \/ (ret = FALSE /\ ended' = e)
    <3>1. ~(Len(calls) > 1)
      BY <1>3
    <3>2. ended' = IF ret THEN "answered" ELSE e
      BY <3>1, Zenon DEF Returns
    <3> QED BY <3>2
  <2> QED BY <1>1, <1>2, <1>3, <2>2, <2>3, <2>4
<1>4. CASE Len(calls) > 1
  <2>1. calls' = [Front(calls) EXCEPT ![Len(calls) - 1].at = Behind(@), ![Len(calls) - 1].ret = ret]
    <3> DEFINE x == [Front(calls) EXCEPT ![Len(calls) - 1].at = Behind(@), ![Len(calls) - 1].ret = ret]
    <3>1. calls' = IF Len(calls) = 1 THEN <<>> ELSE x
      BY DEF Returns
    <3>2. ~(Len(calls) = 1)
      <4> DEFINE m == Len(calls)
      <4>1. m \in Nat /\ m > 1
        BY <1>1, <1>4
      <4> HIDE DEF m
      <4>2. ~(m = 1)
        BY ONLY <4>1
      <4> QED BY <4>2 DEF m
    <3> HIDE DEF x
    <3>3. calls' = x
      BY <3>1, <3>2, Zenon
    <3> QED BY <3>3 DEF x
  <2> DEFINE n == Len(calls) - 1
             r == Front(calls)
             q == r[n]
             stage == Behind(q.at)
             g == [[q EXCEPT !.at = stage] EXCEPT !.ret = ret]
  <2>2. r \in Seq(Frame) /\ Len(r) = n /\ \A i \in 1 .. n : r[i] = calls[i]
    BY <1>4 DEF Front
  <2>3. n \in Nat \ {0} /\ n \in 1 .. n
    <3> DEFINE m == Len(calls)
    <3>1. m \in Nat \ {0} /\ m > 1
      BY <1>1, <1>4
    <3> HIDE DEF m
    <3>2. m - 1 \in Nat \ {0} /\ m - 1 \in 1 .. m - 1
      BY ONLY <3>1
    <3> QED BY <3>2 DEF m
  <2>4. q \in Frame
    BY <2>2, <2>3
  <2>5. calls' = [r EXCEPT ![n].at = Behind(@), ![n].ret = ret]
    BY <2>1
  <2> HIDE DEF r, n
  <2>6. calls' = [r EXCEPT ![n] = g]
    BY <2>2, <2>3, <2>5
  <2> HIDE DEF q
  <2>14. stage \in {"done", "redirected"}
    BY DEF Behind
  <2> HIDE DEF stage
  <2>7. g \in Frame /\ g.at = stage
    BY <2>4, <2>14 DEF Frame, Stages
  <2> HIDE DEF g
  <2>8. calls' \in Seq(Frame) /\ Len(calls') = n
    BY <2>2, <2>3, <2>6, <2>7
  <2>9. calls'[n] = g /\ \A i \in 1 .. n - 1 : calls'[i] = calls[i]
    BY <2>2, <2>3, <2>6
  <2>10. Here' \in {"done", "redirected"}
    BY <2>3, <2>7, <2>8, <2>9, <2>14 DEF Here
  <2>11. Len(calls) = n + 1
    BY <1>1 DEF n
  <2>12. Chain'
    BY <2>3, <2>8, <2>9, <2>11 DEF Chain
  <2>13. ended' = ended
    BY <1>4 DEF Returns
  <2> QED BY <1>1, <1>2, <1>4, <2>8, <2>10, <2>11, <2>12, <2>13
<1>5. Len(calls) = 1 \/ Len(calls) > 1
  <2> DEFINE n == Len(calls)
  <2>1. n \in Nat \ {0}
    BY <1>1
  <2> HIDE DEF n
  <2>2. n = 1 \/ n > 1
    BY ONLY <2>1
  <2> QED BY <2>2 DEF n
<1> QED BY <1>3, <1>4, <1>5

LEMMA CallsAgain ==
  ASSUME calls \in Seq(Frame), calls # <<>>, Chain, NEW below \in Below,
         NEW auth \in 0 .. Authorizations, NEW redirects \in 0 .. Redirects,
         calls' = Append([calls EXCEPT ![Len(calls)].at = below], NewCall(auth, redirects))
  PROVE  calls' \in Seq(Frame) /\ Len(calls') = Len(calls) + 1 /\ Chain' /\ Here' = "lock"
<1> DEFINE f == NewCall(auth, redirects)
           n == Len(calls)
           g == [calls[n] EXCEPT !.at = below]
           r == [calls EXCEPT ![n] = g]
<1>1. f \in Frame /\ f.at = "lock"
  BY DEF NewCall, Frame, Stages
<1>2. n \in Nat \ {0} /\ calls[n] \in Frame
  OBVIOUS
<1>3. g \in Frame /\ g.at = below
  <2>1. below \in Stages
    BY DEF Below, Stages
  <2> QED BY <1>2, <2>1 DEF Frame
<1>4. calls' = Append(r, f)
  OBVIOUS
<1> HIDE DEF g, f
<1>5. r \in Seq(Frame) /\ Len(r) = n /\ r[n] = g /\ \A i \in 1 .. n - 1 : r[i] = calls[i]
  BY <1>2, <1>3
<1> HIDE DEF r
<1>6. calls' \in Seq(Frame) /\ Len(calls') = n + 1
  BY <1>1, <1>4, <1>5
<1>7. calls'[n + 1] = f /\ \A i \in 1 .. n : calls'[i] = r[i]
  <2> DEFINE m == n
  <2>1. r \in Seq(Frame) /\ Len(r) = m /\ m \in Nat /\ f \in Frame
    BY <1>1, <1>2, <1>5
  <2> HIDE DEF m
  <2>2. Append(r, f)[m + 1] = f /\ \A i \in 1 .. m : Append(r, f)[i] = r[i]
    BY ONLY <2>1
  <2> QED BY <1>4, <2>2 DEF m
<1>8. Here' = "lock"
  BY <1>1, <1>2, <1>6, <1>7 DEF Here
<1>9. \A i \in 1 .. n : calls'[i].at \in Below
  <2> SUFFICES ASSUME NEW i \in 1 .. n PROVE calls'[i].at \in Below
    OBVIOUS
  <2>1. CASE i = n
    BY <1>3, <1>5, <1>7, <2>1
  <2>2. CASE i \in 1 .. n - 1
    BY <1>5, <1>7, <2>2 DEF Chain
  <2> QED BY <1>2, <2>1, <2>2
<1>10. Chain'
  BY <1>2, <1>6, <1>9 DEF Chain
<1> QED BY <1>6, <1>8, <1>10

\* An end of the connection frees the SSL object before the socket is closed.
LEMMA ClosesSafely ==
  ASSUME TypeOK, SslFreed, Closes
  PROVE  sock' = "none" /\ ssl' = "none" /\ objects' = 0 /\ shut' = FALSE /\ failed' = failed
  BY DEF TypeOK, SslFreed, Closes, DeleteSsl


-----------------------------------------------------------------------------
(* The steps of a call. *)

\* TypeOK in parts: what most steps leave alone, and the connection.
Kept ==
    /\ config \in Settings
    /\ certs \in {"no", "loaded", "missing"}
    /\ error \in Errors /\ sends \in 0 .. MaxSends /\ stops \in 0 .. MaxStops
    /\ ended \in {"none", "answered"} \cup Errors \cup {"destroyed"}
    /\ {unmade, changed, denied} \subseteq BOOLEAN /\ unverified \subseteq Ways

Connected ==
    /\ mutex \in {"free", "held"} /\ sock \in {"none", "proxy", "host"} /\ shut \in BOOLEAN
    /\ ssl \in {"none", "unverified", "verified"} /\ flight \in Nat /\ flag \in BOOLEAN
    /\ objects \in Nat /\ failed \subseteq {"process_socket", "close_socket", "shutdown_ssl"}

LEMMA Typed ==
    /\ TypeOK <=> Kept /\ Connected /\ calls \in Seq(Frame)
    /\ TypeOK' <=> Kept' /\ Connected' /\ calls' \in Seq(Frame)
  BY DEF TypeOK, Frame, Kept, Connected, Ways

LEMMA LockSsl == ASSUME SslAssumption, SslInv, Lock PROVE SslInv'
<1> USE DEF SslInv
<1>1. calls \in Seq(Frame) /\ "lock" \in Stages /\ "process" \in Stages /\ "connect" \in Stages
  BY Typed DEF Stages
<1>2. failed = {} /\ calls # <<>> /\ Len(calls) \in Nat \ {0} /\ Here = "lock" /\ mutex = "free"
  BY <1>1, TopIsHere DEF Lock
<1>3. flight = Len(calls) - 1
  BY <1>2 DEF Staged, Waiting
<1>4. UNCHANGED <<config, certs, error, sends, stops, ended, unmade, unverified, changed, denied>> /\ flag' = FALSE
  BY DEF Lock
<1>5. ErrorNamed'
  BY <1>4 DEF ErrorNamed
<1>6. CASE sock # "none" /\ Goes("process") /\ flight' = flight + 1 /\ KeepsConnection /\ mutex' = mutex
  <2>1. calls' \in Seq(Frame) /\ Len(calls') = Len(calls) /\ Chain' /\ Here' = "process"
    BY <1>1, <1>2, <1>6, GoesOn
  <2>2. UNCHANGED <<mutex, sock, shut, ssl, objects, failed>>
    BY <1>6 DEF KeepsConnection
  <2>3. flight' = Len(calls') /\ flight' \in Nat
    BY <1>2, <1>3, <1>6, <2>1
  <2>4. Staged'
    BY <1>2, <1>4, <2>1, <2>2, <2>3 DEF Staged, Locked, Waiting
  <2>5. TypeOK'
    <3>1. Kept'
      BY <1>4, Typed DEF Kept
    <3>2. Connected'
      BY <1>4, <2>2, <2>3, Typed DEF Connected
    <3> QED BY <2>1, <3>1, <3>2, Typed
  <2>6. SslFreed' /\ Verifying'
    BY <1>4, <2>2 DEF SslFreed, Verifying, AnswersVerified
  <2> QED BY <1>5, <2>1, <2>4, <2>5, <2>6
<1>7. CASE Closes /\ mutex' = "held" /\ Goes("connect") /\ flight' = flight
  <2>1. calls' \in Seq(Frame) /\ Len(calls') = Len(calls) /\ Chain' /\ Here' = "connect"
    BY <1>1, <1>2, <1>7, GoesOn
  <2>2. sock' = "none" /\ ssl' = "none" /\ objects' = 0 /\ shut' = FALSE /\ failed' = failed
    BY <1>7, ClosesSafely
  <2>3. Staged'
    BY <1>2, <1>3, <1>4, <1>7, <2>1, <2>2 DEF Staged, Locked, Waiting
  <2>4. TypeOK'
    BY <1>4, <1>7, <2>1, <2>2, Typed DEF Kept, Connected
  <2>5. SslFreed' /\ Verifying'
    BY <1>2, <1>4, <2>2 DEF SslFreed, Verifying, AnswersVerified
  <2> QED BY <1>5, <2>1, <2>3, <2>4, <2>5
<1> QED BY <1>6, <1>7 DEF Lock


\* send() goes back from under socket_mutex_: without a connection, or with the socket of
\* a proxy that has denied it.
LEMMA LeavesSsl ==
  ASSUME SslInv, calls # <<>>, Here \in Locked, failed = {},
         NEW ret \in BOOLEAN, NEW e \in Errors, Leaves(ret, e),
         UNCHANGED <<config, flight, flag, sends, stops, changed>>, shut' \in {shut, FALSE},
         unverified' \subseteq Ways, AnswersVerified',
         certs' \in {"no", "loaded", "missing"}, {unmade', denied'} \subseteq BOOLEAN,
         sock' \in {"none", "proxy", "host"}, ssl' = "none", objects' = 0, failed' = {},
         sock' # "none" => denied' = TRUE,
         ret = FALSE /\ e = "Success" => ~config.valid \/ unmade'
  PROVE  SslInv'
<1> USE DEF SslInv
<1>1. /\ calls' \in Seq(Frame) /\ Len(calls') = Len(calls) - 1 /\ Chain'
      /\ error' = e /\ Len(calls) \in Nat \ {0}
      /\ \/ /\ Here' = "idle" /\ Len(calls) = 1
            /\ (ret = TRUE /\ ended' = "answered") \/ (ret = FALSE /\ ended' = e)
         \/ Here' \in {"done", "redirected"} /\ Len(calls) > 1 /\ ended' = ended
  BY Typed, GoesBack DEF Leaves
<1>2. mutex' = "free" /\ mutex = "held" /\ ended = "none" /\ flight = Len(calls) - 1
  BY DEF Leaves, Staged, Locked, Waiting
<1>3. UNCHANGED <<config, flight, flag, sends, stops, changed>> /\ shut' \in BOOLEAN
  BY Typed DEF Connected
<1>4. ended' \in {"none", "answered"} \cup Errors
  BY <1>1, <1>2
<1>5. TypeOK'
  <2>1. Kept'
    BY <1>1, <1>3, <1>4, Typed DEF Kept
  <2>2. Connected'
    BY <1>2, <1>3, Typed DEF Connected
  <2> QED BY <1>1, <2>1, <2>2, Typed
<1>6. Staged'
  <2>1. Here' \in {"idle", "done", "redirected"} /\ (Here' # "idle" => ended' = "none")
    BY <1>1, <1>2
  <2>2. flight' = Len(calls')
    BY <1>1, <1>2, <1>3
  <2> QED BY <1>2, <2>1, <2>2 DEF Staged, Locked, Waiting
<1>7. SslFreed' /\ Verifying'
  BY <1>3 DEF SslFreed, Verifying, AnswersVerified
<1>8. ErrorNamed'
  <2>1. CASE ended' = "Success"
    BY <1>1, <1>2, <1>3, <2>1 DEF ErrorNamed
  <2>2. CASE ended' # "Success"
    BY <2>2 DEF ErrorNamed
  <2> QED BY <2>1, <2>2
<1> QED BY <1>1, <1>5, <1>6, <1>7, <1>8

\* The connection is made a step further, without an SSL object.
LEMMA MakesOn ==
  ASSUME SslInv, calls # <<>>, Here \in Locked, NEW stage \in {"tunnel", "again", "ssl", "stuck"},
         Goes(stage), sock' \in {"none", "proxy", "host"},
         stage \in {"tunnel", "again"} => config.proxied,
         UNCHANGED <<config, certs, mutex, shut, ssl, objects, flight, flag, error, sends, stops,
                     ended, unmade, unverified, changed, denied, failed>>
  PROVE  SslInv'
<1> USE DEF SslInv
<1>1. stage \in Stages /\ calls \in Seq(Frame)
  BY Typed DEF Stages
<1>2. calls' \in Seq(Frame) /\ Len(calls') = Len(calls) /\ Chain' /\ Here' = stage
  BY <1>1, GoesOn
<1>3. ssl = "none" /\ mutex = "held" /\ ended = "none" /\ flight = Len(calls) - 1
  BY DEF Staged, Locked, Waiting
<1>4. TypeOK'
  <2>1. Kept'
    BY Typed DEF Kept
  <2>2. Connected'
    BY Typed DEF Connected
  <2> QED BY <1>2, <2>1, <2>2, Typed
<1>5. Staged'
  BY <1>2, <1>3 DEF Staged, Locked, Waiting
<1>6. SslFreed' /\ Verifying' /\ ErrorNamed'
  BY <1>3 DEF SslFreed, Verifying, AnswersVerified, ErrorNamed
<1> QED BY <1>2, <1>4, <1>5, <1>6

\* What a stage under the mutex says.
LEMMA UnderMutex ==
  ASSUME SslInv, NEW stage \in {"connect", "tunnel", "again", "ssl"}, At(stage)
  PROVE  /\ failed = {} /\ calls # <<>> /\ Here = stage /\ Here \in Locked /\ ssl = "none"
         /\ objects = 0 /\ (stage = "connect" => sock = "none") /\ Len(calls) \in Nat \ {0}
         /\ mutex = "held" /\ ended = "none" /\ flight = Len(calls) - 1
         /\ stage \in {"tunnel", "again"} => config.proxied
<1>1. stage \in Stages /\ calls \in Seq(Frame)
  BY Typed DEF SslInv, Stages
<1>2. failed = {} /\ calls # <<>> /\ Here = stage /\ Len(calls) \in Nat \ {0}
  BY <1>1, TopIsHere
<1>3. Here \in Locked /\ Here \in Waiting /\ Here # "idle"
  BY <1>2 DEF Locked, Waiting
<1>4. ssl = "none" /\ mutex = "held" /\ ended = "none" /\ flight = Len(calls) - 1
  BY <1>3 DEF SslInv, Staged
<1>5. stage = "connect" => sock = "none"
  BY <1>2 DEF SslInv, Staged
<1>6. objects = 0
  BY <1>4 DEF SslInv, SslFreed
<1>7. stage \in {"tunnel", "again"} => config.proxied
  BY <1>2 DEF SslInv, Staged
<1> QED BY <1>2, <1>3, <1>4, <1>5, <1>6, <1>7

\* An answer is taken that nobody has verified.
LEMMA TakesWay ==
  ASSUME SslInv, NEW way \in Ways, Takes(way), UNCHANGED <<config, changed>>,
         config.verify /\ way = "kept" => changed,
         way = "proxy" => config.proxied /\ ~config.digest,
         way = "plain" => config.follow
  PROVE  unverified' \subseteq Ways /\ AnswersVerified'
<1>1. unverified \subseteq Ways /\ AnswersVerified
  BY Typed DEF SslInv, Kept, Verifying
<1>2. CASE config.verify
  <2>1. unverified' = unverified \cup {way}
    BY <1>2 DEF Takes
  <2>2. unverified' \subseteq Ways
    BY <1>1, <2>1
  <2>3. "kept" \in unverified' => changed'
    BY <1>1, <1>2, <2>1 DEF AnswersVerified
  <2>4. "proxy" \in unverified' => config'.proxied /\ ~config'.digest
    BY <1>1, <2>1 DEF AnswersVerified
  <2>5. "plain" \in unverified' => config'.follow
    BY <1>1, <2>1 DEF AnswersVerified
  <2> QED BY <2>2, <2>3, <2>4, <2>5 DEF AnswersVerified
<1>3. CASE ~config.verify
  <2>1. unverified' = unverified
    BY <1>3 DEF Takes
  <2> QED BY <1>1, <2>1 DEF AnswersVerified
<1> QED BY <1>2, <1>3

LEMMA ConnectSsl == ASSUME SslInv, Connect PROVE SslInv'
<1>0. unverified' = unverified /\ unverified' \subseteq Ways /\ AnswersVerified'
  BY Typed DEF Connect, SslInv, Kept, Verifying, AnswersVerified
<1>1. /\ failed = {} /\ calls # <<>> /\ Here \in Locked /\ ssl = "none" /\ objects = 0
      /\ sock = "none"
  BY UnderMutex DEF Connect
<1>2. UNCHANGED <<config, certs, shut, ssl, objects, flight, flag, sends, stops, unmade,
                  unverified, changed, denied, failed>>
  BY DEF Connect, inFlight
<1>3. certs \in {"no", "loaded", "missing"} /\ {unmade, denied} \subseteq BOOLEAN /\ error \in Errors
  BY Typed DEF SslInv, Kept
<1>4. CASE ~config.valid /\ Leaves(FALSE, error) /\ sock' = sock
  BY <1>1, <1>2, <1>3, <1>4, <1>0, LeavesSsl
<1>5. CASE Leaves(FALSE, "Connection") /\ sock' = sock
  <2>1. "Connection" \in Errors
    BY DEF Errors
  <2> QED BY <1>1, <1>2, <1>3, <1>5, <2>1, <1>0, LeavesSsl
<1>6. CASE /\ sock' = IF config.proxied THEN "proxy" ELSE "host"
           /\ Goes(IF config.proxied THEN "tunnel" ELSE "ssl")
           /\ UNCHANGED <<mutex, error, ended>>
  <2>1. CASE config.proxied
    BY <1>1, <1>2, <1>6, <2>1, MakesOn
  <2>2. CASE ~config.proxied
    BY <1>1, <1>2, <1>6, <2>2, MakesOn
  <2> QED BY <2>1, <2>2
<1> QED BY <1>4, <1>5, <1>6 DEF Connect

LEMMA TunnelFailsSsl == ASSUME SslInv, TunnelFails PROVE SslInv'
<1>0. unverified' = unverified /\ unverified' \subseteq Ways /\ AnswersVerified'
  BY Typed DEF TunnelFails, SslInv, Kept, Verifying, AnswersVerified
<1>1. /\ failed = {} /\ calls # <<>> /\ Here \in Locked
  BY UnderMutex DEF TunnelFails
<1>2. sock' = "none" /\ ssl' = "none" /\ objects' = 0 /\ shut' = FALSE /\ failed' = failed
  BY ClosesSafely DEF TunnelFails, SslInv
<1>3. UNCHANGED <<config, certs, flight, flag, sends, stops, unmade, unverified, changed, denied>>
  BY DEF TunnelFails, inFlight
<1>4. certs \in {"no", "loaded", "missing"} /\ {unmade, denied} \subseteq BOOLEAN /\ "Read" \in Errors
  BY Typed DEF SslInv, Kept, Errors
<1>5. Leaves(FALSE, "Read")
  BY DEF TunnelFails
<1> QED BY <1>1, <1>2, <1>3, <1>4, <1>5, <1>0, LeavesSsl

LEMMA TunnelClosesSsl == ASSUME SslInv, TunnelCloses PROVE SslInv'
<1>1. calls # <<>> /\ Here \in Locked
  BY UnderMutex DEF TunnelCloses
<1>2. UNCHANGED <<config, certs, mutex, sock, shut, ssl, objects, flight, flag, error, sends, stops,
                  ended, unmade, unverified, changed, denied, failed>>
  BY DEF TunnelCloses, connection, inFlight, history
<1>3. sock \in {"none", "proxy", "host"}
  BY Typed DEF SslInv, Connected
<1> QED BY <1>1, <1>2, <1>3, MakesOn DEF TunnelCloses

LEMMA TunnelSsl == ASSUME SslInv, Tunnel PROVE SslInv'
<1>1. /\ failed = {} /\ calls # <<>> /\ Here \in Locked /\ ssl = "none" /\ objects = 0
  BY UnderMutex DEF Tunnel
<1>2. UNCHANGED <<config, certs, flight, flag, sends, stops, unmade, changed>>
  BY DEF Tunnel, inFlight
<1>6. config.proxied
  BY UnderMutex DEF Tunnel
<1>3. /\ certs \in {"no", "loaded", "missing"} /\ {unmade, denied} \subseteq BOOLEAN
      /\ error \in Errors /\ sock \in {"none", "proxy", "host"}
  BY Typed DEF SslInv, Kept, Connected
<1>4. CASE Denied
  <2>1. UNCHANGED <<sock, shut, ssl, objects, failed>>
    BY <1>4 DEF Denied, KeepsConnection
  <2>2. CASE (\E to \in {"again", "ssl"} : Goes(to)) /\ UNCHANGED <<mutex, error, ended, unverified, denied>>
    BY <1>1, <1>2, <1>3, <1>6, <2>1, <2>2, MakesOn
  <2>3. CASE ~config.digest /\ Leaves(TRUE, error) /\ Takes("proxy") /\ denied' = TRUE
    <3>1. {unmade', denied'} \subseteq BOOLEAN
      BY <1>2, <1>3, <2>3
    <3>2. unverified' \subseteq Ways /\ AnswersVerified'
      BY <1>2, <1>6, <2>3, TakesWay DEF Ways
    <3> QED BY <1>1, <1>2, <1>3, <2>1, <2>3, <3>1, <3>2, LeavesSsl
  <2> QED BY <1>4, <2>2, <2>3, Zenon DEF Denied
<1>5. CASE /\ \E through \in {"proxy", "host"} : sock' = through
           /\ Goes("ssl")
           /\ UNCHANGED <<mutex, shut, ssl, objects, failed, error, ended, unverified, denied>>
  BY <1>1, <1>2, <1>5, MakesOn
<1> QED BY <1>4, <1>5 DEF Tunnel

LEMMA TunnelAgainSsl == ASSUME SslInv, TunnelAgain PROVE SslInv'
<1>1. calls # <<>> /\ Here \in Locked
  BY UnderMutex DEF TunnelAgain
<1>2. UNCHANGED <<config, certs, mutex, shut, ssl, objects, flight, flag, error, sends, stops,
                  ended, unmade, unverified, changed, denied, failed>>
  BY DEF TunnelAgain, inFlight, history
<1>3. sock' \in {"none", "proxy", "host"}
  BY DEF TunnelAgain
<1> QED BY <1>1, <1>2, <1>3, MakesOn DEF TunnelAgain


LEMMA InitializeSsl == ASSUME SslInv, Initialize PROVE SslInv'
<1>0. unverified' = unverified /\ unverified' \subseteq Ways /\ AnswersVerified'
  BY Typed DEF Initialize, SslInv, Kept, Verifying, AnswersVerified
<1>1. /\ failed = {} /\ calls # <<>> /\ Here = "ssl" /\ Here \in Locked /\ ssl = "none"
      /\ objects = 0 /\ Len(calls) \in Nat \ {0} /\ ended = "none" /\ flight = Len(calls) - 1
  BY UnderMutex DEF Initialize
<1>2. UNCHANGED <<config, flag, sends, stops, unverified, changed, denied>>
  BY DEF Initialize
<1>3. /\ certs \in {"no", "loaded", "missing"} /\ {unmade, denied} \subseteq BOOLEAN
      /\ error \in Errors /\ shut \in BOOLEAN /\ calls \in Seq(Frame)
      /\ config.verify \in BOOLEAN
  BY Typed DEF SslInv, Kept, Connected, Settings
<1>4. CASE /\ sock = "host"
           /\ IF Verifies THEN LoadCerts(TRUE) /\ certs' = "loaded" ELSE UNCHANGED certs
           /\ ssl' = IF Verifies THEN "verified" ELSE "unverified"
           /\ objects' = objects + 1
           /\ mutex' = "free" /\ flight' = flight + 1 /\ Goes("process")
           /\ UNCHANGED <<sock, shut, error, ended, unmade, failed>>
  <2>1. calls' \in Seq(Frame) /\ Len(calls') = Len(calls) /\ Chain' /\ Here' = "process"
    <3>1. "process" \in Stages
      BY DEF Stages
    <3> QED BY <1>1, <1>3, <1>4, <3>1, GoesOn DEF SslInv
  <2>2. objects' = 1 /\ flight' = Len(calls') /\ flight' \in Nat
    BY <1>1, <1>4, <2>1
  <2>3. certs' \in {"no", "loaded", "missing"}
    BY <1>3, <1>4
  <2>4. ssl' \in {"unverified", "verified"} /\ (config.verify => ssl' = "verified")
    BY <1>4 DEF Verifies
  <2>5. Kept'
    BY <1>2, <1>4, <2>3, Typed DEF SslInv, Kept
  <2>6. Connected'
    BY <1>2, <1>4, <2>2, <2>4, Typed DEF SslInv, Connected
  <2>7. Staged'
    BY <1>1, <1>4, <2>1, <2>2, <2>4 DEF Staged, Locked, Waiting
  <2>8. SslFreed'
    BY <1>1, <1>4, <2>2, <2>4 DEF SslFreed
  <2>9. Verifying'
    BY <1>2, <2>4 DEF SslInv, Verifying, AnswersVerified
  <2>10. ErrorNamed'
    BY <1>1, <1>4 DEF ErrorNamed
  <2> QED BY <2>1, <2>5, <2>6, <2>7, <2>8, <2>9, <2>10, Typed DEF SslInv
<1>5. CASE (\E e \in Errors : InitializeFails(e)) /\ UNCHANGED flight
  <2>1. PICK e \in Errors : InitializeFails(e)
    BY <1>5
  <2>2. sock' = "none" /\ ssl' = "none" /\ objects' = 0 /\ shut' = FALSE /\ failed' = failed
    BY <2>1, ClosesSafely DEF InitializeFails, SslInv
  <2>3. Leaves(FALSE, e) /\ unmade' = (e = error)
    BY <2>1 DEF InitializeFails
  <2>4. certs' \in {"no", "loaded", "missing"}
    BY <1>3, <2>1 DEF InitializeFails, LoadCerts
  <2>5. e = "Success" => unmade'
    BY <2>1, <2>3 DEF InitializeFails
  <2>6. {unmade', denied'} \subseteq BOOLEAN
    BY <1>2, <1>3, <2>3
  <2> QED BY <1>1, <1>2, <1>5, <2>1, <2>2, <2>3, <2>4, <2>5, <2>6, <1>0, LeavesSsl
<1> QED BY <1>4, <1>5 DEF Initialize

LEMMA ProcessSsl == ASSUME SslInv, ProcessSocket PROVE SslInv'
<1>1. calls \in Seq(Frame) /\ "process" \in Stages /\ "request" \in Stages
  BY Typed DEF SslInv, Stages
<1>2. failed = {} /\ calls # <<>> /\ Len(calls) \in Nat \ {0} /\ Here = "process"
  BY <1>1, TopIsHere DEF ProcessSocket
<1>3. mutex # "held" /\ flight = Len(calls) /\ ended = "none"
  BY <1>2 DEF SslInv, Staged, Locked, Waiting
<1>4. /\ UNCHANGED <<config, certs, mutex, sock, shut, ssl, objects, flight, flag, error, sends,
                     stops, ended, unmade, unverified, changed, denied>>
      /\ failed' = IF ssl = "none" THEN failed \cup {"process_socket"} ELSE failed
  BY DEF ProcessSocket, connection, inFlight
<1>5. calls' \in Seq(Frame) /\ Len(calls') = Len(calls) /\ Chain' /\ Here' = "request"
  BY <1>1, <1>2, GoesOn DEF ProcessSocket, SslInv
<1>6. failed' \subseteq {"process_socket"} /\ (failed' = {} => ssl # "none")
  BY <1>2, <1>4
<1>7. Kept'
  BY <1>4, Typed DEF SslInv, Kept
<1>8. Connected'
  BY <1>4, <1>6, Typed DEF SslInv, Connected
<1>9. Staged'
  BY <1>2, <1>3, <1>4, <1>5, <1>6 DEF SslInv, Staged, Locked, Waiting
<1>10. SslFreed' /\ Verifying' /\ ErrorNamed'
  BY <1>4, <1>6 DEF SslInv, SslFreed, Verifying, AnswersVerified, ErrorNamed
<1> QED BY <1>5, <1>7, <1>8, <1>9, <1>10, Typed DEF SslInv

\* handle_request() goes on: it ends, waits for a call it has made, or follows a redirect.
LEMMA HandlesOn ==
  ASSUME SslInv, calls # <<>>, failed = {}, Here \in {"request", "redirect", "redirected"},
         UNCHANGED <<config, certs, mutex, flight, flag, sends, stops, ended, unmade, changed, denied>>,
         error' \in Errors, unverified' \subseteq Ways, AnswersVerified',
         \/ sock' = "none" /\ ssl' = "none" /\ objects' = 0 /\ shut' = FALSE /\ failed' = failed
         \/ UNCHANGED <<sock, shut, ssl, objects, failed>>,
         calls' \in Seq(Frame), Chain',
         \/ Len(calls') = Len(calls) /\ Here' \in {"redirect", "redirected", "away", "done"}
         \/ Len(calls') = Len(calls) + 1 /\ Here' = "lock",
         Here' = "redirect" => config.follow
  PROVE  SslInv'
<1>1. mutex # "held" /\ flight = Len(calls) /\ ended = "none" /\ Len(calls) \in Nat \ {0}
  BY Typed DEF SslInv, Staged, Locked, Waiting
<1>2. sock # "none" /\ ssl = "none" => denied = TRUE
  BY DEF SslInv, Staged
<1>3. Kept'
  BY Typed DEF SslInv, Kept
<1>4. Connected'
  <2>1. Connected
    BY Typed DEF SslInv
  <2>2. CASE UNCHANGED <<sock, shut, ssl, objects, failed>>
    BY <2>1, <2>2 DEF Connected
  <2>3. CASE sock' = "none" /\ ssl' = "none" /\ objects' = 0 /\ shut' = FALSE /\ failed' = failed
    BY <2>1, <2>3 DEF Connected
  <2> QED BY <2>2, <2>3
<1>5. Staged'
  <2>1. flight' = Len(calls') - (IF Here' \in Waiting THEN 1 ELSE 0)
    BY <1>1 DEF Waiting, Locked
  <2>2. mutex' # "held" /\ ended' = "none" /\ Here' \notin Locked
    BY <1>1 DEF Locked
  <2>3. Here' \notin {"idle", "connect", "request", "tunnel", "again"}
    OBVIOUS
  <2>4. sock' # "none" /\ ssl' = "none" => denied' = TRUE
    BY <1>2
  <2>5. Here' = "redirect" => config'.follow
    OBVIOUS
  <2> QED BY <2>1, <2>2, <2>3, <2>4, <2>5 DEF Staged
<1>6. Verifying'
  BY DEF SslInv, Verifying
<1>7. SslFreed'
  BY <1>1 DEF SslInv, SslFreed
<1>8. ErrorNamed'
  BY <1>1 DEF ErrorNamed
<1> QED BY <1>3, <1>4, <1>5, <1>6, <1>7, <1>8, Typed DEF SslInv

\* The stack of calls when handle_request() ends, or makes a call for an authorization.
LEMMA EndsOrAuthorizes ==
  ASSUME SslAssumption, calls \in Seq(Frame), calls # <<>>, Chain, Top = calls[Len(calls)],
         (\E ret \in BOOLEAN : EndsWith(ret)) \/ Authorizes
  PROVE  /\ calls' \in Seq(Frame) /\ Chain'
         /\ \/ Len(calls') = Len(calls) /\ Here' = "done"
            \/ Len(calls') = Len(calls) + 1 /\ Here' = "lock"
<1>1. CASE \E ret \in BOOLEAN : EndsWith(ret)
  <2>1. PICK ret \in BOOLEAN : EndsWith(ret)
    BY <1>1
  <2>2. calls' = [calls EXCEPT ![Len(calls)].at = "done", ![Len(calls)].ret = ret]
    BY <2>1 DEF EndsWith
  <2>3. "done" \in Stages
    BY DEF Stages
  <2> QED BY <2>2, <2>3, Finishes
<1>2. CASE Authorizes
  <2> DEFINE auth == Top.auth + 1
             redirects == Top.redirects
  <2>1. Top \in Frame
    OBVIOUS
  <2>2. auth \in 0 .. Authorizations /\ redirects \in 0 .. Redirects
    BY <1>2, <2>1 DEF Authorizes, Frame, SslAssumption
  <2>3. calls' = Append([calls EXCEPT ![Len(calls)].at = "request"], NewCall(auth, redirects))
    BY <1>2 DEF Authorizes
  <2>4. "request" \in Below
    BY DEF Below
  <2> HIDE DEF auth, redirects
  <2> QED BY <2>2, <2>3, <2>4, CallsAgain
<1> QED BY <1>1, <1>2

LEMMA RequestSsl == ASSUME SslAssumption, SslInv, Request PROVE SslInv'
<1>1. calls \in Seq(Frame) /\ "request" \in Stages /\ "redirect" \in Stages /\ Chain
  BY Typed DEF SslInv, Stages
<1>2. /\ failed = {} /\ calls # <<>> /\ Len(calls) \in Nat \ {0} /\ Here = "request"
      /\ Top = calls[Len(calls)] /\ Top \in Frame
  BY <1>1, TopIsHere DEF Request
<1>3. ssl # "none"
  BY <1>2 DEF SslInv, Staged
<1>4. UNCHANGED <<config, certs, mutex, flight, flag, sends, stops, ended, unmade, changed, denied>>
  BY DEF Request, inFlight
<1>5. error' \in Errors
  BY Typed DEF Request, SslInv, Kept, Errors
<1>6. \/ sock' = "none" /\ ssl' = "none" /\ objects' = 0 /\ shut' = FALSE /\ failed' = failed
      \/ UNCHANGED <<sock, shut, ssl, objects, failed>>
  BY ClosesSafely DEF Request, KeepsConnection, SslInv
<1>7. unverified' \subseteq Ways /\ AnswersVerified'
  <2>1. CASE unverified' = unverified
    BY <1>4, <2>1, Typed DEF SslInv, Kept, Verifying, AnswersVerified
  <2>2. CASE ssl # "verified" /\ Takes("kept")
    <3>1. ssl = "unverified" /\ "kept" \in Ways
      BY <1>3, <2>2, Typed DEF SslInv, Connected, Ways
    <3>2. config.verify => changed
      BY <3>1 DEF SslInv, Verifying
    <3>3. UNCHANGED <<config, changed>>
      BY <1>4
    <3> QED BY <2>2, <3>1, <3>2, <3>3, TakesWay
  <2> QED BY <2>1, <2>2 DEF Request
<1>8. (\E ret \in BOOLEAN : EndsWith(ret)) \/ Authorizes \/ (config.follow /\ Goes("redirect"))
  BY DEF Request
<1>9. CASE config.follow /\ Goes("redirect")
  <2>1. calls' \in Seq(Frame) /\ Len(calls') = Len(calls) /\ Chain' /\ Here' = "redirect"
    BY <1>1, <1>2, <1>9, GoesOn
  <2> QED BY <1>2, <1>4, <1>5, <1>6, <1>7, <1>9, <2>1, HandlesOn
<1>10. CASE (\E ret \in BOOLEAN : EndsWith(ret)) \/ Authorizes
  <2>1. /\ calls' \in Seq(Frame) /\ Chain'
        /\ \/ Len(calls') = Len(calls) /\ Here' = "done"
           \/ Len(calls') = Len(calls) + 1 /\ Here' = "lock"
    BY <1>1, <1>2, <1>10, EndsOrAuthorizes
  <2> QED BY <1>2, <1>4, <1>5, <1>6, <1>7, <2>1, HandlesOn
<1> QED BY <1>8, <1>9, <1>10

LEMMA RedirectSsl == ASSUME SslAssumption, SslInv, Redirect PROVE SslInv'
<1>1. /\ calls \in Seq(Frame) /\ {"redirect", "redirected", "redirecting", "away"} \subseteq Stages
      /\ Chain /\ unverified \subseteq Ways /\ error \in Errors /\ AnswersVerified
  BY Typed DEF SslInv, Stages, Kept, Verifying
<1>2. /\ failed = {} /\ calls # <<>> /\ Len(calls) \in Nat \ {0} /\ Here = "redirect"
      /\ Top = calls[Len(calls)] /\ Top \in Frame
  BY <1>1, TopIsHere DEF Redirect
<1>3. config.follow
  BY <1>2 DEF SslInv, Staged
<1>4. /\ UNCHANGED <<config, certs, mutex, flight, flag, sends, stops, ended, unmade, changed, denied>>
      /\ UNCHANGED <<sock, shut, ssl, objects, failed>>
  BY DEF Redirect, connection, inFlight
<1>5. AnswersVerified' \/ unverified' # unverified
  BY <1>1, <1>4 DEF AnswersVerified
<1>6. CASE EndsWith(FALSE) /\ error' \in Errors /\ unverified' = unverified
  <2>1. /\ calls' \in Seq(Frame) /\ Chain'
        /\ \/ Len(calls') = Len(calls) /\ Here' = "done"
           \/ Len(calls') = Len(calls) + 1 /\ Here' = "lock"
    BY <1>1, <1>2, <1>6, EndsOrAuthorizes
  <2> QED BY <1>1, <1>2, <1>4, <1>5, <1>6, <2>1, HandlesOn
<1>7. CASE /\ Top.redirects > 0
           /\ calls' = Append([calls EXCEPT ![Len(calls)].at = "redirecting"],
                              NewCall(Top.auth, Top.redirects - 1))
           /\ UNCHANGED <<error, unverified>>
  <2> DEFINE auth == Top.auth
             redirects == Top.redirects - 1
  <2>1. auth \in 0 .. Authorizations /\ redirects \in 0 .. Redirects
    BY <1>2, <1>7 DEF Frame, SslAssumption
  <2>2. /\ calls' = Append([calls EXCEPT ![Len(calls)].at = "redirecting"], NewCall(auth, redirects))
        /\ "redirecting" \in Below
    BY <1>7 DEF Below
  <2> HIDE DEF auth, redirects
  <2>3. calls' \in Seq(Frame) /\ Len(calls') = Len(calls) + 1 /\ Chain' /\ Here' = "lock"
    BY <1>1, <1>2, <2>1, <2>2, CallsAgain
  <2> QED BY <1>1, <1>2, <1>4, <1>5, <1>7, <2>3, HandlesOn
<1>8. CASE Goes("away") /\ UNCHANGED <<error, unverified>>
  <2>1. calls' \in Seq(Frame) /\ Len(calls') = Len(calls) /\ Chain' /\ Here' = "away"
    BY <1>1, <1>2, <1>8, GoesOn
  <2> QED BY <1>1, <1>2, <1>4, <1>5, <1>8, <2>1, HandlesOn
<1>9. CASE /\ calls' = [calls EXCEPT ![Len(calls)].at = "redirected", ![Len(calls)].ret = TRUE]
           /\ \/ UNCHANGED unverified
              \/ config.proxied /\ ~config.digest /\ Takes("proxy")
              \/ Takes("plain")
           /\ UNCHANGED error
  <2>1. calls' \in Seq(Frame) /\ Len(calls') = Len(calls) /\ Chain' /\ Here' = "redirected"
    BY <1>1, <1>2, <1>9, Finishes
  <2>2. unverified' \subseteq Ways /\ AnswersVerified'
    <3>1. CASE UNCHANGED unverified
      BY <1>1, <1>5, <3>1
    <3>2. CASE config.proxied /\ ~config.digest /\ Takes("proxy")
      BY <1>4, <3>2, TakesWay DEF Ways
    <3>3. CASE Takes("plain")
      BY <1>3, <1>4, <3>3, TakesWay DEF Ways
    <3> QED BY <1>9, <3>1, <3>2, <3>3
  <2> QED BY <1>1, <1>2, <1>4, <1>9, <2>1, <2>2, HandlesOn
<1>10. "ExceedRedirectCount" \in Errors
  BY DEF Errors
<1> QED BY <1>1, <1>6, <1>7, <1>8, <1>9, <1>10 DEF Redirect, Elsewhere

LEMMA RedirectedSsl == ASSUME SslAssumption, SslInv, Redirected PROVE SslInv'
<1>1. /\ calls \in Seq(Frame) /\ "redirected" \in Stages /\ "done" \in Stages /\ Chain
      /\ unverified \subseteq Ways /\ error \in Errors /\ AnswersVerified
  BY Typed DEF SslInv, Stages, Kept, Verifying
<1>2. /\ failed = {} /\ calls # <<>> /\ Len(calls) \in Nat \ {0} /\ Here = "redirected"
      /\ Top = calls[Len(calls)] /\ Top \in Frame
  BY <1>1, TopIsHere DEF Redirected
<1>3. /\ UNCHANGED <<config, certs, mutex, flight, flag, sends, stops, ended, unmade, changed, denied>>
      /\ UNCHANGED <<sock, shut, ssl, objects, failed>> /\ UNCHANGED <<error, unverified>>
  BY DEF Redirected, connection, inFlight, history
<1>4. AnswersVerified'
  BY <1>1, <1>3 DEF AnswersVerified
<1>5. CASE Goes("done")
  <2>1. calls' \in Seq(Frame) /\ Len(calls') = Len(calls) /\ Chain' /\ Here' = "done"
    BY <1>1, <1>2, <1>5, GoesOn
  <2> QED BY <1>1, <1>2, <1>3, <1>4, <2>1, HandlesOn
<1>6. CASE Authorizes
  <2>1. /\ calls' \in Seq(Frame) /\ Chain'
        /\ \/ Len(calls') = Len(calls) /\ Here' = "done"
           \/ Len(calls') = Len(calls) + 1 /\ Here' = "lock"
    BY <1>1, <1>2, <1>6, EndsOrAuthorizes
  <2> QED BY <1>1, <1>2, <1>3, <1>4, <2>1, HandlesOn
<1> QED BY <1>5, <1>6 DEF Redirected

LEMMA DoneSsl == ASSUME SslInv, Done PROVE SslInv'
<1>1. calls \in Seq(Frame) /\ "done" \in Stages
  BY Typed DEF SslInv, Stages
<1>2. /\ failed = {} /\ calls # <<>> /\ Len(calls) \in Nat \ {0} /\ Here = "done"
      /\ Top = calls[Len(calls)] /\ Top \in Frame
  BY <1>1, TopIsHere DEF Done
<1>3. mutex = "free" /\ flight = Len(calls) /\ ended = "none" /\ (ssl = "none" /\ sock # "none" => denied = TRUE)
  BY <1>2 DEF SslInv, Staged, Locked, Waiting, Done
<1>4. /\ UNCHANGED <<config, certs, mutex, flag, sends, stops, unmade, unverified, changed, denied>>
      /\ flight' = flight - 1 /\ Returns(Top.ret, Named)
  BY DEF Done
<1>5. Top.ret \in BOOLEAN /\ error \in Errors /\ Named \in Errors
      /\ (Top.ret = FALSE => Named # "Success")
  <2>1. Top.ret \in BOOLEAN /\ error \in Errors
    BY <1>2, Typed DEF Frame, SslInv, Kept
  <2>2. Named \in Errors
    BY <2>1 DEF Named, Errors
  <2>3. Top.ret = FALSE => Named # "Success"
    BY DEF Named
  <2> QED BY <2>1, <2>2, <2>3
<1>6. /\ calls' \in Seq(Frame) /\ Len(calls') = Len(calls) - 1 /\ Chain'
      /\ error' = Named
      /\ \/ /\ Here' = "idle" /\ Len(calls) = 1
            /\ (Top.ret = TRUE /\ ended' = "answered") \/ (Top.ret = FALSE /\ ended' = Named)
         \/ Here' \in {"done", "redirected"} /\ Len(calls) > 1 /\ ended' = ended
  BY <1>1, <1>2, <1>4, <1>5, GoesBack DEF SslInv
<1>7. \/ sock' = "none" /\ ssl' = "none" /\ objects' = 0 /\ shut' = FALSE /\ failed' = failed
      \/ UNCHANGED <<sock, shut, ssl, objects, failed>>
  BY ClosesSafely DEF Done, KeepsConnection, SslInv
<1>8. ended' \in {"none", "answered"} \cup Errors /\ ended' # "Success" /\ ended' # "destroyed"
  <2>1. "destroyed" \notin Errors /\ "none" # "Success"
    BY DEF Errors
  <2> QED BY <1>3, <1>5, <1>6, <2>1
<1>9. Kept'
  BY <1>4, <1>5, <1>6, <1>8, Typed DEF SslInv, Kept
<1>10. flight' = Len(calls') /\ flight' \in Nat
  BY <1>2, <1>3, <1>4, <1>6
<1>11. Connected'
  <2>1. Connected
    BY Typed DEF SslInv
  <2>2. CASE UNCHANGED <<sock, shut, ssl, objects, failed>>
    BY <1>4, <1>10, <2>1, <2>2 DEF Connected
  <2>3. CASE sock' = "none" /\ ssl' = "none" /\ objects' = 0 /\ shut' = FALSE /\ failed' = failed
    BY <1>4, <1>10, <2>1, <2>3 DEF Connected
  <2> QED BY <1>7, <2>2, <2>3
<1>12. Staged'
  <2>1. Here' \in {"idle", "done", "redirected"} /\ (Here' # "idle" => ended' = "none")
    BY <1>3, <1>6
  <2>2. sock' # "none" /\ ssl' = "none" => denied' = TRUE
    BY <1>3, <1>4, <1>7
  <2> QED BY <1>3, <1>4, <1>10, <2>1, <2>2 DEF Staged, Locked, Waiting
<1>13. SslFreed'
  BY <1>2, <1>7, <1>8 DEF SslInv, SslFreed
<1>14. Verifying'
  BY <1>4, <1>7 DEF SslInv, Verifying, AnswersVerified
<1>15. ErrorNamed'
  BY <1>8 DEF ErrorNamed
<1> QED BY <1>6, <1>9, <1>11, <1>12, <1>13, <1>14, <1>15, Typed DEF SslInv

-----------------------------------------------------------------------------
(* What the program and other threads do. *)

LEMMA SendSsl == ASSUME SslAssumption, SslInv, Send PROVE SslInv'
<1>1. /\ failed = {} /\ calls = <<>> /\ sends < MaxSends /\ ended # "destroyed"
      /\ calls' = <<NewCall(0, Redirects)>> /\ sends' = sends + 1 /\ error' = "Success" /\ ended' = "none"
      /\ unmade' = FALSE
      /\ UNCHANGED <<config, certs, mutex, sock, shut, ssl, objects, flight, flag, stops,
                     unverified, changed, denied, failed>>
  BY DEF Send, connection, inFlight
<1>2. NewCall(0, Redirects) \in Frame /\ NewCall(0, Redirects).at = "lock"
  BY DEF NewCall, Frame, Stages, SslAssumption
<1>3. calls' \in Seq(Frame) /\ Len(calls') = 1 /\ Here' = "lock" /\ Chain'
  BY <1>1, <1>2 DEF Here, Chain
<1>4. Here = "idle" /\ Len(calls) = 0
  BY <1>1 DEF Here
<1>5. mutex # "held" /\ flight = 0
  <2>1. Here \notin Locked /\ Here \notin Waiting
    BY <1>4 DEF Locked, Waiting
  <2>2. mutex # "held"
    BY <2>1 DEF SslInv, Staged
  <2>3. flight = Len(calls) - 0
    BY <2>1 DEF SslInv, Staged
  <2>4. flight = 0
    BY <1>4, <2>3
  <2> QED BY <2>2, <2>4
<1>6. sends' \in 0 .. MaxSends
  BY <1>1, Typed DEF SslInv, Kept, SslAssumption
<1>7. Kept'
  BY <1>1, <1>6, Typed DEF SslInv, Kept, Errors
<1>8. Connected'
  BY <1>1, Typed DEF SslInv, Connected
<1>9. Staged'
  BY <1>1, <1>3, <1>4, <1>5 DEF SslInv, Staged, Locked, Waiting
<1>10. SslFreed' /\ Verifying' /\ ErrorNamed'
  BY <1>1 DEF SslInv, SslFreed, Verifying, AnswersVerified, ErrorNamed
<1> QED BY <1>3, <1>7, <1>8, <1>9, <1>10, Typed DEF SslInv

LEMMA SetVerificationSsl == ASSUME SslInv, SetVerification PROVE SslInv'
<1>1. /\ calls = <<>> /\ config' = [config EXCEPT !.verify = ~@]
      /\ changed' = (changed \/ (~config.verify /\ ssl = "unverified"))
      /\ UNCHANGED <<certs, mutex, sock, shut, ssl, objects, flight, flag, calls, error, sends,
                     stops, ended, unmade, unverified, denied, failed>>
  BY DEF SetVerification, connection, inFlight
<1>2. /\ config' \in Settings /\ config'.proxied = config.proxied
      /\ config'.digest = config.digest /\ config'.follow = config.follow
      /\ config'.valid = config.valid /\ config'.verify = ~config.verify
  BY <1>1, Typed DEF SslInv, Kept, Settings
<1>3. changed' \in BOOLEAN /\ (changed => changed')
  BY <1>1
<1>4. Kept'
  BY <1>1, <1>2, <1>3, Typed DEF SslInv, Kept
<1>5. Connected'
  BY <1>1, Typed DEF SslInv, Connected
<1>6. Here' = Here /\ Here = "idle" /\ Chain' /\ calls' \in Seq(Frame)
  BY <1>1, Typed DEF Here, Chain, SslInv
<1>7. Staged'
  BY <1>1, <1>2, <1>6 DEF SslInv, Staged
<1>8. SslFreed' /\ ErrorNamed'
  BY <1>1, <1>2 DEF SslInv, SslFreed, ErrorNamed
<1>9. AnswersVerified'
  <2>1. AnswersVerified
    BY DEF SslInv, Verifying
  <2> QED BY <1>1, <1>2, <1>3, <2>1 DEF AnswersVerified
<1>10. config'.verify /\ ssl' = "unverified" => changed'
  BY <1>1, <1>2
<1> QED BY <1>4, <1>5, <1>6, <1>7, <1>8, <1>9, <1>10, Typed DEF SslInv, Verifying

LEMMA StopSsl == ASSUME SslAssumption, SslInv, Stop PROVE SslInv'
<1>1. /\ failed = {} /\ mutex = "free" /\ stops < MaxStops /\ stops' = stops + 1
      /\ ended # "destroyed"
      /\ UNCHANGED <<config, certs, mutex, flight, calls, error, sends, ended, unmade,
                     unverified, changed, denied>>
  BY DEF Stop
<1>2. stops' \in 0 .. MaxStops
  BY <1>1, Typed DEF SslInv, Kept, SslAssumption
<1>3. Kept'
  BY <1>1, <1>2, Typed DEF SslInv, Kept
<1>4. Here' = Here /\ Chain' /\ calls' \in Seq(Frame)
  BY <1>1, Typed DEF Here, Chain, SslInv
<1>5. ErrorNamed'
  BY <1>1 DEF SslInv, ErrorNamed
<1>6. CASE flight > 0
  <2>1. /\ shut' = (sock # "none") /\ flag' = TRUE /\ UNCHANGED <<sock, ssl, objects, failed>>
    BY <1>6 DEF Stop
  <2>2. Connected'
    BY <1>1, <2>1, Typed DEF SslInv, Connected
  <2>3. Staged'
    BY <1>1, <1>4, <2>1 DEF SslInv, Staged
  <2>4. SslFreed' /\ Verifying'
    BY <1>1, <2>1 DEF SslInv, SslFreed, Verifying, AnswersVerified
  <2> QED BY <1>3, <1>4, <1>5, <2>2, <2>3, <2>4, Typed DEF SslInv
<1>7. CASE ~(flight > 0)
  <2>1. /\ sock' = "none" /\ ssl' = "none" /\ objects' = 0 /\ shut' = FALSE /\ failed' = failed
        /\ flag' = flag
    BY <1>7, ClosesSafely DEF Stop, SslInv
  <2>2. Here # "request"
    <3>1. SUFFICES ASSUME Here = "request" PROVE FALSE
      OBVIOUS
    <3>2. calls # <<>> /\ calls \in Seq(Frame)
      BY <3>1, Typed DEF Here, SslInv
    <3>3. Len(calls) \in Nat \ {0}
      BY <3>2
    <3>4. flight = Len(calls)
      BY <3>1, <3>3 DEF SslInv, Staged, Waiting, Locked
    <3> QED BY <1>7, <3>3, <3>4
  <2>3. Connected'
    BY <1>1, <2>1, Typed DEF SslInv, Connected
  <2>4. Staged'
    BY <1>1, <1>4, <2>1, <2>2 DEF SslInv, Staged
  <2>5. SslFreed' /\ Verifying'
    BY <1>1, <2>1 DEF SslInv, SslFreed, Verifying, AnswersVerified
  <2> QED BY <1>3, <1>4, <1>5, <2>3, <2>4, <2>5, Typed DEF SslInv
<1> QED BY <1>6, <1>7

LEMMA DestroySslInv == ASSUME SslInv, Destroy PROVE SslInv'
<1>1. /\ failed = {} /\ calls = <<>> /\ mutex = "free" /\ ended' = "destroyed"
      /\ UNCHANGED <<config, certs, mutex, flight, flag, calls, error, sends, stops, unmade,
                     unverified, changed, denied>>
  BY DEF Destroy, inFlight
<1>2. sock' = "none" /\ ssl' = "none" /\ objects' = 0 /\ shut' = FALSE /\ failed' = failed
  BY ClosesSafely DEF Destroy, DestroySsl, SslInv
<1>3. Here' = "idle" /\ Here = "idle" /\ Chain' /\ calls' \in Seq(Frame)
  BY <1>1, Typed DEF Here, Chain, SslInv
<1>4. Kept'
  BY <1>1, Typed DEF SslInv, Kept
<1>5. Connected'
  BY <1>1, <1>2, Typed DEF SslInv, Connected
<1>6. Staged'
  BY <1>1, <1>2, <1>3 DEF SslInv, Staged
<1>7. SslFreed' /\ Verifying' /\ ErrorNamed'
  BY <1>1, <1>2 DEF SslInv, SslFreed, Verifying, AnswersVerified, ErrorNamed
<1> QED BY <1>3, <1>4, <1>5, <1>6, <1>7, Typed DEF SslInv

LEMMA NextSsl == SslAssumption /\ SslInv /\ [Next]_vars => SslInv'
<1> SUFFICES ASSUME SslAssumption, SslInv, [Next]_vars PROVE SslInv'
  OBVIOUS
<1>1. CASE UNCHANGED vars
  <2>1. UNCHANGED <<config, certs, mutex, sock, shut, ssl, objects, flight, flag, calls, error,
                    sends, stops, ended, unmade, unverified, changed, denied, failed>>
    BY <1>1 DEF vars, connection, inFlight, history
  <2>2. Kept' /\ Connected' /\ calls' \in Seq(Frame)
    BY <2>1, Typed DEF SslInv, Kept, Connected
  <2>3. Here' = Here /\ Chain'
    BY <2>1 DEF Here, Chain, SslInv
  <2>4. Staged'
    BY <2>1, <2>3 DEF SslInv, Staged
  <2>5. SslFreed' /\ Verifying' /\ ErrorNamed'
    BY <2>1 DEF SslInv, SslFreed, Verifying, AnswersVerified, ErrorNamed
  <2> QED BY <2>2, <2>3, <2>4, <2>5, Typed DEF SslInv
<1>2. CASE Next
  BY <1>2, SendSsl, StopSsl, DestroySslInv, LockSsl, ConnectSsl, TunnelFailsSsl, TunnelClosesSsl,
     TunnelSsl, TunnelAgainSsl, InitializeSsl, ProcessSsl, RequestSsl, RedirectSsl, RedirectedSsl,
     DoneSsl, SetVerificationSsl DEF Next, Step
<1> QED BY <1>1, <1>2

-----------------------------------------------------------------------------
(* The theorems. *)

LEMMA SslInductive == SslAssumption => (Spec => []SslInv)
<1> SUFFICES ASSUME SslAssumption PROVE Spec => []SslInv
  OBVIOUS
<1>1. Init => SslInv
  BY InitSsl
<1>2. SslInv /\ [Next]_vars => SslInv'
  BY NextSsl
<1> QED BY <1>1, <1>2, PTL DEF Spec

\* Whatever a proxy answers, a handshake or a verification does, and stop() or the
\* destructor interrupts: an SSL object is freed, once, before its socket is closed, and
\* an open socket between two calls has one, unless a proxy has denied the client.
THEOREM SslFreedOnce == SslAssumption => (Spec => []SslSound)
<1> SUFFICES ASSUME SslAssumption PROVE Spec => []SslSound
  OBVIOUS
<1>1. SslInv => SslSound
  BY DEF SslInv, Staged, SslSound, OpenHasSsl, Here
<1> QED BY <1>1, SslInductive, PTL

\* With server_certificate_verification_ no answer is taken from a host whose certificate
\* was not verified, over a connection kept from another call, after an authorized retry or
\* behind a redirect of this client either, in any order of proxies' answers, failures and
\* stops, but for three ways: a connection that was open before the verification was asked
\* for, a proxy that wants credentials the client has not, and a redirect that leads to
\* another scheme.  And a call that fails names its error.
THEOREM AnswersAreVerified == SslAssumption => (Spec => []Verified)
<1> SUFFICES ASSUME SslAssumption PROVE Spec => []Verified
  OBVIOUS
<1>1. SslInv => Verified
  BY DEF SslInv, Verifying, Verified
<1> QED BY <1>1, SslInductive, PTL
=============================================================================
