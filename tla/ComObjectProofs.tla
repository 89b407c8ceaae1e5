-------------------------- MODULE ComObjectProofs --------------------------
(***************************************************************************)
(* What holds of the objects and the events of ComObject, and of the       *)
(* values of ComValues behind them, for any servers, variables, texts and  *)
(* bounds, with its proofs.                                                *)
(***************************************************************************)
EXTENDS ComObject, ComValues, FiniteSetTheorems, TLAPS

-----------------------------------------------------------------------------
(* The invariant, of variables h, objects w that their servers hold, sinks *)
(* k, connection points p, activations st and references l that are lost.  *)

\* Who has a reference to an object: variables, sinks, connections under way.
Holders(o, h) == {v \in Var : h[v] = o}
Sinks(o, k) == {s \in DOMAIN k : k[s].point = o /\ ~k[s].gone}
Resets(o, st) == {i \in DOMAIN st : st[i].is = "reset" /\ st[i].point = o}

Uses(o, h, w, k, st, l) ==
    Cardinality(Holders(o, h)) + (IF o \in w THEN 1 ELSE 0) + l[o]
    + Cardinality(Sinks(o, k)) + Cardinality(Resets(o, st))

Exact == \A o \in Object : refs[o] = Uses(o, held, own, sinks, stack, lost)

\* What a call waits for was taken for good; what it has copied came from a variable.
Called(st, l) ==
    \A i \in DOMAIN st :
        st[i].is = "call" =>
            /\ l[st[i].obj] > 0
            /\ st[i].copied \in Object => st[i].arg \in Var

\* A sink is that of its variable until it is gone, and then a later one is.
Owned(d, k) ==
    /\ \A v \in EventVar : d[v] # 0 =>
          d[v] \in DOMAIN k /\ k[d[v]].of = v /\ ~k[d[v]].gone
    /\ \A s \in DOMAIN k :
          IF k[s].gone THEN s < d[k[s].of] ELSE s = d[k[s].of]

\* A connection point knows sinks of its object only; one that is not gone was advised,
\* one that is gone was not.
Known(p, k) ==
    \A o \in Object : \A s \in p[o] :
        s \in DOMAIN k /\ k[s].point = o /\ (k[s].gone <=> ~k[s].advised)

\* The handlers of a sink that are under way.
Events(s, st) == {i \in DOMAIN st : st[i].is = "event" /\ st[i].sink = s}

\* The references of a sink: its variable's, the connection point's, its handlers'.
Referred(k, p, st) ==
    \A s \in DOMAIN k :
        k[s].refs >= 1 + (IF s \in p[k[s].point] THEN 1 ELSE 0) + Cardinality(Events(s, st))

\* Handlers and connections are of sinks that were made; only the activation on top
\* connects, to what its variable holds.
Activations(st, k, h) ==
    \A i \in DOMAIN st :
        /\ st[i].is \in {"event", "advise"} => st[i].sink \in DOMAIN k
        /\ st[i].is \in {"connect", "reset"} => i = Len(st)
        /\ st[i].is = "reset" => h[st[i].var] = st[i].point /\ Len(k) < MaxSinks

\* A variable is being connected.
Connecting(v, st) == \E i \in DOMAIN st : st[i].is \in {"connect", "reset"} /\ st[i].var = v

\* A variable holds the object of its sink, or it will have another sink.
Connected(d, k, h, st, f) ==
    \A v \in EventVar : d[v] # 0 =>
        h[v] = k[d[v]].point \/ h[v] = None \/ f = TRUE \/ Connecting(v, st)

ComInv ==
    /\ TypeOK /\ Exact /\ Called(stack, lost) /\ Owned(sink, sinks) /\ Known(points, sinks)
    /\ Referred(sinks, points, stack) /\ Activations(stack, sinks, held)
    /\ Connected(sink, sinks, held, stack, faulted) /\ Heard

-----------------------------------------------------------------------------
(* Activations and their numbers. *)

SinkRecord == [of : EventVar, point : Object, refs : Nat, advised : BOOLEAN, gone : BOOLEAN]

LEMMA SinkFields ==
  ASSUME NEW k \in Seq(SinkRecord), NEW s \in DOMAIN k
  PROVE  /\ k[s].of \in EventVar /\ k[s].point \in Object /\ k[s].refs \in Nat
         /\ k[s].advised \in BOOLEAN /\ k[s].gone \in BOOLEAN
         /\ s \in 1 .. Len(k)
<1>1. k[s] \in SinkRecord /\ s \in 1 .. Len(k)
  OBVIOUS
<1>. QED  BY <1>1 DEF SinkRecord

LEMMA FrameFields ==
  ASSUME NEW fr \in Frame
  PROVE  /\ fr.is \in {"call", "event", "advise", "connect", "reset"}
         /\ fr.is = "call" => /\ fr.obj \in Object /\ fr.to \in Var \cup {None}
                              /\ fr.arg \in Var \cup {None}
                              /\ fr.copied \in Object \cup {None, Nothing}
         /\ fr.is \in {"event", "advise"} => fr.sink \in Sink
         /\ fr.is \in {"connect", "reset"} => fr.var \in EventVar
         /\ fr.is = "reset" => fr.point \in Object
  BY DEF Frame

\* z is st without its last activation.
Shortened(st, z) ==
    /\ z \in Seq(Frame) /\ Len(z) = Len(st) - 1 /\ Len(st) \in Nat
    /\ DOMAIN st = DOMAIN z \cup {Len(st)} /\ Len(st) \notin DOMAIN z
    /\ DOMAIN z = 1 .. Len(st) - 1 /\ DOMAIN st = 1 .. Len(st)
    /\ \A i \in DOMAIN z : z[i] = st[i]

LEMMA Left ==
  ASSUME NEW st \in Seq(Frame), st # <<>>
  PROVE  Shortened(st, Front(st)) /\ Last(st) = st[Len(st)] /\ Last(st) \in Frame /\ Len(st) > 0
<1> DEFINE m == Len(st) - 1
           z == Front(st)
<1>1. m \in Nat /\ Len(st) = m + 1 /\ \A i \in 1 .. m : i \in 1 .. Len(st)
  OBVIOUS
<1>2. z = SubSeq(st, 1, m)
  BY DEF Front
<1>. HIDE DEF m, z
<1>3. SubSeq(st, 1, m) \in Seq(Frame) /\ Len(SubSeq(st, 1, m)) = m
  BY <1>1
<1>4. \A i \in 1 .. m : SubSeq(st, 1, m)[i] = st[i]
  BY <1>1
<1>5. DOMAIN z = 1 .. m /\ DOMAIN st = 1 .. m + 1
  BY <1>1, <1>2, <1>3
<1>6. 1 .. m + 1 = (1 .. m) \cup {m + 1} /\ m + 1 \notin 1 .. m /\ m + 1 - 1 = m
  BY <1>1
<1>7. Shortened(st, z)
  BY <1>1, <1>2, <1>3, <1>4, <1>5, <1>6 DEF Shortened
<1>8. Last(st) = st[Len(st)] /\ Last(st) \in Frame
  BY DEF Last
<1>. QED  BY <1>1, <1>7, <1>8 DEF z

\* z is st with one activation more.
Lengthened(st, fr, z) ==
    /\ z \in Seq(Frame) /\ Len(z) = Len(st) + 1 /\ Len(st) \in Nat
    /\ DOMAIN z = DOMAIN st \cup {Len(st) + 1} /\ Len(st) + 1 \notin DOMAIN st
    /\ DOMAIN st = 1 .. Len(st)
    /\ \A i \in DOMAIN st : z[i] = st[i]
    /\ z[Len(st) + 1] = fr

LEMMA Entered ==
  ASSUME NEW st \in Seq(Frame), NEW fr \in Frame
  PROVE  Lengthened(st, fr, Append(st, fr))
  BY DEF Lengthened

LEMMA ActivationsFinite ==
  ASSUME NEW st \in Seq(Frame), NEW o
  PROVE  /\ IsFiniteSet(Resets(o, st)) /\ Cardinality(Resets(o, st)) \in Nat
         /\ IsFiniteSet(Events(o, st)) /\ Cardinality(Events(o, st)) \in Nat
<1>1. IsFiniteSet(DOMAIN st)
  <2>1. DOMAIN st = 1 .. Len(st) /\ Len(st) \in Nat
    OBVIOUS
  <2>. QED  BY <2>1, FS_Interval
<1>2. Resets(o, st) \in SUBSET DOMAIN st /\ Events(o, st) \in SUBSET DOMAIN st
  BY DEF Resets, Events
<1>3. IsFiniteSet(Resets(o, st)) /\ IsFiniteSet(Events(o, st))
  BY <1>1, <1>2, FS_Subset
<1>. QED  BY <1>3, FS_CardinalityType

LEMMA PushedSets ==
  ASSUME NEW st \in Seq(Frame), NEW fr \in Frame, NEW z, Lengthened(st, fr, z), NEW o
  PROVE  /\ Cardinality(Resets(o, z)) = Cardinality(Resets(o, st))
                + (IF fr.is = "reset" /\ fr.point = o THEN 1 ELSE 0)
         /\ Cardinality(Events(o, z)) = Cardinality(Events(o, st))
                + (IF fr.is = "event" /\ fr.sink = o THEN 1 ELSE 0)
<1> DEFINE n == Len(st) + 1
<1>1. /\ DOMAIN z = DOMAIN st \cup {n} /\ n \notin DOMAIN st
      /\ \A i \in DOMAIN st : z[i] = st[i]
      /\ z[n] = fr
  BY DEF Lengthened
<1>. HIDE DEF n
<1>2. /\ IsFiniteSet(Resets(o, st)) /\ Cardinality(Resets(o, st)) \in Nat
      /\ IsFiniteSet(Events(o, st)) /\ Cardinality(Events(o, st)) \in Nat
  BY ActivationsFinite
<1>3. Resets(o, z) = IF fr.is = "reset" /\ fr.point = o THEN Resets(o, st) \cup {n}
                     ELSE Resets(o, st)
  BY <1>1 DEF Resets
<1>4. Events(o, z) = IF fr.is = "event" /\ fr.sink = o THEN Events(o, st) \cup {n}
                     ELSE Events(o, st)
  BY <1>1 DEF Events
<1>5. n \notin Resets(o, st) /\ n \notin Events(o, st)
  BY <1>1 DEF Resets, Events
<1>6. /\ Cardinality(Resets(o, st) \cup {n}) = Cardinality(Resets(o, st)) + 1
      /\ Cardinality(Events(o, st) \cup {n}) = Cardinality(Events(o, st)) + 1
  BY <1>2, <1>5, FS_AddElement
<1>. QED  BY <1>2, <1>3, <1>4, <1>6

LEMMA PoppedSets ==
  ASSUME NEW st \in Seq(Frame), NEW z, Shortened(st, z), NEW top, top = st[Len(st)], NEW o
  PROVE  /\ Cardinality(Resets(o, z)) = Cardinality(Resets(o, st))
                - (IF top.is = "reset" /\ top.point = o THEN 1 ELSE 0)
         /\ Cardinality(Events(o, z)) = Cardinality(Events(o, st))
                - (IF top.is = "event" /\ top.sink = o THEN 1 ELSE 0)
<1> DEFINE n == Len(st)
<1>1. /\ DOMAIN st = DOMAIN z \cup {n} /\ n \notin DOMAIN z
      /\ \A i \in DOMAIN z : z[i] = st[i]
      /\ st[n] = top
  BY DEF Shortened
<1>. HIDE DEF n
<1>2. /\ IsFiniteSet(Resets(o, st)) /\ Cardinality(Resets(o, st)) \in Nat
      /\ IsFiniteSet(Events(o, st)) /\ Cardinality(Events(o, st)) \in Nat
  BY ActivationsFinite
<1>3. Resets(o, z) = Resets(o, st) \ {n} /\ Events(o, z) = Events(o, st) \ {n}
  BY <1>1 DEF Resets, Events
<1>4. /\ n \in Resets(o, st) <=> top.is = "reset" /\ top.point = o
      /\ n \in Events(o, st) <=> top.is = "event" /\ top.sink = o
  BY <1>1 DEF Resets, Events
<1>5. /\ Cardinality(Resets(o, st) \ {n}) = IF n \in Resets(o, st)
                                            THEN Cardinality(Resets(o, st)) - 1
                                            ELSE Cardinality(Resets(o, st))
      /\ Cardinality(Events(o, st) \ {n}) = IF n \in Events(o, st)
                                            THEN Cardinality(Events(o, st)) - 1
                                            ELSE Cardinality(Events(o, st))
  BY <1>2, FS_RemoveElement
<1>. QED  BY <1>2, <1>3, <1>4, <1>5

\* Nothing is being connected.
Quiet(st) == \A i \in DOMAIN st : st[i].is \notin {"connect", "reset"}

LEMMA QuietStacks ==
  ASSUME NEW st \in Seq(Frame), NEW k, NEW h, Activations(st, k, h)
  PROVE  /\ (st # <<>> => st[Len(st)].is \notin {"connect", "reset"}) => Quiet(st)
         /\ \A z : Shortened(st, z) => Quiet(z)
<1>1. ASSUME st # <<>> => st[Len(st)].is \notin {"connect", "reset"} PROVE Quiet(st)
  BY <1>1 DEF Quiet, Activations
<1>2. ASSUME NEW z, Shortened(st, z) PROVE Quiet(z)
  BY <1>2 DEF Shortened, Quiet, Activations
<1>. QED  BY <1>1, <1>2

LEMMA PopKeeps ==
  ASSUME NEW st \in Seq(Frame), NEW z, Shortened(st, z), NEW k, NEW h, NEW l
  PROVE  /\ Activations(st, k, h) => Activations(z, k, h)
         /\ Called(st, l) => Called(z, l)
<1>1. ASSUME Activations(st, k, h) PROVE Activations(z, k, h)
  BY <1>1 DEF Shortened, Activations
<1>2. ASSUME Called(st, l) PROVE Called(z, l)
  BY <1>2 DEF Shortened, Called
<1>. QED  BY <1>1, <1>2

LEMMA PushKeeps ==
  ASSUME NEW st \in Seq(Frame), NEW fr \in Frame, NEW z, Lengthened(st, fr, z), NEW k, NEW h,
         NEW l, Activations(st, k, h), Called(st, l), Quiet(st),
         fr.is \in {"event", "advise"} => fr.sink \in DOMAIN k,
         fr.is = "reset" => h[fr.var] = fr.point /\ Len(k) < MaxSinks,
         fr.is = "call" => l[fr.obj] > 0 /\ (fr.copied \in Object => fr.arg \in Var)
  PROVE  Activations(z, k, h) /\ Called(z, l)
<1>1. /\ DOMAIN z = DOMAIN st \cup {Len(st) + 1} /\ Len(z) = Len(st) + 1
      /\ \A i \in DOMAIN st : z[i] = st[i]
      /\ z[Len(st) + 1] = fr
  BY DEF Lengthened
<1>2. ASSUME NEW i \in DOMAIN z
      PROVE  /\ z[i].is \in {"event", "advise"} => z[i].sink \in DOMAIN k
             /\ z[i].is \in {"connect", "reset"} => i = Len(z)
             /\ z[i].is = "reset" => h[z[i].var] = z[i].point /\ Len(k) < MaxSinks
             /\ z[i].is = "call" => l[z[i].obj] > 0 /\ (z[i].copied \in Object => z[i].arg \in Var)
  <2>1. CASE i \in DOMAIN st
    BY <1>1, <2>1 DEF Activations, Called, Quiet
  <2>2. CASE i = Len(st) + 1
    BY <1>1, <2>2
  <2>. QED  BY <1>1, <2>1, <2>2
<1>. QED  BY <1>2 DEF Activations, Called


-----------------------------------------------------------------------------
(* Who refers to an object. *)

Values == Object \cup {None, Nothing}

LEMMA HoldersFinite ==
  ASSUME NEW h, NEW o
  PROVE  IsFiniteSet(Holders(o, h)) /\ Cardinality(Holders(o, h)) \in Nat
<1>1. IsFiniteSet(Var)
  BY ComAssumption
<1>2. Holders(o, h) \in SUBSET Var
  BY DEF Holders
<1>3. IsFiniteSet(Holders(o, h))
  BY <1>1, <1>2, FS_Subset
<1>. QED  BY <1>3, FS_CardinalityType

\* What v held loses a holder, what it holds now has one more.
LEMMA HoldersAssigned ==
  ASSUME NEW h \in [Var -> Values], NEW v \in Var, NEW x, NEW o \in Object
  PROVE  Cardinality(Holders(o, [h EXCEPT ![v] = x]))
            = Cardinality(Holders(o, h)) + One(x, o) - One(h[v], o)
<1> DEFINE m == [h EXCEPT ![v] = x]
           Others == Holders(o, h) \ {v}
<1>1. m[v] = x /\ \A u \in Var : u # v => m[u] = h[u]
  OBVIOUS
<1>a. m = [h EXCEPT ![v] = x]
  OBVIOUS
<1>. HIDE DEF m
<1>2. Holders(o, m) \ {v} = Others /\ Holders(o, h) \ {v} = Others
  BY <1>1 DEF Holders
<1>. HIDE DEF Others
<1>3. (v \in Holders(o, m) <=> x = o) /\ (v \in Holders(o, h) <=> h[v] = o)
  BY <1>1 DEF Holders
<1>4. /\ IsFiniteSet(Holders(o, h)) /\ Cardinality(Holders(o, h)) \in Nat
      /\ IsFiniteSet(Holders(o, m)) /\ Cardinality(Holders(o, m)) \in Nat
  BY HoldersFinite
<1>5. Cardinality(Others) = Cardinality(Holders(o, h)) - One(h[v], o)
  <2>1. Cardinality(Holders(o, h) \ {v}) = IF v \in Holders(o, h)
                                           THEN Cardinality(Holders(o, h)) - 1
                                           ELSE Cardinality(Holders(o, h))
    BY <1>4, FS_RemoveElement
  <2>. QED  BY <2>1, <1>2, <1>3, <1>4 DEF One
<1>6. Cardinality(Others) = Cardinality(Holders(o, m)) - One(x, o)
  <2>1. Cardinality(Holders(o, m) \ {v}) = IF v \in Holders(o, m)
                                           THEN Cardinality(Holders(o, m)) - 1
                                           ELSE Cardinality(Holders(o, m))
    BY <1>4, FS_RemoveElement
  <2>2. One(x, o) = IF v \in Holders(o, m) THEN 1 ELSE 0
    BY <1>3 DEF One
  <2>3. Cardinality(Holders(o, m)) - 0 = Cardinality(Holders(o, m))
    BY <1>4
  <2>. QED  BY ONLY <2>1, <2>2, <2>3, <1>2
<1>7. One(x, o) \in Nat /\ One(h[v], o) \in Nat
  BY DEF One
<1>8. Cardinality(Holders(o, m)) = Cardinality(Holders(o, h)) + One(x, o) - One(h[v], o)
  BY <1>4, <1>5, <1>6, <1>7
<1>. QED  BY <1>8, <1>a

LEMMA SinksFinite ==
  ASSUME NEW k \in Seq(SinkRecord), NEW o
  PROVE  IsFiniteSet(Sinks(o, k)) /\ Cardinality(Sinks(o, k)) \in Nat
<1>1. IsFiniteSet(DOMAIN k)
  <2>1. DOMAIN k = 1 .. Len(k) /\ Len(k) \in Nat
    OBVIOUS
  <2>. QED  BY <2>1, FS_Interval
<1>2. Sinks(o, k) \in SUBSET DOMAIN k
  BY DEF Sinks
<1>3. IsFiniteSet(Sinks(o, k))
  BY <1>1, <1>2, FS_Subset
<1>. QED  BY <1>3, FS_CardinalityType

LEMMA UsesNat ==
  ASSUME NEW o \in Object, NEW h, NEW w, NEW k \in Seq(SinkRecord), NEW st \in Seq(Frame),
         NEW l \in [Object -> Nat]
  PROVE  /\ Uses(o, h, w, k, st, l) \in Nat
         /\ Uses(o, h, w, k, st, l) >= l[o]
         /\ o \in w => Uses(o, h, w, k, st, l) > 0
         /\ \A v \in Var : h[v] = o => Uses(o, h, w, k, st, l) > 0
         /\ \A s \in DOMAIN k : k[s].point = o /\ ~k[s].gone => Uses(o, h, w, k, st, l) > 0
<1>1. Cardinality(Holders(o, h)) \in Nat /\ IsFiniteSet(Holders(o, h))
  BY HoldersFinite
<1>2. Cardinality(Sinks(o, k)) \in Nat /\ IsFiniteSet(Sinks(o, k))
  BY SinksFinite
<1>3. Cardinality(Resets(o, st)) \in Nat
  BY ActivationsFinite
<1>4. l[o] \in Nat
  OBVIOUS
<1>5. ASSUME NEW v \in Var, h[v] = o PROVE Cardinality(Holders(o, h)) > 0
  <2>1. v \in Holders(o, h)
    BY <1>5 DEF Holders
  <2>2. Cardinality(Holders(o, h)) # 0
    BY <2>1, <1>1, FS_EmptySet
  <2>. QED  BY <2>2, <1>1
<1>6. ASSUME NEW s \in DOMAIN k, k[s].point = o, ~k[s].gone PROVE Cardinality(Sinks(o, k)) > 0
  <2>1. s \in Sinks(o, k)
    BY <1>6 DEF Sinks
  <2>2. Cardinality(Sinks(o, k)) # 0
    BY <2>1, <1>2, FS_EmptySet
  <2>. QED  BY <2>2, <1>2
<1>7. Uses(o, h, w, k, st, l) \in Nat /\ Uses(o, h, w, k, st, l) >= l[o]
  BY <1>1, <1>2, <1>3, <1>4 DEF Uses
<1>8. o \in w => Uses(o, h, w, k, st, l) > 0
  BY <1>1, <1>2, <1>3, <1>4 DEF Uses
<1>9. Cardinality(Holders(o, h)) > 0 \/ Cardinality(Sinks(o, k)) > 0
         => Uses(o, h, w, k, st, l) > 0
  BY <1>1, <1>2, <1>3, <1>4 DEF Uses
<1>. QED  BY <1>5, <1>6, <1>7, <1>8, <1>9

LEMMA AddAt ==
  ASSUME NEW count, NEW x, NEW n, NEW o \in Object
  PROVE  Add(count, x, n)[o] = count[o] + n * One(x, o) /\ One(x, o) \in {0, 1}
  BY DEF Add, One


-----------------------------------------------------------------------------
(* Steps that make no sink and change none. *)

\* An object that is gone has no connection point, the others have theirs.
PointsKept ==
    /\ \A o \in Object : points'[o] = points[o] \/ (refs'[o] = 0 /\ points'[o] = {})
    /\ points' = [o \in Object |-> points'[o]]

\* The counts are as they should be after the step.
Counted ==
    /\ refs' = [o \in Object |-> Uses(o, held', own', sinks, stack', lost')]
    /\ PointsKept

\* The other variables have the values that they may have.
Typed ==
    /\ held' \in [Var -> Values] /\ own' \subseteq Object /\ lost' \in [Object -> Nat]
    /\ stack' \in Seq(Frame) /\ faulted' \in BOOLEAN /\ statements' \in 0 .. MaxStatements

SameEvents(st, z) == \A s : Cardinality(Events(s, z)) = Cardinality(Events(s, st))

LEMMA CalmStep ==
  ASSUME ComInv, Counted, Typed, UNCHANGED <<sink, sinks>>,
         SameEvents(stack, stack'), Called(stack', lost'), Activations(stack', sinks, held'),
         Connected(sink, sinks, held', stack', faulted')
  PROVE  ComInv'
<1>1. sinks \in Seq(SinkRecord) /\ sink \in [EventVar -> 0 .. MaxSinks]
  BY DEF ComInv, TypeOK, SinkRecord
<1>2. sinks' = sinks /\ sink' = sink
  OBVIOUS
<1>3. \A o \in Object : refs'[o] = Uses(o, held', own', sinks, stack', lost')
  BY DEF Counted
<1>4. Exact'
  BY <1>2, <1>3 DEF Exact
<1>5. refs' \in [Object -> Nat]
  <2>1. stack' \in Seq(Frame) /\ lost' \in [Object -> Nat]
    BY DEF Typed
  <2>2. \A o \in Object : Uses(o, held', own', sinks, stack', lost') \in Nat
    BY <1>1, <2>1, UsesNat
  <2>. QED  BY <2>2 DEF Counted
<1>6. points' \in [Object -> SUBSET Sink] /\ \A o \in Object : points'[o] \subseteq points[o]
  <2>1. points \in [Object -> SUBSET Sink]
    BY DEF ComInv, TypeOK
  <2>2. \A o \in Object : points'[o] \subseteq points[o] /\ points'[o] \in SUBSET Sink
    BY <2>1 DEF Counted, PointsKept
  <2>. QED  BY <2>2 DEF Counted, PointsKept
<1>7. TypeOK'
  BY <1>1, <1>2, <1>5, <1>6 DEF Typed, TypeOK, SinkRecord, Values
<1>8. Owned(sink, sinks)' /\ Called(stack, lost)' /\ Activations(stack, sinks, held)'
      /\ Connected(sink, sinks, held, stack, faulted)'
  BY <1>2 DEF ComInv
<1>9. Known(points, sinks)'
  BY <1>2, <1>6 DEF ComInv, Known
<1>10. Referred(sinks, points, stack)'
  <2> SUFFICES ASSUME NEW s \in DOMAIN sinks
               PROVE  sinks[s].refs >= 1 + (IF s \in points'[sinks[s].point] THEN 1 ELSE 0)
                                         + Cardinality(Events(s, stack'))
    BY <1>2 DEF Referred
  <2>1. sinks[s].refs >= 1 + (IF s \in points[sinks[s].point] THEN 1 ELSE 0)
                           + Cardinality(Events(s, stack))
    BY DEF ComInv, Referred
  <2>2. sinks[s].point \in Object /\ sinks[s].refs \in Nat
    BY <1>1, SinkFields
  <2>3. points'[sinks[s].point] \subseteq points[sinks[s].point]
    BY <1>6, <2>2
  <2>4. Cardinality(Events(s, stack')) = Cardinality(Events(s, stack))
    BY DEF SameEvents
  <2>5. Cardinality(Events(s, stack)) \in Nat
    BY ActivationsFinite DEF ComInv, TypeOK
  <2>. QED  BY <2>1, <2>2, <2>3, <2>4, <2>5
<1>11. Heard'
  <2> SUFFICES ASSUME NEW v \in EventVar, sink[v] # 0, sinks[sink[v]].advised,
                      sink[v] \notin points'[sinks[sink[v]].point]
               PROVE  \E f \in DOMAIN sinks : /\ f # sink[v] /\ sinks[f].gone /\ ~sinks[f].advised
                                              /\ sinks[f].point = sinks[sink[v]].point
    BY <1>2 DEF Heard
  <2> DEFINE s == sink[v]
             o == sinks[s].point
  <2>1. s \in DOMAIN sinks /\ ~sinks[s].gone
    BY DEF ComInv, Owned
  <2>2. o \in Object
    BY <1>1, <2>1, SinkFields
  <2>3. Uses(o, held', own', sinks, stack', lost') > 0
    BY <1>1, <2>1, <2>2, UsesNat DEF Typed
  <2>4. refs'[o] # 0
    BY <1>3, <2>2, <2>3
  <2>5. s \notin points[o]
    BY <2>2, <2>4 DEF Counted, PointsKept
  <2>. QED  BY <2>5 DEF ComInv, Heard
<1>. QED  BY <1>4, <1>7, <1>8, <1>9, <1>10, <1>11 DEF ComInv

\* What Assigns makes of the variables and of the activations.
Assigned(v, x) == [held EXCEPT ![v] = x]
After(v, rest) == IF v \in EventVar THEN Append(rest, [is |-> "connect", var |-> v]) ELSE rest

\* v is set to x; rest is what is under way, now that the statement or call is over.
LEMMA AssignsKeeps ==
  ASSUME ComInv, NEW v \in Var, NEW x \in Values, NEW count, NEW rest \in Seq(Frame),
         Assigns(v, x, count, rest),
         UNCHANGED <<own, sink, sinks, faulted>>, statements' \in 0 .. MaxStatements,
         lost' \in [Object -> Nat],
         \A o \in Object : count[o] - lost'[o] = refs[o] - lost[o] /\ count[o] \in Int,
         SameEvents(stack, rest),
         \A o \in Object : Cardinality(Resets(o, rest)) = Cardinality(Resets(o, stack)),
         Called(rest, lost'), Activations(rest, sinks, held), Quiet(rest), Quiet(stack)
  PROVE  ComInv'
<1> DEFINE fr == [is |-> "connect", var |-> v]
<1>1. /\ held \in [Var -> Values] /\ refs \in [Object -> Nat] /\ lost \in [Object -> Nat]
      /\ stack \in Seq(Frame) /\ sinks \in Seq(SinkRecord) /\ own \subseteq Object
      /\ faulted \in BOOLEAN /\ sink \in [EventVar -> 0 .. MaxSinks]
  BY DEF ComInv, TypeOK, Values, SinkRecord
<1>2. held' = [held EXCEPT ![v] = x] /\ held' \in [Var -> Values]
  BY <1>1 DEF Assigns
<1>3. v \in EventVar => fr \in Frame /\ Lengthened(rest, fr, stack')
  <2> HAVE v \in EventVar
  <2>1. fr \in Frame
    BY DEF Frame
  <2>2. stack' = Append(rest, fr)
    BY DEF Assigns
  <2>. HIDE DEF fr
  <2>. QED  BY <2>1, <2>2, Entered
<1>4. v \notin EventVar => stack' = rest
  BY DEF Assigns
<1>5. stack' \in Seq(Frame)
  BY <1>3, <1>4 DEF Lengthened
<1>6. fr.is = "connect" /\ fr.var = v
  OBVIOUS
<1>. HIDE DEF fr
<1>7. /\ \A o \in Object : Cardinality(Resets(o, stack')) = Cardinality(Resets(o, rest))
      /\ \A s : Cardinality(Events(s, stack')) = Cardinality(Events(s, rest))
  <2>1. CASE v \in EventVar
    <3>1. fr \in Frame /\ Lengthened(rest, fr, stack') /\ fr.is # "reset" /\ fr.is # "event"
      BY <1>3, <1>6, <2>1
    <3>2. ASSUME NEW o PROVE /\ Cardinality(Resets(o, stack')) = Cardinality(Resets(o, rest)) + 0
                             /\ Cardinality(Events(o, stack')) = Cardinality(Events(o, rest)) + 0
      BY <3>1, PushedSets
    <3>3. ASSUME NEW o PROVE Cardinality(Resets(o, rest)) \in Nat /\ Cardinality(Events(o, rest)) \in Nat
      BY ActivationsFinite
    <3>. QED  BY <3>2, <3>3
  <2>. QED  BY <2>1, <1>4
<1>8. Called(stack', lost') /\ Activations(stack', sinks, held')
  <2>0. Activations(rest, sinks, held')
    BY DEF Activations, Quiet
  <2>1. CASE v \in EventVar
    <3>1. fr \in Frame /\ Lengthened(rest, fr, stack')
      BY <1>3, <2>1
    <3>. QED  BY <2>0, <3>1, <1>6, PushKeeps
  <2>. QED  BY <2>0, <2>1, <1>4
<1>9. Connected(sink, sinks, held', stack', faulted')
  <2> SUFFICES ASSUME NEW u \in EventVar, sink[u] # 0
               PROVE  \/ held'[u] = sinks[sink[u]].point \/ held'[u] = None
                      \/ faulted' = TRUE \/ Connecting(u, stack')
    BY DEF Connected
  <2>1. CASE u = v
    <3>1. stack'[Len(rest) + 1] = fr /\ Len(rest) + 1 \in DOMAIN stack'
      BY <1>3, <2>1 DEF Lengthened
    <3>. QED  BY <3>1, <1>6, <2>1 DEF Connecting
  <2>2. CASE u # v
    <3>1. u \in Var
      BY ComAssumption
    <3>2. held'[u] = held[u]
      BY <1>1, <1>2, <2>2, <3>1
    <3>3. ~Connecting(u, stack)
      BY DEF Connecting, Quiet
    <3>. QED  BY <3>2, <3>3 DEF ComInv, Connected
  <2>. QED  BY <2>1, <2>2
<1>10. ASSUME NEW o \in Object
       PROVE  Add(Add(count, x, 1), held[v], -1)[o] = Uses(o, held', own', sinks, stack', lost')
  <2>1. Add(Add(count, x, 1), held[v], -1)[o] = count[o] + One(x, o) - One(held[v], o)
    <3>1. Add(count, x, 1)[o] = count[o] + 1 * One(x, o) /\ One(x, o) \in {0, 1}
      BY AddAt
    <3>2. /\ Add(Add(count, x, 1), held[v], -1)[o] = Add(count, x, 1)[o] + (-1) * One(held[v], o)
          /\ One(held[v], o) \in {0, 1}
      BY AddAt
    <3>. QED  BY <3>1, <3>2
  <2>2. Cardinality(Holders(o, held')) = Cardinality(Holders(o, held)) + One(x, o) - One(held[v], o)
    <3>1. Cardinality(Holders(o, [held EXCEPT ![v] = x]))
            = Cardinality(Holders(o, held)) + One(x, o) - One(held[v], o)
      BY <1>1, HoldersAssigned
    <3>. QED  BY <3>1, <1>2
  <2>3. refs[o] = Cardinality(Holders(o, held)) + (IF o \in own THEN 1 ELSE 0) + lost[o]
                  + Cardinality(Sinks(o, sinks)) + Cardinality(Resets(o, stack))
    BY DEF ComInv, Exact, Uses
  <2>4. Cardinality(Resets(o, stack')) = Cardinality(Resets(o, stack))
    BY <1>7
  <2>5. /\ Cardinality(Holders(o, held)) \in Nat /\ Cardinality(Sinks(o, sinks)) \in Nat
        /\ Cardinality(Resets(o, stack)) \in Nat /\ lost[o] \in Nat /\ lost'[o] \in Nat
        /\ refs[o] \in Nat
    BY <1>1, HoldersFinite, SinksFinite, ActivationsFinite
  <2>6. One(x, o) \in Nat /\ One(held[v], o) \in Nat
    BY DEF One
  <2>7. count[o] - lost'[o] = refs[o] - lost[o] /\ count[o] \in Int
    OBVIOUS
  <2>8. Uses(o, held', own', sinks, stack', lost')
          = Cardinality(Holders(o, held')) + (IF o \in own THEN 1 ELSE 0) + lost'[o]
            + Cardinality(Sinks(o, sinks)) + Cardinality(Resets(o, stack'))
    BY DEF Uses
  <2>9. (IF o \in own THEN 1 ELSE 0) \in Nat
    OBVIOUS
  <2>. DEFINE y == One(x, o)
              z == One(held[v], o)
              b == IF o \in own THEN 1 ELSE 0
              H == Cardinality(Holders(o, held))
              S == Cardinality(Sinks(o, sinks))
              R == Cardinality(Resets(o, stack))
  <2>10. Uses(o, held', own', sinks, stack', lost') = (H + y - z) + b + lost'[o] + S + R
    BY ONLY <2>2, <2>4, <2>8
  <2>11. refs[o] = H + b + lost[o] + S + R
    BY ONLY <2>3
  <2>12. Add(Add(count, x, 1), held[v], -1)[o] = count[o] + y - z
    BY ONLY <2>1
  <2>13. y \in Nat /\ z \in Nat /\ b \in Nat /\ H \in Nat /\ S \in Nat /\ R \in Nat
         /\ lost[o] \in Nat /\ lost'[o] \in Nat
    BY <2>5, <2>6, <2>9
  <2>. HIDE DEF y, z, b, H, S, R
  <2>14. count[o] = refs[o] - lost[o] + lost'[o]
    BY ONLY <2>5, <2>7
  <2>15. count[o] = H + b + S + R + lost'[o]
    BY ONLY <2>11, <2>13, <2>14
  <2>. QED  BY ONLY <2>10, <2>12, <2>13, <2>15
<1>11. Counted
  <2>1. /\ refs' = Add(Add(count, x, 1), held[v], -1)
        /\ points' = [o \in Object |-> IF Add(Add(count, x, 1), held[v], -1)[o] = 0
                                       THEN {} ELSE points[o]]
    BY DEF Assigns, Counts
  <2>2. refs' = [o \in Object |-> refs'[o]]
    BY <2>1 DEF Add
  <2>3. refs' = [o \in Object |-> Uses(o, held', own', sinks, stack', lost')]
    BY <1>10, <2>1, <2>2
  <2>4. \A o \in Object : points'[o] = points[o] \/ (refs'[o] = 0 /\ points'[o] = {})
    BY <2>1
  <2>5. points' = [o \in Object |-> points'[o]]
    BY <2>1
  <2>. QED  BY <2>3, <2>4, <2>5 DEF Counted, PointsKept
<1>12. Typed
  BY <1>1, <1>2, <1>5 DEF Typed
<1>13. SameEvents(stack, stack')
  BY <1>7 DEF SameEvents
<1>14. UNCHANGED <<sink, sinks>>
  OBVIOUS
<1>. QED  BY <1>8, <1>9, <1>11, <1>12, <1>13, <1>14, CalmStep


LEMMA CountsKeep ==
  ASSUME NEW count, NEW x, NEW n, Counts(Add(count, x, n), points)
  PROVE  refs' = Add(count, x, n) /\ PointsKept /\ refs' = [o \in Object |-> refs'[o]]
<1>1. refs' = Add(count, x, n) /\ refs' = [o \in Object |-> refs'[o]]
  BY DEF Counts, Add
<1>2. points' = [o \in Object |-> IF Add(count, x, n)[o] = 0 THEN {} ELSE points[o]]
  BY DEF Counts
<1>. QED  BY <1>1, <1>2 DEF PointsKept

\* Nothing happens, but for a statement or a fault.
LEMMA IdleStep ==
  ASSUME ComInv, UNCHANGED <<refs, own, held, sink, sinks, points, stack, lost>>,
         faulted' \in {TRUE, faulted}, statements' \in 0 .. MaxStatements
  PROVE  ComInv'
<1>1. TypeOK'
  BY DEF ComInv, TypeOK
<1>2. Exact'
  BY DEF ComInv, Exact
<1>3. Connected(sink, sinks, held, stack, faulted)'
  BY DEF ComInv, Connected
<1>4. Heard'
  BY DEF ComInv, Heard
<1>5. /\ Called(stack, lost)' /\ Owned(sink, sinks)' /\ Known(points, sinks)'
      /\ Referred(sinks, points, stack)' /\ Activations(stack, sinks, held)'
  BY DEF ComInv
<1>. QED  BY <1>1, <1>2, <1>3, <1>4, <1>5 DEF ComInv

Only(x, o, n) == IF x = o THEN n ELSE 0

\* Objects get references, those that are lost or those of a connection under way.
LEMMA MoreRefs ==
  ASSUME ComInv, NEW x, NEW n \in Nat, NEW m \in Nat,
         \A o \in Object : refs'[o] = refs[o] + Only(x, o, n),
         refs' = [o \in Object |-> refs'[o]], PointsKept,
         \A o \in Object : lost'[o] = lost[o] + Only(x, o, m),
         lost' = [o \in Object |-> lost'[o]],
         UNCHANGED <<own, held, sink, sinks>>,
         faulted' \in BOOLEAN, statements' \in 0 .. MaxStatements,
         stack' \in Seq(Frame), SameEvents(stack, stack'),
         \A o \in Object : Cardinality(Resets(o, stack')) + Only(x, o, m)
                             = Cardinality(Resets(o, stack)) + Only(x, o, n),
         Called(stack', lost'), Activations(stack', sinks, held),
         Connected(sink, sinks, held, stack', faulted')
  PROVE  ComInv'
<1>1. /\ held \in [Var -> Values] /\ refs \in [Object -> Nat] /\ lost \in [Object -> Nat]
      /\ stack \in Seq(Frame) /\ sinks \in Seq(SinkRecord) /\ own \subseteq Object
  BY DEF ComInv, TypeOK, Values, SinkRecord
<1>2. lost' \in [Object -> Nat]
  <2>1. ASSUME NEW o \in Object PROVE lost'[o] \in Nat
    <3>1. lost[o] \in Nat /\ Only(x, o, m) \in Nat
      BY <1>1 DEF Only
    <3>2. lost'[o] = lost[o] + Only(x, o, m)
      OBVIOUS
    <3>. QED  BY ONLY <3>1, <3>2
  <2>. QED  BY <2>1
<1>3. ASSUME NEW o \in Object
      PROVE  refs'[o] = Uses(o, held', own', sinks, stack', lost')
  <2> DEFINE b == IF o \in own THEN 1 ELSE 0
             H == Cardinality(Holders(o, held))
             S == Cardinality(Sinks(o, sinks))
             R == Cardinality(Resets(o, stack))
             T == Cardinality(Resets(o, stack'))
             j == Only(x, o, n)
             i == Only(x, o, m)
  <2>1. refs[o] = H + b + lost[o] + S + R
    BY DEF ComInv, Exact, Uses
  <2>2. Uses(o, held', own', sinks, stack', lost') = H + b + lost'[o] + S + T
    BY DEF Uses
  <2>3. refs'[o] = refs[o] + j /\ lost'[o] = lost[o] + i /\ T + i = R + j
    OBVIOUS
  <2>4. /\ H \in Nat /\ S \in Nat /\ R \in Nat /\ T \in Nat /\ lost[o] \in Nat /\ b \in Nat
        /\ j \in Nat /\ i \in Nat /\ refs[o] \in Nat
    BY <1>1, HoldersFinite, SinksFinite, ActivationsFinite DEF Only
  <2>. HIDE DEF b, H, S, R, T, j, i
  <2>. QED  BY ONLY <2>1, <2>2, <2>3, <2>4
<1>4. Counted
  BY <1>3 DEF Counted
<1>5. Typed
  BY <1>1, <1>2 DEF Typed
<1>6. UNCHANGED <<sink, sinks>> /\ held' = held
  OBVIOUS
<1>7. Activations(stack', sinks, held') /\ Connected(sink, sinks, held', stack', faulted')
  BY <1>6
<1>. QED  BY <1>4, <1>5, <1>6, <1>7, CalmStep


LEMMA StatementQuiet ==
  ASSUME ComInv, Statement
  PROVE  Quiet(stack) /\ statements' \in 0 .. MaxStatements
<1>1. stack \in Seq(Frame) /\ Activations(stack, sinks, held) /\ statements \in 0 .. MaxStatements
  BY DEF ComInv, TypeOK
<1>2. stack # <<>> => stack[Len(stack)].is \notin {"connect", "reset"}
  <2>1. CASE stack # <<>>
    <3>1. Last(stack).is = "event" /\ Last(stack) = stack[Len(stack)]
      BY <1>1, <2>1, Left DEF Statement, Top
    <3>. QED  BY <3>1
  <2>. QED  BY <2>1
<1>3. statements' = statements + 1 /\ statements < MaxStatements
  BY DEF Statement
<1>. QED  BY <1>1, <1>2, <1>3, QuietStacks, ComAssumption

LEMMA SetKeeps ==
  ASSUME ComInv, NEW v \in Var, NEW w \in Var, Set(v, w)
  PROVE  ComInv'
<1>1. Quiet(stack) /\ statements' \in 0 .. MaxStatements
  BY StatementQuiet DEF Set
<1>2. /\ held[w] \in Values /\ stack \in Seq(Frame) /\ refs \in [Object -> Nat]
      /\ lost \in [Object -> Nat] /\ Called(stack, lost) /\ Activations(stack, sinks, held)
  BY DEF ComInv, TypeOK, Values
<1>3. Assigns(v, held[w], refs, stack) /\ UNCHANGED <<own, sink, sinks, faulted>> /\ lost' = lost
  BY DEF Set
<1>4. \A o \in Object : refs[o] - lost'[o] = refs[o] - lost[o] /\ refs[o] \in Int
  BY <1>2, <1>3
<1>5. SameEvents(stack, stack)
  BY DEF SameEvents
<1>. QED  BY <1>1, <1>2, <1>3, <1>4, <1>5, AssignsKeeps

LEMMA CreateKeeps ==
  ASSUME ComInv, NEW v \in Var, NEW ob \in Object, CreateObject(v, ob)
  PROVE  ComInv'
<1>1. Quiet(stack) /\ statements' \in 0 .. MaxStatements
  BY StatementQuiet DEF CreateObject
<1>2. /\ ob \in Values /\ stack \in Seq(Frame) /\ refs \in [Object -> Nat]
      /\ lost \in [Object -> Nat] /\ Called(stack, lost) /\ Activations(stack, sinks, held)
  BY DEF ComInv, TypeOK, Values
<1>3. UNCHANGED <<own, sink, sinks, faulted>> /\ lost' = lost
  BY DEF CreateObject
<1>4. CASE Assigns(v, ob, refs, stack)
  <2>1. \A o \in Object : refs[o] - lost'[o] = refs[o] - lost[o] /\ refs[o] \in Int
    BY <1>2, <1>3
  <2>2. SameEvents(stack, stack)
    BY DEF SameEvents
  <2>. QED  BY <1>1, <1>2, <1>3, <1>4, <2>1, <2>2, AssignsKeeps
<1>5. CASE UNCHANGED <<refs, points, held, stack>>
  BY <1>1, <1>3, <1>5, IdleStep
<1>. QED  BY <1>4, <1>5 DEF CreateObject

LEMMA GetKeeps ==
  ASSUME ComInv, NEW v \in Var, NEW ob \in Object, GetObject(v, ob)
  PROVE  ComInv'
<1>1. Quiet(stack) /\ statements' \in 0 .. MaxStatements
  BY StatementQuiet DEF GetObject
<1>2. /\ ob \in Values /\ stack \in Seq(Frame) /\ refs \in [Object -> Nat]
      /\ lost \in [Object -> Nat] /\ Called(stack, lost) /\ Activations(stack, sinks, held)
      /\ faulted \in BOOLEAN /\ Connected(sink, sinks, held, stack, faulted)
  BY DEF ComInv, TypeOK, Values
<1>3. UNCHANGED <<own, sink, sinks, faulted>> /\ lost' = Add(lost, ob, 1)
  BY DEF GetObject
<1>4. \A o \in Object : lost'[o] = lost[o] + Only(ob, o, 1)
  BY <1>2, <1>3 DEF Add, One, Only
<1>5. SameEvents(stack, stack) /\ lost' = [o \in Object |-> lost'[o]]
  BY <1>3 DEF SameEvents, Add
<1>6. lost' \in [Object -> Nat]
  BY <1>2, <1>4, <1>5 DEF Only
<1>7. Called(stack, lost')
  <2>1. \A o \in Object : lost[o] > 0 => lost'[o] > 0
    BY <1>2, <1>4 DEF Only
  <2>2. \A i \in DOMAIN stack : stack[i].is = "call" => stack[i].obj \in Object
    BY <1>2, FrameFields
  <2>. QED  BY <1>2, <2>1, <2>2 DEF Called
<1>8. CASE Assigns(v, ob, Add(refs, ob, 1), stack)
  <2>1. ASSUME NEW o \in Object
        PROVE  Add(refs, ob, 1)[o] - lost'[o] = refs[o] - lost[o] /\ Add(refs, ob, 1)[o] \in Int
    <3>1. Add(refs, ob, 1)[o] = refs[o] + Only(ob, o, 1)
      BY <1>2 DEF Add, One, Only
    <3>2. refs[o] \in Nat /\ lost[o] \in Nat /\ Only(ob, o, 1) \in Nat
      BY <1>2 DEF Only
    <3>3. lost'[o] = lost[o] + Only(ob, o, 1)
      BY <1>4
    <3>. QED  BY ONLY <3>1, <3>2, <3>3
  <2>. QED  BY <1>1, <1>2, <1>3, <1>5, <1>6, <1>7, <1>8, <2>1, AssignsKeeps
<1>9. CASE Counts(Add(refs, ob, 1), points) /\ UNCHANGED <<held, stack>>
  <2>1. refs' = Add(refs, ob, 1) /\ PointsKept /\ refs' = [o \in Object |-> refs'[o]]
    BY <1>9, CountsKeep
  <2>2. \A o \in Object : refs'[o] = refs[o] + Only(ob, o, 1)
    BY <1>2, <2>1 DEF Add, One, Only
  <2>3. stack' = stack /\ UNCHANGED <<own, held, sink, sinks>> /\ faulted' \in BOOLEAN
    BY <1>2, <1>3, <1>9
  <2>4. \A o \in Object : Cardinality(Resets(o, stack')) + Only(ob, o, 1)
                             = Cardinality(Resets(o, stack)) + Only(ob, o, 1)
    BY <2>3
  <2>5. /\ stack' \in Seq(Frame) /\ SameEvents(stack, stack') /\ Called(stack', lost')
        /\ Activations(stack', sinks, held) /\ Connected(sink, sinks, held, stack', faulted')
    BY <1>2, <1>3, <1>5, <1>7, <2>3
  <2>. QED  BY <1>1, <1>4, <1>5, <2>1, <2>2, <2>3, <2>4, <2>5, MoreRefs
<1>. QED  BY <1>8, <1>9 DEF GetObject


LEMMA LeaveKeeps ==
  ASSUME ComInv, NEW v \in Var, Leave(v)
  PROVE  ComInv'
<1>1. /\ held \in [Var -> Values] /\ stack \in Seq(Frame) /\ refs \in [Object -> Nat]
      /\ lost \in [Object -> Nat] /\ own \subseteq Object /\ faulted \in BOOLEAN
      /\ sinks \in Seq(SinkRecord) /\ statements \in 0 .. MaxStatements
      /\ sink \in [EventVar -> 0 .. MaxSinks]
      /\ Called(stack, lost) /\ Activations(stack, sinks, held)
      /\ Connected(sink, sinks, held, stack, faulted)
  BY DEF ComInv, TypeOK, Values, SinkRecord
<1>2. /\ UNCHANGED <<own, sink, sinks, stack, lost, faulted, statements>>
      /\ stack = <<>> /\ v \notin EventVar
      /\ held' = [held EXCEPT ![v] = None]
      /\ Counts(Add(refs, held[v], -1), points)
  BY DEF Leave
<1>3. held' \in [Var -> Values]
  BY <1>1, <1>2 DEF Values
<1>4. refs' = Add(refs, held[v], -1) /\ PointsKept /\ refs' = [o \in Object |-> refs'[o]]
  BY <1>2, CountsKeep
<1>5. ASSUME NEW o \in Object
      PROVE  refs'[o] = Uses(o, held', own', sinks, stack', lost')
  <2> DEFINE b == IF o \in own THEN 1 ELSE 0
             H == Cardinality(Holders(o, held))
             S == Cardinality(Sinks(o, sinks))
             R == Cardinality(Resets(o, stack))
             y == One(held[v], o)
  <2>1. refs[o] = H + b + lost[o] + S + R
    BY DEF ComInv, Exact, Uses
  <2>2. Cardinality(Holders(o, [held EXCEPT ![v] = None])) = H + One(None, o) - y
    BY <1>1, HoldersAssigned
  <2>3. One(None, o) = 0
    BY ComAssumption DEF One
  <2>4. Uses(o, held', own', sinks, stack', lost') = (H + 0 - y) + b + lost[o] + S + R
    BY <1>2, <2>2, <2>3 DEF Uses
  <2>5. refs'[o] = refs[o] + (-1) * y
    BY <1>4, AddAt
  <2>6. H \in Nat /\ S \in Nat /\ R \in Nat /\ lost[o] \in Nat /\ b \in Nat /\ y \in Nat
    BY <1>1, HoldersFinite, SinksFinite, ActivationsFinite DEF One
  <2>. HIDE DEF b, H, S, R, y
  <2>. QED  BY ONLY <2>1, <2>4, <2>5, <2>6
<1>6. Counted
  BY <1>4, <1>5 DEF Counted
<1>7. Typed
  BY <1>1, <1>2, <1>3 DEF Typed
<1>8. SameEvents(stack, stack') /\ Called(stack', lost') /\ UNCHANGED <<sink, sinks>>
  BY <1>1, <1>2 DEF SameEvents
<1>9. Activations(stack', sinks, held')
  BY <1>2 DEF Activations
<1>10. Connected(sink, sinks, held', stack', faulted')
  <2>1. \A u \in EventVar : held'[u] = held[u]
    BY <1>1, <1>2, ComAssumption
  <2>. QED  BY <1>1, <1>2, <2>1 DEF Connected
<1>. QED  BY <1>6, <1>7, <1>8, <1>9, <1>10, CalmStep

\* A server takes an object of its own, or gives it back.
LEMMA ServersKeep ==
  ASSUME ComInv, NEW ob \in Object, ServerMakes(ob) \/ ServerDrops(ob)
  PROVE  ComInv'
<1>1. /\ held \in [Var -> Values] /\ stack \in Seq(Frame) /\ refs \in [Object -> Nat]
      /\ lost \in [Object -> Nat] /\ own \subseteq Object /\ faulted \in BOOLEAN
      /\ sinks \in Seq(SinkRecord) /\ statements \in 0 .. MaxStatements
      /\ Called(stack, lost) /\ Activations(stack, sinks, held)
      /\ Connected(sink, sinks, held, stack, faulted)
  BY DEF ComInv, TypeOK, Values, SinkRecord
<1>2. UNCHANGED <<held, sink, sinks, stack, lost, faulted, statements>>
  BY DEF ServerMakes, ServerDrops
<1>3. own' \subseteq Object
  BY <1>1 DEF ServerMakes, ServerDrops
<1>4. refs' = [o \in Object |-> refs'[o]] /\ PointsKept
  BY CountsKeep DEF ServerMakes, ServerDrops
<1>5. ASSUME NEW o \in Object
      PROVE  refs'[o] = Uses(o, held', own', sinks, stack', lost')
  <2> DEFINE b == IF o \in own THEN 1 ELSE 0
             c == IF o \in own' THEN 1 ELSE 0
             H == Cardinality(Holders(o, held))
             S == Cardinality(Sinks(o, sinks))
             R == Cardinality(Resets(o, stack))
  <2>1. refs[o] = H + b + lost[o] + S + R
    BY DEF ComInv, Exact, Uses
  <2>2. Uses(o, held', own', sinks, stack', lost') = H + c + lost[o] + S + R
    BY <1>2 DEF Uses
  <2>3. /\ H \in Nat /\ S \in Nat /\ R \in Nat /\ lost[o] \in Nat /\ b \in Nat /\ c \in Nat
        /\ refs[o] \in Nat
    BY <1>1, HoldersFinite, SinksFinite, ActivationsFinite
  <2>4. refs'[o] = refs[o] + c - b
    <3>1. CASE ServerMakes(ob)
      <4>1. refs[ob] = 0 /\ own' = own \cup {ob}
        BY <1>1, <3>1 DEF ServerMakes, Alive
      <4>2. ob \notin own
        <5>1. refs[ob] = Uses(ob, held, own, sinks, stack, lost)
          BY DEF ComInv, Exact
        <5>. QED  BY <1>1, <4>1, <5>1, UsesNat
      <4>3. refs'[o] = refs[o] + 1 * One(ob, o)
        <5>1. refs' = Add(refs, ob, 1)
          BY <3>1, CountsKeep DEF ServerMakes
        <5>. QED  BY <5>1, AddAt
      <4>4. c - b = One(ob, o) /\ One(ob, o) \in {0, 1}
        BY <4>1, <4>2 DEF One
      <4>. HIDE DEF b, c
      <4>. QED  BY ONLY <2>3, <4>3, <4>4
    <3>2. CASE ServerDrops(ob)
      <4>1. own' = own \ {ob} /\ ob \in own
        BY <3>2 DEF ServerDrops
      <4>3. refs'[o] = refs[o] + (-1) * One(ob, o)
        <5>1. refs' = Add(refs, ob, -1)
          BY <3>2, CountsKeep DEF ServerDrops
        <5>. QED  BY <5>1, AddAt
      <4>4. b - c = One(ob, o) /\ One(ob, o) \in {0, 1}
        BY <4>1 DEF One
      <4>. HIDE DEF b, c
      <4>. QED  BY ONLY <2>3, <4>3, <4>4
    <3>. QED  BY <3>1, <3>2
  <2>. HIDE DEF b, c, H, S, R
  <2>. QED  BY ONLY <2>1, <2>2, <2>3, <2>4
<1>6. Counted
  BY <1>4, <1>5 DEF Counted
<1>7. Typed
  BY <1>1, <1>2, <1>3 DEF Typed
<1>8. /\ SameEvents(stack, stack') /\ Called(stack', lost') /\ UNCHANGED <<sink, sinks>>
      /\ Activations(stack', sinks, held') /\ Connected(sink, sinks, held', stack', faulted')
  BY <1>1, <1>2 DEF SameEvents
<1>. QED  BY <1>6, <1>7, <1>8, CalmStep

\* A reference that is lost is one more.
LEMMA LostMore ==
  ASSUME ComInv, NEW x, NEW n \in Nat, lost' = Add(lost, x, n)
  PROVE  /\ \A o \in Object : lost'[o] = lost[o] + Only(x, o, n)
         /\ lost' = [o \in Object |-> lost'[o]]
         /\ Called(stack, lost')
<1>1. lost \in [Object -> Nat] /\ stack \in Seq(Frame) /\ Called(stack, lost)
  BY DEF ComInv, TypeOK
<1>2. ASSUME NEW o \in Object PROVE lost'[o] = lost[o] + Only(x, o, n)
  <2>1. lost'[o] = lost[o] + n * One(x, o)
    BY AddAt
  <2>2. n * One(x, o) = Only(x, o, n)
    BY DEF One, Only
  <2>. QED  BY <2>1, <2>2
<1>3. lost' = [o \in Object |-> lost'[o]]
  BY DEF Add
<1>4. \A o \in Object : lost[o] > 0 => lost'[o] > 0
  <2> SUFFICES ASSUME NEW o \in Object, lost[o] > 0 PROVE lost'[o] > 0
    OBVIOUS
  <2>1. lost[o] \in Nat /\ Only(x, o, n) \in Nat
    BY <1>1 DEF Only
  <2>. QED  BY <1>2, <2>1
<1>5. \A i \in DOMAIN stack : stack[i].is = "call" => stack[i].obj \in Object
  BY <1>1, FrameFields
<1>6. Called(stack, lost')
  BY <1>1, <1>4, <1>5 DEF Called
<1>. QED  BY <1>2, <1>3, <1>6

LEMMA RefsMore ==
  ASSUME ComInv, NEW x, NEW n \in Nat, Counts(Add(refs, x, n), points)
  PROVE  /\ \A o \in Object : refs'[o] = refs[o] + Only(x, o, n)
         /\ refs' = [o \in Object |-> refs'[o]]
         /\ PointsKept
<1>1. refs \in [Object -> Nat]
  BY DEF ComInv, TypeOK
<1>2. refs' = Add(refs, x, n) /\ PointsKept /\ refs' = [o \in Object |-> refs'[o]]
  BY CountsKeep
<1>3. ASSUME NEW o \in Object PROVE refs'[o] = refs[o] + Only(x, o, n)
  <2>1. refs'[o] = refs[o] + n * One(x, o)
    BY <1>2, AddAt
  <2>2. n * One(x, o) = Only(x, o, n)
    BY DEF One, Only
  <2>. QED  BY <2>1, <2>2
<1>. QED  BY <1>2, <1>3


\* What is on top of the stack, and the stack without it.
LEMMA TopLeft ==
  ASSUME ComInv, NEW kind, Top(kind)
  PROVE  /\ Shortened(stack, Front(stack)) /\ Len(stack) \in DOMAIN stack
         /\ stack \in Seq(Frame) /\ Front(stack) \in Seq(Frame)
         /\ Last(stack) = stack[Len(stack)] /\ Last(stack) \in Frame /\ Last(stack).is = kind
         /\ Quiet(Front(stack))
         /\ Activations(Front(stack), sinks, held) /\ Called(Front(stack), lost)
         /\ kind \notin {"connect", "reset"} => Quiet(stack)
         /\ faulted = FALSE
<1>1. /\ stack \in Seq(Frame) /\ Activations(stack, sinks, held) /\ Called(stack, lost)
      /\ faulted \in BOOLEAN
  BY DEF ComInv, TypeOK
<1>2. stack # <<>> /\ Last(stack).is = kind /\ faulted = FALSE
  BY <1>1 DEF Top
<1>3. /\ Shortened(stack, Front(stack)) /\ Last(stack) = stack[Len(stack)] /\ Last(stack) \in Frame
      /\ Len(stack) > 0
  BY <1>1, <1>2, Left
<1>4. Front(stack) \in Seq(Frame) /\ Len(stack) \in DOMAIN stack
  BY <1>1, <1>3 DEF Shortened
<1>5. Quiet(Front(stack)) /\ (kind \notin {"connect", "reset"} => Quiet(stack))
  BY <1>1, <1>2, <1>3, QuietStacks
<1>6. Activations(Front(stack), sinks, held) /\ Called(Front(stack), lost)
  BY <1>1, <1>3, PopKeeps
<1>. QED  BY <1>1, <1>2, <1>3, <1>4, <1>5, <1>6

LEMMA CallKeeps ==
  ASSUME ComInv, NEW v \in Var, NEW to \in Var \cup {None}, NEW arg \in Var \cup {None},
         NEW several \in BOOLEAN, Call(v, to, arg, several)
  PROVE  ComInv'
<1>1. Quiet(stack) /\ statements' \in 0 .. MaxStatements
  BY StatementQuiet DEF Call
<1>2. UNCHANGED <<own, held, sink, sinks>>
  BY DEF Call
<1>3. /\ held \in [Var -> Values] /\ stack \in Seq(Frame) /\ lost \in [Object -> Nat]
      /\ faulted \in BOOLEAN /\ Connected(sink, sinks, held, stack, faulted)
      /\ Activations(stack, sinks, held)
  BY DEF ComInv, TypeOK, Values
<1>4. CASE UNCHANGED <<refs, points, lost, stack>> /\ faulted' \in {TRUE, faulted}
  BY <1>1, <1>2, <1>4, IdleStep
<1>5. CASE held[v] \in Object /\ Takes(held[v], 1) /\ UNCHANGED <<stack, faulted>>
  <2>1. /\ \A o \in Object : refs'[o] = refs[o] + Only(held[v], o, 1)
        /\ refs' = [o \in Object |-> refs'[o]] /\ PointsKept
    BY <1>5, RefsMore DEF Takes
  <2>2. /\ \A o \in Object : lost'[o] = lost[o] + Only(held[v], o, 1)
        /\ lost' = [o \in Object |-> lost'[o]] /\ Called(stack, lost')
    BY <1>5, LostMore DEF Takes
  <2>3. stack' = stack /\ faulted' = faulted
    BY <1>5
  <2>4. /\ stack' \in Seq(Frame) /\ SameEvents(stack, stack') /\ Called(stack', lost')
        /\ Activations(stack', sinks, held) /\ Connected(sink, sinks, held, stack', faulted')
        /\ faulted' \in BOOLEAN
    BY <1>3, <2>2, <2>3 DEF SameEvents
  <2>5. \A o \in Object : Cardinality(Resets(o, stack')) + Only(held[v], o, 1)
                             = Cardinality(Resets(o, stack)) + Only(held[v], o, 1)
    BY <2>3
  <2>. QED  BY <1>1, <1>2, <2>1, <2>2, <2>4, <2>5, MoreRefs
<1>6. CASE held[v] \in Object /\ CallBegins(v, to, arg, several) /\ UNCHANGED faulted
  <2> DEFINE fr == [is |-> "call", obj |-> held[v], to |-> to, arg |-> arg,
                    copied |-> IF several /\ arg # None THEN held[arg] ELSE None]
  <2>1. /\ \A o \in Object : refs'[o] = refs[o] + Only(held[v], o, 2)
        /\ refs' = [o \in Object |-> refs'[o]] /\ PointsKept
    BY <1>6, RefsMore DEF CallBegins, Takes
  <2>2. /\ \A o \in Object : lost'[o] = lost[o] + Only(held[v], o, 2)
        /\ lost' = [o \in Object |-> lost'[o]] /\ Called(stack, lost')
    BY <1>6, LostMore DEF CallBegins, Takes
  <2>3. stack' = Append(stack, fr) /\ faulted' = faulted /\ held[v] \in Object
    BY <1>6 DEF CallBegins
  <2>4. fr.copied \in Object \cup {None, Nothing} /\ (fr.copied \in Object => fr.arg \in Var)
    BY <1>3, ComAssumption DEF Values
  <2>5. fr \in Frame
    BY <2>3, <2>4 DEF Frame
  <2>6. fr.is = "call" /\ fr.obj = held[v]
    OBVIOUS
  <2>. HIDE DEF fr
  <2>7. Lengthened(stack, fr, stack')
    BY <1>3, <2>3, <2>5, Entered
  <2>8. lost'[fr.obj] > 0
    <3>1. lost[held[v]] \in Nat /\ lost'[held[v]] = lost[held[v]] + 2
      BY <1>3, <2>2, <2>3 DEF Only
    <3>. QED  BY <2>6, <3>1
  <2>9. Activations(stack', sinks, held) /\ Called(stack', lost')
    BY <1>1, <1>3, <2>2, <2>4, <2>5, <2>6, <2>7, <2>8, PushKeeps
  <2>10. ASSUME NEW o PROVE /\ Cardinality(Resets(o, stack')) = Cardinality(Resets(o, stack)) + 0
                            /\ Cardinality(Events(o, stack')) = Cardinality(Events(o, stack)) + 0
    BY <1>3, <2>5, <2>6, <2>7, PushedSets
  <2>11. ASSUME NEW o PROVE Cardinality(Resets(o, stack)) \in Nat /\ Cardinality(Events(o, stack)) \in Nat
    BY <1>3, ActivationsFinite
  <2>12. SameEvents(stack, stack')
    BY <2>10, <2>11 DEF SameEvents
  <2>13. \A o \in Object : Cardinality(Resets(o, stack')) + Only(held[v], o, 2)
                             = Cardinality(Resets(o, stack)) + Only(held[v], o, 2)
    BY <2>10, <2>11
  <2>14. Connected(sink, sinks, held, stack', faulted')
    BY <1>1, <1>3, <2>3 DEF Connected, Connecting, Quiet
  <2>15. stack' \in Seq(Frame) /\ faulted' \in BOOLEAN
    BY <1>3, <2>3, <2>7 DEF Lengthened
  <2>. QED  BY <1>1, <1>2, <2>1, <2>2, <2>9, <2>12, <2>13, <2>14, <2>15, MoreRefs
<1>. QED  BY <1>4, <1>5, <1>6 DEF Call

\* A call or an Advise that fails.
LEMMA LeftKeeps ==
  ASSUME ComInv, NEW kind \in {"call", "advise"}, Top(kind), stack' = Front(stack),
         UNCHANGED <<refs, own, held, sink, sinks, points, lost, faulted, statements>>
  PROVE  ComInv'
<1>1. /\ refs \in [Object -> Nat] /\ lost \in [Object -> Nat] /\ points \in [Object -> SUBSET Sink]
      /\ faulted \in BOOLEAN /\ statements \in 0 .. MaxStatements
      /\ Connected(sink, sinks, held, stack, faulted)
  BY DEF ComInv, TypeOK
<1>2. /\ UNCHANGED <<refs, own, held, sink, sinks, points, lost, faulted, statements>>
      /\ stack' = Front(stack)
  OBVIOUS
<1>3. /\ Shortened(stack, stack') /\ stack \in Seq(Frame) /\ stack' \in Seq(Frame)
      /\ stack[Len(stack)].is = kind
      /\ Activations(stack', sinks, held) /\ Called(stack', lost) /\ Quiet(stack)
  <2>1. Top(kind) /\ kind \notin {"connect", "reset"}
    OBVIOUS
  <2>2. /\ Shortened(stack, Front(stack)) /\ stack \in Seq(Frame) /\ Front(stack) \in Seq(Frame)
        /\ Last(stack) = stack[Len(stack)] /\ Last(stack).is = kind
        /\ Activations(Front(stack), sinks, held) /\ Called(Front(stack), lost) /\ Quiet(stack)
    BY <2>1, TopLeft
  <2>. QED  BY <1>2, <2>2
<1>4. ASSUME NEW o PROVE /\ Cardinality(Resets(o, stack')) = Cardinality(Resets(o, stack)) - 0
                         /\ Cardinality(Events(o, stack')) = Cardinality(Events(o, stack)) - 0
  BY <1>3, PoppedSets
<1>5. ASSUME NEW o PROVE Cardinality(Resets(o, stack)) \in Nat /\ Cardinality(Events(o, stack)) \in Nat
  BY <1>3, ActivationsFinite
<1>6. SameEvents(stack, stack')
  BY <1>4, <1>5 DEF SameEvents
<1>7. \A o \in Object : Cardinality(Resets(o, stack')) + Only(None, o, 0)
                           = Cardinality(Resets(o, stack)) + Only(None, o, 0)
  BY <1>4, <1>5
<1>8. \A o \in Object : refs'[o] = refs[o] + Only(None, o, 0) /\ lost'[o] = lost[o] + Only(None, o, 0)
  BY <1>1, <1>2 DEF Only
<1>9. PointsKept /\ refs' = [o \in Object |-> refs'[o]] /\ lost' = [o \in Object |-> lost'[o]]
  BY <1>1, <1>2 DEF PointsKept
<1>10. Connected(sink, sinks, held, stack', faulted')
  BY <1>1, <1>2, <1>3 DEF Connected, Connecting, Quiet
<1>11. UNCHANGED <<own, held, sink, sinks>> /\ faulted' \in BOOLEAN /\ statements' \in 0 .. MaxStatements
       /\ Called(stack', lost')
  BY <1>1, <1>2, <1>3
<1>. QED  BY <1>3, <1>6, <1>7, <1>8, <1>9, <1>10, <1>11, MoreRefs


LEMMA ReturnKeeps ==
  ASSUME ComInv, NEW x \in Values, CallReturns(x)
  PROVE  ComInv'
<1> DEFINE rest == Front(stack)
           to == Last(stack).to
<1>1. /\ refs \in [Object -> Nat] /\ lost \in [Object -> Nat] /\ faulted \in BOOLEAN
      /\ statements \in 0 .. MaxStatements /\ Connected(sink, sinks, held, stack, faulted)
  BY DEF ComInv, TypeOK
<1>2. /\ UNCHANGED <<own, sink, sinks, faulted, statements>> /\ lost' = Add(lost, x, 1)
      /\ IF to = None
           THEN Counts(Add(refs, x, 1), points) /\ stack' = rest /\ UNCHANGED held
           ELSE Assigns(to, x, Add(refs, x, 1), rest)
  BY DEF CallReturns
<1>3. /\ Shortened(stack, rest) /\ stack \in Seq(Frame) /\ rest \in Seq(Frame)
      /\ stack[Len(stack)].is = "call" /\ to \in Var \cup {None} /\ Quiet(rest)
      /\ Activations(rest, sinks, held) /\ Called(rest, lost) /\ Quiet(stack)
  <2>1. Top("call") /\ "call" \notin {"connect", "reset"}
    BY DEF CallReturns
  <2>2. /\ Shortened(stack, Front(stack)) /\ stack \in Seq(Frame) /\ Front(stack) \in Seq(Frame)
        /\ Last(stack) = stack[Len(stack)] /\ Last(stack).is = "call" /\ Last(stack) \in Frame
        /\ Activations(Front(stack), sinks, held) /\ Called(Front(stack), lost) /\ Quiet(stack)
        /\ Quiet(Front(stack))
    BY <2>1, TopLeft
  <2>3. Last(stack).to \in Var \cup {None}
    BY <2>2, FrameFields
  <2>. QED  BY <2>2, <2>3
<1>. HIDE DEF rest, to
<1>4. ASSUME NEW o PROVE /\ Cardinality(Resets(o, rest)) = Cardinality(Resets(o, stack)) - 0
                         /\ Cardinality(Events(o, rest)) = Cardinality(Events(o, stack)) - 0
  BY <1>3, PoppedSets
<1>5. ASSUME NEW o PROVE Cardinality(Resets(o, stack)) \in Nat /\ Cardinality(Events(o, stack)) \in Nat
  BY <1>3, ActivationsFinite
<1>6. /\ SameEvents(stack, rest)
      /\ \A o \in Object : Cardinality(Resets(o, rest)) = Cardinality(Resets(o, stack))
  BY <1>4, <1>5 DEF SameEvents
<1>7. /\ \A o \in Object : lost'[o] = lost[o] + Only(x, o, 1)
      /\ lost' = [o \in Object |-> lost'[o]] /\ Called(stack, lost')
  BY <1>2, LostMore
<1>8. Called(rest, lost')
  BY <1>3, <1>7, PopKeeps
<1>9. statements' \in 0 .. MaxStatements /\ UNCHANGED <<own, sink, sinks, faulted>>
      /\ faulted' \in BOOLEAN
  BY <1>1, <1>2
<1>10. CASE to = None
  <2>1. Counts(Add(refs, x, 1), points) /\ stack' = rest /\ held' = held
    BY <1>2, <1>10
  <2>2. /\ \A o \in Object : refs'[o] = refs[o] + Only(x, o, 1)
        /\ refs' = [o \in Object |-> refs'[o]] /\ PointsKept
    BY <2>1, RefsMore
  <2>3. \A o \in Object : Cardinality(Resets(o, stack')) + Only(x, o, 1)
                             = Cardinality(Resets(o, stack)) + Only(x, o, 1)
    BY <1>6, <2>1
  <2>4. Connected(sink, sinks, held, stack', faulted')
    BY <1>1, <1>2, <1>3 DEF Connected, Connecting, Quiet
  <2>5. /\ stack' \in Seq(Frame) /\ SameEvents(stack, stack') /\ Called(stack', lost')
        /\ Activations(stack', sinks, held) /\ UNCHANGED <<own, held, sink, sinks>>
    BY <1>3, <1>6, <1>8, <1>9, <2>1
  <2>. QED  BY <1>7, <1>9, <2>2, <2>3, <2>4, <2>5, MoreRefs
<1>11. CASE to # None
  <2>1. Assigns(to, x, Add(refs, x, 1), rest) /\ to \in Var
    BY <1>2, <1>3, <1>11
  <2>2. ASSUME NEW o \in Object
        PROVE  /\ Add(refs, x, 1)[o] - lost'[o] = refs[o] - lost[o]
               /\ Add(refs, x, 1)[o] \in Int /\ lost'[o] \in Nat
    <3>1. Add(refs, x, 1)[o] = refs[o] + Only(x, o, 1)
      BY <1>1 DEF Add, One, Only
    <3>2. refs[o] \in Nat /\ lost[o] \in Nat /\ Only(x, o, 1) \in Nat
      BY <1>1 DEF Only
    <3>3. lost'[o] = lost[o] + Only(x, o, 1)
      BY <1>7
    <3>. QED  BY ONLY <3>1, <3>2, <3>3
  <2>3. lost' \in [Object -> Nat]
    BY <1>7, <2>2
  <2>. QED  BY <1>3, <1>6, <1>8, <1>9, <2>1, <2>2, <2>3, AssignsKeeps
<1>. QED  BY <1>10, <1>11

LEMMA ConnectKeeps ==
  ASSUME ComInv, Connect
  PROVE  ComInv'
<1> DEFINE rest == Front(stack)
           v == Last(stack).var
           ob == held[v]
<1>1. /\ refs \in [Object -> Nat] /\ lost \in [Object -> Nat] /\ faulted \in BOOLEAN
      /\ points \in [Object -> SUBSET Sink]
      /\ statements \in 0 .. MaxStatements /\ Connected(sink, sinks, held, stack, faulted)
  BY DEF ComInv, TypeOK
<1>2. /\ UNCHANGED <<own, held, sink, sinks, statements>>
      /\ \/ ob = None /\ stack' = rest /\ UNCHANGED <<refs, points, lost, faulted>>
         \/ ob # None /\ faulted' = TRUE /\ UNCHANGED <<refs, points, lost, stack>>
         \/ /\ ob \in Object /\ Len(sinks) < MaxSinks
            /\ Counts(Add(refs, ob, 2), points) /\ lost' = Add(lost, ob, 1)
            /\ stack' = Append(rest, [is |-> "reset", var |-> v, point |-> ob])
            /\ UNCHANGED faulted
  BY DEF Connect
<1>3. /\ Shortened(stack, rest) /\ stack \in Seq(Frame) /\ rest \in Seq(Frame)
      /\ stack[Len(stack)].is = "connect" /\ stack[Len(stack)].var = v /\ v \in EventVar /\ Quiet(rest)
      /\ Activations(rest, sinks, held) /\ Called(rest, lost)
  <2>1. Top("connect")
    BY DEF Connect
  <2>2. /\ Shortened(stack, Front(stack)) /\ stack \in Seq(Frame) /\ Front(stack) \in Seq(Frame)
        /\ Last(stack) = stack[Len(stack)] /\ Last(stack).is = "connect" /\ Last(stack) \in Frame
        /\ Activations(Front(stack), sinks, held) /\ Called(Front(stack), lost)
        /\ Quiet(Front(stack))
    BY <2>1, TopLeft
  <2>3. Last(stack).var \in EventVar
    BY <2>2, FrameFields
  <2>. QED  BY <2>2, <2>3
<1>a. ob = held[v]
  OBVIOUS
<1>. HIDE DEF rest, v, ob
<1>4. ASSUME NEW o PROVE /\ Cardinality(Resets(o, rest)) = Cardinality(Resets(o, stack)) - 0
                         /\ Cardinality(Events(o, rest)) = Cardinality(Events(o, stack)) - 0
  BY <1>3, PoppedSets
<1>5. ASSUME NEW o PROVE Cardinality(Resets(o, stack)) \in Nat /\ Cardinality(Events(o, stack)) \in Nat
  BY <1>3, ActivationsFinite
<1>6. SameEvents(stack, rest)
  BY <1>4, <1>5 DEF SameEvents
\* Another variable is not being connected.
<1>7. \A u : Connecting(u, stack) => u = v
  BY <1>3 DEF Connecting, Quiet, Shortened
<1>8. statements' \in 0 .. MaxStatements /\ UNCHANGED <<own, held, sink, sinks>>
  BY <1>1, <1>2
<1>9. CASE ob = None /\ stack' = rest /\ UNCHANGED <<refs, points, lost, faulted>>
  <2>1. \A o \in Object : refs'[o] = refs[o] + Only(None, o, 0) /\ lost'[o] = lost[o] + Only(None, o, 0)
    BY <1>1, <1>9 DEF Only
  <2>2. PointsKept /\ refs' = [o \in Object |-> refs'[o]] /\ lost' = [o \in Object |-> lost'[o]]
    BY <1>1, <1>9 DEF PointsKept
  <2>3. \A o \in Object : Cardinality(Resets(o, stack')) + Only(None, o, 0)
                             = Cardinality(Resets(o, stack)) + Only(None, o, 0)
    BY <1>4, <1>5, <1>9
  <2>4. Connected(sink, sinks, held, stack', faulted')
    <3>1. \A u \in EventVar : Connecting(u, stack) => held[u] = None
      BY <1>7, <1>9, <1>a
    <3>. QED  BY <1>1, <1>9, <3>1 DEF Connected
  <2>5. /\ stack' \in Seq(Frame) /\ SameEvents(stack, stack') /\ Called(stack', lost')
        /\ Activations(stack', sinks, held) /\ faulted' \in BOOLEAN
    BY <1>1, <1>3, <1>6, <1>9
  <2>. QED  BY <1>8, <2>1, <2>2, <2>3, <2>4, <2>5, MoreRefs
<1>10. CASE ob # None /\ faulted' = TRUE /\ UNCHANGED <<refs, points, lost, stack>>
  BY <1>8, <1>10, IdleStep
<1>11. CASE /\ ob \in Object /\ Len(sinks) < MaxSinks
            /\ Counts(Add(refs, ob, 2), points) /\ lost' = Add(lost, ob, 1)
            /\ stack' = Append(rest, [is |-> "reset", var |-> v, point |-> ob])
            /\ UNCHANGED faulted
  <2> DEFINE fr == [is |-> "reset", var |-> v, point |-> ob]
  <2>1. fr \in Frame
    BY <1>3, <1>11 DEF Frame
  <2>2. stack' = Append(rest, fr)
    BY <1>11
  <2>3. fr.is = "reset" /\ fr.var = v /\ fr.point = ob
    OBVIOUS
  <2>. HIDE DEF fr
  <2>4. Lengthened(rest, fr, stack')
    BY <1>3, <2>1, <2>2, Entered
  <2>5. /\ \A o \in Object : refs'[o] = refs[o] + Only(ob, o, 2)
        /\ refs' = [o \in Object |-> refs'[o]] /\ PointsKept
    BY <1>11, RefsMore
  <2>6. /\ \A o \in Object : lost'[o] = lost[o] + Only(ob, o, 1)
        /\ lost' = [o \in Object |-> lost'[o]] /\ Called(stack, lost')
    BY <1>11, LostMore
  <2>7. Called(rest, lost')
    BY <1>3, <2>6, PopKeeps
  <2>8. Activations(stack', sinks, held) /\ Called(stack', lost')
    <3>1. held[fr.var] = fr.point /\ Len(sinks) < MaxSinks
      BY <1>11, <1>a, <2>3
    <3>2. fr.is \notin {"event", "advise"} /\ fr.is # "call"
      BY <2>3
    <3>. QED  BY <1>3, <2>1, <2>4, <2>7, <3>1, <3>2, PushKeeps
  <2>9. ASSUME NEW o
        PROVE  /\ Cardinality(Resets(o, stack')) = Cardinality(Resets(o, rest)) + (IF ob = o THEN 1 ELSE 0)
               /\ Cardinality(Events(o, stack')) = Cardinality(Events(o, rest)) + 0
    <3>1. /\ Cardinality(Resets(o, stack')) = Cardinality(Resets(o, rest))
                + (IF fr.is = "reset" /\ fr.point = o THEN 1 ELSE 0)
          /\ Cardinality(Events(o, stack')) = Cardinality(Events(o, rest))
                + (IF fr.is = "event" /\ fr.sink = o THEN 1 ELSE 0)
      BY <1>3, <2>1, <2>4, PushedSets
    <3>. QED  BY <2>3, <3>1
  <2>10. ASSUME NEW o
         PROVE  /\ Cardinality(Resets(o, stack')) = Cardinality(Resets(o, stack)) + (IF ob = o THEN 1 ELSE 0)
                /\ Cardinality(Events(o, stack')) = Cardinality(Events(o, stack))
                /\ Cardinality(Resets(o, stack)) \in Nat
    BY <1>4, <1>5, <2>9
  <2>14. SameEvents(stack, stack')
    BY <2>10 DEF SameEvents
  <2>11. \A o \in Object : Cardinality(Resets(o, stack')) + Only(ob, o, 1)
                              = Cardinality(Resets(o, stack)) + Only(ob, o, 2)
    BY <2>10 DEF Only
  <2>12. Connected(sink, sinks, held, stack', faulted')
    <3>1. Connecting(v, stack')
      BY <2>3, <2>4 DEF Connecting, Lengthened
    <3>. QED  BY <1>1, <1>7, <1>11, <3>1 DEF Connected
  <2>13. stack' \in Seq(Frame) /\ faulted' \in BOOLEAN
    BY <1>1, <1>11, <2>4 DEF Lengthened
  <2>. QED  BY <1>8, <2>5, <2>6, <2>8, <2>14, <2>11, <2>12, <2>13, MoreRefs
<1>. QED  BY <1>2, <1>9, <1>10, <1>11


-----------------------------------------------------------------------------
(* Steps of the sinks. *)

\* A sequence with one of its sinks replaced.
LEMMA SinkChanged ==
  ASSUME NEW k \in Seq(SinkRecord), NEW s \in DOMAIN k, NEW r \in SinkRecord
  PROVE  /\ [k EXCEPT ![s] = r] \in Seq(SinkRecord)
         /\ DOMAIN [k EXCEPT ![s] = r] = DOMAIN k
         /\ Len([k EXCEPT ![s] = r]) = Len(k)
         /\ [k EXCEPT ![s] = r][s] = r
         /\ \A i \in DOMAIN k : i # s => [k EXCEPT ![s] = r][i] = k[i]
  OBVIOUS

\* A sink's references change, and its Advise may go well.
LEMMA SinkTouched ==
  ASSUME ComInv, NEW s \in DOMAIN sinks, NEW r \in SinkRecord, sinks' = [sinks EXCEPT ![s] = r],
         r.of = sinks[s].of, r.point = sinks[s].point, r.gone = sinks[s].gone, s \in Sink,
         \/ points' = points /\ r.advised = sinks[s].advised
         \/ points' = [points EXCEPT ![r.point] = @ \cup {s}] /\ r.advised = ~r.gone,
         UNCHANGED <<refs, own, held, sink, lost, statements>>, faulted' \in {TRUE, faulted},
         stack' \in Seq(Frame),
         \A o \in Object : Cardinality(Resets(o, stack')) = Cardinality(Resets(o, stack)),
         Quiet(stack), Called(stack', lost), Activations(stack', sinks, held), Quiet(stack'),
         \A i : i # s => Cardinality(Events(i, stack')) = Cardinality(Events(i, stack)),
         r.refs >= 1 + (IF s \in points'[r.point] THEN 1 ELSE 0) + Cardinality(Events(s, stack'))
  PROVE  ComInv'
<1>1. /\ sinks \in Seq(SinkRecord) /\ points \in [Object -> SUBSET Sink] /\ faulted \in BOOLEAN
      /\ stack \in Seq(Frame)
  BY DEF ComInv, TypeOK, SinkRecord
<1>2. /\ sinks' \in Seq(SinkRecord) /\ DOMAIN sinks' = DOMAIN sinks /\ Len(sinks') = Len(sinks)
      /\ sinks'[s] = r
      /\ \A i \in DOMAIN sinks : i # s => sinks'[i] = sinks[i]
  BY <1>1, SinkChanged
<1>3. \A i \in DOMAIN sinks : /\ sinks'[i].of = sinks[i].of /\ sinks'[i].point = sinks[i].point
                              /\ sinks'[i].gone = sinks[i].gone
  BY <1>2
<1>4. r.point \in Object /\ r.gone \in BOOLEAN /\ r.advised \in BOOLEAN
  BY DEF SinkRecord
<1>5. /\ \A o \in Object : points'[o] = points[o] \/ (o = r.point /\ points'[o] = points[o] \cup {s}
                                                      /\ r.advised = ~r.gone)
      /\ points' \in [Object -> SUBSET Sink]
  BY <1>1, <1>4
<1>6. /\ refs' = refs /\ own' = own /\ held' = held /\ sink' = sink /\ lost' = lost
      /\ statements' = statements /\ faulted' \in BOOLEAN
  BY <1>1
<1>7. TypeOK'
  BY <1>1, <1>2, <1>5, <1>6 DEF ComInv, TypeOK, SinkRecord
<1>8. Exact'
  <2>1. ASSUME NEW o \in Object PROVE Uses(o, held, own, sinks', stack', lost)
                                        = Uses(o, held, own, sinks, stack, lost)
    <3>1. Sinks(o, sinks') = Sinks(o, sinks)
      BY <1>2, <1>3 DEF Sinks
    <3>2. Cardinality(Resets(o, stack')) = Cardinality(Resets(o, stack))
      OBVIOUS
    <3>. QED  BY <3>1, <3>2 DEF Uses
  <2>. QED  BY <1>6, <2>1 DEF ComInv, Exact
<1>9. Owned(sink, sinks)'
  BY <1>2, <1>3, <1>6 DEF ComInv, Owned
<1>10. Known(points, sinks)'
  <2> SUFFICES ASSUME NEW o \in Object, NEW i \in points'[o]
               PROVE  i \in DOMAIN sinks' /\ sinks'[i].point = o
                      /\ (sinks'[i].gone <=> ~sinks'[i].advised)
    BY DEF Known
  <2>1. CASE i \in points[o] /\ i # s
    BY <1>2, <2>1 DEF ComInv, Known
  <2>2. CASE i = s /\ points'[o] = points[o] /\ r.advised = sinks[s].advised
    BY <1>2, <2>2 DEF ComInv, Known
  <2>3. CASE i = s /\ r.advised = ~r.gone
    <3>1. o = r.point
      BY <1>5, <2>3 DEF ComInv, Known
    <3>. QED  BY <1>2, <1>4, <2>3, <3>1
  <2>. QED  BY <1>5, <2>1, <2>2, <2>3
<1>11. Referred(sinks, points, stack)'
  <2> SUFFICES ASSUME NEW i \in DOMAIN sinks
               PROVE  sinks'[i].refs >= 1 + (IF i \in points'[sinks'[i].point] THEN 1 ELSE 0)
                                          + Cardinality(Events(i, stack'))
    BY <1>2 DEF Referred
  <2>1. CASE i = s
    BY <1>2, <2>1
  <2>2. CASE i # s
    <3>1. sinks'[i] = sinks[i] /\ sinks[i].point \in Object
      BY <1>1, <1>2, <2>2, SinkFields
    <3>2. i \in points'[sinks[i].point] <=> i \in points[sinks[i].point]
      BY <1>5, <2>2, <3>1
    <3>. QED  BY <2>2, <3>1, <3>2 DEF ComInv, Referred
  <2>. QED  BY <2>1, <2>2
<1>12. Activations(stack, sinks, held)' /\ Called(stack, lost)'
  BY <1>2, <1>6 DEF Activations, Called, Quiet
<1>13. Connected(sink, sinks, held, stack, faulted)'
  <2> SUFFICES ASSUME NEW u \in EventVar, sink[u] # 0
               PROVE  \/ held[u] = sinks'[sink[u]].point \/ held[u] = None \/ faulted' = TRUE
    BY <1>6 DEF Connected
  <2>1. ~Connecting(u, stack)
    BY DEF Connecting, Quiet
  <2>2. sink[u] \in DOMAIN sinks
    BY DEF ComInv, Owned
  <2>. QED  BY <1>3, <2>1, <2>2 DEF ComInv, Connected
<1>14. Heard'
  <2> SUFFICES ASSUME NEW v \in EventVar, sink[v] # 0, sinks'[sink[v]].advised,
                      sink[v] \notin points'[sinks'[sink[v]].point]
               PROVE  \E f \in DOMAIN sinks : /\ f # sink[v] /\ sinks'[f].gone /\ ~sinks'[f].advised
                                              /\ sinks'[f].point = sinks'[sink[v]].point
    BY <1>2, <1>6 DEF Heard
  <2>1. sink[v] \in DOMAIN sinks
    BY DEF ComInv, Owned
  <2>2. sinks[sink[v]].point \in Object
    BY <1>1, <2>1, SinkFields
  <2>3. sinks[sink[v]].advised /\ sink[v] \notin points[sinks[sink[v]].point]
    <3>1. CASE sink[v] = s /\ points' = points /\ r.advised = sinks[s].advised
      BY <1>2, <1>3, <2>1, <3>1
    <3>2. CASE sink[v] = s /\ points' = [points EXCEPT ![r.point] = @ \cup {s}]
      BY <1>1, <1>2, <1>4, <3>2
    <3>3. CASE sink[v] # s
      BY <1>2, <1>5, <2>1, <2>2, <3>3
    <3>. QED  BY <3>1, <3>2, <3>3
  <2>4. PICK f \in DOMAIN sinks : /\ f # sink[v] /\ sinks[f].gone /\ ~sinks[f].advised
                                  /\ sinks[f].point = sinks[sink[v]].point
    BY <2>3 DEF ComInv, Heard
  <2>5. ~sinks'[f].advised
    <3>1. CASE f = s
      BY <1>2, <1>4, <2>4, <3>1
    <3>2. CASE f # s
      BY <1>2, <2>4, <3>2
    <3>. QED  BY <3>1, <3>2
  <2>. QED  BY <1>3, <2>1, <2>4, <2>5
<1>. QED  BY <1>7, <1>8, <1>9, <1>10, <1>11, <1>12, <1>13, <1>14 DEF ComInv


LEMMA AdviseKeeps ==
  ASSUME ComInv, Advise
  PROVE  ComInv'
<1> DEFINE s == Last(stack).sink
           rest == Front(stack)
<1>1. /\ stack' = rest
      /\ UNCHANGED <<refs, own, held, sink, lost, faulted, statements>>
      /\ \/ /\ points' = [points EXCEPT ![sinks[s].point] = @ \cup {s}]
            /\ sinks' = [sinks EXCEPT ![s].refs = @ + 1, ![s].advised = ~sinks[s].gone]
         \/ UNCHANGED <<points, sinks>>
      /\ Top("advise")
  BY DEF Advise
<1>2. CASE UNCHANGED <<points, sinks>>
  BY <1>1, <1>2, LeftKeeps
<1>3. CASE /\ points' = [points EXCEPT ![sinks[s].point] = @ \cup {s}]
           /\ sinks' = [sinks EXCEPT ![s].refs = @ + 1, ![s].advised = ~sinks[s].gone]
  <2>1. /\ Shortened(stack, rest) /\ stack \in Seq(Frame) /\ rest \in Seq(Frame)
        /\ Last(stack) = stack[Len(stack)] /\ Last(stack).is = "advise" /\ Last(stack) \in Frame
        /\ Activations(rest, sinks, held) /\ Called(rest, lost) /\ Quiet(stack) /\ Quiet(rest)
        /\ Len(stack) \in DOMAIN stack
    <3>1. Top("advise") /\ "advise" \notin {"connect", "reset"}
      BY <1>1
    <3>. QED  BY <3>1, TopLeft
  <2>2. s \in Sink /\ s \in DOMAIN sinks
    BY <2>1, FrameFields DEF ComInv, Activations
  <2>3. /\ sinks \in Seq(SinkRecord) /\ points \in [Object -> SUBSET Sink] /\ faulted \in BOOLEAN
    BY DEF ComInv, TypeOK, SinkRecord
  <2> DEFINE r == [sinks[s] EXCEPT !.refs = @ + 1, !.advised = ~sinks[s].gone]
  <2>4. sinks[s] \in SinkRecord
    BY <2>2, <2>3
  <2>5. /\ r \in SinkRecord /\ r.of = sinks[s].of /\ r.point = sinks[s].point
        /\ r.gone = sinks[s].gone /\ r.refs = sinks[s].refs + 1 /\ r.advised = ~r.gone
        /\ sinks[s].refs \in Nat /\ r.point \in Object
    <3>1. sinks[s].refs \in Nat /\ sinks[s].point \in Object
      BY <2>4 DEF SinkRecord
    <3>2. r \in SinkRecord
      <4>1. sinks[s].refs + 1 \in Nat /\ (~sinks[s].gone) \in BOOLEAN
        BY <3>1
      <4> DEFINE n == sinks[s].refs + 1
                 b == ~sinks[s].gone
      <4>2. r = [sinks[s] EXCEPT !.refs = n, !.advised = b]
        OBVIOUS
      <4>. HIDE DEF n, b, r
      <4>3. n \in Nat /\ b \in BOOLEAN
        BY <4>1 DEF n, b
      <4>. QED  BY <2>4, <4>2, <4>3 DEF SinkRecord
    <3>3. /\ r.of = sinks[s].of /\ r.point = sinks[s].point /\ r.gone = sinks[s].gone
          /\ r.refs = sinks[s].refs + 1
      BY <2>4 DEF SinkRecord
    <3>4. r.advised = ~sinks[s].gone
      BY <2>4, Zenon DEF SinkRecord
    <3>. QED  BY <3>1, <3>2, <3>3, <3>4
  <2>6. sinks' = [sinks EXCEPT ![s] = r]
    BY <1>3, <2>2, <2>3, <2>4 DEF SinkRecord
  <2>. HIDE DEF s, rest, r
  <2>7. points' = [points EXCEPT ![r.point] = @ \cup {s}]
    BY <1>3, <2>5
  <2>8. ASSUME NEW o
        PROVE  /\ Cardinality(Resets(o, rest)) = Cardinality(Resets(o, stack)) - 0
               /\ Cardinality(Events(o, rest)) = Cardinality(Events(o, stack)) - 0
               /\ Cardinality(Resets(o, stack)) \in Nat /\ Cardinality(Events(o, stack)) \in Nat
    BY <2>1, PoppedSets, ActivationsFinite
  <2>9. /\ \A o \in Object : Cardinality(Resets(o, stack')) = Cardinality(Resets(o, stack))
        /\ \A i : Cardinality(Events(i, stack')) = Cardinality(Events(i, stack))
    BY <1>1, <2>8
  <2>10. r.refs >= 1 + (IF s \in points'[r.point] THEN 1 ELSE 0) + Cardinality(Events(s, stack'))
    <3>1. sinks[s].refs >= 1 + (IF s \in points[sinks[s].point] THEN 1 ELSE 0)
                             + Cardinality(Events(s, stack))
      BY <2>2 DEF ComInv, Referred
    <3>2. Cardinality(Events(s, stack)) \in Nat
      BY <2>8
    <3>3. Cardinality(Events(s, stack')) = Cardinality(Events(s, stack))
      BY <2>9
    <3>. QED  BY <2>5, <3>1, <3>2, <3>3
  <2>11. /\ stack' \in Seq(Frame) /\ Called(stack', lost) /\ Activations(stack', sinks, held)
         /\ Quiet(stack') /\ faulted' \in {TRUE, faulted}
         /\ UNCHANGED <<refs, own, held, sink, lost, statements>>
    BY <1>1, <2>1
  <2>. QED  BY <2>1, <2>2, <2>5, <2>6, <2>7, <2>9, <2>10, <2>11, SinkTouched
<1>. QED  BY <1>1, <1>2, <1>3

LEMMA FireKeeps ==
  ASSUME ComInv, NEW ob \in Object, NEW s \in points[ob], Fire(ob, s)
  PROVE  ComInv'
<1>1. /\ sinks \in Seq(SinkRecord) /\ points \in [Object -> SUBSET Sink] /\ faulted \in BOOLEAN
      /\ stack \in Seq(Frame) /\ Activations(stack, sinks, held) /\ Called(stack, lost)
      /\ statements \in 0 .. MaxStatements
  BY DEF ComInv, TypeOK, SinkRecord
<1>2. s \in DOMAIN sinks /\ s \in Sink
  BY <1>1 DEF ComInv, Known
<1>3. UNCHANGED <<refs, own, held, sink, points, lost, statements>>
  BY DEF Fire
<1>4. CASE sinks[s].gone
  <2>1. faulted' = TRUE /\ UNCHANGED <<sinks, stack>>
    BY <1>4 DEF Fire
  <2>. QED  BY <1>1, <1>3, <2>1, IdleStep
<1>5. CASE ~sinks[s].gone
  <2> DEFINE r == [sinks[s] EXCEPT !.refs = @ + 1]
             fr == [is |-> "event", sink |-> s]
  <2>1. /\ sinks' = [sinks EXCEPT ![s].refs = @ + 1] /\ stack' = Append(stack, fr)
        /\ faulted' = faulted
    BY <1>5 DEF Fire
  <2>2. sinks[s] \in SinkRecord
    BY <1>1, <1>2
  <2>3. /\ r \in SinkRecord /\ r.of = sinks[s].of /\ r.point = sinks[s].point
        /\ r.gone = sinks[s].gone /\ r.refs = sinks[s].refs + 1 /\ r.advised = sinks[s].advised
        /\ sinks[s].refs \in Nat /\ r.point \in Object
    BY <2>2 DEF SinkRecord
  <2>4. sinks' = [sinks EXCEPT ![s] = r]
    BY <1>1, <1>2, <2>1
  <2>5. fr \in Frame /\ fr.is = "event" /\ fr.sink = s
    BY <1>2 DEF Frame
  <2>. HIDE DEF r, fr
  <2>6. Lengthened(stack, fr, stack')
    BY <1>1, <2>1, <2>5, Entered
  <2>7. Quiet(stack)
    <3>1. CASE stack = <<>>
      BY <3>1 DEF Quiet
    <3>2. ASSUME NEW kind \in {"call", "advise"}, Top(kind) PROVE Quiet(stack)
      <4>1. kind \notin {"connect", "reset"}
        OBVIOUS
      <4>. QED  BY <3>2, <4>1, TopLeft
    <3>. QED  BY <3>1, <3>2 DEF Fire
  <2>8. Activations(stack', sinks, held) /\ Called(stack', lost)
    <3>1. fr.is \notin {"connect", "reset"} /\ fr.is # "call" /\ fr.sink \in DOMAIN sinks
      BY <1>2, <2>5
    <3>. QED  BY <1>1, <2>5, <2>6, <2>7, <3>1, PushKeeps
  <2>9. ASSUME NEW o
        PROVE  /\ Cardinality(Resets(o, stack')) = Cardinality(Resets(o, stack)) + 0
               /\ Cardinality(Events(o, stack')) = Cardinality(Events(o, stack)) + (IF s = o THEN 1 ELSE 0)
               /\ Cardinality(Resets(o, stack)) \in Nat /\ Cardinality(Events(o, stack)) \in Nat
    <3>1. /\ Cardinality(Resets(o, stack')) = Cardinality(Resets(o, stack))
                + (IF fr.is = "reset" /\ fr.point = o THEN 1 ELSE 0)
          /\ Cardinality(Events(o, stack')) = Cardinality(Events(o, stack))
                + (IF fr.is = "event" /\ fr.sink = o THEN 1 ELSE 0)
      BY <1>1, <2>5, <2>6, PushedSets
    <3>. QED  BY <1>1, <2>5, <3>1, ActivationsFinite
  <2>10. /\ \A o \in Object : Cardinality(Resets(o, stack')) = Cardinality(Resets(o, stack))
         /\ \A i : i # s => Cardinality(Events(i, stack')) = Cardinality(Events(i, stack))
    BY <2>9
  <2>11. r.refs >= 1 + (IF s \in points'[r.point] THEN 1 ELSE 0) + Cardinality(Events(s, stack'))
    <3>1. sinks[s].refs >= 1 + (IF s \in points[sinks[s].point] THEN 1 ELSE 0)
                             + Cardinality(Events(s, stack))
      BY <1>2 DEF ComInv, Referred
    <3>2. Cardinality(Events(s, stack)) \in Nat
      BY <2>9
    <3>3. Cardinality(Events(s, stack')) = Cardinality(Events(s, stack)) + 1
      BY <2>9
    <3>. QED  BY <1>3, <2>3, <3>1, <3>2, <3>3
  <2>12. Quiet(stack')
    BY <2>5, <2>6, <2>7 DEF Quiet, Lengthened
  <2>13. stack' \in Seq(Frame) /\ faulted' \in {TRUE, faulted} /\ points' = points
    BY <1>3, <2>1, <2>6 DEF Lengthened
  <2>. QED  BY <1>2, <1>3, <2>3, <2>4, <2>7, <2>8, <2>10, <2>11, <2>12, <2>13, SinkTouched
<1>. QED  BY <1>4, <1>5

LEMMA Released ==
  ASSUME NEW k \in SinkRecord, k.refs # 1, k.refs - 1 \in Nat
  PROVE  /\ Release(k) \in SinkRecord /\ Release(k).of = k.of /\ Release(k).point = k.point
         /\ Release(k).gone = k.gone /\ Release(k).advised = k.advised
         /\ Release(k).refs = k.refs - 1
<1>1. k.gone \in BOOLEAN /\ k.refs \in Nat
  BY DEF SinkRecord
<1>2. (k.gone \/ k.refs = 1) = k.gone
  BY <1>1
<1>3. Release(k) = [k EXCEPT !.refs = k.refs - 1, !.gone = k.gone]
  BY <1>2 DEF Release
<1>. QED  BY <1>1, <1>3 DEF SinkRecord

\* A handler gives the sink back, which never was the last reference.
LEMMA HandlerKeeps ==
  ASSUME ComInv, HandlerReturns
  PROVE  ComInv'
<1> DEFINE s == Last(stack).sink
           rest == Front(stack)
<1>1. /\ stack' = rest /\ Top("event")
      /\ UNCHANGED <<refs, own, held, sink, points, lost, statements>>
      /\ IF sinks[s].gone THEN faulted' = TRUE /\ UNCHANGED sinks
         ELSE sinks' = [sinks EXCEPT ![s] = Release(@)] /\ UNCHANGED faulted
  BY DEF HandlerReturns
<1>2. /\ Shortened(stack, rest) /\ stack \in Seq(Frame) /\ rest \in Seq(Frame)
      /\ Last(stack) = stack[Len(stack)] /\ Last(stack).is = "event" /\ Last(stack) \in Frame
      /\ Activations(rest, sinks, held) /\ Called(rest, lost) /\ Quiet(stack) /\ Quiet(rest)
      /\ Len(stack) \in DOMAIN stack
  <2>1. Top("event") /\ "event" \notin {"connect", "reset"}
    BY <1>1
  <2>. QED  BY <2>1, TopLeft
<1>3. s \in Sink /\ s \in DOMAIN sinks
  BY <1>2, FrameFields DEF ComInv, Activations
<1>4. /\ sinks \in Seq(SinkRecord) /\ points \in [Object -> SUBSET Sink] /\ faulted \in BOOLEAN
  BY DEF ComInv, TypeOK, SinkRecord
<1>5. sinks[s] \in SinkRecord
  BY <1>3, <1>4
<1>6. stack[Len(stack)].is = "event" /\ stack[Len(stack)].sink = s
  BY <1>2
<1>. HIDE DEF s, rest
<1>7. ASSUME NEW o
      PROVE  /\ Cardinality(Resets(o, rest)) = Cardinality(Resets(o, stack)) - 0
             /\ Cardinality(Events(o, rest)) = Cardinality(Events(o, stack)) - (IF s = o THEN 1 ELSE 0)
             /\ Cardinality(Resets(o, stack)) \in Nat /\ Cardinality(Events(o, stack)) \in Nat
  <2>1. /\ Cardinality(Resets(o, rest)) = Cardinality(Resets(o, stack))
              - (IF stack[Len(stack)].is = "reset" /\ stack[Len(stack)].point = o THEN 1 ELSE 0)
        /\ Cardinality(Events(o, rest)) = Cardinality(Events(o, stack))
              - (IF stack[Len(stack)].is = "event" /\ stack[Len(stack)].sink = o THEN 1 ELSE 0)
    BY <1>2, PoppedSets
  <2>. QED  BY <1>2, <1>6, <2>1, ActivationsFinite
<1>8. /\ \A o \in Object : Cardinality(Resets(o, stack')) = Cardinality(Resets(o, stack))
      /\ \A i : i # s => Cardinality(Events(i, stack')) = Cardinality(Events(i, stack))
  BY <1>1, <1>7
<1>9. Cardinality(Events(s, stack')) = Cardinality(Events(s, stack)) - 1
  BY <1>1, <1>7
<1>10. Cardinality(Events(s, stack')) \in Nat /\ Cardinality(Events(s, stack)) \in Nat
  BY <1>1, <1>2, ActivationsFinite
<1>11. /\ sinks[s].refs >= 1 + (IF s \in points[sinks[s].point] THEN 1 ELSE 0)
                             + Cardinality(Events(s, stack))
       /\ sinks[s].refs \in Nat
  BY <1>3, <1>5 DEF ComInv, Referred, SinkRecord
<1>12. /\ stack' \in Seq(Frame) /\ Called(stack', lost) /\ Activations(stack', sinks, held)
       /\ Quiet(stack') /\ faulted' \in {TRUE, faulted} /\ points' = points
       /\ UNCHANGED <<refs, own, held, sink, lost, statements>>
  BY <1>1, <1>2
<1> DEFINE r == IF sinks[s].gone THEN sinks[s] ELSE Release(sinks[s])
<1>13. sinks' = [sinks EXCEPT ![s] = r]
  BY <1>1, <1>3, <1>4
<1>14. /\ r \in SinkRecord /\ r.of = sinks[s].of /\ r.point = sinks[s].point
       /\ r.gone = sinks[s].gone /\ r.advised = sinks[s].advised
       /\ r.refs >= sinks[s].refs - 1 /\ r.refs \in Nat
  <2>1. CASE sinks[s].gone
    <3>1. r = sinks[s]
      BY <2>1
    <3>. QED  BY <1>5, <1>11, <3>1
  <2>2. CASE ~sinks[s].gone
    <3>1. sinks[s].refs - 1 \in Nat /\ sinks[s].refs # 1
      BY <1>9, <1>10, <1>11
    <3>2. r = Release(sinks[s])
      BY <2>2
    <3>. QED  BY <1>5, <3>1, <3>2, Released
  <2>. QED  BY <2>1, <2>2
<1>. HIDE DEF r
<1>15. r.refs >= 1 + (IF s \in points'[r.point] THEN 1 ELSE 0) + Cardinality(Events(s, stack'))
  BY <1>9, <1>10, <1>11, <1>12, <1>14
<1>. QED  BY <1>2, <1>3, <1>8, <1>12, <1>13, <1>14, <1>15, SinkTouched


\* A variable's sink s is replaced by a new one, with the cookie c.
NewSink(v, ob) ==
    [of |-> v, point |-> ob, refs |-> InitialRef, advised |-> FALSE, gone |-> FALSE]

\* What the sinks k are after that: s is gone, and c was released when it was known
\* where s was to be unadvised.
Stray(s, c, i) == i = c /\ i # s /\ s # 0 /\ c \in points[sinks[s].point]

Replaced(v, ob, s, c, k) ==
    /\ k \in Seq(SinkRecord) /\ Len(k) = Len(sinks) + 1 /\ Len(sinks) \in Nat
    /\ DOMAIN k = DOMAIN sinks \cup {Len(sinks) + 1} /\ Len(sinks) + 1 \notin DOMAIN sinks
    /\ DOMAIN sinks = 1 .. Len(sinks)
    /\ \A i \in DOMAIN sinks :
          /\ k[i].of = sinks[i].of /\ k[i].point = sinks[i].point
          /\ k[i].advised = sinks[i].advised
          /\ k[i].gone <=> sinks[i].gone \/ i = s
          /\ k[i].refs = sinks[i].refs - (IF Stray(s, c, i) THEN 1 ELSE 0)
    /\ k[Len(sinks) + 1] = NewSink(v, ob)

LEMMA SinkAdded ==
  ASSUME NEW k \in Seq(SinkRecord), NEW r \in SinkRecord
  PROVE  /\ Append(k, r) \in Seq(SinkRecord) /\ Len(Append(k, r)) = Len(k) + 1 /\ Len(k) \in Nat
         /\ DOMAIN Append(k, r) = DOMAIN k \cup {Len(k) + 1} /\ Len(k) + 1 \notin DOMAIN k
         /\ DOMAIN k = 1 .. Len(k)
         /\ \A i \in DOMAIN k : Append(k, r)[i] = k[i]
         /\ Append(k, r)[Len(k) + 1] = r
  OBVIOUS

\* A sink that a connection point knows has two references.
LEMMA KnownTwice ==
  ASSUME ComInv, NEW o \in Object, NEW i \in points[o]
  PROVE  i \in DOMAIN sinks /\ sinks[i].point = o /\ sinks[i].refs - 1 \in Nat /\ sinks[i].refs # 1
<1>1. i \in DOMAIN sinks /\ sinks[i].point = o
  BY DEF ComInv, Known
<1>2. /\ sinks[i].refs >= 1 + (IF i \in points[sinks[i].point] THEN 1 ELSE 0)
                            + Cardinality(Events(i, stack))
      /\ sinks[i].refs \in Nat
  BY <1>1, SinkFields DEF ComInv, Referred, TypeOK, SinkRecord
<1>3. Cardinality(Events(i, stack)) \in Nat
  BY ActivationsFinite DEF ComInv, TypeOK
<1>. QED  BY <1>1, <1>2, <1>3

LEMMA ResetSinks ==
  ASSUME ComInv, NEW v \in EventVar, NEW ob \in Object, NEW s, s = sink[v], NEW c,
         IF s = 0 THEN sinks' = Append(sinks, NewSink(v, ob))
         ELSE sinks' = Append(Unadvised(s, c), NewSink(v, ob))
  PROVE  Replaced(v, ob, s, c, sinks')
<1>1. sinks \in Seq(SinkRecord) /\ points \in [Object -> SUBSET Sink]
  BY DEF ComInv, TypeOK, SinkRecord
<1>2. NewSink(v, ob) \in SinkRecord
  BY DEF NewSink, SinkRecord, InitialRef
<1>3. CASE s = 0
  <2>1. \A i \in DOMAIN sinks : ~Stray(s, c, i) /\ i # s
    BY <1>1, <1>3 DEF Stray
  <2>2. \A i \in DOMAIN sinks : sinks[i].refs - 0 = sinks[i].refs
    BY <1>1, SinkFields
  <2>3. sinks' = Append(sinks, NewSink(v, ob))
    BY <1>3
  <2>4. /\ sinks' \in Seq(SinkRecord) /\ Len(sinks') = Len(sinks) + 1 /\ Len(sinks) \in Nat
        /\ DOMAIN sinks' = DOMAIN sinks \cup {Len(sinks) + 1} /\ Len(sinks) + 1 \notin DOMAIN sinks
        /\ DOMAIN sinks = 1 .. Len(sinks)
        /\ \A i \in DOMAIN sinks : sinks'[i] = sinks[i]
        /\ sinks'[Len(sinks) + 1] = NewSink(v, ob)
    BY <1>1, <1>2, <2>3, SinkAdded
  <2>. QED  BY <2>1, <2>2, <2>4 DEF Replaced
<1>4. CASE s # 0
  <2> DEFINE k == Unadvised(s, c)
  <2>1. s \in DOMAIN sinks /\ sinks[s].point \in Object
    BY <1>1, <1>4, SinkFields DEF ComInv, Owned
  <2>2. ASSUME NEW i \in DOMAIN sinks
        PROVE  /\ k[i] \in SinkRecord
               /\ k[i].of = sinks[i].of /\ k[i].point = sinks[i].point
               /\ k[i].advised = sinks[i].advised
               /\ k[i].gone <=> sinks[i].gone \/ i = s
               /\ k[i].refs = sinks[i].refs - (IF Stray(s, c, i) THEN 1 ELSE 0)
    <3>1. sinks[i] \in SinkRecord /\ sinks[i].refs \in Nat /\ sinks[i].refs - 0 = sinks[i].refs
      BY <1>1, SinkFields
    <3>2. CASE i = s
      <4>1. k[i] = [sinks[i] EXCEPT !.gone = TRUE] /\ ~Stray(s, c, i)
        BY <3>2 DEF Unadvised, Stray
      <4>. HIDE DEF k
      <4>. QED  BY <3>1, <3>2, <4>1 DEF SinkRecord
    <3>3. CASE i # s /\ i = c /\ c \in points[sinks[s].point]
      <4>1. k[i] = Release(sinks[i]) /\ Stray(s, c, i)
        BY <1>4, <3>3 DEF Unadvised, Stray
      <4>2. sinks[i].refs - 1 \in Nat /\ sinks[i].refs # 1
        BY <2>1, <3>3, KnownTwice
      <4>3. /\ k[i] \in SinkRecord /\ k[i].of = sinks[i].of /\ k[i].point = sinks[i].point
            /\ k[i].gone = sinks[i].gone /\ k[i].advised = sinks[i].advised
            /\ k[i].refs = sinks[i].refs - 1
        BY <3>1, <4>1, <4>2, Released
      <4>. QED  BY <3>3, <4>1, <4>3
    <3>4. CASE i # s /\ ~(i = c /\ c \in points[sinks[s].point])
      <4>1. k[i] = sinks[i] /\ ~Stray(s, c, i)
        BY <3>4 DEF Unadvised, Stray
      <4>. QED  BY <3>1, <3>4, <4>1
    <3>. QED  BY <3>2, <3>3, <3>4
  <2>3. k \in Seq(SinkRecord) /\ DOMAIN k = DOMAIN sinks /\ Len(k) = Len(sinks)
    <3>1. DOMAIN k = 1 .. Len(sinks) /\ Len(sinks) \in Nat /\ DOMAIN sinks = 1 .. Len(sinks)
      BY <1>1 DEF Unadvised
    <3>2. k = [i \in 1 .. Len(sinks) |-> k[i]]
      BY <3>1 DEF Unadvised
    <3>3. \A i \in 1 .. Len(sinks) : k[i] \in SinkRecord
      BY <2>2, <3>1
    <3>. HIDE DEF k
    <3>4. k \in Seq(SinkRecord)
      BY <3>1, <3>2, <3>3
    <3>5. Len(k) = Len(sinks)
      BY <3>1, <3>4
    <3>. QED  BY <3>1, <3>4, <3>5
  <2>4. sinks' = Append(k, NewSink(v, ob))
    BY <1>4
  <2>. HIDE DEF k
  <2>5. /\ sinks' \in Seq(SinkRecord) /\ Len(sinks') = Len(k) + 1 /\ Len(k) \in Nat
        /\ DOMAIN sinks' = DOMAIN k \cup {Len(k) + 1} /\ Len(k) + 1 \notin DOMAIN k
        /\ DOMAIN k = 1 .. Len(k)
        /\ \A i \in DOMAIN k : sinks'[i] = k[i]
        /\ sinks'[Len(k) + 1] = NewSink(v, ob)
    BY <1>2, <2>3, <2>4, SinkAdded
  <2>6. /\ sinks' \in Seq(SinkRecord) /\ Len(sinks') = Len(sinks) + 1 /\ Len(sinks) \in Nat
        /\ DOMAIN sinks' = DOMAIN sinks \cup {Len(sinks) + 1} /\ Len(sinks) + 1 \notin DOMAIN sinks
        /\ DOMAIN sinks = 1 .. Len(sinks)
        /\ \A i \in DOMAIN sinks : sinks'[i] = k[i]
        /\ sinks'[Len(sinks) + 1] = NewSink(v, ob)
    BY <2>3, <2>5
  <2>. QED  BY <2>2, <2>6 DEF Replaced
<1>. QED  BY <1>3, <1>4


Gives(s, o) == IF s # 0 /\ sinks[s].point = o THEN 1 ELSE 0

LEMMA SinksReplaced ==
  ASSUME ComInv, NEW v \in EventVar, NEW ob \in Object, NEW s, s = sink[v], NEW c,
         Replaced(v, ob, s, c, sinks'), NEW o \in Object
  PROVE  Cardinality(Sinks(o, sinks')) = Cardinality(Sinks(o, sinks)) - Gives(s, o) + Only(ob, o, 1)
<1> DEFINE n == Len(sinks) + 1
           Others == Sinks(o, sinks) \ {s}
<1>1. sinks \in Seq(SinkRecord)
  BY DEF ComInv, TypeOK, SinkRecord
<1>2. /\ DOMAIN sinks' = DOMAIN sinks \cup {n} /\ n \notin DOMAIN sinks
      /\ \A i \in DOMAIN sinks : sinks'[i].point = sinks[i].point /\ (sinks'[i].gone <=> sinks[i].gone \/ i = s)
      /\ sinks'[n] = NewSink(v, ob)
  BY DEF Replaced
<1>3. sinks'[n].point = ob /\ sinks'[n].gone = FALSE
  BY <1>2 DEF NewSink
<1>. HIDE DEF n
<1>4. Sinks(o, sinks') = IF ob = o THEN Others \cup {n} ELSE Others
  BY <1>2, <1>3 DEF Sinks
<1>5. IsFiniteSet(Sinks(o, sinks)) /\ Cardinality(Sinks(o, sinks)) \in Nat
  BY <1>1, SinksFinite
<1>6. s \in Sinks(o, sinks) <=> s # 0 /\ sinks[s].point = o
  <2>1. s # 0 => s \in DOMAIN sinks /\ ~sinks[s].gone
    BY DEF ComInv, Owned
  <2>2. s \in DOMAIN sinks => s # 0
    BY <1>1
  <2>. QED  BY <2>1, <2>2 DEF Sinks
<1>7. Cardinality(Others) = Cardinality(Sinks(o, sinks)) - Gives(s, o) /\ IsFiniteSet(Others)
      /\ Cardinality(Others) \in Nat
  <2>1. /\ Cardinality(Sinks(o, sinks) \ {s}) = IF s \in Sinks(o, sinks)
                                                THEN Cardinality(Sinks(o, sinks)) - 1
                                                ELSE Cardinality(Sinks(o, sinks))
        /\ IsFiniteSet(Sinks(o, sinks) \ {s})
    BY <1>5, FS_RemoveElement
  <2>2. Cardinality(Others) = Cardinality(Sinks(o, sinks)) - Gives(s, o)
    BY <1>5, <1>6, <2>1 DEF Gives
  <2>3. Cardinality(Others) \in Nat
    BY <2>1, FS_CardinalityType
  <2>. QED  BY <2>1, <2>2, <2>3
<1>8. n \notin Others
  BY <1>2 DEF Sinks
<1>. HIDE DEF Others
<1>9. Cardinality(Others \cup {n}) = Cardinality(Others) + 1
  BY <1>7, <1>8, FS_AddElement
<1>. QED  BY <1>4, <1>7, <1>9 DEF Only

\* What a Reset does, with the variable v, its old sink s and its object ob.
Resetting(v, s, ob, c) ==
    /\ Replaced(v, ob, s, c, sinks')
    /\ sink' = [sink EXCEPT ![v] = Len(sinks) + 1]
    /\ stack' = Append(Front(stack), [is |-> "advise", sink |-> Len(sinks) + 1])
    /\ UNCHANGED <<own, held, lost, faulted, statements>>
    /\ refs' = [o \in Object |-> refs'[o]]
    /\ \A o \in Object : refs'[o] = refs[o] - Gives(s, o)
    /\ points' = [o \in Object |-> points'[o]]
    /\ \A o \in Object :
          \/ points'[o] = points[o] /\ (s # 0 => sinks[s].point # o)
          \/ points'[o] = points[o] \ {c} /\ s # 0 /\ sinks[s].point = o
          \/ points'[o] = {} /\ refs'[o] = 0
    /\ s # 0 => (sinks[s].advised => c = s)

LEMMA ResetIs ==
  ASSUME ComInv, NEW c, Reset(c)
  PROVE  LET v == Last(stack).var
             ob == Last(stack).point
         IN  Resetting(v, sink[v], ob, c)
<1> DEFINE v == Last(stack).var
           ob == Last(stack).point
           s == sink[v]
<1>0. v = Last(stack).var /\ ob = Last(stack).point /\ s = sink[v]
  OBVIOUS
<1>1. /\ refs \in [Object -> Nat] /\ points \in [Object -> SUBSET Sink] /\ sinks \in Seq(SinkRecord)
  BY DEF ComInv, TypeOK, SinkRecord
<1>2. v \in EventVar /\ ob \in Object
  <2>1. Top("reset")
    BY DEF Reset
  <2>2. Last(stack) \in Frame /\ Last(stack).is = "reset"
    BY <2>1, TopLeft
  <2>. QED  BY <2>2, FrameFields
<1>3. /\ IF s = 0 THEN sinks' = Append(sinks, NewSink(v, ob)) /\ UNCHANGED <<refs, points>>
         ELSE Unadvises(s, c) /\ sinks' = Append(Unadvised(s, c), NewSink(v, ob))
      /\ sink' = [sink EXCEPT ![v] = Len(sinks')]
      /\ stack' = Append(Front(stack), [is |-> "advise", sink |-> Len(sinks')])
      /\ UNCHANGED <<own, held, lost, faulted, statements>>
  BY DEF Reset, NewSink
<1>. HIDE DEF v, ob, s
<1>4. IF s = 0 THEN sinks' = Append(sinks, NewSink(v, ob))
      ELSE sinks' = Append(Unadvised(s, c), NewSink(v, ob))
  BY <1>3
<1>5. Replaced(v, ob, s, c, sinks')
  BY <1>0, <1>2, <1>4, ResetSinks
<1>6. Len(sinks') = Len(sinks) + 1
  BY <1>5 DEF Replaced
<1>7. CASE s = 0
  <2>1. refs' = refs /\ points' = points
    BY <1>3, <1>7
  <2>2. \A o \in Object : refs'[o] = refs[o] - Gives(s, o)
    BY <1>1, <1>7, <2>1 DEF Gives
  <2>3. refs' = [o \in Object |-> refs'[o]] /\ points' = [o \in Object |-> points'[o]]
    BY <1>1, <2>1
  <2>4. Resetting(v, s, ob, c)
    BY <1>3, <1>5, <1>6, <1>7, <2>1, <2>2, <2>3 DEF Resetting
  <2>. QED  BY <2>4 DEF v, ob, s
<1>8. CASE s # 0
  <2>1. Unadvises(s, c)
    BY <1>3, <1>8
  <2>2. s \in DOMAIN sinks /\ sinks[s].point \in Object
    BY <1>0, <1>1, <1>2, <1>8, SinkFields DEF ComInv, Owned
  <2> DEFINE p == sinks[s].point
             known == [points EXCEPT ![p] = @ \ {c}]
  <2>3. /\ sinks[s].advised => c = s
        /\ Counts(Add(refs, p, -1), known)
    BY <2>1 DEF Unadvises
  <2>4. \A o \in Object : known[o] = IF o = p THEN points[o] \ {c} ELSE points[o]
    BY <1>1, <2>2
  <2>5. Gives(s, p) = 1 /\ \A o : o # p => Gives(s, o) = 0
    BY <1>8 DEF Gives
  <2>. HIDE DEF p, known
  <2>6. /\ refs' = Add(refs, p, -1)
        /\ points' = [o \in Object |-> IF Add(refs, p, -1)[o] = 0 THEN {} ELSE known[o]]
    BY <2>3 DEF Counts
  <2>7. refs' = [o \in Object |-> refs'[o]] /\ points' = [o \in Object |-> points'[o]]
    BY <2>6 DEF Add
  <2>8. \A o \in Object : refs'[o] = refs[o] - Gives(s, o)
    <3> SUFFICES ASSUME NEW o \in Object PROVE refs'[o] = refs[o] - Gives(s, o)
      OBVIOUS
    <3>1. refs'[o] = refs[o] + (-1) * One(p, o) /\ refs[o] \in Nat
      BY <1>1, <2>6, AddAt
    <3>2. One(p, o) = Gives(s, o)
      BY <2>5 DEF One
    <3>3. One(p, o) \in {0, 1}
      BY DEF One
    <3>. QED  BY ONLY <3>1, <3>2, <3>3
  <2>9. \A o \in Object :
          \/ points'[o] = points[o] /\ (s # 0 => p # o)
          \/ points'[o] = points[o] \ {c} /\ s # 0 /\ p = o
          \/ points'[o] = {} /\ refs'[o] = 0
    BY <1>8, <2>4, <2>6
  <2>10. p = sinks[s].point
    BY DEF p
  <2>11. Resetting(v, s, ob, c)
    BY <1>3, <1>5, <1>6, <2>3, <2>7, <2>8, <2>9, <2>10 DEF Resetting
  <2>. QED  BY <2>11 DEF v, ob, s
<1>. QED  BY <1>7, <1>8


LEMMA ResetKeeps ==
  ASSUME ComInv, NEW c \in Sink, Reset(c)
  PROVE  ComInv'
<1> DEFINE v == Last(stack).var
           ob == Last(stack).point
           s == sink[v]
           n == Len(sinks) + 1
           rest == Front(stack)
           fr == [is |-> "advise", sink |-> n]
<1>0. s = sink[v] /\ n = Len(sinks) + 1
  OBVIOUS
<1>1. /\ refs \in [Object -> Nat] /\ points \in [Object -> SUBSET Sink] /\ sinks \in Seq(SinkRecord)
      /\ held \in [Var -> Values] /\ lost \in [Object -> Nat] /\ own \subseteq Object
      /\ faulted \in BOOLEAN /\ statements \in 0 .. MaxStatements
      /\ sink \in [EventVar -> 0 .. MaxSinks]
  BY DEF ComInv, TypeOK, SinkRecord, Values
<1>2. /\ Shortened(stack, rest) /\ stack \in Seq(Frame) /\ rest \in Seq(Frame)
      /\ stack[Len(stack)].is = "reset" /\ stack[Len(stack)].var = v /\ stack[Len(stack)].point = ob
      /\ v \in EventVar /\ ob \in Object /\ Quiet(rest)
      /\ Activations(rest, sinks, held) /\ Called(rest, lost) /\ faulted = FALSE
      /\ Len(stack) \in DOMAIN stack
  <2>1. Top("reset")
    BY DEF Reset
  <2>2. /\ Shortened(stack, Front(stack)) /\ stack \in Seq(Frame) /\ Front(stack) \in Seq(Frame)
        /\ Last(stack) = stack[Len(stack)] /\ Last(stack).is = "reset" /\ Last(stack) \in Frame
        /\ Activations(Front(stack), sinks, held) /\ Called(Front(stack), lost)
        /\ Quiet(Front(stack)) /\ faulted = FALSE /\ Len(stack) \in DOMAIN stack
    BY <2>1, TopLeft
  <2>3. Last(stack).var \in EventVar /\ Last(stack).point \in Object
    BY <2>2, FrameFields
  <2>. QED  BY <2>2, <2>3
<1>3. held[v] = ob /\ Len(sinks) < MaxSinks
  BY <1>2 DEF ComInv, Activations
<1>4. Resetting(v, s, ob, c)
  BY ResetIs
<1>5. stack' = Append(rest, fr)
  BY <1>4 DEF Resetting
<1>. HIDE DEF v, ob, s, n, rest
<1>6. n \in Sink /\ n <= MaxSinks /\ n \in Nat
  <2>1. Len(sinks) \in Nat /\ MaxSinks \in Nat
    BY <1>1, ComAssumption
  <2>. QED  BY <1>0, <1>3, <2>1 DEF Sink
<1>7. fr \in Frame /\ fr.is = "advise" /\ fr.sink = n
  BY <1>6 DEF Frame
<1>. HIDE DEF fr
<1>8. Lengthened(rest, fr, stack')
  BY <1>2, <1>5, <1>7, Entered
\* The sinks after the step.
<1>9. Replaced(v, ob, s, c, sinks')
  BY <1>4 DEF Resetting
<1>10. /\ sinks' \in Seq(SinkRecord) /\ DOMAIN sinks' = DOMAIN sinks \cup {n} /\ n \notin DOMAIN sinks
       /\ DOMAIN sinks = 1 .. Len(sinks)
       /\ sinks'[n] = NewSink(v, ob)
       /\ \A i \in DOMAIN sinks :
             /\ sinks'[i].of = sinks[i].of /\ sinks'[i].point = sinks[i].point
             /\ sinks'[i].advised = sinks[i].advised
             /\ sinks'[i].gone <=> sinks[i].gone \/ i = s
             /\ sinks'[i].refs = sinks[i].refs - (IF Stray(s, c, i) THEN 1 ELSE 0)
  BY <1>0, <1>9 DEF Replaced
<1>11. /\ sinks'[n].of = v /\ sinks'[n].point = ob /\ sinks'[n].refs = 1
       /\ sinks'[n].advised = FALSE /\ sinks'[n].gone = FALSE
  BY <1>10 DEF NewSink, InitialRef
<1>12. sink'[v] = n /\ \A u \in EventVar : u # v => sink'[u] = sink[u]
  BY <1>0, <1>1, <1>2, <1>4 DEF Resetting
<1>13. /\ s # 0 => s \in DOMAIN sinks /\ sinks[s].of = v /\ ~sinks[s].gone /\ sinks[s].point \in Object
       /\ s = 0 => s \notin DOMAIN sinks
  <2>1. s # 0 => s \in DOMAIN sinks /\ sinks[s].of = v /\ ~sinks[s].gone
    BY <1>0, <1>2 DEF ComInv, Owned
  <2>. QED  BY <1>1, <1>10, <2>1, SinkFields
<1>14. \A u \in EventVar : u # v /\ sink[u] # 0 => /\ sink[u] \in DOMAIN sinks /\ sink[u] # s
                                                   /\ sinks[sink[u]].of = u /\ ~sinks[sink[u]].gone
  BY <1>13 DEF ComInv, Owned
<1>15. UNCHANGED <<own, held, lost, faulted, statements>>
  BY <1>4 DEF Resetting
<1>16. /\ refs' = [o \in Object |-> refs'[o]]
       /\ \A o \in Object : refs'[o] = refs[o] - Gives(s, o)
       /\ points' = [o \in Object |-> points'[o]]
       /\ \A o \in Object :
             \/ points'[o] = points[o] /\ (s # 0 => sinks[s].point # o)
             \/ points'[o] = points[o] \ {c} /\ s # 0 /\ sinks[s].point = o
             \/ points'[o] = {} /\ refs'[o] = 0
       /\ s # 0 => (sinks[s].advised => c = s)
  BY <1>4 DEF Resetting
<1>17. points' \in [Object -> SUBSET Sink] /\ \A o \in Object : points'[o] \subseteq points[o]
  <2>1. \A o \in Object : points'[o] \subseteq points[o] /\ points'[o] \in SUBSET Sink
    BY <1>1, <1>16
  <2>. QED  BY <1>16, <2>1
\* The counts.
<1>18. ASSUME NEW o
       PROVE  /\ Cardinality(Resets(o, stack')) = Cardinality(Resets(o, stack)) - Only(ob, o, 1)
              /\ Cardinality(Events(o, stack')) = Cardinality(Events(o, stack))
              /\ Cardinality(Resets(o, stack)) \in Nat /\ Cardinality(Events(o, stack)) \in Nat
  <2>1. /\ Cardinality(Resets(o, rest)) = Cardinality(Resets(o, stack))
               - (IF stack[Len(stack)].is = "reset" /\ stack[Len(stack)].point = o THEN 1 ELSE 0)
        /\ Cardinality(Events(o, rest)) = Cardinality(Events(o, stack))
               - (IF stack[Len(stack)].is = "event" /\ stack[Len(stack)].sink = o THEN 1 ELSE 0)
    BY <1>2, PoppedSets
  <2>2. /\ Cardinality(Resets(o, stack')) = Cardinality(Resets(o, rest))
               + (IF fr.is = "reset" /\ fr.point = o THEN 1 ELSE 0)
        /\ Cardinality(Events(o, stack')) = Cardinality(Events(o, rest))
               + (IF fr.is = "event" /\ fr.sink = o THEN 1 ELSE 0)
    BY <1>2, <1>7, <1>8, PushedSets
  <2>3. /\ Cardinality(Resets(o, stack)) \in Nat /\ Cardinality(Events(o, stack)) \in Nat
        /\ Cardinality(Resets(o, rest)) \in Nat /\ Cardinality(Events(o, rest)) \in Nat
    BY <1>2, ActivationsFinite
  <2>4. Cardinality(Resets(o, rest)) = Cardinality(Resets(o, stack)) - Only(ob, o, 1)
        /\ Cardinality(Events(o, rest)) = Cardinality(Events(o, stack))
    BY <1>2, <2>1, <2>3 DEF Only
  <2>5. Cardinality(Resets(o, stack')) = Cardinality(Resets(o, rest))
        /\ Cardinality(Events(o, stack')) = Cardinality(Events(o, rest))
    BY <1>7, <2>2, <2>3
  <2>. QED  BY <2>3, <2>4, <2>5
<1>19. stack' \in Seq(Frame)
  BY <1>8 DEF Lengthened
<1>20. ASSUME NEW o \in Object
       PROVE  refs'[o] = Uses(o, held', own', sinks', stack', lost')
  <2> DEFINE b == IF o \in own THEN 1 ELSE 0
             H == Cardinality(Holders(o, held))
             S == Cardinality(Sinks(o, sinks))
             R == Cardinality(Resets(o, stack))
             g == Gives(s, o)
             j == Only(ob, o, 1)
  <2>1. refs[o] = H + b + lost[o] + S + R
    BY DEF ComInv, Exact, Uses
  <2>2. Cardinality(Sinks(o, sinks')) = S - g + j
    <3>1. s = sink[v] /\ v \in EventVar /\ ob \in Object
      BY <1>0, <1>2
    <3>. HIDE DEF b, H, R
    <3>2. Cardinality(Sinks(o, sinks')) = Cardinality(Sinks(o, sinks)) - Gives(s, o) + Only(ob, o, 1)
      BY <1>9, <3>1, SinksReplaced
    <3>. QED  BY ONLY <3>2
  <2>3. Cardinality(Resets(o, stack')) = R - j
    BY <1>18
  <2>4. Uses(o, held', own', sinks', stack', lost')
          = H + b + lost[o] + Cardinality(Sinks(o, sinks')) + Cardinality(Resets(o, stack'))
    BY <1>15 DEF Uses
  <2>5. refs'[o] = refs[o] - g
    BY <1>16
  <2>6. /\ H \in Nat /\ S \in Nat /\ R \in Nat /\ lost[o] \in Nat /\ b \in Nat /\ j \in Nat
        /\ g \in Nat
    BY <1>1, <1>2, HoldersFinite, SinksFinite, ActivationsFinite DEF Only, Gives
  <2>. HIDE DEF b, H, S, R, g, j
  <2>. QED  BY ONLY <2>1, <2>2, <2>3, <2>4, <2>5, <2>6
<1>21. Exact'
  BY <1>20 DEF Exact
<1>22. TypeOK'
  <2>1. refs' \in [Object -> Nat]
    <3>1. ASSUME NEW o \in Object PROVE refs'[o] \in Nat
      <4>1. Uses(o, held', own', sinks', stack', lost') \in Nat
        BY <1>1, <1>10, <1>15, <1>19, UsesNat
      <4>. QED  BY <1>20, <4>1
    <3>. QED  BY <1>16, <3>1
  <2>2. sink' \in [EventVar -> 0 .. MaxSinks]
    <3>1. sink' = [sink EXCEPT ![v] = n] /\ n \in 0 .. MaxSinks
      BY <1>0, <1>4, <1>6, ComAssumption DEF Resetting
    <3>. QED  BY <1>1, <3>1
  <2>. QED  BY <1>1, <1>10, <1>15, <1>17, <1>19, <2>1, <2>2 DEF TypeOK, SinkRecord, Values
\* The sinks and the connection points.
<1>23. Owned(sink', sinks')
  <2>1. ASSUME NEW u \in EventVar, sink'[u] # 0
        PROVE  sink'[u] \in DOMAIN sinks' /\ sinks'[sink'[u]].of = u /\ ~sinks'[sink'[u]].gone
    <3>1. CASE u = v
      BY <1>10, <1>11, <1>12, <3>1
    <3>2. CASE u # v
      BY <1>10, <1>12, <1>14, <2>1, <3>2
    <3>. QED  BY <3>1, <3>2
  <2>2. ASSUME NEW i \in DOMAIN sinks'
        PROVE  IF sinks'[i].gone THEN i < sink'[sinks'[i].of] ELSE i = sink'[sinks'[i].of]
    <3>1. CASE i = n
      BY <1>11, <1>12, <3>1
    <3>2. CASE i \in DOMAIN sinks /\ sinks[i].of = v
      <4>1. sink'[sinks'[i].of] = n /\ i < n /\ i # 0
        BY <1>0, <1>1, <1>10, <1>12, <3>2
      <4>2. sinks'[i].gone
        BY <1>0, <1>10, <3>2 DEF ComInv, Owned
      <4>. QED  BY <4>1, <4>2
    <3>3. CASE i \in DOMAIN sinks /\ sinks[i].of # v
      <4>1. sinks[i].of \in EventVar
        BY <1>1, <3>3, SinkFields
      <4>2. i # s
        BY <1>13, <3>3
      <4>3. sink'[sinks'[i].of] = sink[sinks[i].of] /\ (sinks'[i].gone <=> sinks[i].gone)
        BY <1>10, <1>12, <3>3, <4>1, <4>2
      <4>. QED  BY <3>3, <4>3 DEF ComInv, Owned
    <3>. QED  BY <1>10, <3>1, <3>2, <3>3
  <2>. QED  BY <2>1, <2>2 DEF Owned
<1>24. Known(points', sinks')
  <2> SUFFICES ASSUME NEW o \in Object, NEW i \in points'[o]
               PROVE  i \in DOMAIN sinks' /\ sinks'[i].point = o
                      /\ (sinks'[i].gone <=> ~sinks'[i].advised)
    BY DEF Known
  <2>1. /\ i \in points[o] /\ i \in DOMAIN sinks /\ sinks[i].point = o
        /\ (sinks[i].gone <=> ~sinks[i].advised)
    BY <1>17 DEF ComInv, Known
  <2>2. i # s
    <3> SUFFICES ASSUME i = s PROVE FALSE
      OBVIOUS
    <3>1. s # 0 /\ sinks[s].advised /\ sinks[s].point = o
      BY <1>13, <2>1
    <3>2. c = s
      BY <1>16, <3>1
    <3>. QED  BY <1>16, <3>1, <3>2
  <2>. QED  BY <1>10, <2>1, <2>2
<1>25. Referred(sinks', points', stack')
  <2> SUFFICES ASSUME NEW i \in DOMAIN sinks'
               PROVE  sinks'[i].refs >= 1 + (IF i \in points'[sinks'[i].point] THEN 1 ELSE 0)
                                          + Cardinality(Events(i, stack'))
    BY DEF Referred
  <2>1. CASE i = n
    <3>1. i \notin points'[sinks'[i].point]
      BY <1>2, <1>10, <1>11, <1>17, <2>1 DEF ComInv, Known
    <3>2. Events(i, stack) = {}
      BY <1>10, <2>1 DEF Events, ComInv, Activations
    <3>3. Cardinality(Events(i, stack)) = 0
      BY <3>2, FS_EmptySet
    <3>4. Cardinality(Events(i, stack')) = 0
      BY <1>18, <3>3
    <3>. QED  BY <1>11, <2>1, <3>1, <3>4
  <2>2. CASE i \in DOMAIN sinks
    <3> DEFINE o == sinks[i].point
    <3>1. o \in Object /\ sinks[i].refs \in Nat /\ sinks'[i].point = o
      BY <1>1, <1>10, <2>2, SinkFields
    <3>2. sinks[i].refs >= 1 + (IF i \in points[o] THEN 1 ELSE 0) + Cardinality(Events(i, stack))
      BY <2>2 DEF ComInv, Referred
    <3>3. Cardinality(Events(i, stack')) = Cardinality(Events(i, stack))
          /\ Cardinality(Events(i, stack)) \in Nat
      BY <1>18
    <3>4. sinks'[i].refs = sinks[i].refs - (IF Stray(s, c, i) THEN 1 ELSE 0)
      BY <1>10, <2>2
    <3>5. points'[o] \subseteq points[o]
      BY <1>17, <3>1
    <3>6. Stray(s, c, i) => i \in points[o] /\ i \notin points'[o]
      <4> SUFFICES ASSUME Stray(s, c, i) PROVE i \in points[o] /\ i \notin points'[o]
        OBVIOUS
      <4>1. i = c /\ s # 0 /\ c \in points[sinks[s].point]
        BY DEF Stray
      <4>2. sinks[s].point = o
        BY <1>13, <4>1 DEF ComInv, Known
      <4>. QED  BY <1>16, <3>1, <4>1, <4>2
    <3>. HIDE DEF o
    <3>. QED  BY <3>1, <3>2, <3>3, <3>4, <3>5, <3>6
  <2>. QED  BY <1>10, <2>1, <2>2
<1>26. Activations(stack', sinks', held') /\ Called(stack', lost')
  <2>1. Activations(rest, sinks', held)
    BY <1>2, <1>10 DEF Activations, Quiet
  <2>2. fr.sink \in DOMAIN sinks' /\ fr.is \notin {"connect", "reset"} /\ fr.is # "call"
    BY <1>7, <1>10
  <2>3. Activations(stack', sinks', held) /\ Called(stack', lost)
    BY <1>2, <1>7, <1>8, <2>1, <2>2, PushKeeps
  <2>. QED  BY <1>15, <2>3
<1>27. Connected(sink', sinks', held', stack', faulted')
  <2> SUFFICES ASSUME NEW u \in EventVar, sink'[u] # 0
               PROVE  held[u] = sinks'[sink'[u]].point \/ held[u] = None
    BY <1>15 DEF Connected
  <2>1. CASE u = v
    BY <1>3, <1>11, <1>12, <2>1
  <2>2. CASE u # v
    <3>1. ~Connecting(u, stack)
      BY <1>2, <2>2 DEF Connecting, Quiet, Shortened
    <3>2. sink'[u] = sink[u]
      BY <1>12, <2>2
    <3>3. sinks'[sink'[u]].point = sinks[sink[u]].point
      BY <1>10, <1>14, <2>2, <3>2
    <3>. QED  BY <1>2, <3>1, <3>2, <3>3 DEF ComInv, Connected
  <2>. QED  BY <2>1, <2>2
<1>28. Heard'
  <2> SUFFICES ASSUME NEW u \in EventVar, NEW t, t = sink'[u], t # 0, sinks'[t].advised,
                      t \notin points'[sinks'[t].point]
               PROVE  \E f \in DOMAIN sinks' : /\ f # t /\ sinks'[f].gone /\ ~sinks'[f].advised
                                               /\ sinks'[f].point = sinks'[t].point
    BY DEF Heard
  <2>1. u # v
    BY <1>11, <1>12
  <2>2. t = sink[u] /\ t \in DOMAIN sinks /\ t # s /\ ~sinks[t].gone
    BY <1>12, <1>14, <2>1
  <2> DEFINE o == sinks[t].point
  <2>3. sinks'[t].point = o /\ sinks[t].advised /\ ~sinks'[t].gone /\ o \in Object
    BY <1>1, <1>10, <2>2, SinkFields
  <2>. HIDE DEF o
  <2>4. CASE t \notin points[o]
    <3>1. PICK f \in DOMAIN sinks : /\ f # t /\ sinks[f].gone /\ ~sinks[f].advised
                                    /\ sinks[f].point = o
      BY <2>2, <2>3, <2>4 DEF ComInv, Heard, o
    <3>. QED  BY <1>10, <2>3, <3>1
  <2>5. CASE t \in points[o]
    <3>1. refs'[o] # 0
      <4>1. t \in DOMAIN sinks' /\ sinks'[t].point = o /\ ~sinks'[t].gone
        BY <1>10, <2>2, <2>3
      <4>2. stack' \in Seq(Frame) /\ lost' \in [Object -> Nat] /\ sinks' \in Seq(SinkRecord)
        BY <1>1, <1>10, <1>15, <1>19
      <4>3. Uses(o, held', own', sinks', stack', lost') > 0
        BY <2>3, <4>1, <4>2, UsesNat
      <4>. QED  BY <1>20, <2>3, <4>3
    <3>2. t = c /\ s # 0 /\ sinks[s].point = o
      BY <1>16, <2>3, <2>5, <3>1
    <3>3. ~sinks[s].advised
      BY <1>16, <2>2, <3>2
    <3>4. s \in DOMAIN sinks
      BY <1>13, <3>2
    <3>. QED  BY <1>10, <2>2, <2>3, <3>2, <3>3, <3>4
  <2>. QED  BY <2>4, <2>5
<1>. QED  BY <1>21, <1>22, <1>23, <1>24, <1>25, <1>26, <1>27, <1>28 DEF ComInv


-----------------------------------------------------------------------------
(* The invariant. *)

LEMMA InitCom ==
  ASSUME Init
  PROVE  ComInv
<1>1. /\ refs = [o \in Object |-> 0] /\ lost = [o \in Object |-> 0] /\ own = {}
      /\ held = [v \in Var |-> None] /\ sink = [v \in EventVar |-> 0]
      /\ sinks = <<>> /\ points = [o \in Object |-> {}]
      /\ stack = <<>> /\ faulted = FALSE /\ statements = 0
  BY DEF Init
<1>2. DOMAIN sinks = {} /\ DOMAIN stack = {}
  BY <1>1
<1>3. TypeOK
  <2>1. 0 \in 0 .. MaxSinks /\ 0 \in 0 .. MaxStatements
    BY ComAssumption
  <2>2. sinks \in Seq(SinkRecord) /\ stack \in Seq(Frame)
    BY <1>1
  <2>. QED  BY <1>1, <2>1, <2>2 DEF TypeOK, SinkRecord
<1>4. Exact
  <2> SUFFICES ASSUME NEW o \in Object PROVE refs[o] = Uses(o, held, own, sinks, stack, lost)
    BY DEF Exact
  <2>1. Holders(o, held) = {} /\ Sinks(o, sinks) = {} /\ Resets(o, stack) = {}
    BY <1>1, <1>2, ComAssumption DEF Holders, Sinks, Resets
  <2>2. o \notin own /\ lost[o] = 0 /\ refs[o] = 0
    BY <1>1
  <2>3. Cardinality({}) = 0
    BY FS_EmptySet
  <2>. QED  BY <2>1, <2>2, <2>3 DEF Uses
<1>. QED  BY <1>1, <1>2, <1>3, <1>4 DEF ComInv, Called, Owned, Known, Referred, Activations,
             Connected, Heard

LEMMA NextKeeps ==
  ASSUME ComInv, Next
  PROVE  ComInv'
<1>1. ASSUME NEW v \in Var, NEW w \in Var, Set(v, w) PROVE ComInv'
  BY <1>1, SetKeeps
<1>2. ASSUME NEW v \in Var, NEW o \in Object, CreateObject(v, o) \/ GetObject(v, o) PROVE ComInv'
  BY <1>2, CreateKeeps, GetKeeps
<1>3. ASSUME NEW v \in Var, Leave(v) PROVE ComInv'
  BY <1>3, LeaveKeeps
<1>4. ASSUME NEW o \in Object, ServerMakes(o) \/ ServerDrops(o) PROVE ComInv'
  BY <1>4, ServersKeep
<1>5. ASSUME NEW v \in Var, NEW to \in Var \cup {None}, NEW arg \in Var \cup {None},
             NEW several \in BOOLEAN, Call(v, to, arg, several)
      PROVE  ComInv'
  BY <1>5, CallKeeps
<1>6. ASSUME CallFails PROVE ComInv'
  BY <1>6, LeftKeeps DEF CallFails
<1>7. ASSUME NEW x \in Object \cup {None, Nothing}, CallReturns(x) PROVE ComInv'
  BY <1>7, ReturnKeeps DEF Values
<1>8. ASSUME NEW c \in Sink, Reset(c) PROVE ComInv'
  BY <1>8, ResetKeeps
<1>9. ASSUME NEW o \in Object, NEW s \in points[o], Fire(o, s) PROVE ComInv'
  BY <1>9, FireKeeps
<1>10. Connect \/ Advise \/ HandlerReturns => ComInv'
  BY ConnectKeeps, AdviseKeeps, HandlerKeeps
<1>. QED  BY <1>1, <1>2, <1>3, <1>4, <1>5, <1>6, <1>7, <1>8, <1>9, <1>10 DEF Next

LEMMA ComInductive == Spec => []ComInv
<1>1. Init => ComInv
  BY InitCom
<1>2. ComInv /\ [Next]_vars => ComInv'
  <2> SUFFICES ASSUME ComInv, [Next]_vars PROVE ComInv'
    OBVIOUS
  <2>1. CASE Next
    BY <2>1, NextKeeps
  <2>2. CASE UNCHANGED vars
    <3>1. /\ UNCHANGED <<refs, own, held, sink, sinks, points, stack, lost>>
          /\ faulted' = faulted /\ statements' = statements
      BY <2>2 DEF vars
    <3>2. statements \in 0 .. MaxStatements
      BY DEF ComInv, TypeOK
    <3>. QED  BY <3>1, <3>2, IdleStep
  <2>. QED  BY <2>1, <2>2
<1>. QED  BY <1>1, <1>2, PTL DEF Spec

-----------------------------------------------------------------------------
(* What it is for. *)

\* Every reference to an object is accounted for, and a call finds the object it waits
\* for, and the one among its arguments, alive (InvokeHelper of comobject.h, the copies
\* of _variant_t in comutil.h): the two references that the call has taken are its own.
THEOREM ReferencesAccounted == Spec => []CountsSound
<1>1. ComInv => CountsSound
  <2> SUFFICES ASSUME ComInv PROVE CountsSound
    OBVIOUS
  <2>1. /\ sinks \in Seq(SinkRecord) /\ stack \in Seq(Frame) /\ lost \in [Object -> Nat]
        /\ refs \in [Object -> Nat]
    BY DEF ComInv, TypeOK, SinkRecord
  <2>2. \A o \in Object : refs[o] = Uses(o, held, own, sinks, stack, lost)
    BY DEF ComInv, Exact
  <2>3. CountExact
    BY <2>2 DEF CountExact, Uses, Holders, Sinks, Resets
  <2>4. TargetsLive
    <3> SUFFICES ASSUME NEW i \in DOMAIN stack, stack[i].is = "call" PROVE stack[i].obj \in Alive
      BY DEF TargetsLive
    <3>1. stack[i].obj \in Object /\ lost[stack[i].obj] > 0
      BY <2>1, FrameFields DEF ComInv, Called
    <3>2. \A o \in Object : Uses(o, held, own, sinks, stack, lost) >= lost[o]
      BY <2>1, UsesNat
    <3>3. refs[stack[i].obj] >= lost[stack[i].obj]
      BY <2>2, <3>1, <3>2
    <3>4. refs[stack[i].obj] \in Nat /\ lost[stack[i].obj] \in Nat
      BY <2>1, <3>1
    <3>. QED  BY <3>1, <3>3, <3>4 DEF Alive
  <2>5. ArgumentsLive
    <3> SUFFICES ASSUME NEW i \in DOMAIN stack, stack[i].is = "call", stack[i].copied \in Object,
                        held[stack[i].arg] = stack[i].copied
                 PROVE  stack[i].copied \in Alive
      BY DEF ArgumentsLive
    <3>1. stack[i].arg \in Var
      BY DEF ComInv, Called
    <3>2. \A o \in Object : \A v \in Var :
             held[v] = o => Uses(o, held, own, sinks, stack, lost) > 0
      BY <2>1, UsesNat
    <3>3. refs[stack[i].copied] > 0
      BY <2>2, <3>1, <3>2
    <3>. QED  BY <3>3 DEF Alive
  <2>. QED  BY <2>3, <2>4, <2>5 DEF CountsSound, PointersLive
<1>. QED  BY <1>1, ComInductive, PTL

\* A variable's handlers hear the events of the object it holds and of no other, and its
\* sink is there as long as it is heard (CEventSink, COM_EVENTS_CONNECT), but for what
\* a failed Advise leaves behind.
THEOREM EventsReachHandlers == Spec => []EventsRight
<1>1. ComInv => EventsRight
  <2> SUFFICES ASSUME ComInv PROVE EventsRight
    OBVIOUS
  <2>1. sinks \in Seq(SinkRecord) /\ faulted \in BOOLEAN
    BY DEF ComInv, TypeOK, SinkRecord
  <2>2. SinksThere
    <3>1. \A v \in EventVar : sink[v] # 0 => ~sinks[sink[v]].gone
      BY DEF ComInv, Owned
    <3>2. ASSUME NEW o \in Object, NEW s \in points[o], sinks[s].gone
          PROVE  ~sinks[s].advised /\ sink[sinks[s].of] > s
      <4>1. s \in DOMAIN sinks /\ ~sinks[s].advised
        BY <3>2 DEF ComInv, Known
      <4>2. s < sink[sinks[s].of]
        BY <3>2, <4>1 DEF ComInv, Owned
      <4>3. s \in Nat /\ sink[sinks[s].of] \in Nat
        <5>1. sinks[s].of \in EventVar /\ s \in 1 .. Len(sinks)
          BY <2>1, <4>1, SinkFields
        <5>2. sink \in [EventVar -> 0 .. MaxSinks]
          BY DEF ComInv, TypeOK
        <5>. QED  BY <5>1, <5>2, ComAssumption
      <4>. QED  BY <4>1, <4>2, <4>3
    <3>. QED  BY <3>1, <3>2 DEF SinksThere
  <2>3. EventsOfHeld
    <3> SUFFICES ASSUME NEW o \in Object, NEW s \in points[o], NEW v, v = sinks[s].of,
                        ~(sinks[s].gone /\ ~sinks[s].advised), ~faulted, ~Connecting(v, stack)
                 PROVE  held[v] \in {o, None}
      BY DEF EventsOfHeld, Connecting
    <3>1. s \in DOMAIN sinks /\ sinks[s].point = o /\ ~sinks[s].gone
      BY DEF ComInv, Known
    <3>2. v \in EventVar /\ s = sink[v] /\ s # 0
      <4>1. v \in EventVar /\ s \in 1 .. Len(sinks)
        BY <2>1, <3>1, SinkFields
      <4>2. s = sink[v]
        BY <3>1 DEF ComInv, Owned
      <4>. QED  BY <4>1, <4>2
    <3>. QED  BY <2>1, <3>1, <3>2 DEF ComInv, Connected
  <2>. QED  BY <2>2, <2>3 DEF EventsRight, ComInv
<1>. QED  BY <1>1, ComInductive, PTL
-----------------------------------------------------------------------------
(***************************************************************************)
(* What holds of the values of ComValues, with its proofs.                 *)
(***************************************************************************)
(* How often a function has a value. *)

Tally(f, b) == Cardinality({x \in DOMAIN f : f[x] = b})
IsOne(x, b) == IF x = b THEN 1 ELSE 0

LEMMA OneNat == \A x, b : IsOne(x, b) \in Nat /\ (IsOne(x, b) = 0 <=> x # b) /\ IsOne(b, b) = 1
  BY DEF IsOne

LEMMA TallyNat ==
  ASSUME NEW S, IsFiniteSet(S), NEW T, NEW f \in [S -> T], NEW b
  PROVE  /\ Tally(f, b) \in Nat /\ IsFiniteSet({x \in DOMAIN f : f[x] = b})
         /\ Tally(f, b) = 0 <=> \A x \in S : f[x] # b
<1> DEFINE H == {x \in DOMAIN f : f[x] = b}
<1>1. H \in SUBSET S
  OBVIOUS
<1>2. IsFiniteSet(H)
  BY <1>1, FS_Subset
<1>3. Cardinality(H) \in Nat
  BY <1>2, FS_CardinalityType
<1>4. Cardinality(H) = 0 <=> H = {}
  BY <1>2, FS_EmptySet
<1>. QED  BY <1>2, <1>3, <1>4 DEF Tally

\* The value that goes is counted once less, the one that comes once more.
LEMMA TallyAssigned ==
  ASSUME NEW S, IsFiniteSet(S), NEW T, NEW f \in [S -> T], NEW g \in [S -> T], NEW v \in S,
         \A u \in S : u # v => g[u] = f[u], NEW b
  PROVE  Tally(g, b) + IsOne(f[v], b) = Tally(f, b) + IsOne(g[v], b)
<1> DEFINE H == {x \in DOMAIN f : f[x] = b}
           G == {x \in DOMAIN g : g[x] = b}
<1>a. DOMAIN g = S /\ DOMAIN f = S
  OBVIOUS
<1>b. Tally(g, b) = Cardinality(G) /\ Tally(f, b) = Cardinality(H)
  BY DEF Tally
<1>2. IsFiniteSet(G) /\ IsFiniteSet(H) /\ Cardinality(G) \in Nat /\ Cardinality(H) \in Nat
  <2>1. G \in SUBSET S /\ H \in SUBSET S
    BY <1>a
  <2>. HIDE DEF G, H
  <2>2. IsFiniteSet(G) /\ IsFiniteSet(H)
    BY <2>1, FS_Subset
  <2>. QED  BY <2>2, FS_CardinalityType
<1>3. G \ {v} = H \ {v} /\ (v \in G <=> g[v] = b) /\ (v \in H <=> f[v] = b)
  BY <1>a
<1>. HIDE DEF G, H
<1>4. Cardinality(G \ {v}) = IF v \in G THEN Cardinality(G) - 1 ELSE Cardinality(G)
  BY <1>2, FS_RemoveElement
<1>5. Cardinality(H \ {v}) = IF v \in H THEN Cardinality(H) - 1 ELSE Cardinality(H)
  BY <1>2, FS_RemoveElement
<1>6. IsOne(g[v], b) = IF v \in G THEN 1 ELSE 0
  BY <1>3 DEF IsOne
<1>7. IsOne(f[v], b) = IF v \in H THEN 1 ELSE 0
  BY <1>3 DEF IsOne
<1>8. Cardinality(G) + IsOne(f[v], b) = Cardinality(H) + IsOne(g[v], b)
  BY ONLY <1>2, <1>3, <1>4, <1>5, <1>6, <1>7
<1>. QED  BY <1>8, <1>b

-----------------------------------------------------------------------------
(* The invariant, of memory m, variables S, V and R of the three kinds, a      *)
(* block q that an operation under way has to give an owner or to free, and a  *)
(* Data_t x that it has one reference to.                                      *)

Text == Seq({NUL, "x"})
DataRecord == [w : Block \cup {NULL}, s : Text \cup {Null}, refs : Nat]
VariantRecord == [vt : Type \cup {"EMPTY", "BSTR", "BOOL", "ARRAY"}, b : Block \cup {NULL}, n : Int]

TypedValues(m, S, V, R, q, x) ==
    /\ m \in [text : [Block -> Text \cup {Freed}], data : [Block -> DataRecord]]
    /\ S \in [StrVar -> Block \cup {NULL}] /\ V \in [VarVar -> VariantRecord]
    /\ R \in [RawVar -> Block \cup {NULL}]
    /\ q \in Block \cup {NULL} /\ x \in Block \cup {NULL}

\* The blocks of each kind of owner.
Wides(D) == [d \in Block |-> IF D[d].refs > 0 THEN D[d].w ELSE NULL]
Strings(V) == [v \in VarVar |-> V[v].b]
Owners(b, D, V, R) == Tally(Wides(D), b) + Tally(Strings(V), b) + Tally(R, b)
Allocated(m, b) == IF m.text[b] = Freed THEN 0 ELSE 1

Blocks(m, V, R, q) == \A b \in Block : Allocated(m, b) = Owners(b, m.data, V, R) + IsOne(q, b)
DataCounted(m, S, x) == \A d \in Block : m.data[d].refs = Tally(S, d) + IsOne(x, d)
Unused(m) == \A d \in Block : m.data[d].refs = 0 => m.data[d] = NoData

Sound(m, S, V, R, q, x) ==
    TypedValues(m, S, V, R, q, x) /\ Blocks(m, V, R, q) /\ DataCounted(m, S, x) /\ Unused(m)

\* What the variables S, V and R read in m they read in z.
Reads(m, z, S, V, R) ==
    /\ \A s \in StrVar : S[s] # NULL =>
        /\ z.data[S[s]].w = m.data[S[s]].w /\ z.data[S[s]].s = m.data[S[s]].s
        /\ TextOf(z, m.data[S[s]].w) = TextOf(m, m.data[S[s]].w)
    /\ \A v \in VarVar : TextOf(z, V[v].b) = TextOf(m, V[v].b)
    /\ \A p \in RawVar : TextOf(z, R[p]) = TextOf(m, R[p])

LEMMA NoText == ValuesAssumption => Null \notin Text /\ Freed \notin Text /\ Null # Freed
<1>1. Null[1] = "null" /\ Freed[1] = "freed" /\ Len(Null) = 1 /\ Len(Freed) = 1
  BY DEF Null, Freed
<1>2. \A t \in Text : Len(t) = 1 => t[1] \in {NUL, "x"}
  BY DEF Text
<1>. QED  BY <1>1, <1>2 DEF ValuesAssumption

LEMMA BlocksAre == ValuesAssumption => NULL \notin Block /\ IsFiniteSet(Block)
<1>. SUFFICES ASSUME ValuesAssumption PROVE NULL \notin Block /\ IsFiniteSet(Block)
  OBVIOUS
<1>1. MaxBlocks \in Int /\ 1 \in Int
  BY DEF ValuesAssumption
<1>2. IsFiniteSet(1 .. MaxBlocks)
  BY <1>1, FS_Interval
<1>. QED  BY <1>2 DEF Block, NULL

LEMMA VariablesFinite ==
  ValuesAssumption => IsFiniteSet(StrVar) /\ IsFiniteSet(VarVar) /\ IsFiniteSet(RawVar)
  BY DEF ValuesAssumption

LEMMA OwnersNat ==
  ASSUME ValuesAssumption, NEW m, NEW S, NEW V, NEW R, NEW q, NEW x, TypedValues(m, S, V, R, q, x), NEW b
  PROVE  /\ Wides(m.data) \in [Block -> Block \cup {NULL}]
         /\ Strings(V) \in [VarVar -> Block \cup {NULL}]
         /\ Tally(Wides(m.data), b) \in Nat /\ Tally(Strings(V), b) \in Nat /\ Tally(R, b) \in Nat
         /\ Tally(S, b) \in Nat
         /\ Owners(b, m.data, V, R) \in Nat
<1>1. /\ Wides(m.data) \in [Block -> Block \cup {NULL}]
      /\ Strings(V) \in [VarVar -> Block \cup {NULL}]
  BY DEF TypedValues, Wides, Strings, DataRecord, VariantRecord
<1>2. Tally(Wides(m.data), b) \in Nat
  BY <1>1, BlocksAre, TallyNat
<1>3. Tally(Strings(V), b) \in Nat
  BY <1>1, TallyNat DEF ValuesAssumption
<1>4. Tally(R, b) \in Nat
  BY TallyNat DEF ValuesAssumption, TypedValues
<1>5. Tally(S, b) \in Nat
  BY TallyNat DEF ValuesAssumption, TypedValues
<1>. QED  BY <1>1, <1>2, <1>3, <1>4, <1>5 DEF Owners

\* The one owner that a block has.
LEMMA OwnersFound ==
  ASSUME ValuesAssumption, NEW m, NEW S, NEW V, NEW R, NEW q, NEW x, TypedValues(m, S, V, R, q, x),
         NEW b \in Block, Owners(b, m.data, V, R) = 0
  PROVE  /\ \A d \in Block : m.data[d].refs > 0 => m.data[d].w # b
         /\ \A v \in VarVar : V[v].b # b
         /\ \A p \in RawVar : R[p] # b
<1>1. /\ Wides(m.data) \in [Block -> Block \cup {NULL}]
      /\ Strings(V) \in [VarVar -> Block \cup {NULL}]
      /\ Tally(Wides(m.data), b) \in Nat /\ Tally(Strings(V), b) \in Nat /\ Tally(R, b) \in Nat
  BY OwnersNat
<1>2. Tally(Wides(m.data), b) = 0 /\ Tally(Strings(V), b) = 0 /\ Tally(R, b) = 0
  BY <1>1 DEF Owners
<1>3. \A d \in Block : Wides(m.data)[d] # b
  BY <1>1, <1>2, BlocksAre, TallyNat
<1>4. \A v \in VarVar : Strings(V)[v] # b
  BY <1>1, <1>2, TallyNat DEF ValuesAssumption
<1>5. \A p \in RawVar : R[p] # b
  <2>1. R \in [RawVar -> Block \cup {NULL}]
    BY DEF TypedValues
  <2>. QED  BY <1>2, <2>1, VariablesFinite, TallyNat
<1>. QED  BY <1>3, <1>4, <1>5 DEF Wides, Strings

\* How owners change with one Data_t, one _variant_t, one BSTR of the program.
LEMMA DataOwner ==
  ASSUME ValuesAssumption, NEW m, NEW S, NEW V, NEW R, NEW q, NEW x, TypedValues(m, S, V, R, q, x),
         NEW d \in Block, NEW r \in DataRecord, NEW b
  PROVE  Owners(b, [m.data EXCEPT ![d] = r], V, R) + IsOne(Wides(m.data)[d], b)
            = Owners(b, m.data, V, R) + IsOne(IF r.refs > 0 THEN r.w ELSE NULL, b)
<1> DEFINE y == IF r.refs > 0 THEN r.w ELSE NULL
           D == [m.data EXCEPT ![d] = r]
<1>1. /\ Wides(m.data) \in [Block -> Block \cup {NULL}]
      /\ Tally(Wides(m.data), b) \in Nat /\ Tally(Strings(V), b) \in Nat /\ Tally(R, b) \in Nat
  BY OwnersNat
<1>2. y \in Block \cup {NULL}
  BY DEF DataRecord
<1>3. m.data \in [Block -> DataRecord]
  BY DEF TypedValues
<1>4. Wides(D) = [Wides(m.data) EXCEPT ![d] = y]
  BY <1>3 DEF Wides
<1>5. Tally([Wides(m.data) EXCEPT ![d] = y], b) + IsOne(Wides(m.data)[d], b) = Tally(Wides(m.data), b) + IsOne(y, b)
  <2>1. IsFiniteSet(Block)
    BY BlocksAre
  <2>. HIDE DEF y
  <2>2. PICK T : T = Block \cup {NULL}
    OBVIOUS
  <2>3. PICK f : f = Wides(m.data)
    OBVIOUS
  <2>4. PICK g : g = [f EXCEPT ![d] = y]
    OBVIOUS
  <2>5. f \in [Block -> T] /\ g \in [Block -> T] /\ d \in Block /\ g[d] = y
        /\ \A u \in Block : u # d => g[u] = f[u]
    BY <1>1, <1>2, <2>2, <2>3, <2>4
  <2>6. Tally(g, b) + IsOne(f[d], b) = Tally(f, b) + IsOne(g[d], b)
    BY ONLY <2>1, <2>5, TallyAssigned
  <2>. QED  BY <2>3, <2>4, <2>5, <2>6
<1>. HIDE DEF y, D
<1>6. Wides(D) \in [Block -> Block \cup {NULL}]
  BY <1>1, <1>2, <1>4
<1>7. Tally(Wides(D), b) \in Nat
  BY <1>6, BlocksAre, TallyNat
<1>8. Owners(b, D, V, R) + IsOne(Wides(m.data)[d], b) = Owners(b, m.data, V, R) + IsOne(y, b)
  BY <1>1, <1>4, <1>5, <1>7, OneNat DEF Owners
<1>. QED  BY <1>8 DEF y, D

LEMMA VarOwner ==
  ASSUME ValuesAssumption, NEW m, NEW S, NEW V, NEW R, NEW q, NEW x, TypedValues(m, S, V, R, q, x),
         NEW v \in VarVar, NEW W \in [VarVar -> VariantRecord],
         \A u \in VarVar : u # v => W[u] = V[u], NEW b
  PROVE  Owners(b, m.data, W, R) + IsOne(V[v].b, b) = Owners(b, m.data, V, R) + IsOne(W[v].b, b)
<1>1. /\ Strings(V) \in [VarVar -> Block \cup {NULL}]
      /\ Tally(Wides(m.data), b) \in Nat /\ Tally(Strings(V), b) \in Nat /\ Tally(R, b) \in Nat
  BY OwnersNat
<1>3. V \in [VarVar -> VariantRecord]
  BY DEF TypedValues
<1>4. /\ Strings(W) \in [VarVar -> Block \cup {NULL}]
      /\ Strings(V)[v] = V[v].b /\ Strings(W)[v] = W[v].b
      /\ \A u \in VarVar : u # v => Strings(W)[u] = Strings(V)[u]
  BY <1>3 DEF Strings, VariantRecord
<1>5. Tally(Strings(W), b) + IsOne(V[v].b, b) = Tally(Strings(V), b) + IsOne(W[v].b, b)
  <2>1. IsFiniteSet(VarVar)
    BY VariablesFinite
  <2>2. PICK T : T = Block \cup {NULL}
    OBVIOUS
  <2>3. PICK f : f = Strings(V)
    OBVIOUS
  <2>4. PICK g : g = Strings(W)
    OBVIOUS
  <2>5. f \in [VarVar -> T] /\ g \in [VarVar -> T] /\ v \in VarVar
        /\ \A u \in VarVar : u # v => g[u] = f[u]
    BY <1>1, <1>4, <2>2, <2>3, <2>4
  <2>6. Tally(g, b) + IsOne(f[v], b) = Tally(f, b) + IsOne(g[v], b)
    BY ONLY <2>1, <2>5, TallyAssigned
  <2>. QED  BY <1>4, <2>3, <2>4, <2>6
<1>7. Tally(Strings(W), b) \in Nat
  BY <1>4, TallyNat DEF ValuesAssumption
<1>. QED  BY <1>1, <1>4, <1>5, <1>7, OneNat DEF Owners

LEMMA RawOwner ==
  ASSUME ValuesAssumption, NEW m, NEW S, NEW V, NEW R, NEW q, NEW x, TypedValues(m, S, V, R, q, x),
         NEW p \in RawVar, NEW W \in [RawVar -> Block \cup {NULL}],
         \A u \in RawVar : u # p => W[u] = R[u], NEW b
  PROVE  Owners(b, m.data, V, W) + IsOne(R[p], b) = Owners(b, m.data, V, R) + IsOne(W[p], b)
<1>1. /\ Tally(Wides(m.data), b) \in Nat /\ Tally(Strings(V), b) \in Nat /\ Tally(R, b) \in Nat
  BY OwnersNat
<1>3. R \in [RawVar -> Block \cup {NULL}]
  BY DEF TypedValues
<1>5. Tally(W, b) + IsOne(R[p], b) = Tally(R, b) + IsOne(W[p], b)
  <2>1. IsFiniteSet(RawVar)
    BY VariablesFinite
  <2>2. PICK T : T = Block \cup {NULL}
    OBVIOUS
  <2>3. R \in [RawVar -> T] /\ W \in [RawVar -> T] /\ p \in RawVar
        /\ \A u \in RawVar : u # p => W[u] = R[u]
    BY <1>3, <2>2
  <2>. QED  BY ONLY <2>1, <2>3, TallyAssigned
<1>7. Tally(W, b) \in Nat
  BY TallyNat DEF ValuesAssumption
<1>. QED  BY <1>1, <1>5, <1>7, OneNat DEF Owners

-----------------------------------------------------------------------------
(* What each part of an operation does to a sound state.                       *)

LEMMA Live ==
  ASSUME ValuesAssumption, NEW m, NEW S, NEW V, NEW R, NEW q, NEW x, Sound(m, S, V, R, q, x),
         NEW d \in Block, (\E s \in StrVar : S[s] = d) \/ x = d
  PROVE  m.data[d].refs > 0 /\ m.data[d] # NoData
<1>1. S \in [StrVar -> Block \cup {NULL}] /\ IsFiniteSet(StrVar)
  BY VariablesFinite DEF Sound, TypedValues
<1>2. Tally(S, d) \in Nat /\ (Tally(S, d) = 0 <=> \A s \in StrVar : S[s] # d)
  BY <1>1, TallyNat
<1>3. m.data[d].refs = Tally(S, d) + IsOne(x, d)
  BY DEF Sound, DataCounted
<1>4. m.data[d].refs > 0
  <2>1. IsOne(x, d) \in Nat /\ (IsOne(x, d) = 0 <=> x # d)
    BY OneNat
  <2>. QED  BY <1>2, <1>3, <2>1
<1>5. NoData.refs = 0
  BY DEF NoData
<1>. QED  BY <1>4, <1>5

\* Whatever happens to a block that nobody has, nobody notices.
LEMMA TextChanged ==
  ASSUME ValuesAssumption, NEW m, NEW S, NEW V, NEW R, NEW q, NEW x, Sound(m, S, V, R, q, x),
         NEW z, z.data = m.data, NEW g, \A b \in Block : b # g => z.text[b] = m.text[b],
         g \in Block => Owners(g, m.data, V, R) = 0
  PROVE  Reads(m, z, S, V, R)
<1>1. TypedValues(m, S, V, R, q, x)
  BY DEF Sound
<1>2. \A b \in Block \cup {NULL} : b # g => TextOf(z, b) = TextOf(m, b)
  BY DEF TextOf
<1>3. ASSUME NEW s \in StrVar, S[s] # NULL
      PROVE  /\ z.data[S[s]].w = m.data[S[s]].w /\ z.data[S[s]].s = m.data[S[s]].s
             /\ TextOf(z, m.data[S[s]].w) = TextOf(m, m.data[S[s]].w)
  <2>1. S[s] \in Block
    BY <1>1, <1>3 DEF TypedValues
  <2>2. m.data[S[s]].refs > 0
    BY <2>1, Live
  <2>3. m.data[S[s]].w \in Block \cup {NULL}
    BY <1>1, <2>1 DEF TypedValues, DataRecord
  <2>4. CASE m.data[S[s]].w = NULL
    BY <2>4 DEF TextOf
  <2>5. CASE m.data[S[s]].w \in Block
    <3>1. m.data[S[s]].w # g
      BY <2>5, <1>1, <2>1, <2>2, OwnersFound
    <3>. QED  BY <1>2, <2>3, <3>1
  <2>. QED  BY <2>3, <2>4, <2>5
<1>4. ASSUME NEW v \in VarVar
      PROVE  TextOf(z, V[v].b) = TextOf(m, V[v].b)
  <2>1. V[v].b \in Block \cup {NULL}
    BY <1>1 DEF TypedValues, VariantRecord
  <2>2. CASE V[v].b = NULL
    BY <2>2 DEF TextOf
  <2>3. CASE V[v].b \in Block
    <3>1. V[v].b # g
      BY <1>1, <2>3, OwnersFound
    <3>. QED  BY <1>2, <2>1, <3>1
  <2>. QED  BY <2>1, <2>2, <2>3
<1>5. ASSUME NEW p \in RawVar
      PROVE  TextOf(z, R[p]) = TextOf(m, R[p])
  <2>1. R[p] \in Block \cup {NULL}
    BY <1>1 DEF TypedValues
  <2>2. CASE R[p] = NULL
    BY <2>2 DEF TextOf
  <2>3. CASE R[p] \in Block
    <3>1. R[p] # g
      BY <1>1, <2>3, OwnersFound
    <3>. QED  BY <1>2, <2>1, <3>1
  <2>. QED  BY <2>1, <2>2, <2>3
<1>. QED  BY <1>3, <1>4, <1>5 DEF Reads

LEMMA DataChanged ==
  ASSUME ValuesAssumption, NEW m, NEW S, NEW V, NEW R, NEW q, NEW x, Sound(m, S, V, R, q, x),
         NEW z, z.text = m.text,
         \A d \in Block : (\E s \in StrVar : S[s] = d) =>
            z.data[d].w = m.data[d].w /\ z.data[d].s = m.data[d].s
  PROVE  Reads(m, z, S, V, R)
<1>1. S \in [StrVar -> Block \cup {NULL}]
  BY DEF Sound, TypedValues
<1>2. \A b : TextOf(z, b) = TextOf(m, b)
  BY DEF TextOf
<1>. QED  BY <1>1, <1>2 DEF Reads

LEMMA ReadsTransitive ==
  ASSUME NEW m, NEW y, NEW z, NEW S, NEW V, NEW R, Reads(m, y, S, V, R), Reads(y, z, S, V, R)
  PROVE  Reads(m, z, S, V, R)
  BY DEF Reads

LEMMA ReadsReflexive == \A m, S, V, R : Reads(m, m, S, V, R)
  BY DEF Reads

LEMMA Allocates ==
  ASSUME ValuesAssumption, NEW m, NEW S, NEW V, NEW R, NEW x, Sound(m, S, V, R, NULL, x),
         NEW t \in Text \cup {Null}, \E b \in Block : m.text[b] = Freed
  PROVE  /\ Sound(Alloc(m, t), S, V, R, Given(m, t), x) /\ Reads(m, Alloc(m, t), S, V, R)
         /\ Alloc(m, t).data = m.data /\ TextOf(Alloc(m, t), Given(m, t)) = t
<1>1. CASE t = Null
  BY <1>1, ReadsReflexive DEF Alloc, Given, TextOf
<1>2. CASE t # Null
  <2>. DEFINE g == FreeBlock(m)
              z == [m EXCEPT !.text[g] = t]
  <2>1. g \in Block /\ m.text[g] = Freed
    BY DEF FreeBlock
  <2>2. Alloc(m, t) = z /\ Given(m, t) = g
    BY <1>2 DEF Alloc, Given
  <2>3. TypedValues(m, S, V, R, NULL, x)
    BY DEF Sound
  <2>4. t \in Text /\ t # Freed
    BY <1>2, NoText
  <2>. HIDE DEF g
  <2>5. /\ z.data = m.data /\ z.text = [m.text EXCEPT ![g] = t] /\ z.text[g] = t
        /\ \A b \in Block : b # g => z.text[b] = m.text[b]
        /\ z \in [text : [Block -> Text \cup {Freed}], data : [Block -> DataRecord]]
    BY <2>1, <2>3, <2>4 DEF TypedValues
  <2>. HIDE DEF z
  <2>6. g # NULL /\ NULL \notin Block
    BY <2>1, BlocksAre
  <2>7. Owners(g, m.data, V, R) = 0
    <3>1. Owners(g, m.data, V, R) \in Nat
      BY <2>3, OwnersNat
    <3>2. Allocated(m, g) = 0 /\ Allocated(m, g) = Owners(g, m.data, V, R) + IsOne(NULL, g)
      BY <2>1 DEF Allocated, Sound, Blocks
    <3>3. IsOne(NULL, g) = 0
      BY <2>6 DEF IsOne
    <3>. QED  BY <3>1, <3>2, <3>3
  <2>8. TypedValues(z, S, V, R, g, x)
    BY <2>1, <2>3, <2>5 DEF TypedValues
  <2>9. Blocks(z, V, R, g)
    <3>. SUFFICES ASSUME NEW b \in Block PROVE Allocated(z, b) = Owners(b, m.data, V, R) + IsOne(g, b)
      BY <2>5 DEF Blocks
    <3>1. CASE b = g
      <4>1. Allocated(z, b) = 1 /\ IsOne(g, b) = 1
        BY <3>1, <2>4, <2>5 DEF Allocated, IsOne
      <4>. QED  BY <4>1, <3>1, <2>7
    <3>2. CASE b # g
      <4>1. Allocated(z, b) = Allocated(m, b) /\ IsOne(g, b) = IsOne(NULL, b)
        BY <3>2, <2>5, <2>6 DEF Allocated, IsOne
      <4>. QED  BY <4>1 DEF Sound, Blocks
    <3>. QED  BY <3>1, <3>2
  <2>10. DataCounted(z, S, x) /\ Unused(z)
    BY <2>5 DEF Sound, DataCounted, Unused
  <2>11. Reads(m, z, S, V, R)
    BY <2>5, <2>7, TextChanged
  <2>12. TextOf(z, g) = t
    BY <2>5, <2>6 DEF TextOf
  <2>. QED  BY <2>2, <2>5, <2>8, <2>9, <2>10, <2>11, <2>12 DEF Sound
<1>. QED  BY <1>1, <1>2

LEMMA Frees ==
  ASSUME ValuesAssumption, NEW m, NEW S, NEW V, NEW R, NEW q, NEW x, Sound(m, S, V, R, q, x)
  PROVE  /\ Sound(Free(m, q), S, V, R, NULL, x) /\ Reads(m, Free(m, q), S, V, R)
         /\ Free(m, q).data = m.data
         /\ \A b \in Block : m.text[b] = Freed => Free(m, q).text[b] = Freed
<1>1. CASE q = NULL
  BY <1>1, ReadsReflexive DEF Free
<1>2. CASE q # NULL
  <2>. DEFINE z == [m EXCEPT !.text[q] = Freed]
  <2>2. Free(m, q) = z
    BY <1>2 DEF Free
  <2>3. TypedValues(m, S, V, R, q, x)
    BY DEF Sound
  <2>1. q \in Block
    BY <1>2, <2>3 DEF TypedValues
  <2>5. /\ z.data = m.data /\ z.text = [m.text EXCEPT ![q] = Freed] /\ z.text[q] = Freed
        /\ \A b \in Block : b # q => z.text[b] = m.text[b]
        /\ z \in [text : [Block -> Text \cup {Freed}], data : [Block -> DataRecord]]
    BY <2>1, <2>3 DEF TypedValues
  <2>. HIDE DEF z
  <2>6. NULL \notin Block
    BY BlocksAre
  <2>7. Owners(q, m.data, V, R) = 0
    <3>1. Owners(q, m.data, V, R) \in Nat
      BY <2>3, OwnersNat
    <3>2. Allocated(m, q) \in {0, 1} /\ Allocated(m, q) = Owners(q, m.data, V, R) + IsOne(q, q)
      BY <2>1 DEF Allocated, Sound, Blocks
    <3>3. IsOne(q, q) = 1
      BY DEF IsOne
    <3>. QED  BY <3>1, <3>2, <3>3
  <2>8. TypedValues(z, S, V, R, NULL, x)
    BY <2>3, <2>5 DEF TypedValues
  <2>9. Blocks(z, V, R, NULL)
    <3>. SUFFICES ASSUME NEW b \in Block PROVE Allocated(z, b) = Owners(b, m.data, V, R) + IsOne(NULL, b)
      BY <2>5 DEF Blocks
    <3>1. CASE b = q
      <4>1. Allocated(z, b) = 0 /\ IsOne(NULL, b) = 0
        BY <3>1, <2>5, <2>6 DEF Allocated, IsOne
      <4>. QED  BY <4>1, <3>1, <2>7
    <3>2. CASE b # q
      <4>1. Allocated(z, b) = Allocated(m, b) /\ IsOne(q, b) = IsOne(NULL, b)
        BY <3>2, <2>5, <2>6 DEF Allocated, IsOne
      <4>. QED  BY <4>1 DEF Sound, Blocks
    <3>. QED  BY <3>1, <3>2
  <2>10. DataCounted(z, S, x) /\ Unused(z)
    BY <2>5 DEF Sound, DataCounted, Unused
  <2>11. Reads(m, z, S, V, R)
    BY <2>5, <2>7, TextChanged
  <2>. QED  BY <2>2, <2>5, <2>8, <2>9, <2>10, <2>11 DEF Sound
<1>. QED  BY <1>1, <1>2

\* Only the record of d changes, to r; block p is pending then where q was; and one reference
\* is to y then where it was to x.
Becomes(m, z, d, r) == z = [m EXCEPT !.data[d] = r]
HandsOver(m, d, r, q, p) ==
    \A b \in Block : IsOne(IF r.refs > 0 THEN r.w ELSE NULL, b) + IsOne(p, b)
                       = IsOne(Wides(m.data)[d], b) + IsOne(q, b)
Recounts(m, d, r, x, y) ==
    /\ r.refs + IsOne(x, d) = m.data[d].refs + IsOne(y, d)
    /\ \A e \in Block : e # d => IsOne(x, e) = IsOne(y, e)
    /\ r.refs = 0 => r = NoData
Others(m, z, d, r) ==
    z.text = m.text /\ z.data[d] = r /\ \A e \in Block : e # d => z.data[e] = m.data[e]

\* The record of one Data_t changes, with what it owns and with its references.
LEMMA DataSet ==
  ASSUME ValuesAssumption, NEW m, NEW S, NEW V, NEW R, NEW q, NEW x, Sound(m, S, V, R, q, x),
         NEW d \in Block, NEW r \in DataRecord, NEW z, Becomes(m, z, d, r),
         NEW p \in Block \cup {NULL}, NEW y \in Block \cup {NULL},
         HandsOver(m, d, r, q, p), Recounts(m, d, r, x, y)
  PROVE  Sound(z, S, V, R, p, y) /\ Others(m, z, d, r)
<1>1. TypedValues(m, S, V, R, q, x)
  BY DEF Sound
<1>2. /\ z.text = m.text /\ z.data[d] = r /\ \A e \in Block : e # d => z.data[e] = m.data[e]
      /\ z.data = [m.data EXCEPT ![d] = r]
      /\ z \in [text : [Block -> Text \cup {Freed}], data : [Block -> DataRecord]]
  BY <1>1 DEF TypedValues, Becomes
<1>3. TypedValues(z, S, V, R, p, y)
  BY <1>1, <1>2 DEF TypedValues
<1>4. Blocks(z, V, R, p)
  <2>. SUFFICES ASSUME NEW b \in Block PROVE Allocated(z, b) = Owners(b, z.data, V, R) + IsOne(p, b)
    BY DEF Blocks
  <2>1. Allocated(z, b) = Allocated(m, b)
    BY <1>2 DEF Allocated
  <2>2. Allocated(m, b) = Owners(b, m.data, V, R) + IsOne(q, b)
    BY DEF Sound, Blocks
  <2>3. Owners(b, z.data, V, R) + IsOne(Wides(m.data)[d], b)
            = Owners(b, m.data, V, R) + IsOne(IF r.refs > 0 THEN r.w ELSE NULL, b)
    BY <1>1, <1>2, DataOwner
  <2>4. Owners(b, z.data, V, R) \in Nat /\ Owners(b, m.data, V, R) \in Nat
    BY <1>1, <1>3, OwnersNat
  <2>5. PICK k : k = IsOne(IF r.refs > 0 THEN r.w ELSE NULL, b)
    OBVIOUS
  <2>6. k + IsOne(p, b) = IsOne(Wides(m.data)[d], b) + IsOne(q, b)
    BY <2>5 DEF HandsOver
  <2>7. /\ IsOne(Wides(m.data)[d], b) \in Nat /\ IsOne(q, b) \in Nat /\ IsOne(p, b) \in Nat
        /\ k \in Nat
    BY <2>5, OneNat
  <2>8. Owners(b, z.data, V, R) + IsOne(Wides(m.data)[d], b) = Owners(b, m.data, V, R) + k
    BY <2>3, <2>5
  <2>. QED  BY ONLY <2>1, <2>2, <2>4, <2>6, <2>7, <2>8
<1>5. DataCounted(z, S, y)
  <2>. SUFFICES ASSUME NEW e \in Block PROVE z.data[e].refs = Tally(S, e) + IsOne(y, e)
    BY DEF DataCounted
  <2>1. m.data[e].refs = Tally(S, e) + IsOne(x, e)
    BY DEF Sound, DataCounted
  <2>2. Tally(S, e) \in Nat /\ IsOne(x, e) \in Nat /\ IsOne(y, e) \in Nat
    BY <1>1, OwnersNat, OneNat
  <2>3. CASE e = d
    <3>1. r.refs \in Nat /\ z.data[e].refs = r.refs
      BY <1>2, <2>3 DEF DataRecord
    <3>. QED  BY <2>1, <2>2, <2>3, <3>1 DEF Recounts
  <2>4. CASE e # d
    BY <1>2, <2>1, <2>4 DEF Recounts
  <2>. QED  BY <2>3, <2>4
<1>6. Unused(z)
  BY <1>2 DEF Sound, Unused, Recounts
<1>. QED  BY <1>2, <1>3, <1>4, <1>5, <1>6 DEF Sound, Others

LEMMA MakesData ==
  ASSUME ValuesAssumption, NEW m, NEW S, NEW V, NEW R, NEW q, Sound(m, S, V, R, q, NULL),
         \E d \in Block : m.data[d] = NoData
  PROVE  /\ Sound(NewData(m, q), S, V, R, NULL, FreeData(m)) /\ Reads(m, NewData(m, q), S, V, R)
         /\ FreeData(m) \in Block /\ NewData(m, q).text = m.text
         /\ NewData(m, q).data[FreeData(m)] = [w |-> q, s |-> Null, refs |-> 1]
         /\ m.data[FreeData(m)] = NoData
         /\ \A s \in StrVar : S[s] # FreeData(m)
<1> DEFINE d == FreeData(m)
           r == [w |-> q, s |-> Null, refs |-> 1]
           z == NewData(m, q)
<1>1. d \in Block /\ m.data[d] = NoData
  BY DEF FreeData
<1>2. Becomes(m, z, d, r)
  BY DEF NewData, Becomes
<1>. HIDE DEF d, z
<1>3. TypedValues(m, S, V, R, q, NULL)
  BY DEF Sound
<1>4. r \in DataRecord /\ r.refs = 1 /\ r.w = q
  BY <1>3 DEF TypedValues, DataRecord
<1>5. Wides(m.data)[d] = NULL /\ m.data[d].refs = 0
  BY <1>1 DEF Wides, NoData
<1>6. HandsOver(m, d, r, q, NULL) /\ Recounts(m, d, r, NULL, d)
  <2>1. NULL \notin Block
    BY BlocksAre
  <2>. HIDE DEF r
  <2>. QED  BY <1>1, <1>4, <1>5, <2>1 DEF IsOne, HandsOver, Recounts
<1>7. NULL \in Block \cup {NULL} /\ d \in Block \cup {NULL}
  BY <1>1
<1>. HIDE DEF r
<1>a. Sound(z, S, V, R, NULL, d) /\ Others(m, z, d, r)
  BY <1>1, <1>2, <1>4, <1>6, <1>7, DataSet
<1>8. /\ Sound(z, S, V, R, NULL, d)
      /\ z.text = m.text /\ z.data[d] = r /\ \A e \in Block : e # d => z.data[e] = m.data[e]
  BY <1>a DEF Others
<1>9. \A s \in StrVar : S[s] # d
  <2>. SUFFICES ASSUME NEW s \in StrVar, S[s] = d PROVE FALSE
    OBVIOUS
  <2>1. m.data[d] # NoData
    BY <1>1, Live
  <2>. QED  BY <2>1, <1>1
<1>10. Reads(m, z, S, V, R)
  BY <1>8, <1>9, DataChanged
<1>. QED  BY <1>1, <1>8, <1>9, <1>10 DEF d, z, r

LEMMA Refers ==
  ASSUME ValuesAssumption, NEW m, NEW S, NEW V, NEW R, NEW q, Sound(m, S, V, R, q, NULL),
         NEW d \in Block \cup {NULL}
  PROVE  Sound(AddRef(m, d), S, V, R, q, d) /\ Reads(m, AddRef(m, d), S, V, R)
         /\ (d # NULL => AddRef(m, d).data[d].w = m.data[d].w /\ AddRef(m, d).data[d].s = m.data[d].s)
         /\ AddRef(m, d).text = m.text
<1>1. CASE d = NULL
  BY <1>1, ReadsReflexive DEF AddRef
<1>2. CASE d # NULL
  <2>. DEFINE r == [m.data[d] EXCEPT !.refs = @ + 1]
              z == AddRef(m, d)
  <2>1. d \in Block /\ NULL \notin Block
    BY <1>2, BlocksAre
  <2>3. TypedValues(m, S, V, R, q, NULL) /\ q \in Block \cup {NULL}
    BY DEF Sound, TypedValues
  <2>4. m.data[d] \in DataRecord
    BY <2>1, <2>3 DEF TypedValues
  <2>5. r \in DataRecord /\ r.refs = m.data[d].refs + 1 /\ r.w = m.data[d].w /\ r.s = m.data[d].s
        /\ m.data[d].refs \in Nat
    BY <2>4 DEF DataRecord
  <2>2. Becomes(m, z, d, r)
    BY <1>2, <2>1, <2>3 DEF AddRef, TypedValues, Becomes
  <2>. HIDE DEF z, r
  <2>6. Wides(m.data)[d] = IF r.refs > 0 THEN r.w ELSE NULL
    <3>1. CASE m.data[d].refs > 0
      BY <3>1, <2>1, <2>5 DEF Wides
    <3>2. CASE m.data[d].refs = 0
      <4>1. m.data[d].w = NULL
        BY <3>2, <2>1 DEF Sound, Unused, NoData
      <4>. QED  BY <3>2, <4>1, <2>1, <2>5 DEF Wides
    <3>. QED  BY <2>5, <3>1, <3>2
  <2>7. r.refs + IsOne(NULL, d) = m.data[d].refs + IsOne(d, d)
    BY <2>1, <2>5 DEF IsOne
  <2>8. \A e \in Block : e # d => IsOne(NULL, e) = IsOne(d, e)
    BY <2>1 DEF IsOne
  <2>9. r.refs = 0 => r = NoData
    BY <2>5
  <2>10. HandsOver(m, d, r, q, q) /\ Recounts(m, d, r, NULL, d)
    BY <2>6, <2>7, <2>8, <2>9 DEF HandsOver, Recounts
  <2>a. d \in Block \cup {NULL}
    OBVIOUS
  <2>b. Sound(z, S, V, R, q, d) /\ Others(m, z, d, r)
    BY <2>1, <2>2, <2>3, <2>5, <2>10, <2>a, DataSet
  <2>11. /\ Sound(z, S, V, R, q, d)
         /\ z.text = m.text /\ z.data[d] = r /\ \A e \in Block : e # d => z.data[e] = m.data[e]
    BY <2>b DEF Others
  <2>12. Reads(m, z, S, V, R)
    <3>1. \A e \in Block : z.data[e].w = m.data[e].w /\ z.data[e].s = m.data[e].s
      BY <2>5, <2>11
    <3>. QED  BY <2>11, <3>1, DataChanged
  <2>. QED  BY <2>5, <2>11, <2>12 DEF z
<1>. QED  BY <1>1, <1>2

\* The last reference of a Data_t goes with it, and what it has is pending.
LEMMA Drops ==
  ASSUME ValuesAssumption, NEW m, NEW S, NEW V, NEW R, NEW d \in Block,
         Sound(m, S, V, R, NULL, d), m.data[d].refs <= 1, NEW z, z = [m EXCEPT !.data[d] = NoData]
  PROVE  /\ Sound(z, S, V, R, m.data[d].w, NULL) /\ Reads(m, z, S, V, R) /\ z.text = m.text
         /\ z.data[d] = NoData
<1>1. NULL \notin Block
  BY BlocksAre
<1>2. TypedValues(m, S, V, R, NULL, d)
  BY DEF Sound
<1>3. m.data[d] \in DataRecord /\ m.data[d].refs \in Nat /\ m.data[d].w \in Block \cup {NULL}
  BY <1>2 DEF TypedValues, DataRecord
<1>4. m.data[d].refs = 1 /\ Tally(S, d) = 0
  <2>1. m.data[d].refs = Tally(S, d) + IsOne(d, d) /\ IsOne(d, d) = 1 /\ Tally(S, d) \in Nat
    BY <1>2, OwnersNat, OneNat DEF Sound, DataCounted
  <2>. QED  BY <1>3, <2>1
<1>5. NoData \in DataRecord /\ NoData.refs = 0
  BY DEF NoData, DataRecord
<1>6. Wides(m.data)[d] = m.data[d].w
  BY <1>4 DEF Wides
<1>7. HandsOver(m, d, NoData, NULL, m.data[d].w)
  BY <1>1, <1>5, <1>6 DEF IsOne, HandsOver
<1>8. Recounts(m, d, NoData, d, NULL)
  BY <1>1, <1>4, <1>5 DEF IsOne, Recounts
<1>9. NULL \in Block \cup {NULL} /\ Becomes(m, z, d, NoData)
  BY DEF Becomes
<1>a. Sound(z, S, V, R, m.data[d].w, NULL) /\ Others(m, z, d, NoData)
  BY <1>3, <1>5, <1>7, <1>8, <1>9, DataSet
<1>10. /\ Sound(z, S, V, R, m.data[d].w, NULL)
       /\ z.text = m.text /\ z.data[d] = NoData /\ \A e \in Block : e # d => z.data[e] = m.data[e]
  BY <1>a DEF Others
<1>11. \A s \in StrVar : S[s] # d
  <2>1. S \in [StrVar -> Block \cup {NULL}] /\ IsFiniteSet(StrVar)
    BY <1>2, VariablesFinite DEF TypedValues
  <2>2. Tally(S, d) = 0 <=> \A s \in StrVar : S[s] # d
    BY <2>1, TallyNat
  <2>. QED  BY <2>2, <1>4
<1>12. Reads(m, z, S, V, R)
  BY <1>10, <1>11, DataChanged
<1>. QED  BY <1>10, <1>12

LEMMA Releases ==
  ASSUME ValuesAssumption, NEW m, NEW S, NEW V, NEW R, NEW d \in Block \cup {NULL},
         Sound(m, S, V, R, NULL, d)
  PROVE  /\ Sound(ReleaseData(m, d), S, V, R, NULL, NULL) /\ Reads(m, ReleaseData(m, d), S, V, R)
         /\ \A b \in Block : m.text[b] = Freed => ReleaseData(m, d).text[b] = Freed
         /\ \A e \in Block : m.data[e] = NoData => ReleaseData(m, d).data[e] = NoData
<1>1. CASE d = NULL
  BY <1>1, ReadsReflexive DEF ReleaseData
<1>2. CASE d # NULL /\ m.data[d].refs > 1
  <2>. DEFINE r == [m.data[d] EXCEPT !.refs = @ - 1]
              z == ReleaseData(m, d)
  <2>1. d \in Block /\ NULL \notin Block
    BY <1>2, BlocksAre
  <2>3. TypedValues(m, S, V, R, NULL, d)
    BY DEF Sound
  <2>4. m.data[d] \in DataRecord
    BY <2>1, <2>3 DEF TypedValues
  <2>5. r \in DataRecord /\ r.refs = m.data[d].refs - 1 /\ r.w = m.data[d].w /\ r.s = m.data[d].s
        /\ m.data[d].refs \in Nat
    BY <1>2, <2>4 DEF DataRecord
  <2>2. Becomes(m, z, d, r)
    BY <1>2, <2>1, <2>3 DEF ReleaseData, TypedValues, Becomes
  <2>. HIDE DEF z, r
  <2>6. Wides(m.data)[d] = IF r.refs > 0 THEN r.w ELSE NULL
    BY <1>2, <2>1, <2>5 DEF Wides
  <2>7. r.refs + IsOne(d, d) = m.data[d].refs + IsOne(NULL, d)
    BY <2>1, <2>5 DEF IsOne
  <2>8. \A e \in Block : e # d => IsOne(d, e) = IsOne(NULL, e)
    BY <2>1 DEF IsOne
  <2>9. r.refs = 0 => r = NoData
    BY <1>2, <2>5
  <2>10. HandsOver(m, d, r, NULL, NULL) /\ Recounts(m, d, r, d, NULL)
    BY <2>6, <2>7, <2>8, <2>9 DEF HandsOver, Recounts
  <2>a. NULL \in Block \cup {NULL}
    OBVIOUS
  <2>b. Sound(z, S, V, R, NULL, NULL) /\ Others(m, z, d, r)
    BY <2>1, <2>2, <2>5, <2>10, <2>a, DataSet
  <2>11. /\ Sound(z, S, V, R, NULL, NULL)
         /\ z.text = m.text /\ z.data[d] = r /\ \A e \in Block : e # d => z.data[e] = m.data[e]
    BY <2>b DEF Others
  <2>12. Reads(m, z, S, V, R)
    <3>1. \A e \in Block : z.data[e].w = m.data[e].w /\ z.data[e].s = m.data[e].s
      BY <2>5, <2>11
    <3>. QED  BY <2>11, <3>1, DataChanged
  <2>13. m.data[d] # NoData
    BY <1>2 DEF NoData
  <2>. QED  BY <2>11, <2>12, <2>13 DEF z
<1>3. CASE d # NULL /\ ~(m.data[d].refs > 1)
  <2>. DEFINE y == [m EXCEPT !.data[d] = NoData]
              w == m.data[d].w
  <2>1. d \in Block
    BY <1>3
  <2>2. ReleaseData(m, d) = Free(y, w)
    BY <1>3 DEF ReleaseData
  <2>3. m.data[d].refs <= 1
    BY <1>3, <2>1 DEF Sound, TypedValues, DataRecord
  <2>4. y = [m EXCEPT !.data[d] = NoData] /\ m.data \in [Block -> DataRecord]
    BY DEF Sound, TypedValues
  <2>9. \A e \in Block : m.data[e] = NoData => y.data[e] = NoData
    BY <2>1, <2>4 DEF Sound, TypedValues
  <2>. HIDE DEF y
  <2>5. Sound(y, S, V, R, w, NULL) /\ Reads(m, y, S, V, R) /\ y.text = m.text
    BY <2>1, <2>3, <2>4, Drops
  <2>. HIDE DEF w
  <2>a. \A u, g : Sound(u, S, V, R, g, NULL) =>
        /\ Sound(Free(u, g), S, V, R, NULL, NULL) /\ Reads(u, Free(u, g), S, V, R)
        /\ Free(u, g).data = u.data
        /\ \A b \in Block : u.text[b] = Freed => Free(u, g).text[b] = Freed
    BY Frees
  <2>6. /\ Sound(Free(y, w), S, V, R, NULL, NULL) /\ Reads(y, Free(y, w), S, V, R)
        /\ Free(y, w).data = y.data
        /\ \A b \in Block : y.text[b] = Freed => Free(y, w).text[b] = Freed
    BY <2>5, <2>a
  <2>7. Reads(m, Free(y, w), S, V, R)
    BY <2>5, <2>6, ReadsTransitive
  <2>. QED  BY <2>2, <2>5, <2>6, <2>7, <2>9
<1>. QED  BY <1>1, <1>2, <1>3

\* A Data_t gets its narrow text, or gives its block for the pending one.
LEMMA Narrows ==
  ASSUME ValuesAssumption, NEW m, NEW S, NEW V, NEW R, NEW q, NEW x, Sound(m, S, V, R, q, x),
         NEW d \in Block, m.data[d].refs > 0, NEW c \in Text \cup {Null},
         NEW z, z = [m EXCEPT !.data[d].s = c]
  PROVE  Sound(z, S, V, R, q, x) /\ Others(m, z, d, [m.data[d] EXCEPT !.s = c])
<1> DEFINE r == [m.data[d] EXCEPT !.s = c]
<1>1. TypedValues(m, S, V, R, q, x)
  BY DEF Sound
<1>2. m.data[d] \in DataRecord
  BY <1>1 DEF TypedValues
<1>3. r \in DataRecord /\ r.refs = m.data[d].refs /\ r.w = m.data[d].w /\ m.data[d].refs \in Nat
  BY <1>2 DEF DataRecord
<1>4. Becomes(m, z, d, r)
  BY <1>1 DEF Becomes, TypedValues
<1>. HIDE DEF r
<1>5. HandsOver(m, d, r, q, q) /\ Recounts(m, d, r, x, x)
  BY <1>3 DEF HandsOver, Recounts, Wides
<1>6. q \in Block \cup {NULL} /\ x \in Block \cup {NULL}
  BY <1>1 DEF TypedValues
<1>7. Sound(z, S, V, R, q, x) /\ Others(m, z, d, r)
  BY <1>3, <1>4, <1>5, <1>6, DataSet
<1>. QED  BY <1>7 DEF r

LEMMA Regains ==
  ASSUME ValuesAssumption, NEW m, NEW S, NEW V, NEW R, NEW q, NEW x, Sound(m, S, V, R, q, x),
         NEW d \in Block, m.data[d].refs > 0, NEW z, z = [m EXCEPT !.data[d].w = q]
  PROVE  Sound(z, S, V, R, m.data[d].w, x) /\ Others(m, z, d, [m.data[d] EXCEPT !.w = q])
<1> DEFINE r == [m.data[d] EXCEPT !.w = q]
           p == m.data[d].w
<1>1. TypedValues(m, S, V, R, q, x)
  BY DEF Sound
<1>2. m.data[d] \in DataRecord
  BY <1>1 DEF TypedValues
<1>6. q \in Block \cup {NULL} /\ x \in Block \cup {NULL} /\ p \in Block \cup {NULL}
  BY <1>1, <1>2 DEF TypedValues, DataRecord
<1>3. r \in DataRecord /\ r.refs = m.data[d].refs /\ r.w = q /\ m.data[d].refs \in Nat
  BY <1>2, <1>6 DEF DataRecord
<1>4. Becomes(m, z, d, r)
  BY <1>1 DEF Becomes, TypedValues
<1>5. HandsOver(m, d, r, q, p)
  <2>. HIDE DEF r
  <2>1. (IF r.refs > 0 THEN r.w ELSE NULL) = q /\ Wides(m.data)[d] = p
    BY <1>3 DEF Wides
  <2>2. \A b : IsOne(p, b) \in Nat /\ IsOne(q, b) \in Nat
    BY OneNat
  <2>. HIDE DEF p
  <2>. QED  BY <2>1, <2>2 DEF HandsOver
<1>8. Recounts(m, d, r, x, x)
  <2>. HIDE DEF r
  <2>. QED  BY <1>3 DEF Recounts
<1>. HIDE DEF r, p
<1>7. Sound(z, S, V, R, p, x) /\ Others(m, z, d, r)
  BY <1>3, <1>4, <1>5, <1>6, <1>8, DataSet
<1>. QED  BY <1>7 DEF r, p

\* A variable exchanges what it has for what is pending.
LEMMA StrExchanges ==
  ASSUME ValuesAssumption, NEW m, NEW S, NEW V, NEW R, NEW q, NEW y, Sound(m, S, V, R, q, y),
         NEW s \in StrVar, NEW Z, Z = [S EXCEPT ![s] = y]
  PROVE  Sound(m, Z, V, R, q, S[s])
<1>1. TypedValues(m, S, V, R, q, y)
  BY DEF Sound
<1>2. /\ Z \in [StrVar -> Block \cup {NULL}] /\ S \in [StrVar -> Block \cup {NULL}]
      /\ Z[s] = y /\ \A u \in StrVar : u # s => Z[u] = S[u]
  BY <1>1 DEF TypedValues
<1>3. TypedValues(m, Z, V, R, q, S[s])
  BY <1>1, <1>2 DEF TypedValues
<1>4. DataCounted(m, Z, S[s])
  <2>. SUFFICES ASSUME NEW d \in Block PROVE m.data[d].refs = Tally(Z, d) + IsOne(S[s], d)
    BY DEF DataCounted
  <2>1. m.data[d].refs = Tally(S, d) + IsOne(y, d)
    BY DEF Sound, DataCounted
  <2>2. Tally(Z, d) + IsOne(S[s], d) = Tally(S, d) + IsOne(Z[s], d)
    <3>1. PICK T : T = Block \cup {NULL}
      OBVIOUS
    <3>2. S \in [StrVar -> T] /\ Z \in [StrVar -> T] /\ IsFiniteSet(StrVar)
      BY <1>2, <3>1, VariablesFinite
    <3>3. s \in StrVar /\ \A u \in StrVar : u # s => Z[u] = S[u]
      BY <1>2
    <3>. QED  BY ONLY <3>2, <3>3, TallyAssigned
  <2>. QED  BY <1>2, <2>1, <2>2
<1>. QED  BY <1>3, <1>4 DEF Sound

LEMMA VarExchanges ==
  ASSUME ValuesAssumption, NEW m, NEW S, NEW V, NEW R, NEW x, NEW r \in VariantRecord,
         Sound(m, S, V, R, r.b, x), NEW v \in VarVar, NEW Z, Z = [V EXCEPT ![v] = r]
  PROVE  Sound(m, S, Z, R, V[v].b, x)
<1>1. TypedValues(m, S, V, R, r.b, x)
  BY DEF Sound
<1>2. TypedValues(m, S, Z, R, V[v].b, x)
  BY <1>1 DEF TypedValues, VariantRecord
<1>3. Blocks(m, Z, R, V[v].b)
  <2>. SUFFICES ASSUME NEW b \in Block PROVE Allocated(m, b) = Owners(b, m.data, Z, R) + IsOne(V[v].b, b)
    BY DEF Blocks
  <2>1. Allocated(m, b) = Owners(b, m.data, V, R) + IsOne(r.b, b)
    BY DEF Sound, Blocks
  <2>2. Owners(b, m.data, Z, R) + IsOne(V[v].b, b) = Owners(b, m.data, V, R) + IsOne(r.b, b)
    <3>1. V \in [VarVar -> VariantRecord]
      BY <1>1 DEF TypedValues
    <3>2. Z \in [VarVar -> VariantRecord] /\ Z[v] = r /\ \A u \in VarVar : u # v => Z[u] = V[u]
      BY <3>1
    <3>3. v \in VarVar /\ ValuesAssumption
      OBVIOUS
    <3>4. Owners(b, m.data, Z, R) + IsOne(V[v].b, b) = Owners(b, m.data, V, R) + IsOne(Z[v].b, b)
      BY ONLY <1>1, <3>2, <3>3, VarOwner
    <3>. QED  BY <3>2, <3>4
  <2>. QED  BY <2>1, <2>2
<1>. QED  BY <1>2, <1>3 DEF Sound

LEMMA RawExchanges ==
  ASSUME ValuesAssumption, NEW m, NEW S, NEW V, NEW R, NEW x, NEW r,
         Sound(m, S, V, R, r, x), NEW p \in RawVar, NEW Z, Z = [R EXCEPT ![p] = r]
  PROVE  Sound(m, S, V, Z, R[p], x)
<1>1. TypedValues(m, S, V, R, r, x) /\ r \in Block \cup {NULL}
  BY DEF Sound, TypedValues
<1>2. TypedValues(m, S, V, Z, R[p], x)
  BY <1>1 DEF TypedValues
<1>3. Blocks(m, V, Z, R[p])
  <2>. SUFFICES ASSUME NEW b \in Block PROVE Allocated(m, b) = Owners(b, m.data, V, Z) + IsOne(R[p], b)
    BY DEF Blocks
  <2>1. Allocated(m, b) = Owners(b, m.data, V, R) + IsOne(r, b)
    BY DEF Sound, Blocks
  <2>2. Owners(b, m.data, V, Z) + IsOne(R[p], b) = Owners(b, m.data, V, R) + IsOne(r, b)
    <3>1. R \in [RawVar -> Block \cup {NULL}]
      BY <1>1 DEF TypedValues
    <3>2. /\ Z \in [RawVar -> Block \cup {NULL}] /\ Z[p] = r
          /\ \A u \in RawVar : u # p => Z[u] = R[u]
      BY <1>1, <3>1
    <3>3. p \in RawVar /\ ValuesAssumption
      OBVIOUS
    <3>4. Owners(b, m.data, V, Z) + IsOne(R[p], b) = Owners(b, m.data, V, R) + IsOne(Z[p], b)
      BY ONLY <1>1, <3>2, <3>3, RawOwner
    <3>. QED  BY <3>2, <3>4
  <2>. QED  BY <2>1, <2>2
<1>. QED  BY <1>2, <1>3 DEF Sound

-----------------------------------------------------------------------------
(* Texts.                                                                      *)

LEMMA NullUncut == ValuesAssumption => Cut(Null) = Null
<1>. SUFFICES ASSUME ValuesAssumption PROVE ~Contains(Null, NUL)
  BY DEF Cut
<1>1. Null[1] = "null" /\ Len(Null) = 1 /\ NUL # "null"
  BY DEF Null, ValuesAssumption
<1>. QED  BY <1>1 DEF Contains

\* Strictly smaller sets are a well-founded order on the parts of a finite set, so that
\* among the initial parts of S that end in a member of S one is the smallest.
LEMMA Lowest ==
  ASSUME NEW n \in Nat, NEW S \in SUBSET (1 .. n), S # {}
  PROVE  Min(S) \in S /\ \A j \in S : Min(S) <= j
<1> DEFINE Upto(k) == {j \in S : j <= k}
           T == {Upto(k) : k \in S}
<1>1. IsFiniteSet(S)
  <2>1. 1 \in Int /\ n \in Int /\ S \subseteq 1 .. n
    OBVIOUS
  <2>2. IsFiniteSet(1 .. n)
    BY <2>1, FS_Interval
  <2> QED BY <2>1, <2>2, FS_Subset
<1>2. IsWellFoundedOn(StrictSubsetOrdering(S), SUBSET S)
  <2>1. FiniteSubsetsOf(S) = SUBSET S
    BY <1>1, FS_FiniteSubsetsOfFinite
  <2> QED BY <2>1, FS_StrictSubsetOrderingWellFounded
<1>3. T \subseteq SUBSET S /\ T # {}
  OBVIOUS
<1>4. PICK x \in T : \A y \in T : <<y, x>> \notin StrictSubsetOrdering(S)
  <2> HIDE DEF T
  <2> QED BY <1>2, <1>3, WFMin
<1>5. PICK k \in S : x = Upto(k)
  BY <1>4
<1>6. \A j \in S : k <= j
  <2> SUFFICES ASSUME NEW j \in S, j < k PROVE FALSE
    OBVIOUS
  <2>1. Upto(j) \in T
    OBVIOUS
  <2>2. k \in Nat /\ j \in Nat /\ S \subseteq Nat
    OBVIOUS
  <2>3. Upto(j) \subseteq Upto(k) /\ k \in Upto(k) /\ k \notin Upto(j)
    <3>1. ~(k <= j) /\ k <= k /\ \A i \in S : i <= j => i <= k
      BY <2>2
    <3> QED BY <3>1
  <2>4. <<Upto(j), x>> \in StrictSubsetOrdering(S)
    <3> HIDE DEF Upto
    <3> QED BY <2>1, <2>3, <1>3, <1>5 DEF StrictSubsetOrdering
  <2> QED BY <2>1, <2>4, <1>4
<1> QED BY <1>6 DEF Min

LEMMA CutIsText ==
  ASSUME ValuesAssumption, NEW t \in Text \cup {Null}
  PROVE  Cut(t) \in Text \cup {Null} /\ (t \in Text => Cut(t) \in Text)
<1>1. CASE t = Null
  <2>1. Cut(Null) = Null /\ Null \notin Text
    BY NullUncut, NoText
  <2>. QED  BY <1>1, <2>1
<1>2. CASE t \in Text
  <2>. SUFFICES ASSUME Contains(t, NUL) PROVE Cut(t) \in Text
    BY <1>2 DEF Cut
  <2>. DEFINE I == {i \in 1 .. Len(t) : t[i] = NUL}
  <2>1. I # {} /\ Len(t) \in Nat
    BY <1>2 DEF Contains, Text
  <2>2. SelectInSeq(t, LAMBDA c : c = NUL) = Min(I)
    BY <2>1 DEF SelectInSeq
  <2>3. PICK k : k = Min(I)
    OBVIOUS
  <2>4. Cut(t) = SubSeq(t, 1, k - 1)
    BY <2>2, <2>3 DEF Cut
  <2>5. k \in I
    <3>1. I \in SUBSET (1 .. Len(t))
      OBVIOUS
    <3>. HIDE DEF I
    <3>2. Min(I) \in I
      BY <2>1, <3>1, Lowest
    <3>. QED  BY <2>3, <3>2
  <2>. QED  BY <1>2, <2>1, <2>4, <2>5 DEF Text
<1>. QED  BY <1>1, <1>2

-----------------------------------------------------------------------------
(* The invariant of the specification.                                         *)

WideOf(m, d) == IF d = NULL THEN NULL ELSE m.data[d].w

StrKept(m, S, me, po) ==
    \A s \in StrVar \ po :
        /\ TextOf(m, WideOf(m, S[s])) = me[s]
        /\ S[s] # NULL /\ m.data[S[s]].s # Null => m.data[S[s]].s = Cut(me[s])

Holding(m, r) == <<r.vt, IF r.vt = "BSTR" THEN TextOf(m, r.b) ELSE r.n>>
VarKept(m, V, va) == \A v \in VarVar : va[v] = Holding(m, V[v])

ValuesInv ==
    /\ Sound(mem, str, var, raw, NULL, NULL)
    /\ StrKept(mem, str, meant, poked) /\ VarKept(mem, var, value)
    /\ meant \in [StrVar -> Text \cup {Null}] /\ DOMAIN value = VarVar
    /\ value = [v \in VarVar |-> value[v]]
    /\ poked \subseteq StrVar /\ ended \in {"no", "terminate", "null"} /\ steps \in 0 .. MaxSteps
    /\ EndedForReason

\* Only s may have another value.
Elsewhere(s, f, g) == \A x \in StrVar : x # s => g[x] = f[x]

LEMMA ElsewhereIs ==
  ASSUME NEW T, NEW f \in [StrVar -> T], NEW s \in StrVar, NEW y, NEW g, g = [f EXCEPT ![s] = y]
  PROVE  Elsewhere(s, f, g) /\ g[s] = y
  BY DEF Elsewhere

\* s may be poked from now on, and nobody else.
StillPoked(s, po, pf) == pf \subseteq StrVar /\ \A x \in StrVar : x # s /\ x \in po => x \in pf

\* What s has of the text t when it has the Data_t d.
HasText(z, d, t) ==
    /\ TextOf(z, WideOf(z, d)) = t
    /\ d # NULL /\ z.data[d].s # Null => z.data[d].s = Cut(t)

LEMMA StrKeptBy ==
  ASSUME NEW m, NEW z, NEW S, NEW V, NEW R, NEW s \in StrVar, NEW S1, Elsewhere(s, S, S1),
         NEW Z, Elsewhere(s, S, Z), Reads(m, z, S1, V, R),
         NEW me, NEW po, StrKept(m, S, me, po),
         NEW mf, Elsewhere(s, me, mf), NEW pf, StillPoked(s, po, pf),
         s \notin pf => HasText(z, Z[s], mf[s])
  PROVE  StrKept(z, Z, mf, pf)
<1>. SUFFICES ASSUME NEW x \in StrVar \ pf
              PROVE  /\ TextOf(z, WideOf(z, Z[x])) = mf[x]
                     /\ Z[x] # NULL /\ z.data[Z[x]].s # Null => z.data[Z[x]].s = Cut(mf[x])
  BY DEF StrKept
<1>1. CASE x = s
  BY <1>1 DEF HasText
<1>2. CASE x # s
  <2>1. Z[x] = S[x] /\ S1[x] = S[x] /\ mf[x] = me[x] /\ x \in StrVar \ po
    BY <1>2 DEF Elsewhere, StillPoked
  <2>2. /\ TextOf(m, WideOf(m, S[x])) = me[x]
        /\ S[x] # NULL /\ m.data[S[x]].s # Null => m.data[S[x]].s = Cut(me[x])
    BY <2>1 DEF StrKept
  <2>3. CASE S[x] = NULL
    BY <2>1, <2>2, <2>3 DEF WideOf, TextOf
  <2>4. CASE S[x] # NULL
    <3>1. /\ z.data[S[x]].w = m.data[S[x]].w /\ z.data[S[x]].s = m.data[S[x]].s
          /\ TextOf(z, m.data[S[x]].w) = TextOf(m, m.data[S[x]].w)
      BY <2>1, <2>4 DEF Reads
    <3>. QED  BY <2>1, <2>2, <2>4, <3>1 DEF WideOf
  <2>. QED  BY <2>3, <2>4
<1>. QED  BY <1>1, <1>2

\* A variant v takes the value r, and the others keep theirs.
LEMMA VarKeptBy ==
  ASSUME ValuesAssumption, NEW m, NEW z, NEW S, NEW V,
         NEW W, NEW va, NEW vb, NEW C, \A v \in VarVar \ C : TextOf(z, V[v].b) = TextOf(m, V[v].b),
         VarKept(m, V, va),
         \A v \in VarVar \ C : W[v] = V[v] /\ vb[v] = va[v],
         \A v \in VarVar \cap C : vb[v] = Holding(z, W[v])
  PROVE  VarKept(z, W, vb)
  BY DEF VarKept, Holding

\* A _bstr_t s without a Data_t gets one of its own.
LEMMA TakesData ==
  ASSUME ValuesAssumption, NEW o, NEW S1, NEW s \in StrVar, S1[s] = NULL, NEW V, NEW R,
         NEW m, NEW b, Sound(m, S1, V, R, b, NULL), Reads(o, m, S1, V, R),
         \E d \in Block : m.data[d] = NoData
  PROVE  /\ Sound(NewData(m, b), [S1 EXCEPT ![s] = FreeData(m)], V, R, NULL, NULL)
         /\ Reads(o, NewData(m, b), S1, V, R)
         /\ \A t : TextOf(m, b) = t => HasText(NewData(m, b), FreeData(m), t)
<1> DEFINE z == NewData(m, b)
           Z == [S1 EXCEPT ![s] = FreeData(m)]
<1>1. /\ Sound(z, S1, V, R, NULL, FreeData(m)) /\ Reads(m, z, S1, V, R)
      /\ FreeData(m) \in Block /\ z.text = m.text
      /\ z.data[FreeData(m)] = [w |-> b, s |-> Null, refs |-> 1]
  BY MakesData
<1>2. Z = [S1 EXCEPT ![s] = FreeData(m)]
  OBVIOUS
<1>. HIDE DEF z, Z
<1>3. Sound(z, Z, V, R, NULL, S1[s])
  BY <1>1, <1>2, StrExchanges
<1>4. Reads(o, z, S1, V, R)
  BY <1>1, ReadsTransitive
<1>5. TextOf(z, b) = TextOf(m, b) /\ z.data[FreeData(m)].w = b /\ z.data[FreeData(m)].s = Null
  BY <1>1 DEF TextOf
<1>6. FreeData(m) # NULL
  BY <1>1, BlocksAre
<1>7. \A t : TextOf(m, b) = t => HasText(z, FreeData(m), t)
  BY <1>5, <1>6 DEF HasText, WideOf
<1>. QED  BY <1>3, <1>4, <1>7 DEF z, Z

\* s lets go of its Data_t.
LEMMA LetsGo ==
  ASSUME ValuesAssumption, NEW m, NEW S, NEW V, NEW R, Sound(m, S, V, R, NULL, NULL),
         NEW s \in StrVar, NEW S1, S1 = [S EXCEPT ![s] = NULL]
  PROVE  /\ S \in [StrVar -> Block \cup {NULL}] /\ S[s] \in Block \cup {NULL}
         /\ Sound(m, S1, V, R, NULL, S[s])
         /\ Sound(ReleaseData(m, S[s]), S1, V, R, NULL, NULL) /\ Reads(m, ReleaseData(m, S[s]), S1, V, R)
         /\ (\E b \in Block : m.text[b] = Freed) =>
                \E b \in Block : ReleaseData(m, S[s]).text[b] = Freed
         /\ (\E d \in Block : m.data[d] = NoData) =>
                \E d \in Block : ReleaseData(m, S[s]).data[d] = NoData
<1>1. S \in [StrVar -> Block \cup {NULL}] /\ S[s] \in Block \cup {NULL}
  BY DEF Sound, TypedValues
<1>2. Sound(m, S1, V, R, NULL, S[s])
  BY StrExchanges
<1>3. /\ Sound(ReleaseData(m, S[s]), S1, V, R, NULL, NULL) /\ Reads(m, ReleaseData(m, S[s]), S1, V, R)
      /\ \A b \in Block : m.text[b] = Freed => ReleaseData(m, S[s]).text[b] = Freed
      /\ \A e \in Block : m.data[e] = NoData => ReleaseData(m, S[s]).data[e] = NoData
  BY <1>1, <1>2, Releases
<1>. QED  BY <1>1, <1>2, <1>3

LEMMA Steps ==
  ASSUME ValuesAssumption, ValuesInv, Step
  PROVE  /\ ended = "no" /\ steps' \in 0 .. MaxSteps
         /\ \E b \in Block : mem.text[b] = Freed
         /\ \E d \in Block : mem.data[d] = NoData
<1>1. steps' \in 0 .. MaxSteps
  BY DEF Step, ValuesInv, ValuesAssumption
<1>2. \E b \in Block : mem.text[b] = Freed
  <2>. SUFFICES ASSUME \A b \in Block : mem.text[b] # Freed PROVE FALSE
    OBVIOUS
  <2>1. {b \in Block : mem.text[b] = Freed} = {}
    OBVIOUS
  <2>2. Cardinality({}) = 0 /\ Cardinality({b \in Block : mem.text[b] = Freed}) > 1
    BY FS_EmptySet DEF Step
  <2>. QED  BY <2>1, <2>2
<1>3. \E d \in Block : mem.data[d] = NoData
  BY DEF Step
<1>. QED  BY <1>1, <1>2, <1>3 DEF Step

\* What an operation on a _bstr_t s has to show: it has d then, and the text t.
LEMMA StrOperation ==
  ASSUME ValuesAssumption, ValuesInv, Step, UNCHANGED <<var, value, ended>>,
         NEW s \in StrVar, NEW S1, S1 = [str EXCEPT ![s] = NULL], NEW d, NEW t \in Text \cup {Null},
         str' = [str EXCEPT ![s] = d], meant' = [meant EXCEPT ![s] = t],
         Sound(mem', str', var, raw', NULL, NULL), Reads(mem, mem', S1, var, raw'),
         StillPoked(s, poked, poked'), s \notin poked' => HasText(mem', d, t)
  PROVE  ValuesInv'
<1>1. /\ ended = "no" /\ steps' \in 0 .. MaxSteps
  BY Steps
<1>2. str \in [StrVar -> Block \cup {NULL}] /\ meant \in [StrVar -> Text \cup {Null}]
  BY DEF ValuesInv, Sound, TypedValues
<1>3. meant' \in [StrVar -> Text \cup {Null}]
  BY <1>2
<1>4. StrKept(mem, str, meant, poked) /\ VarKept(mem, var, value)
  BY DEF ValuesInv
<1>5. StrKept(mem', str', meant', poked')
  <2>1. Elsewhere(s, str, S1) /\ Elsewhere(s, str, str') /\ str'[s] = d
    BY <1>2 DEF Elsewhere
  <2>2. Elsewhere(s, meant, meant') /\ meant'[s] = t
    BY <1>2 DEF Elsewhere
  <2>3. s \notin poked' => HasText(mem', str'[s], meant'[s])
    BY <2>1, <2>2
  <2>. QED  BY ONLY <1>4, <2>1, <2>2, <2>3, s \in StrVar, Reads(mem, mem', S1, var, raw'),
                   StillPoked(s, poked, poked'), StrKeptBy
<1>6. VarKept(mem', var', value')
  <2>1. \A v \in VarVar : TextOf(mem', var[v].b) = TextOf(mem, var[v].b)
    BY DEF Reads
  <2>. QED  BY <1>4, <2>1 DEF VarKept, Holding
<1>7. EndedForReason'
  BY <1>1 DEF EndedForReason
<1>. QED  BY <1>1, <1>3, <1>5, <1>6, <1>7 DEF ValuesInv, StillPoked

LEMMA TakesKeeps ==
  ASSUME ValuesAssumption, ValuesInv, Step, UNCHANGED <<var, value, ended>>,
         NEW s \in StrVar, NEW S1, S1 = [str EXCEPT ![s] = NULL],
         NEW a, NEW b, NEW t \in Text \cup {Null}, TakesBlock(s, a, b, t),
         Sound(a, S1, var, raw', b, NULL), Reads(mem, a, S1, var, raw'),
         \E d \in Block : a.data[d] = NoData, TextOf(a, b) = t
  PROVE  ValuesInv'
<1>1. str \in [StrVar -> Block \cup {NULL}] /\ poked \subseteq StrVar
  BY DEF ValuesInv, Sound, TypedValues
<1>2. mem' = NewData(a, b) /\ str' = [str EXCEPT ![s] = FreeData(a)] /\ meant' = [meant EXCEPT ![s] = t]
      /\ poked' = poked \ {s}
  BY DEF TakesBlock
<1>3. S1[s] = NULL /\ [str EXCEPT ![s] = FreeData(a)] = [S1 EXCEPT ![s] = FreeData(a)]
  BY <1>1
<1>4. /\ Sound(NewData(a, b), [S1 EXCEPT ![s] = FreeData(a)], var, raw', NULL, NULL)
      /\ Reads(mem, NewData(a, b), S1, var, raw') /\ HasText(NewData(a, b), FreeData(a), t)
  BY <1>3, TakesData
<1>5. StillPoked(s, poked, poked')
  BY <1>1, <1>2 DEF StillPoked
<1>6. /\ Sound(mem', str', var, raw', NULL, NULL) /\ Reads(mem, mem', S1, var, raw')
      /\ HasText(mem', FreeData(a), t)
  BY <1>2, <1>3, <1>4
<1>. QED  BY <1>2, <1>5, <1>6, StrOperation

\* The operations that give s a copy of a text.
LEMMA CopiesKeep ==
  ASSUME ValuesAssumption, ValuesInv, Step, NEW s \in StrVar, NEW t \in Text \cup {Null},
         TakesBlock(s, Alloc(ReleaseData(mem, str[s]), t), Given(ReleaseData(mem, str[s]), t), t),
         UNCHANGED <<var, raw, value, ended>>
  PROVE  ValuesInv'
<1> DEFINE S1 == [str EXCEPT ![s] = NULL]
           m == ReleaseData(mem, str[s])
           a == Alloc(m, t)
           b == Given(m, t)
<1>1. Sound(mem, str, var, raw, NULL, NULL)
  BY DEF ValuesInv
<1>2. /\ \E f \in Block : mem.text[f] = Freed
      /\ \E d \in Block : mem.data[d] = NoData
  BY Steps
<1>3. /\ Sound(m, S1, var, raw, NULL, NULL) /\ Reads(mem, m, S1, var, raw)
      /\ \E f \in Block : m.text[f] = Freed
      /\ \E d \in Block : m.data[d] = NoData
  BY <1>1, <1>2, LetsGo
<1>4. S1 = [str EXCEPT ![s] = NULL] /\ TakesBlock(s, a, b, t)
  OBVIOUS
<1>5. /\ Sound(a, S1, var, raw, b, NULL) /\ Reads(m, a, S1, var, raw)
      /\ a.data = m.data /\ TextOf(a, b) = t
  <2>. HIDE DEF m, S1
  <2>. QED  BY <1>3, Allocates
<1>6. Reads(mem, a, S1, var, raw) /\ (\E d \in Block : a.data[d] = NoData) /\ raw' = raw
  BY <1>3, <1>5, ReadsTransitive
<1>. HIDE DEF S1, m, a, b
<1>7. Sound(a, S1, var, raw', b, NULL) /\ Reads(mem, a, S1, var, raw')
  BY <1>5, <1>6
<1>. QED  BY <1>4, <1>5, <1>6, <1>7, TakesKeeps

LEMMA SetTextKeeps ==
  ASSUME ValuesAssumption, ValuesInv, NEW s \in StrVar, NEW t \in Text \cup {Null}, SetText(s, t)
  PROVE  ValuesInv'
<1>1. Cut(t) \in Text \cup {Null}
  BY CutIsText
<1>. QED  BY <1>1, CopiesKeep DEF SetText

\* What is read through a pointer of the program or of a variable is a text, or none.
LEMMA TextsRead ==
  ASSUME ValuesAssumption, ValuesInv
  PROVE  /\ \A p \in RawVar : TextOf(mem, raw[p]) \in Text \cup {Null} /\ raw[p] \in Block \cup {NULL}
         /\ \A v \in VarVar : TextOf(mem, var[v].b) \in Text \cup {Null} /\ var[v].b \in Block \cup {NULL}
         /\ \A s \in StrVar : TextOf(mem, GetWString(s)) \in Text \cup {Null} /\ GetWString(s) \in Block \cup {NULL}
         /\ \A s \in StrVar : GetWString(s) = WideOf(mem, str[s]) /\ Wide(s) \in Text \cup {Null}
         /\ str \in [StrVar -> Block \cup {NULL}]
         /\ \A v \in VarVar : var[v].b # NULL => TextOf(mem, var[v].b) \in Text
         /\ \A s \in StrVar : GetWString(s) # NULL => Wide(s) \in Text
<1>1. Sound(mem, str, var, raw, NULL, NULL) /\ TypedValues(mem, str, var, raw, NULL, NULL)
  BY DEF ValuesInv, Sound
<1>2. ASSUME NEW b \in Block, Owners(b, mem.data, var, raw) # 0
      PROVE  TextOf(mem, b) \in Text
  <2>1. mem.text[b] \in Text \cup {Freed}
    BY <1>1 DEF TypedValues
  <2>2. Allocated(mem, b) = Owners(b, mem.data, var, raw) + IsOne(NULL, b)
    BY <1>1 DEF Sound, Blocks
  <2>3. IsOne(NULL, b) = 0 /\ b # NULL
    BY BlocksAre DEF IsOne
  <2>4. Owners(b, mem.data, var, raw) \in Nat
    BY <1>1, OwnersNat
  <2>5. mem.text[b] # Freed
    BY <1>2, <2>2, <2>3, <2>4 DEF Allocated
  <2>. QED  BY <2>1, <2>3, <2>5 DEF TextOf
<1>3. \A p \in RawVar : raw[p] \in Block => Owners(raw[p], mem.data, var, raw) # 0
  BY <1>1, OwnersFound
<1>4. \A v \in VarVar : var[v].b \in Block => Owners(var[v].b, mem.data, var, raw) # 0
  BY <1>1, OwnersFound
<1>5. ASSUME NEW s \in StrVar, GetWString(s) \in Block
      PROVE  Owners(GetWString(s), mem.data, var, raw) # 0
  <2>1. str[s] \in Block /\ GetWString(s) = mem.data[str[s]].w
    BY <1>1, <1>5, BlocksAre DEF TypedValues, GetWString
  <2>2. mem.data[str[s]].refs > 0
    BY <1>1, <2>1, Live
  <2>. QED  BY <1>1, <1>5, <2>1, <2>2, OwnersFound
<1>6. TextOf(mem, NULL) = Null
  BY DEF TextOf
<1>7. \A p \in RawVar : raw[p] \in Block \cup {NULL}
  BY <1>1 DEF TypedValues
<1>8. \A v \in VarVar : var[v].b \in Block \cup {NULL}
  BY <1>1 DEF TypedValues, VariantRecord
<1>9. \A s \in StrVar : GetWString(s) \in Block \cup {NULL}
  BY <1>1 DEF TypedValues, DataRecord, GetWString
<1>10. \A s \in StrVar : GetWString(s) = WideOf(mem, str[s]) /\ Wide(s) = TextOf(mem, GetWString(s))
  BY DEF GetWString, WideOf, Wide
<1>11. str \in [StrVar -> Block \cup {NULL}]
  BY <1>1 DEF TypedValues
<1>12. \A v \in VarVar : var[v].b # NULL => TextOf(mem, var[v].b) \in Text
  BY <1>2, <1>4, <1>8
<1>13. \A s \in StrVar : GetWString(s) # NULL => Wide(s) \in Text
  BY <1>2, <1>5, <1>9, <1>10
<1>14. \A p \in RawVar : TextOf(mem, raw[p]) \in Text \cup {Null}
  BY <1>2, <1>3, <1>6, <1>7
<1>15. \A v \in VarVar : TextOf(mem, var[v].b) \in Text \cup {Null}
  BY <1>6, <1>12
<1>16. \A s \in StrVar : Wide(s) \in Text \cup {Null}
  BY <1>6, <1>10, <1>13
<1>. QED  BY <1>7, <1>8, <1>9, <1>10, <1>11, <1>12, <1>13, <1>14, <1>15, <1>16

LEMMA NothingKeeps ==
  ASSUME ValuesInv, UNCHANGED values
  PROVE  ValuesInv'
  BY DEF ValuesInv, values, EndedForReason

LEMMA SetPointerKeeps ==
  ASSUME ValuesAssumption, ValuesInv, NEW s \in StrVar, NEW b, TextOf(mem, b) \in Text \cup {Null},
         SetPointer(s, b)
  PROVE  ValuesInv'
<1>1. CASE UNCHANGED values
  BY <1>1, NothingKeeps
<1>2. CASE SetText(s, TextOf(mem, b))
  BY <1>2, SetTextKeeps
<1>. QED  BY <1>1, <1>2 DEF SetPointer

LEMMA AssignKeeps ==
  ASSUME ValuesAssumption, ValuesInv, NEW s \in StrVar, NEW p \in RawVar, Assign(s, p)
  PROVE  ValuesInv'
<1>1. TextOf(mem, raw[p]) \in Text \cup {Null}
  BY TextsRead
<1>. QED  BY <1>1, CopiesKeep DEF Assign

LEMMA AttachKeeps ==
  ASSUME ValuesAssumption, ValuesInv, NEW s \in StrVar, NEW p \in RawVar, Attach(s, p)
  PROVE  ValuesInv'
<1> DEFINE S1 == [str EXCEPT ![s] = NULL]
           m == ReleaseData(mem, str[s])
           b == raw[p]
           t == TextOf(mem, raw[p])
<1>1. /\ Step /\ TakesBlock(s, m, b, t) /\ raw' = [raw EXCEPT ![p] = NULL]
      /\ UNCHANGED <<var, value, ended>>
  BY DEF Attach
<1>2. Sound(mem, str, var, raw, NULL, NULL) /\ t \in Text \cup {Null}
  BY TextsRead DEF ValuesInv
<1>3. \E d \in Block : mem.data[d] = NoData
  BY <1>1, Steps
<1>4. /\ Sound(m, S1, var, raw, NULL, NULL) /\ Reads(mem, m, S1, var, raw)
      /\ \E d \in Block : m.data[d] = NoData
  BY <1>2, <1>3, LetsGo
<1>. HIDE DEF S1, m
<1>5. Sound(m, S1, var, raw', raw[p], NULL)
  BY <1>1, <1>4, RawExchanges
<1>6. Reads(mem, m, S1, var, raw') /\ TextOf(m, raw[p]) = t
  <2>1. TextOf(m, raw[p]) = t
    BY <1>4 DEF Reads
  <2>2. raw \in [RawVar -> Block \cup {NULL}]
    BY <1>2 DEF Sound, TypedValues
  <2>3. \A o \in RawVar : TextOf(m, raw'[o]) = TextOf(mem, raw'[o])
    BY <1>1, <1>4, <2>2 DEF Reads, TextOf
  <2>. QED  BY <1>4, <2>1, <2>3 DEF Reads
<1>7. S1 = [str EXCEPT ![s] = NULL]
  BY DEF S1
<1>. HIDE DEF t, b
<1>8. Sound(m, S1, var, raw', b, NULL) /\ TextOf(m, b) = t
  BY <1>5, <1>6 DEF b
<1>. QED  BY <1>1, <1>2, <1>4, <1>6, <1>7, <1>8, TakesKeeps

LEMMA ReadsFewer ==
  ASSUME NEW m, NEW z, NEW S, NEW V, NEW R, Reads(m, z, S, V, R), NEW s \in StrVar,
         NEW S1, Elsewhere(s, S, S1), S1[s] = NULL
  PROVE  Reads(m, z, S1, V, R)
  BY DEF Reads, Elsewhere

LEMMA ShareKeeps ==
  ASSUME ValuesAssumption, ValuesInv, NEW s \in StrVar, NEW x \in StrVar, Share(s, x)
  PROVE  ValuesInv'
<1> DEFINE S1 == [str EXCEPT ![s] = NULL]
           m == ReleaseData(mem, str[s])
           d == str[x]
<1>1. /\ Step /\ s # x /\ mem' = AddRef(m, d) /\ str' = [str EXCEPT ![s] = d]
      /\ meant' = [meant EXCEPT ![s] = meant[x]]
      /\ poked' = IF x \in poked THEN poked \cup {s} ELSE poked \ {s}
      /\ UNCHANGED <<var, raw, value, ended>>
  BY DEF Share
<1>2. /\ Sound(mem, str, var, raw, NULL, NULL) /\ meant[x] \in Text \cup {Null}
      /\ StrKept(mem, str, meant, poked) /\ poked \subseteq StrVar
  BY DEF ValuesInv
<1>3. /\ Sound(m, S1, var, raw, NULL, NULL) /\ Reads(mem, m, S1, var, raw)
      /\ str \in [StrVar -> Block \cup {NULL}]
  BY <1>2, LetsGo
<1>4. /\ S1 = [str EXCEPT ![s] = NULL] /\ S1[x] = d /\ S1[s] = NULL /\ d \in Block \cup {NULL}
      /\ str' = [S1 EXCEPT ![s] = d]
  BY <1>1, <1>3
<1>. HIDE DEF S1, m
<1>5. /\ Sound(mem', S1, var, raw, NULL, d) /\ Reads(m, mem', S1, var, raw)
      /\ d # NULL => mem'.data[d].w = m.data[d].w /\ mem'.data[d].s = m.data[d].s
      /\ mem'.text = m.text
  <2>. HIDE DEF d
  <2>. QED  BY <1>1, <1>3, <1>4, Refers
<1>6. Sound(mem', str', var, raw', NULL, NULL)
  <2>1. Sound(mem', str', var, raw, NULL, S1[s])
    <3>. HIDE DEF d
    <3>. QED  BY <1>4, <1>5, StrExchanges
  <2>. QED  BY <2>1, <1>1, <1>4
<1>7. Reads(mem, mem', S1, var, raw')
  BY <1>1, <1>3, <1>5, ReadsTransitive
<1>8. StillPoked(s, poked, poked')
  BY <1>1, <1>2 DEF StillPoked
<1>9. ASSUME s \notin poked' PROVE HasText(mem', d, meant[x])
  <2>1. x \in StrVar \ poked
    BY <1>1, <1>9
  <2>2. /\ TextOf(mem, WideOf(mem, d)) = meant[x]
        /\ d # NULL /\ mem.data[d].s # Null => mem.data[d].s = Cut(meant[x])
    BY <1>2, <2>1 DEF StrKept
  <2>3. CASE d = NULL
    BY <2>2, <2>3 DEF HasText, WideOf, TextOf
  <2>4. CASE d # NULL
    <3>1. /\ mem'.data[d].w = mem.data[d].w /\ mem'.data[d].s = mem.data[d].s
          /\ TextOf(mem', mem.data[d].w) = TextOf(mem, mem.data[d].w)
      BY <1>4, <1>7, <2>4 DEF Reads
    <3>. QED  BY <2>2, <2>4, <3>1 DEF HasText, WideOf
  <2>. QED  BY <2>3, <2>4
<1>. HIDE DEF d
<1>. QED  BY <1>1, <1>2, <1>4, <1>6, <1>7, <1>8, <1>9, StrOperation

LEMMA PlainText == \A t \in Text \cup {Null} : Plain(t) \in Text
  BY DEF Plain, Text

LEMMA AppendKeeps ==
  ASSUME ValuesAssumption, ValuesInv, NEW s \in StrVar, NEW x \in StrVar, AppendTo(s, x)
  PROVE  ValuesInv'
<1> DEFINE t == Plain(Wide(s)) \o Plain(Wide(x))
           a == Alloc(mem, t)
           b == Given(mem, t)
           m == NewData(a, b)
           d == FreeData(a)
           S1 == [str EXCEPT ![s] = NULL]
<1>1. /\ Step /\ mem' = ReleaseData(m, str[s]) /\ str' = [str EXCEPT ![s] = d]
      /\ meant' = [meant EXCEPT ![s] = t] /\ poked' = poked \ {s}
      /\ UNCHANGED <<var, raw, value, ended>>
  BY DEF AppendTo
<1>2. t \in Text
  <2>1. Wide(s) \in Text \cup {Null} /\ Wide(x) \in Text \cup {Null}
    BY TextsRead
  <2>2. Plain(Wide(s)) \in Text /\ Plain(Wide(x)) \in Text
    BY <2>1, PlainText
  <2>. QED  BY <2>2 DEF Text
<1>. HIDE DEF t
<1>3. /\ Sound(mem, str, var, raw, NULL, NULL) /\ poked \subseteq StrVar
      /\ str \in [StrVar -> Block \cup {NULL}]
  BY TextsRead DEF ValuesInv
<1>4. /\ \E f \in Block : mem.text[f] = Freed
      /\ \E e \in Block : mem.data[e] = NoData
  BY <1>1, Steps
<1>5. /\ Sound(a, str, var, raw, b, NULL) /\ Reads(mem, a, str, var, raw)
      /\ a.data = mem.data /\ TextOf(a, b) = t
  BY <1>2, <1>3, <1>4, Allocates
<1>6. \E e \in Block : a.data[e] = NoData
  BY <1>4, <1>5
<1>. HIDE DEF a, b
<1>7. /\ Sound(m, str, var, raw, NULL, d) /\ Reads(a, m, str, var, raw)
      /\ d \in Block /\ m.text = a.text
      /\ m.data[d] = [w |-> b, s |-> Null, refs |-> 1]
      /\ \A u \in StrVar : str[u] # d
  BY <1>5, <1>6, MakesData
<1>. HIDE DEF m, d
<1>8. Sound(m, str', var, raw, NULL, str[s])
  BY <1>1, <1>7, StrExchanges
<1>9. str[s] \in Block \cup {NULL} /\ str'[s] = d /\ d # NULL
  BY <1>1, <1>3, <1>7, BlocksAre
<1>10. Sound(mem', str', var, raw', NULL, NULL) /\ Reads(m, mem', str', var, raw)
  BY <1>1, <1>8, <1>9, Releases
<1>11. /\ mem'.data[d].w = b /\ mem'.data[d].s = Null
       /\ TextOf(mem', b) = TextOf(m, b)
  BY <1>7, <1>9, <1>10 DEF Reads
<1>12. TextOf(m, b) = t
  BY <1>5, <1>7 DEF TextOf
<1>13. HasText(mem', d, t)
  BY <1>9, <1>11, <1>12 DEF HasText, WideOf
<1>14. /\ S1 = [str EXCEPT ![s] = NULL] /\ S1[s] = NULL
       /\ Elsewhere(s, str, S1) /\ Elsewhere(s, str', S1)
  BY <1>1, <1>3 DEF Elsewhere
<1>. HIDE DEF S1
<1>15. Reads(mem, mem', S1, var, raw')
  <2>1. Reads(mem, m, str, var, raw)
    BY <1>5, <1>7, ReadsTransitive
  <2>2. Reads(mem, m, S1, var, raw)
    BY <1>14, <2>1, ReadsFewer
  <2>3. Reads(m, mem', S1, var, raw)
    BY <1>10, <1>14, ReadsFewer
  <2>. QED  BY <1>1, <2>2, <2>3, ReadsTransitive
<1>16. StillPoked(s, poked, poked')
  BY <1>1, <1>3 DEF StillPoked
<1>. QED  BY <1>1, <1>2, <1>10, <1>13, <1>14, <1>15, <1>16, StrOperation

LEMMA DetachKeeps ==
  ASSUME ValuesAssumption, ValuesInv, NEW s \in StrVar, NEW p \in RawVar, Detach(s, p)
  PROVE  ValuesInv'
<1> DEFINE S1 == [str EXCEPT ![s] = NULL]
           d == str[s]
           w == GetWString(s)
<1>1. Step /\ raw[p] = NULL /\ UNCHANGED <<var, value>>
  BY DEF Detach
<1>2. /\ Sound(mem, str, var, raw, NULL, NULL) /\ poked \subseteq StrVar
      /\ str \in [StrVar -> Block \cup {NULL}] /\ raw \in [RawVar -> Block \cup {NULL}]
  BY DEF ValuesInv, Sound, TypedValues
<1>3. CASE d # NULL /\ mem.data[d].refs = 1
  <2>1. /\ mem' = [mem EXCEPT !.data[d] = NoData] /\ raw' = [raw EXCEPT ![p] = w]
        /\ str' = [str EXCEPT ![s] = NULL] /\ meant' = [meant EXCEPT ![s] = Null]
        /\ poked' = poked \ {s} /\ UNCHANGED ended
    BY <1>3 DEF Detach
  <2>2. d \in Block /\ w = mem.data[d].w /\ mem.data[d].refs <= 1
    BY <1>2, <1>3 DEF GetWString
  <2>3. Sound(mem, S1, var, raw, NULL, d)
    BY <1>2, LetsGo
  <2>4. S1 = str' /\ S1 = [str EXCEPT ![s] = NULL]
    BY <2>1
  <2>. HIDE DEF S1, d, w
  <2>5. /\ Sound(mem', S1, var, raw, w, NULL) /\ Reads(mem, mem', S1, var, raw)
        /\ mem'.text = mem.text
    BY <2>1, <2>2, <2>3, Drops
  <2>6. Sound(mem', S1, var, raw', raw[p], NULL)
    BY <2>1, <2>5, RawExchanges
  <2>7. Reads(mem, mem', S1, var, raw')
    BY <2>5 DEF Reads, TextOf
  <2>8. StillPoked(s, poked, poked') /\ HasText(mem', NULL, Null) /\ Null \in Text \cup {Null}
    BY <1>2, <2>1 DEF StillPoked, HasText, WideOf, TextOf
  <2>9. Sound(mem', str', var, raw', NULL, NULL)
    BY <1>1, <2>4, <2>6
  <2>. QED  BY <1>1, <2>1, <2>4, <2>7, <2>8, <2>9, StrOperation
<1>4. CASE ~(d # NULL /\ mem.data[d].refs = 1)
  <2>1. ended' = "terminate" /\ UNCHANGED <<mem, str, raw, meant, poked, var, value>>
    BY <1>1, <1>4 DEF Detach
  <2>2. steps' \in 0 .. MaxSteps
    BY <1>1, Steps
  <2>3. \E u \in StrVar : str[u] = NULL \/ mem.data[str[u]].refs > 1
    <3>1. CASE d = NULL
      BY <3>1
    <3>2. CASE d # NULL
      <4>1. d \in Block
        BY <1>2, <3>2
      <4>2. mem.data[d].refs > 0 /\ mem.data[d].refs \in Nat
        <5>1. mem.data[d].refs > 0
          BY <1>2, <4>1, Live
        <5>. QED  BY <1>2, <4>1, <5>1 DEF Sound, TypedValues, DataRecord
      <4>. QED  BY <1>4, <3>2, <4>2
    <3>. QED  BY <3>1, <3>2
  <2>. QED  BY <2>1, <2>2, <2>3 DEF ValuesInv, EndedForReason
<1>. QED  BY <1>3, <1>4

-----------------------------------------------------------------------------
LEMMA StrSame ==
  ASSUME NEW m, NEW z, NEW S, NEW V, NEW R, Reads(m, z, S, V, R), NEW me, NEW po,
         StrKept(m, S, me, po)
  PROVE  StrKept(z, S, me, po)
<1>. SUFFICES ASSUME NEW x \in StrVar \ po
              PROVE  /\ TextOf(z, WideOf(z, S[x])) = me[x]
                     /\ S[x] # NULL /\ z.data[S[x]].s # Null => z.data[S[x]].s = Cut(me[x])
  BY DEF StrKept
<1>1. /\ TextOf(m, WideOf(m, S[x])) = me[x]
      /\ S[x] # NULL /\ m.data[S[x]].s # Null => m.data[S[x]].s = Cut(me[x])
  BY DEF StrKept
<1>2. CASE S[x] = NULL
  BY <1>1, <1>2 DEF WideOf, TextOf
<1>3. CASE S[x] # NULL
  BY <1>1, <1>3 DEF WideOf, Reads
<1>. QED  BY <1>2, <1>3

LEMMA VarSame ==
  ASSUME NEW m, NEW z, NEW S, NEW V, NEW R, Reads(m, z, S, V, R), NEW va, VarKept(m, V, va)
  PROVE  VarKept(z, V, va)
  BY DEF Reads, VarKept, Holding

\* What every operation that ends nothing has to show.
LEMMA OperationKeeps ==
  ASSUME ValuesAssumption, ValuesInv, Step, UNCHANGED ended,
         Sound(mem', str', var', raw', NULL, NULL),
         StrKept(mem', str', meant', poked'), VarKept(mem', var', value'),
         meant' \in [StrVar -> Text \cup {Null}], poked' \subseteq StrVar,
         value' = [v \in VarVar |-> value'[v]]
  PROVE  ValuesInv'
<1>1. /\ ended = "no" /\ steps' \in 0 .. MaxSteps
  BY Steps
<1>2. EndedForReason'
  BY <1>1 DEF EndedForReason
<1>3. DOMAIN value' = VarVar
  OBVIOUS
<1>. QED  BY <1>1, <1>2, <1>3 DEF ValuesInv

LEMMA NarrowKeeps ==
  ASSUME ValuesAssumption, ValuesInv, NEW s \in StrVar, Narrow(s)
  PROVE  ValuesInv'
<1> DEFINE d == str[s]
           c == Cut(Wide(s))
<1>1. /\ Step /\ GetWString(s) # NULL /\ mem' = [mem EXCEPT !.data[d].s = c]
      /\ UNCHANGED <<str, var, raw, meant, value, poked, ended>>
  BY DEF Narrow
<1>2. /\ Sound(mem, str, var, raw, NULL, NULL) /\ StrKept(mem, str, meant, poked)
      /\ VarKept(mem, var, value) /\ value = [v \in VarVar |-> value[v]]
      /\ meant \in [StrVar -> Text \cup {Null}] /\ poked \subseteq StrVar
  BY DEF ValuesInv
<1>3. d \in Block /\ str \in [StrVar -> Block \cup {NULL}] /\ Wide(s) = TextOf(mem, WideOf(mem, d))
  BY <1>1, TextsRead DEF GetWString, Wide
<1>4. c \in Text \cup {Null}
  BY TextsRead, CutIsText
<1>5. mem.data[d].refs > 0
  BY <1>2, <1>3, Live
<1>. HIDE DEF c, d
<1>6. Sound(mem', str, var, raw, NULL, NULL) /\ Others(mem, mem', d, [mem.data[d] EXCEPT !.s = c])
  BY <1>1, <1>2, <1>3, <1>4, <1>5, Narrows
<1>7. /\ mem'.text = mem.text
      /\ \A e \in Block : mem'.data[e].w = mem.data[e].w
      /\ mem'.data[d].s = c /\ \A e \in Block : e # d => mem'.data[e].s = mem.data[e].s
  <2>1. mem.data[d] \in DataRecord
    BY <1>2, <1>3 DEF Sound, TypedValues
  <2>. QED  BY <1>6, <2>1 DEF Others, DataRecord
<1>8. \A e \in Block \cup {NULL} : TextOf(mem', WideOf(mem', e)) = TextOf(mem, WideOf(mem, e))
  BY <1>7 DEF TextOf, WideOf
<1>9. StrKept(mem', str, meant, poked)
  <2>. SUFFICES ASSUME NEW x \in StrVar \ poked
                PROVE  /\ TextOf(mem', WideOf(mem', str[x])) = meant[x]
                       /\ str[x] # NULL /\ mem'.data[str[x]].s # Null
                            => mem'.data[str[x]].s = Cut(meant[x])
    BY DEF StrKept
  <2>1. /\ TextOf(mem, WideOf(mem, str[x])) = meant[x] /\ str[x] \in Block \cup {NULL}
        /\ str[x] # NULL /\ mem.data[str[x]].s # Null => mem.data[str[x]].s = Cut(meant[x])
    BY <1>2, <1>3 DEF StrKept
  <2>2. TextOf(mem', WideOf(mem', str[x])) = meant[x]
    BY <1>8, <2>1
  <2>3. CASE str[x] = d
    BY <1>3, <1>7, <2>1, <2>2, <2>3 DEF c
  <2>4. CASE str[x] # d
    BY <1>7, <2>1, <2>2, <2>4
  <2>. QED  BY <2>3, <2>4
<1>10. VarKept(mem', var, value)
  <2>1. \A b : TextOf(mem', b) = TextOf(mem, b)
    BY <1>7 DEF TextOf
  <2>. QED  BY <1>2, <2>1 DEF VarKept, Holding
<1>11. Sound(mem', str', var', raw', NULL, NULL) /\ StrKept(mem', str', meant', poked')
       /\ VarKept(mem', var', value')
  BY <1>1, <1>6, <1>9, <1>10
<1>. QED  BY <1>1, <1>2, <1>11, OperationKeeps

-----------------------------------------------------------------------------
(* The BSTRs of the program.                                                   *)

LEMMA RawOperation ==
  ASSUME ValuesAssumption, ValuesInv, Step, UNCHANGED <<str, var, meant, value, poked, ended>>,
         Sound(mem', str, var, raw', NULL, NULL), NEW R, Reads(mem, mem', str, var, R)
  PROVE  ValuesInv'
<1>1. /\ StrKept(mem, str, meant, poked) /\ VarKept(mem, var, value)
      /\ meant \in [StrVar -> Text \cup {Null}] /\ poked \subseteq StrVar
      /\ value = [v \in VarVar |-> value[v]]
  BY DEF ValuesInv
<1>2. StrKept(mem', str, meant, poked) /\ VarKept(mem', var, value)
  BY <1>1, StrSame, VarSame
<1>3. /\ Sound(mem', str', var', raw', NULL, NULL) /\ StrKept(mem', str', meant', poked')
      /\ VarKept(mem', var', value')
  BY <1>2
<1>. QED  BY <1>1, <1>3, OperationKeeps

\* A new block for the program.
LEMMA NewRawKeeps ==
  ASSUME ValuesAssumption, ValuesInv, NEW p \in RawVar, NEW t \in Text \cup {Null}, Step,
         raw[p] = NULL, mem' = Alloc(mem, t), raw' = [raw EXCEPT ![p] = Given(mem, t)],
         UNCHANGED <<str, var, meant, value, poked, ended>>
  PROVE  ValuesInv'
<1>1. Sound(mem, str, var, raw, NULL, NULL) /\ \E f \in Block : mem.text[f] = Freed
  BY Steps DEF ValuesInv
<1>2. Sound(mem', str, var, raw, Given(mem, t), NULL) /\ Reads(mem, mem', str, var, raw)
  BY <1>1, Allocates
<1>3. Sound(mem', str, var, raw', raw[p], NULL)
  BY <1>2, RawExchanges
<1>. QED  BY <1>2, <1>3, RawOperation

LEMMA CopyKeeps ==
  ASSUME ValuesAssumption, ValuesInv, NEW s \in StrVar, NEW p \in RawVar, Copy(s, p)
  PROVE  ValuesInv'
<1>1. Wide(s) \in Text \cup {Null}
  BY TextsRead
<1>. QED  BY <1>1, NewRawKeeps DEF Copy

LEMMA ReceiveKeeps ==
  ASSUME ValuesAssumption, ValuesInv, NEW p \in RawVar, NEW t \in Text \cup {Null}, Receive(p, t)
  PROVE  ValuesInv'
  BY NewRawKeeps DEF Receive

LEMMA GiveUpKeeps ==
  ASSUME ValuesAssumption, ValuesInv, NEW p \in RawVar, GiveUp(p)
  PROVE  ValuesInv'
<1>1. /\ Step /\ mem' = Free(mem, raw[p]) /\ raw' = [raw EXCEPT ![p] = NULL]
      /\ UNCHANGED <<str, var, meant, value, poked, ended>>
  BY DEF GiveUp
<1>2. Sound(mem, str, var, raw, NULL, NULL)
  BY DEF ValuesInv
<1>3. Sound(mem, str, var, raw', raw[p], NULL)
  BY <1>1, <1>2, RawExchanges
<1>4. Sound(mem', str, var, raw', NULL, NULL) /\ Reads(mem, mem', str, var, raw')
  BY <1>1, <1>3, Frees
<1>. QED  BY <1>1, <1>4, RawOperation

-----------------------------------------------------------------------------
(* The operations of _variant_t.                                               *)

EmptyVariant == Variant("EMPTY", NULL, 0)

LEMMA EmptyIs ==
  EmptyVariant \in VariantRecord /\ EmptyVariant.b = NULL
  BY DEF EmptyVariant, Variant, VariantRecord

LEMMA FreesText ==
  ASSUME NEW m, NEW S, NEW V, NEW R, NEW q, NEW x, TypedValues(m, S, V, R, q, x),
         NEW b \in Block, m.text[b] = Freed
  PROVE  Free(m, q).text[b] = Freed
<1>1. CASE q = NULL
  BY <1>1 DEF Free
<1>2. CASE q # NULL
  <2>1. Free(m, q) = [m EXCEPT !.text[q] = Freed]
    BY <1>2 DEF Free
  <2>2. m \in [text : [Block -> Text \cup {Freed}], data : [Block -> DataRecord]]
    BY DEF TypedValues
  <2>3. Free(m, q).text = [m.text EXCEPT ![q] = Freed] /\ m.text \in [Block -> Text \cup {Freed}]
    BY <2>1, <2>2
  <2>. QED  BY <2>3
<1>. QED  BY <1>1, <1>2

\* VariantClear.
LEMMA Clears ==
  ASSUME ValuesAssumption, ValuesInv, Step, NEW v \in VarVar,
         NEW W, W = [var EXCEPT ![v] = EmptyVariant]
  PROVE  /\ Sound(Cleared(v), str, W, raw, NULL, NULL) /\ Reads(mem, Cleared(v), str, W, raw)
         /\ \E b \in Block : Cleared(v).text[b] = Freed
         /\ var \in [VarVar -> VariantRecord] /\ W \in [VarVar -> VariantRecord]
<1>1. /\ Sound(mem, str, var, raw, EmptyVariant.b, NULL) /\ EmptyVariant \in VariantRecord
      /\ var \in [VarVar -> VariantRecord] /\ \E b \in Block : mem.text[b] = Freed
  BY EmptyIs, Steps DEF ValuesInv, Sound, TypedValues
<1>2. Sound(mem, str, W, raw, var[v].b, NULL)
  <2>. HIDE DEF EmptyVariant
  <2>. QED  BY <1>1, VarExchanges
<1>3. Sound(Cleared(v), str, W, raw, NULL, NULL) /\ Reads(mem, Cleared(v), str, W, raw)
  BY <1>2, Frees DEF Cleared
<1>5. \A b \in Block : mem.text[b] = Freed => Cleared(v).text[b] = Freed
  <2>1. TypedValues(mem, str, W, raw, var[v].b, NULL)
    BY <1>2 DEF Sound
  <2>2. PICK q : q = var[v].b
    OBVIOUS
  <2>3. \A b \in Block : mem.text[b] = Freed => Free(mem, q).text[b] = Freed
    BY <2>1, <2>2, FreesText
  <2>. QED  BY <2>2, <2>3 DEF Cleared
<1>4. W \in [VarVar -> VariantRecord]
  BY <1>1
<1>. QED  BY <1>1, <1>3, <1>4, <1>5

\* The variants that changed are those of C, W has the others as they were, and those of C
\* hold what they were given.
Rest(C, W) == \A u \in VarVar \ C : W[u] = var[u] /\ var'[u] = var[u] /\ value'[u] = value[u]
GivenTo(C) == \A u \in VarVar \cap C : value'[u] = Holding(mem', var'[u])
ValueIs == value' = [u \in VarVar |-> value'[u]]

LEMMA VarOperation ==
  ASSUME ValuesAssumption, ValuesInv, Step, UNCHANGED <<str, meant, poked, ended>>,
         Sound(mem', str, var', raw', NULL, NULL), NEW W, NEW R, Reads(mem, mem', str, W, R),
         NEW C, Rest(C, W), GivenTo(C), ValueIs
  PROVE  ValuesInv'
<1>1. /\ StrKept(mem, str, meant, poked) /\ VarKept(mem, var, value)
      /\ meant \in [StrVar -> Text \cup {Null}] /\ poked \subseteq StrVar
  BY DEF ValuesInv
<1>2. StrKept(mem', str, meant, poked)
  BY <1>1, StrSame
<1>3. \A u \in VarVar \ C : TextOf(mem', var[u].b) = TextOf(mem, var[u].b)
  BY DEF Reads, Rest
<1>4. VarKept(mem', var', value')
  <2>. SUFFICES ASSUME NEW u \in VarVar PROVE value'[u] = Holding(mem', var'[u])
    BY DEF VarKept
  <2>1. CASE u \in C
    BY <2>1 DEF GivenTo
  <2>2. CASE u \notin C
    <3>1. value[u] = Holding(mem, var[u])
      BY <1>1 DEF VarKept
    <3>. QED  BY <1>3, <2>2, <3>1 DEF Holding, Rest
  <2>. QED  BY <2>1, <2>2
<1>5. Sound(mem', str', var', raw', NULL, NULL) /\ StrKept(mem', str', meant', poked')
  BY <1>2
<1>6. value' = [u \in VarVar |-> value'[u]]
  BY DEF ValueIs
<1>. QED  BY <1>1, <1>4, <1>5, <1>6, OperationKeeps

LEMMA HoldsKeeps ==
  ASSUME ValuesAssumption, ValuesInv, Step, UNCHANGED <<str, raw, meant, poked, ended>>,
         NEW v \in VarVar, NEW t \in Text \cup {Null}, NEW r \in VariantRecord,
         r.b = Given(Cleared(v), t), NEW g, Holds(v, Alloc(Cleared(v), t), r, g),
         g = <<r.vt, IF r.vt = "BSTR" THEN t ELSE r.n>>
  PROVE  ValuesInv'
<1> DEFINE W == [var EXCEPT ![v] = EmptyVariant]
           c == Cleared(v)
<1>1. mem' = Alloc(c, t) /\ var' = [var EXCEPT ![v] = r] /\ value' = [value EXCEPT ![v] = g]
  BY DEF Holds
<1>2. /\ Sound(c, str, W, raw, NULL, NULL) /\ Reads(mem, c, str, W, raw)
      /\ \E b \in Block : c.text[b] = Freed
      /\ var \in [VarVar -> VariantRecord] /\ W \in [VarVar -> VariantRecord]
  BY Clears
<1>3. /\ W[v].b = NULL /\ var' = [W EXCEPT ![v] = r] /\ var'[v] = r
      /\ \A u \in VarVar \ {v} : W[u] = var[u] /\ var'[u] = var[u]
  BY <1>1, <1>2, EmptyIs
<1>. HIDE DEF W, c
<1>4. /\ Sound(mem', str, W, raw, Given(c, t), NULL) /\ Reads(c, mem', str, W, raw)
      /\ TextOf(mem', Given(c, t)) = t
  BY <1>1, <1>2, Allocates
<1>5. Given(c, t) = r.b
  BY DEF c
<1>6. Sound(mem', str, var', raw, NULL, NULL)
  BY <1>3, <1>4, <1>5, VarExchanges
<1>7. Reads(mem, mem', str, W, raw)
  BY <1>2, <1>4, ReadsTransitive
<1>8. value = [u \in VarVar |-> value[u]]
  BY DEF ValuesInv
<1>9. /\ \A u \in VarVar \ {v} : value'[u] = value[u]
      /\ value' = [u \in VarVar |-> value'[u]] /\ value'[v] = g
  BY <1>1, <1>8
<1>10. GivenTo({v})
  BY <1>3, <1>4, <1>5, <1>9 DEF Holding, GivenTo
<1>11. Sound(mem', str', var', raw', NULL, NULL)
  BY <1>6
<1>12. Rest({v}, W)
  BY <1>3, <1>9 DEF Rest
<1>13. ValueIs
  BY <1>9 DEF ValueIs
<1>. QED  BY <1>7, <1>10, <1>11, <1>12, <1>13, VarOperation

LEMMA VariantIs ==
  \A vt \in Type \cup {"EMPTY", "BSTR", "BOOL", "ARRAY"}, b \in Block \cup {NULL}, n \in Int :
    /\ Variant(vt, b, n) \in VariantRecord /\ Variant(vt, b, n).b = b
    /\ Variant(vt, b, n).vt = vt /\ Variant(vt, b, n).n = n
  BY DEF Variant, VariantRecord

\* What Alloc makes in a sound memory is a block, or none.
LEMMA GivenIs ==
  ASSUME NEW m, \E b \in Block : m.text[b] = Freed, NEW t
  PROVE  Given(m, t) \in Block \cup {NULL}
  BY DEF Given, FreeBlock

\* v gets a new BSTR.
LEMMA NewTextKeeps ==
  ASSUME ValuesAssumption, ValuesInv, Step, UNCHANGED <<str, raw, meant, poked, ended>>,
         NEW v \in VarVar, NEW t \in Text \cup {Null},
         Holds(v, Alloc(Cleared(v), t), Variant("BSTR", Given(Cleared(v), t), 0), <<"BSTR", t>>)
  PROVE  ValuesInv'
<1> DEFINE b == Given(Cleared(v), t)
           r == Variant("BSTR", b, 0)
<1>1. \E f \in Block : Cleared(v).text[f] = Freed
  BY Clears
<1>2. b \in Block \cup {NULL}
  BY <1>1, GivenIs
<1>. HIDE DEF b
<1>3. r \in VariantRecord /\ r.b = b /\ r.vt = "BSTR"
  BY <1>2, VariantIs
<1>4. Holds(v, Alloc(Cleared(v), t), r, <<"BSTR", t>>) /\ b = Given(Cleared(v), t)
  BY DEF b
<1>. HIDE DEF r
<1>5. <<"BSTR", t>> = <<r.vt, IF r.vt = "BSTR" THEN t ELSE r.n>>
  BY <1>3
<1>6. r.b = Given(Cleared(v), t)
  BY <1>3, <1>4
<1>. QED  BY <1>3, <1>4, <1>5, <1>6, HoldsKeeps

\* v gets a number, or nothing.
LEMMA NewNumberKeeps ==
  ASSUME ValuesAssumption, ValuesInv, Step, UNCHANGED <<str, raw, meant, poked, ended>>,
         NEW v \in VarVar, NEW vt \in Type \cup {"EMPTY", "BOOL", "ARRAY"}, NEW n \in Int,
         Holds(v, Cleared(v), Variant(vt, NULL, n), <<vt, n>>)
  PROVE  ValuesInv'
<1> DEFINE r == Variant(vt, NULL, n)
<1>1. vt # "BSTR"
  BY DEF ValuesAssumption
<1>2. r \in VariantRecord /\ r.b = NULL /\ r.vt = vt /\ r.n = n
  BY VariantIs
<1>3. Alloc(Cleared(v), Null) = Cleared(v) /\ Given(Cleared(v), Null) = NULL
  BY DEF Alloc, Given
<1>4. Holds(v, Alloc(Cleared(v), Null), r, <<vt, n>>)
  BY <1>3
<1>. HIDE DEF r
<1>5. <<vt, n>> = <<r.vt, IF r.vt = "BSTR" THEN Null ELSE r.n>> /\ r.b = Given(Cleared(v), Null)
  BY <1>1, <1>2, <1>3
<1>6. Null \in Text \cup {Null}
  OBVIOUS
<1>. QED  BY <1>2, <1>4, <1>5, <1>6, HoldsKeeps

LEMMA SetVarTextKeeps ==
  ASSUME ValuesAssumption, ValuesInv, NEW v \in VarVar, NEW t \in Text \cup {Null}, SetVarText(v, t)
  PROVE  ValuesInv'
<1>1. Cut(t) \in Text \cup {Null}
  BY CutIsText
<1>. QED  BY <1>1, NewTextKeeps DEF SetVarText

LEMMA SetVarStrKeeps ==
  ASSUME ValuesAssumption, ValuesInv, NEW v \in VarVar, NEW s \in StrVar, SetVarStr(v, s)
  PROVE  ValuesInv'
<1>1. Wide(s) \in Text \cup {Null}
  BY TextsRead
<1>. QED  BY <1>1, NewTextKeeps DEF SetVarStr

LEMMA AnswerKeeps ==
  ASSUME ValuesAssumption, ValuesInv, NEW v \in VarVar, NEW t \in Text \cup {Null}, Answer(v, t)
  PROVE  ValuesInv'
<1>1. Step /\ UNCHANGED <<str, raw, meant, poked, ended>>
  BY DEF Answer
<1>2. CASE Holds(v, Alloc(Cleared(v), t), Variant("BSTR", Given(Cleared(v), t), 0), <<"BSTR", t>>)
  BY <1>1, <1>2, NewTextKeeps
<1>3. CASE Holds(v, Cleared(v), Variant("ARRAY", NULL, 0), <<"ARRAY", 0>>)
  BY <1>1, <1>3, NewNumberKeeps
<1>. QED  BY <1>2, <1>3 DEF Answer

LEMMA SetNumberKeeps ==
  ASSUME ValuesAssumption, ValuesInv, NEW v \in VarVar, NEW type \in Type, NEW n \in Int,
         SetNumber(v, type, n)
  PROVE  ValuesInv'
<1> DEFINE vt == IF var[v].vt \in Keeps(type) THEN var[v].vt ELSE type
<1>1. /\ Step /\ UNCHANGED <<str, raw, meant, poked, ended>>
      /\ Holds(v, Cleared(v), Variant(vt, NULL, As(vt, n)), <<vt, As(vt, n)>>)
  BY DEF SetNumber
<1>2. vt \in Type \cup {"EMPTY", "BOOL", "ARRAY"}
  <2>1. var[v].vt \in Type \cup {"EMPTY", "BSTR", "BOOL", "ARRAY"}
    BY DEF ValuesInv, Sound, TypedValues, VariantRecord
  <2>2. type # "BSTR"
    BY DEF ValuesAssumption
  <2>3. "BSTR" \notin Keeps(type)
    BY <2>2 DEF Keeps
  <2>. QED  BY <2>1, <2>3
<1>. HIDE DEF vt
<1>3. As(vt, n) \in Int
  BY DEF As
<1>. QED  BY <1>1, <1>2, <1>3, NewNumberKeeps

LEMMA MakeNumberKeeps ==
  ASSUME ValuesAssumption, ValuesInv, NEW v \in VarVar, NEW type \in Type, NEW n \in Int,
         MakeNumber(v, type, "BOOL", n)
  PROVE  ValuesInv'
<1>1. Step /\ UNCHANGED <<str, raw, meant, poked, ended>>
  BY DEF MakeNumber
<1>2. CASE "BOOL" \in Keeps(type)
  <2>1. As("BOOL", n) \in Int
    BY DEF As
  <2>2. Holds(v, Cleared(v), Variant("BOOL", NULL, As("BOOL", n)), <<"BOOL", As("BOOL", n)>>)
    BY <1>2 DEF MakeNumber, Variant
  <2>. QED  BY <1>1, <2>1, <2>2, NewNumberKeeps
<1>3. CASE "BOOL" \notin Keeps(type)
  <2>1. Holds(v, Cleared(v), Variant("EMPTY", NULL, 0), <<"EMPTY", 0>>)
    BY <1>3 DEF MakeNumber, Variant
  <2>. QED  BY <1>1, <2>1, NewNumberKeeps
<1>. QED  BY <1>2, <1>3

LEMMA CopyVarKeeps ==
  ASSUME ValuesAssumption, ValuesInv, NEW v \in VarVar, NEW x \in VarVar, CopyVar(v, x)
  PROVE  ValuesInv'
<1> DEFINE c == Cleared(v)
           t == TextOf(c, var[x].b)
           r == [var[x] EXCEPT !.b = Given(c, t)]
           W == [var EXCEPT ![v] = EmptyVariant]
<1>1. /\ Step /\ v # x /\ UNCHANGED <<str, raw, meant, poked, ended>>
      /\ Holds(v, Alloc(c, t), r, value[x])
  BY DEF CopyVar
<1>2. /\ Reads(mem, c, str, W, raw) /\ var \in [VarVar -> VariantRecord]
      /\ \E f \in Block : c.text[f] = Freed
  BY <1>1, Clears
<1>3. t = TextOf(mem, var[x].b) /\ t \in Text \cup {Null}
  <2>1. W[x] = var[x]
    BY <1>1, <1>2
  <2>2. TextOf(c, var[x].b) = TextOf(mem, var[x].b)
    BY <1>2, <2>1 DEF Reads
  <2>. QED  BY <2>2, TextsRead
<1>4. value[x] = <<var[x].vt, IF var[x].vt = "BSTR" THEN t ELSE var[x].n>>
  <2>1. value[x] = Holding(mem, var[x])
    BY DEF ValuesInv, VarKept
  <2>. QED  BY <1>3, <2>1 DEF Holding
<1>5. Given(c, t) \in Block \cup {NULL}
  BY <1>2, GivenIs
<1>. HIDE DEF c, t
<1>6. /\ r \in VariantRecord /\ r.b = Given(c, t) /\ r.vt = var[x].vt /\ r.n = var[x].n
  BY <1>2, <1>5 DEF VariantRecord
<1>. HIDE DEF r
<1>7. value[x] = <<r.vt, IF r.vt = "BSTR" THEN t ELSE r.n>>
  BY <1>4, <1>6
<1>8. r.b = Given(Cleared(v), t) /\ Holds(v, Alloc(Cleared(v), t), r, value[x])
  BY <1>1, <1>6 DEF c
<1>. QED  BY <1>1, <1>3, <1>6, <1>7, <1>8, HoldsKeeps

LEMMA AttachVarKeeps ==
  ASSUME ValuesAssumption, ValuesInv, NEW v \in VarVar, NEW x \in VarVar, AttachVar(v, x)
  PROVE  ValuesInv'
<1> DEFINE c == Cleared(v)
           W == [var EXCEPT ![v] = EmptyVariant]
           Z == [W EXCEPT ![x] = EmptyVariant]
           r == var[x]
<1>1. /\ Step /\ v # x /\ mem' = c /\ UNCHANGED <<str, raw, meant, poked, ended>>
      /\ var' = [var EXCEPT ![v] = r, ![x] = EmptyVariant]
      /\ value' = [value EXCEPT ![v] = value[x], ![x] = <<"EMPTY", 0>>]
  BY DEF AttachVar, EmptyVariant
<1>2. /\ Sound(c, str, W, raw, NULL, NULL) /\ Reads(mem, c, str, W, raw)
      /\ var \in [VarVar -> VariantRecord] /\ W \in [VarVar -> VariantRecord]
  BY <1>1, Clears
<1>3. /\ EmptyVariant \in VariantRecord /\ EmptyVariant.b = NULL /\ r \in VariantRecord
  BY <1>2, EmptyIs
<1>4. /\ W[x] = r /\ Z = [W EXCEPT ![x] = EmptyVariant] /\ Z[v] = EmptyVariant
      /\ var' = [Z EXCEPT ![v] = r] /\ var'[v] = r /\ var'[x] = EmptyVariant
      /\ \A u \in VarVar \ {v, x} : W[u] = var[u] /\ var'[u] = var[u]
  <2>. HIDE DEF EmptyVariant, r
  <2>1. /\ DOMAIN var' = VarVar /\ var' = [u \in VarVar |-> var'[u]] /\ var'[v] = r
        /\ var'[x] = EmptyVariant /\ \A u \in VarVar \ {v, x} : var'[u] = var[u]
    BY <1>1, <1>2
  <2>2. /\ W[x] = var[x] /\ W[v] = EmptyVariant /\ \A u \in VarVar \ {v, x} : W[u] = var[u]
    BY <1>1, <1>2
  <2>3. /\ DOMAIN Z = VarVar /\ Z[v] = EmptyVariant /\ Z[x] = EmptyVariant
        /\ \A u \in VarVar \ {v, x} : Z[u] = var[u]
    BY <1>2, <2>2
  <2>4. var' = [Z EXCEPT ![v] = r]
    <3>. HIDE DEF Z
    <3>. DEFINE Y == [Z EXCEPT ![v] = r]
    <3>1. Y = [u \in VarVar |-> Y[u]] /\ Y[v] = r /\ \A u \in VarVar : u # v => Y[u] = Z[u]
      BY <2>3
    <3>. HIDE DEF Y
    <3>2. \A u \in VarVar : var'[u] = Y[u]
      BY <1>1, <2>1, <2>3, <3>1
    <3>3. var' = Y
      BY <2>1, <3>1, <3>2
    <3>. QED  BY <3>3 DEF Y
  <2>5. W[x] = r
    BY <2>2 DEF r
  <2>. QED  BY <2>1, <2>2, <2>3, <2>4, <2>5
<1>. HIDE DEF c, W, Z, r
<1>5. Sound(c, str, Z, raw, r.b, NULL)
  <2>1. Sound(c, str, W, raw, EmptyVariant.b, NULL)
    BY <1>2, <1>3
  <2>2. Sound(c, str, Z, raw, W[x].b, NULL)
    BY <1>3, <1>4, <2>1, VarExchanges
  <2>. QED  BY <1>4, <2>2
<1>6. Sound(c, str, var', raw, NULL, NULL)
  <2>1. Sound(c, str, var', raw, Z[v].b, NULL)
    BY <1>3, <1>4, <1>5, VarExchanges
  <2>. QED  BY <1>3, <1>4, <2>1
<1>7. value = [u \in VarVar |-> value[u]] /\ VarKept(mem, var, value)
  BY DEF ValuesInv
<1>8. /\ \A u \in VarVar \ {v, x} : value'[u] = value[u]
      /\ value' = [u \in VarVar |-> value'[u]] /\ value'[v] = value[x] /\ value'[x] = <<"EMPTY", 0>>
  BY <1>1, <1>7
<1>9. TextOf(c, r.b) = TextOf(mem, r.b)
  BY <1>2, <1>4 DEF Reads
<1>10. Holding(c, EmptyVariant) = <<"EMPTY", 0>>
  BY DEF Holding, EmptyVariant, Variant
<1>11. Holding(c, r) = value[x]
  BY <1>7, <1>9 DEF Holding, VarKept, r
<1>12. GivenTo({v, x})
  BY <1>1, <1>4, <1>8, <1>10, <1>11 DEF GivenTo
<1>13. Rest({v, x}, W)
  BY <1>4, <1>8 DEF Rest
<1>14. ValueIs
  BY <1>8 DEF ValueIs
<1>15. Sound(mem', str', var', raw', NULL, NULL) /\ Reads(mem, mem', str, W, raw)
  BY <1>1, <1>2, <1>6
<1>. QED  BY <1>1, <1>12, <1>13, <1>14, <1>15, VarOperation

LEMMA DetachVarKeeps ==
  ASSUME ValuesAssumption, ValuesInv, NEW v \in VarVar, NEW p \in RawVar, DetachVar(v, p)
  PROVE  ValuesInv'
<1>1. /\ Step /\ raw[p] = NULL /\ mem' = mem /\ UNCHANGED <<str, meant, poked, ended>>
      /\ raw' = [raw EXCEPT ![p] = var[v].b]
      /\ var' = [var EXCEPT ![v] = EmptyVariant]
      /\ value' = [value EXCEPT ![v] = <<"EMPTY", 0>>]
  BY DEF DetachVar, Holds, EmptyVariant
<1>2. /\ Sound(mem, str, var, raw, EmptyVariant.b, NULL) /\ EmptyVariant \in VariantRecord
      /\ var \in [VarVar -> VariantRecord] /\ value = [u \in VarVar |-> value[u]]
  BY EmptyIs DEF ValuesInv, Sound, TypedValues
<1>. HIDE DEF EmptyVariant
<1>3. Sound(mem, str, var', raw, var[v].b, NULL)
  BY <1>1, <1>2, VarExchanges
<1>4. Sound(mem, str, var', raw', raw[p], NULL)
  BY <1>1, <1>3, RawExchanges
<1>5. Sound(mem', str', var', raw', NULL, NULL)
  BY <1>1, <1>4
<1>6. Reads(mem, mem', str, var, raw)
  BY <1>1, ReadsReflexive
<1>7. Holding(mem', EmptyVariant) = <<"EMPTY", 0>>
  BY DEF Holding, EmptyVariant, Variant
<1>8. /\ \A u \in VarVar \ {v} : var'[u] = var[u] /\ value'[u] = value[u]
      /\ value' = [u \in VarVar |-> value'[u]] /\ value'[v] = <<"EMPTY", 0>> /\ var'[v] = EmptyVariant
  BY <1>1, <1>2
<1>9. GivenTo({v})
  BY <1>7, <1>8 DEF GivenTo
<1>10. Rest({v}, var)
  BY <1>8 DEF Rest
<1>11. ValueIs
  BY <1>8 DEF ValueIs
<1>. QED  BY <1>1, <1>5, <1>6, <1>9, <1>10, <1>11, VarOperation

LEMMA FromVarKeeps ==
  ASSUME ValuesAssumption, ValuesInv, NEW s \in StrVar, NEW v \in VarVar, FromVar(s, v)
  PROVE  ValuesInv'
<1>1. CASE var[v].vt = "BSTR"
  <2>1. TextOf(mem, var[v].b) \in Text \cup {Null} /\ SetPointer(s, var[v].b)
    BY <1>1, TextsRead DEF FromVar
  <2>. QED  BY <2>1, SetPointerKeeps
<1>2. CASE var[v].vt # "BSTR"
  <2>1. <<>> \in Text /\ <<"x">> \in Text
    BY DEF Text
  <2>2. AsText(v) \in Text /\ SetText(s, AsText(v))
    BY <1>2, <2>1 DEF FromVar, AsText
  <2>. QED  BY <2>2, SetTextKeeps
<1>. QED  BY <1>1, <1>2

\* What only reads may end the program.
LEMMA EndsKeep ==
  ASSUME ValuesInv, UNCHANGED <<mem, str, var, raw, meant, value, poked, steps>>,
         ended' \in {"no", "terminate", "null"}, EndedForReason'
  PROVE  ValuesInv'
  BY DEF ValuesInv

LEMMA ReadStringKeeps ==
  ASSUME ValuesAssumption, ValuesInv, NEW v \in VarVar, ReadString(v)
  PROVE  ValuesInv'
<1>1. ended = "no" /\ UNCHANGED <<mem, str, var, raw, meant, value, poked, steps>>
      /\ ended' = IF var[v].vt # "ARRAY" /\ AsText(v) = Null THEN "null" ELSE ended
  BY DEF ReadString
<1>2. CASE var[v].vt # "ARRAY" /\ AsText(v) = Null
  <2>1. <<>> # Null /\ <<"x">> # Null
    BY DEF Null
  <2>2. var[v].vt = "BSTR" /\ TextOf(mem, var[v].b) = Null
    BY <1>2, <2>1 DEF AsText
  <2>3. var[v].b = NULL
    BY <2>2, TextsRead, NoText
  <2>4. EndedForReason' /\ ended' = "null"
    BY <1>1, <1>2, <2>2, <2>3 DEF EndedForReason
  <2>. QED  BY <1>1, <2>4, EndsKeep
<1>3. CASE ~(var[v].vt # "ARRAY" /\ AsText(v) = Null)
  <2>1. EndedForReason' /\ ended' = "no"
    BY <1>1, <1>3 DEF EndedForReason
  <2>. QED  BY <1>1, <2>1, EndsKeep
<1>. QED  BY <1>2, <1>3

LEMMA CompareVarKeeps ==
  ASSUME ValuesAssumption, ValuesInv, NEW v \in VarVar, NEW x \in VarVar, CompareVar(v, x)
  PROVE  ValuesInv'
<1>1. ended = "no" /\ v # x /\ UNCHANGED <<mem, str, var, raw, meant, value, poked, steps>>
      /\ ended' = IF var[v].vt = "ARRAY" /\ var[x].vt = "ARRAY" THEN "terminate" ELSE ended
  BY DEF CompareVar
<1>2. EndedForReason' /\ ended' \in {"no", "terminate"}
  BY <1>1 DEF EndedForReason
<1>. QED  BY <1>1, <1>2, EndsKeep

-----------------------------------------------------------------------------
(* GetBSTR().                                                                  *)

\* The text of a memory decides where a block is given, and what is freed and given changes
\* the text alone.
Memories == [text : [Block -> Text \cup {Freed}], data : [Block -> DataRecord]]

LEMMA TextAlone ==
  ASSUME NEW m \in Memories, NEW z \in Memories, m.text = z.text, NEW w, NEW t \in Text \cup {Null}
  PROVE  /\ Free(m, w).text = Free(z, w).text /\ Free(m, w).data = m.data
         /\ Free(z, w).data = z.data /\ Free(z, w) \in Memories /\ Free(m, w) \in Memories
         /\ Given(m, t) = Given(z, t)
         /\ Alloc(m, t).text = Alloc(z, t).text /\ Alloc(m, t).data = m.data
         /\ Alloc(z, t).data = z.data /\ Alloc(z, t) \in Memories /\ Alloc(m, t) \in Memories
<1>1. FreeBlock(m) = FreeBlock(z)
  BY DEF FreeBlock
<1>2. Given(m, t) = Given(z, t)
  BY <1>1 DEF Given
<1>4. /\ Free(m, w).text = Free(z, w).text /\ Free(m, w).data = m.data /\ Free(z, w).data = z.data
      /\ Free(m, w) \in Memories /\ Free(z, w) \in Memories
  <2>1. CASE w = NULL
    BY <2>1 DEF Free
  <2>2. CASE w # NULL
    <3>1. Free(m, w) = [m EXCEPT !.text[w] = Freed] /\ Free(z, w) = [z EXCEPT !.text[w] = Freed]
      BY <2>2 DEF Free
    <3>. QED  BY <3>1 DEF Memories
  <2>. QED  BY <2>1, <2>2
<1>5. /\ Alloc(m, t).text = Alloc(z, t).text /\ Alloc(m, t).data = m.data /\ Alloc(z, t).data = z.data
      /\ Alloc(m, t) \in Memories /\ Alloc(z, t) \in Memories
  <2>1. CASE t = Null
    BY <2>1 DEF Alloc
  <2>2. CASE t # Null
    <3>1. t \in Text \cup {Freed}
      BY <2>2
    <3>2. PICK b : b = FreeBlock(m)
      OBVIOUS
    <3>3. Alloc(m, t) = [m EXCEPT !.text[b] = t] /\ Alloc(z, t) = [z EXCEPT !.text[b] = t]
      BY <1>1, <2>2, <3>2 DEF Alloc
    <3>. QED  BY <3>1, <3>3 DEF Memories
  <2>. QED  BY <2>1, <2>2
<1>. QED  BY <1>2, <1>4, <1>5

\* The Data_t d has another BSTR afterwards, with the text t.
Refilled(z, f, d, t) == z = [Alloc(f, t) EXCEPT !.data[d].w = Given(f, t)]

\* The texts of the _bstr_t with another Data_t, and of the _variant_t, are what they were.
Untouched(m, z, S, V, d) ==
    /\ \A s \in StrVar : S[s] # NULL /\ S[s] # d =>
            TextOf(z, m.data[S[s]].w) = TextOf(m, m.data[S[s]].w)
    /\ \A v \in VarVar : TextOf(z, V[v].b) = TextOf(m, V[v].b)

LEMMA Refills ==
  ASSUME ValuesAssumption, NEW m, NEW S, NEW V, NEW R, Sound(m, S, V, R, NULL, NULL),
         NEW d \in Block, m.data[d].refs > 0, NEW t \in Text \cup {Null},
         \E b \in Block : m.text[b] = Freed, NEW f, f = Free(m, m.data[d].w),
         NEW z, Refilled(z, f, d, t)
  PROVE  /\ Sound(z, S, V, R, NULL, NULL) /\ z.data[d].s = m.data[d].s
         /\ TextOf(z, z.data[d].w) = t
         /\ \A e \in Block : e # d => z.data[e] = m.data[e]
         /\ Untouched(m, z, S, V, d)
<1> DEFINE w == m.data[d].w
           y1 == [m EXCEPT !.data[d].w = NULL]
           y2 == Free(y1, w)
           y3 == Alloc(y2, t)
           g == Given(y2, t)
           y4 == [y3 EXCEPT !.data[d].w = g]
<1>1. m \in Memories /\ m.data[d] \in DataRecord /\ w \in Block \cup {NULL} /\ S \in [StrVar -> Block \cup {NULL}]
  BY DEF Sound, TypedValues, DataRecord, Memories
<1>2. /\ y1 = [m EXCEPT !.data[d].w = NULL] /\ y1.text = m.text
      /\ y1.data = [m.data EXCEPT ![d] = [m.data[d] EXCEPT !.w = NULL]] /\ y1 \in Memories
  BY <1>1 DEF DataRecord, Memories
<1>. HIDE DEF y1
<1>3. Sound(y1, S, V, R, w, NULL)
  BY <1>1, <1>2, Regains
<1>4. /\ y1.data[d].w = NULL /\ y1.data[d].s = m.data[d].s /\ y1.data[d].refs = m.data[d].refs
      /\ \A e \in Block : e # d => y1.data[e] = m.data[e]
  BY <1>1, <1>2 DEF DataRecord, Memories
<1>. HIDE DEF w
<1>5. Sound(y2, S, V, R, NULL, NULL) /\ Reads(y1, y2, S, V, R)
  BY <1>3, Frees
<1>6. \E b \in Block : y2.text[b] = Freed
  <2>1. PICK b \in Block : y1.text[b] = Freed
    BY <1>2
  <2>2. TypedValues(y1, S, V, R, w, NULL)
    BY <1>3 DEF Sound
  <2>. QED  BY <2>1, <2>2, FreesText
<1>7. /\ f = Free(m, w) /\ f.text = y2.text /\ f.data = m.data /\ f \in Memories
      /\ y2.data = y1.data /\ y2 \in Memories
  <2>1. f = Free(m, w)
    BY DEF w
  <2>2. Null \in Text \cup {Null}
    OBVIOUS
  <2>3. /\ Free(m, w).text = Free(y1, w).text /\ Free(m, w).data = m.data
        /\ Free(y1, w).data = y1.data /\ Free(y1, w) \in Memories /\ Free(m, w) \in Memories
    <3>1. m \in Memories /\ y1 \in Memories /\ m.text = y1.text
      BY <1>1, <1>2
    <3>. QED  BY ONLY <2>2, <3>1, TextAlone
  <2>. QED  BY <2>1, <2>3
<1>. HIDE DEF y2
<1>8. /\ Sound(y3, S, V, R, g, NULL) /\ Reads(y2, y3, S, V, R) /\ TextOf(y3, g) = t
  BY <1>5, <1>6, Allocates
<1>9. /\ Given(f, t) = g /\ Alloc(f, t).text = y3.text /\ Alloc(f, t).data = m.data
      /\ Alloc(f, t) \in Memories /\ y3.data = y1.data /\ y3 \in Memories
  BY <1>7, TextAlone
<1>. HIDE DEF y3, g
<1>10. y4 = [y3 EXCEPT !.data[d].w = g]
  OBVIOUS
<1>11. /\ z.text = y3.text /\ y4.text = y3.text
       /\ z.data = [m.data EXCEPT ![d] = [m.data[d] EXCEPT !.w = g]]
       /\ y4.data = [y1.data EXCEPT ![d] = [y1.data[d] EXCEPT !.w = g]]
       /\ z = [text |-> z.text, data |-> z.data] /\ y4 = [text |-> y4.text, data |-> y4.data]
  BY <1>9 DEF Memories, Refilled
<1>12. [m.data[d] EXCEPT !.w = g] = [y1.data[d] EXCEPT !.w = g]
  BY <1>1, <1>2 DEF DataRecord
<1>13. z = y4
  <2>1. PICK r : r = [m.data[d] EXCEPT !.w = g]
    OBVIOUS
  <2>2. z.data = [m.data EXCEPT ![d] = r] /\ y4.data = [y1.data EXCEPT ![d] = r]
    BY <1>11, <1>12, <2>1
  <2>3. y1.data \in [Block -> DataRecord] /\ m.data \in [Block -> DataRecord]
    BY <1>1, <1>2 DEF Memories
  <2>4. z.data = y4.data
    BY <1>4, <2>2, <2>3
  <2>. QED  BY <1>11, <2>4
<1>. HIDE DEF y4
<1>14. y3.data[d].refs > 0 /\ y3.data[d].w = NULL
  BY <1>4, <1>9
<1>15. Sound(z, S, V, R, NULL, NULL)
  BY <1>8, <1>10, <1>13, <1>14, Regains
<1>16. /\ z.data[d].s = m.data[d].s /\ z.data[d].w = g
       /\ \A e \in Block : e # d => z.data[e] = m.data[e]
  BY <1>1, <1>11 DEF DataRecord, Memories
<1>17. \A b : TextOf(z, b) = TextOf(y3, b) /\ TextOf(y1, b) = TextOf(m, b)
  <2>1. z.text = y3.text /\ y1.text = m.text
    BY <1>2, <1>11
  <2>. QED  BY ONLY <2>1 DEF TextOf
<1>18. \A s \in StrVar : S[s] # NULL /\ S[s] # d =>
            TextOf(z, m.data[S[s]].w) = TextOf(m, m.data[S[s]].w)
  <2>. SUFFICES ASSUME NEW s \in StrVar, S[s] # NULL, S[s] # d
                PROVE  TextOf(y3, m.data[S[s]].w) = TextOf(y1, m.data[S[s]].w)
    BY <1>17
  <2>1. y1.data[S[s]] = m.data[S[s]] /\ y2.data[S[s]] = m.data[S[s]]
    BY <1>1, <1>4, <1>7
  <2>2. TextOf(y2, m.data[S[s]].w) = TextOf(y1, m.data[S[s]].w)
    BY <1>5, <2>1 DEF Reads
  <2>3. TextOf(y3, m.data[S[s]].w) = TextOf(y2, m.data[S[s]].w)
    BY <1>8, <2>1 DEF Reads
  <2>. QED  BY <2>2, <2>3
<1>19. \A v \in VarVar : TextOf(z, V[v].b) = TextOf(m, V[v].b)
  BY <1>5, <1>8, <1>17 DEF Reads
<1>. QED  BY <1>8, <1>15, <1>16, <1>17, <1>18, <1>19 DEF Untouched

\* s has a Data_t d afterwards, in the memory m, and nothing else has changed by it.
OwnsData(s, m, d) ==
    /\ Sound(m, str', var, raw, NULL, NULL) /\ Reads(mem, m, str, var, raw) /\ m.text = mem.text
    /\ d \in Block /\ str'[s] = d /\ \A x \in StrVar : x # s => str'[x] = str[x]

LEMMA OwnsOne ==
  ASSUME ValuesAssumption, ValuesInv, NEW s \in StrVar, NEW m, NEW d,
         str[s] = NULL => m = NewData(mem, NULL) /\ d = FreeData(mem),
         str[s] # NULL => m = mem /\ d = str[s], \E e \in Block : mem.data[e] = NoData,
         str' = [str EXCEPT ![s] = d]
  PROVE  OwnsData(s, m, d)
<1>1. Sound(mem, str, var, raw, NULL, NULL) /\ str \in [StrVar -> Block \cup {NULL}]
  BY TextsRead DEF ValuesInv
<1>2. str'[s] = d /\ \A x \in StrVar : x # s => str'[x] = str[x]
  BY <1>1
<1>3. CASE str[s] = NULL
  <2>1. /\ Sound(m, str, var, raw, NULL, d) /\ Reads(mem, m, str, var, raw)
        /\ d \in Block /\ m.text = mem.text
    <3>1. m = NewData(mem, NULL) /\ d = FreeData(mem)
      BY <1>3
    <3>2. ValuesAssumption /\ Sound(mem, str, var, raw, NULL, NULL) /\ \E e \in Block : mem.data[e] = NoData
      BY <1>1
    <3>3. /\ Sound(NewData(mem, NULL), str, var, raw, NULL, FreeData(mem))
          /\ Reads(mem, NewData(mem, NULL), str, var, raw)
          /\ FreeData(mem) \in Block /\ NewData(mem, NULL).text = mem.text
      <4>1. Sound(NewData(mem, NULL), str, var, raw, NULL, FreeData(mem))
        BY ONLY <3>2, MakesData
      <4>2. Reads(mem, NewData(mem, NULL), str, var, raw)
        BY ONLY <3>2, MakesData
      <4>3. FreeData(mem) \in Block /\ NewData(mem, NULL).text = mem.text
        BY <3>2 DEF FreeData, NewData
      <4>. QED  BY <4>1, <4>2, <4>3
    <3>. QED  BY <3>1, <3>3
  <2>2. Sound(m, str', var, raw, NULL, NULL)
    BY <1>3, <2>1, StrExchanges
  <2>. QED  BY <1>2, <2>1, <2>2 DEF OwnsData
<1>4. CASE str[s] # NULL
  <2>1. str' = str /\ d \in Block /\ m = mem
    BY <1>1, <1>4
  <2>. QED  BY <1>1, <1>2, <2>1, ReadsReflexive DEF OwnsData
<1>. QED  BY <1>3, <1>4

LEMMA GetBSTRKeeps ==
  ASSUME ValuesAssumption, ValuesInv, NEW s \in StrVar, NEW t \in Text \cup {Null}, GetBSTR(s, t)
  PROVE  ValuesInv'
<1> DEFINE m == IF str[s] = NULL THEN NewData(mem, NULL) ELSE mem
           d == IF str[s] = NULL THEN FreeData(mem) ELSE str[s]
           f == Free(m, m.data[d].w)
<1>1. /\ Step /\ mem' = [Alloc(f, t) EXCEPT !.data[d].w = Given(f, t)]
      /\ str' = [str EXCEPT ![s] = d]
      /\ poked' = (poked \ {s}) \cup {x \in StrVar :
                       str'[x] = d /\ (x # s \/ mem'.data[d].s # Null)}
      /\ meant' = [meant EXCEPT ![s] = t]
      /\ UNCHANGED <<var, raw, value, ended>>
  BY DEF GetBSTR
<1>2. /\ StrKept(mem, str, meant, poked) /\ VarKept(mem, var, value)
      /\ meant \in [StrVar -> Text \cup {Null}] /\ poked \subseteq StrVar
      /\ value = [v \in VarVar |-> value[v]] /\ str \in [StrVar -> Block \cup {NULL}]
  BY TextsRead DEF ValuesInv
<1>3. (\E b \in Block : mem.text[b] = Freed) /\ (\E e \in Block : mem.data[e] = NoData)
  BY <1>1, Steps
<1>4. (str[s] = NULL => m = NewData(mem, NULL) /\ d = FreeData(mem))
      /\ (str[s] # NULL => m = mem /\ d = str[s])
  OBVIOUS
<1>. HIDE DEF m, d
<1>5. OwnsData(s, m, d)
  BY <1>1, <1>3, <1>4, OwnsOne
<1>6. /\ Sound(m, str', var, raw, NULL, NULL) /\ Reads(mem, m, str, var, raw) /\ m.text = mem.text
      /\ d \in Block /\ str'[s] = d /\ \A x \in StrVar : x # s => str'[x] = str[x]
  BY <1>5 DEF OwnsData
<1>7. m.data[d].refs > 0 /\ (\E b \in Block : m.text[b] = Freed) /\ f = Free(m, m.data[d].w)
  BY <1>3, <1>6, Live
<1>. HIDE DEF f
<1>8. /\ Sound(mem', str', var, raw, NULL, NULL) /\ mem'.data[d].s = m.data[d].s
      /\ TextOf(mem', mem'.data[d].w) = t
      /\ \A e \in Block : e # d => mem'.data[e] = m.data[e]
      /\ \A x \in StrVar : str'[x] # NULL /\ str'[x] # d =>
             TextOf(mem', m.data[str'[x]].w) = TextOf(m, m.data[str'[x]].w)
      /\ \A v \in VarVar : TextOf(mem', var[v].b) = TextOf(m, var[v].b)
  <2>1. Refilled(mem', f, d, t)
    BY <1>1 DEF Refilled
  <2>2. Sound(m, str', var, raw, NULL, NULL) /\ d \in Block /\ m.data[d].refs > 0
        /\ (\E b \in Block : m.text[b] = Freed) /\ f = Free(m, m.data[d].w)
        /\ t \in Text \cup {Null} /\ ValuesAssumption
    BY <1>6, <1>7
  <2>3. Sound(mem', str', var, raw, NULL, NULL)
    BY ONLY <2>1, <2>2, Refills
  <2>4. mem'.data[d].s = m.data[d].s /\ TextOf(mem', mem'.data[d].w) = t
    BY ONLY <2>1, <2>2, Refills
  <2>5. \A e \in Block : e # d => mem'.data[e] = m.data[e]
    BY ONLY <2>1, <2>2, Refills
  <2>6. Untouched(m, mem', str', var, d)
    BY ONLY <2>1, <2>2, Refills
  <2>. QED  BY <2>3, <2>4, <2>5, <2>6 DEF Untouched
<1>9. StrKept(mem', str', meant', poked')
  <2>. SUFFICES ASSUME NEW x \in StrVar \ poked'
                PROVE  /\ TextOf(mem', WideOf(mem', str'[x])) = meant'[x]
                       /\ str'[x] # NULL /\ mem'.data[str'[x]].s # Null
                            => mem'.data[str'[x]].s = Cut(meant'[x])
    BY DEF StrKept
  <2>0. d # NULL
    BY <1>6, BlocksAre
  <2>1. CASE x = s
    <3>1. mem'.data[d].s = Null /\ meant'[x] = t /\ str'[x] = d
      BY <1>1, <1>2, <1>6, <2>1
    <3>. QED  BY <1>8, <2>0, <3>1 DEF WideOf
  <2>2. CASE x # s
    <3>1. str'[x] # d /\ x \in StrVar \ poked /\ meant'[x] = meant[x] /\ str'[x] = str[x]
      BY <1>1, <1>2, <1>6, <2>2
    <3>2. /\ TextOf(mem, WideOf(mem, str[x])) = meant[x] /\ str[x] \in Block \cup {NULL}
          /\ str[x] # NULL /\ mem.data[str[x]].s # Null => mem.data[str[x]].s = Cut(meant[x])
      BY <1>2, <3>1 DEF StrKept
    <3>3. CASE str[x] = NULL
      BY <3>1, <3>2, <3>3 DEF WideOf, TextOf
    <3>4. CASE str[x] # NULL
      <4>1. mem'.data[str[x]] = m.data[str[x]]
        BY <1>8, <3>1, <3>2, <3>4
      <4>2. /\ m.data[str[x]].w = mem.data[str[x]].w /\ m.data[str[x]].s = mem.data[str[x]].s
            /\ TextOf(m, mem.data[str[x]].w) = TextOf(mem, mem.data[str[x]].w)
        BY <1>6, <3>4 DEF Reads
      <4>3. TextOf(mem', m.data[str[x]].w) = TextOf(m, m.data[str[x]].w)
        BY <1>8, <3>1, <3>4
      <4>. QED  BY <3>1, <3>2, <3>4, <4>1, <4>2, <4>3 DEF WideOf
    <3>. QED  BY <3>3, <3>4
  <2>. QED  BY <2>1, <2>2
<1>10. VarKept(mem', var, value)
  <2>1. \A v \in VarVar : TextOf(mem', var[v].b) = TextOf(mem, var[v].b)
    BY <1>6, <1>8 DEF Reads
  <2>. QED  BY <1>2, <2>1 DEF VarKept, Holding
<1>11. /\ Sound(mem', str', var', raw', NULL, NULL) /\ VarKept(mem', var', value')
       /\ meant' \in [StrVar -> Text \cup {Null}] /\ poked' \subseteq StrVar
       /\ value' = [v \in VarVar |-> value'[v]]
  BY <1>1, <1>2, <1>8, <1>10
<1>. QED  BY <1>1, <1>9, <1>11, OperationKeeps

-----------------------------------------------------------------------------
LEMMA ValuesStart == ValuesAssumption /\ ValuesInit => ValuesInv
<1>. SUFFICES ASSUME ValuesAssumption, ValuesInit PROVE ValuesInv
  OBVIOUS
<1>1. /\ mem.text = [b \in Block |-> Freed] /\ mem.data = [d \in Block |-> NoData]
      /\ mem = [text |-> mem.text, data |-> mem.data]
      /\ str = [s \in StrVar |-> NULL] /\ raw = [p \in RawVar |-> NULL]
      /\ var = [v \in VarVar |-> EmptyVariant]
      /\ meant = [s \in StrVar |-> Null] /\ value = [v \in VarVar |-> <<"EMPTY", 0>>]
      /\ poked = {} /\ ended = "no" /\ steps = 0
  BY DEF ValuesInit, EmptyVariant
<1>2. NoData \in DataRecord /\ NoData.refs = 0 /\ NULL \notin Block
  BY BlocksAre DEF NoData, DataRecord
<1>3. TypedValues(mem, str, var, raw, NULL, NULL)
  <2>1. EmptyVariant \in VariantRecord
    BY EmptyIs
  <2>2. mem \in [text : [Block -> Text \cup {Freed}], data : [Block -> DataRecord]]
    BY <1>1, <1>2
  <2>. HIDE DEF EmptyVariant
  <2>. QED  BY <1>1, <2>1, <2>2 DEF TypedValues
<1>4. \A b \in Block : Owners(b, mem.data, var, raw) = 0
  <2>. SUFFICES ASSUME NEW b \in Block PROVE Owners(b, mem.data, var, raw) = 0
    OBVIOUS
  <2>1. Wides(mem.data) \in [Block -> Block \cup {NULL}] /\ Strings(var) \in [VarVar -> Block \cup {NULL}]
    BY <1>3, OwnersNat
  <2>2. Tally(Wides(mem.data), b) = 0
    <3>1. \A d \in Block : Wides(mem.data)[d] # b
      BY <1>1, <1>2 DEF Wides
    <3>. QED  BY <2>1, <3>1, BlocksAre, TallyNat
  <2>3. Tally(Strings(var), b) = 0
    <3>1. \A v \in VarVar : Strings(var)[v] # b
      <4>1. EmptyVariant.b = NULL
        BY EmptyIs
      <4>. HIDE DEF EmptyVariant
      <4>. QED  BY <1>1, <1>2, <4>1 DEF Strings
    <3>. QED  BY <2>1, <3>1, VariablesFinite, TallyNat
  <2>4. Tally(raw, b) = 0
    <3>1. raw \in [RawVar -> Block \cup {NULL}] /\ \A p \in RawVar : raw[p] # b
      BY <1>1, <1>2
    <3>. QED  BY <3>1, VariablesFinite, TallyNat
  <2>. QED  BY <2>2, <2>3, <2>4 DEF Owners
<1>5. Blocks(mem, var, raw, NULL)
  <2>. SUFFICES ASSUME NEW b \in Block
                PROVE  Allocated(mem, b) = Owners(b, mem.data, var, raw) + IsOne(NULL, b)
    BY DEF Blocks
  <2>1. Allocated(mem, b) = 0 /\ IsOne(NULL, b) = 0
    BY <1>1, <1>2 DEF Allocated, IsOne
  <2>. QED  BY <1>4, <2>1
<1>6. DataCounted(mem, str, NULL)
  <2>. SUFFICES ASSUME NEW d \in Block PROVE mem.data[d].refs = Tally(str, d) + IsOne(NULL, d)
    BY DEF DataCounted
  <2>1. str \in [StrVar -> Block \cup {NULL}] /\ \A s \in StrVar : str[s] # d
    BY <1>1, <1>2
  <2>2. Tally(str, d) = 0
    BY <2>1, VariablesFinite, TallyNat
  <2>3. IsOne(NULL, d) = 0 /\ mem.data[d].refs = 0
    BY <1>1, <1>2 DEF IsOne
  <2>. QED  BY <2>2, <2>3
<1>7. Unused(mem)
  BY <1>1 DEF Unused
<1>8. StrKept(mem, str, meant, poked)
  BY <1>1 DEF StrKept, WideOf, TextOf
<1>9. VarKept(mem, var, value)
  BY <1>1 DEF VarKept, Holding, EmptyVariant, Variant
<1>10. steps \in 0 .. MaxSteps /\ EndedForReason
  BY <1>1 DEF ValuesAssumption, EndedForReason
<1>11. meant \in [StrVar -> Text \cup {Null}] /\ DOMAIN value = VarVar /\ value = [v \in VarVar |-> value[v]]
  BY <1>1
<1>. QED  BY <1>1, <1>3, <1>5, <1>6, <1>7, <1>8, <1>9, <1>10, <1>11 DEF ValuesInv, Sound

LEMMA ValuesStep == ValuesAssumption /\ ValuesInv /\ [ValuesNext]_values => ValuesInv'
<1>. SUFFICES ASSUME ValuesAssumption, ValuesInv, [ValuesNext]_values PROVE ValuesInv'
  OBVIOUS
<1>0. \A t \in Texts : t \in Text \cup {Null}
  BY DEF ValuesAssumption, Text
<1>1. ASSUME NEW s \in StrVar, NEW t \in Texts, SetText(s, t) \/ GetBSTR(s, t) PROVE ValuesInv'
  BY <1>0, <1>1, SetTextKeeps, GetBSTRKeeps
<1>2. ASSUME NEW s \in StrVar, GetBSTR(s, Null) \/ Narrow(s) PROVE ValuesInv'
  <2>1. Null \in Text \cup {Null}
    OBVIOUS
  <2>. QED  BY <1>2, <2>1, GetBSTRKeeps, NarrowKeeps
<1>3. ASSUME NEW s \in StrVar, NEW x \in StrVar, Share(s, x) \/ AppendTo(s, x) PROVE ValuesInv'
  BY <1>3, ShareKeeps, AppendKeeps
<1>4. ASSUME NEW s \in StrVar, NEW p \in RawVar,
             SetPointer(s, raw[p]) \/ Assign(s, p) \/ Attach(s, p) \/ Detach(s, p) \/ Copy(s, p)
      PROVE  ValuesInv'
  <2>1. CASE SetPointer(s, raw[p])
    <3>1. TextOf(mem, raw[p]) \in Text \cup {Null}
      BY TextsRead
    <3>. QED  BY <2>1, <3>1, SetPointerKeeps
  <2>. QED  BY <1>4, <2>1, AssignKeeps, AttachKeeps, DetachKeeps, CopyKeeps
<1>5. ASSUME NEW s \in StrVar, NEW x \in StrVar, SetPointer(s, GetWString(x)) PROVE ValuesInv'
  <2>1. TextOf(mem, GetWString(x)) \in Text \cup {Null}
    BY TextsRead
  <2>. QED  BY <1>5, <2>1, SetPointerKeeps
<1>6. ASSUME NEW v \in VarVar, NEW t \in Texts, SetVarText(v, t) PROVE ValuesInv'
  BY <1>0, <1>6, SetVarTextKeeps
<1>7. ASSUME NEW v \in VarVar, NEW t \in Texts \cup {Null}, Answer(v, t) PROVE ValuesInv'
  <2>1. t \in Text \cup {Null}
    BY <1>0
  <2>. QED  BY <1>7, <2>1, AnswerKeeps
<1>8. ASSUME NEW v \in VarVar, NEW s \in StrVar, SetVarStr(v, s) \/ FromVar(s, v) PROVE ValuesInv'
  BY <1>8, SetVarStrKeeps, FromVarKeeps
<1>9. ASSUME NEW v \in VarVar, NEW x \in VarVar, CopyVar(v, x) \/ AttachVar(v, x) \/ CompareVar(v, x)
      PROVE  ValuesInv'
  BY <1>9, CopyVarKeeps, AttachVarKeeps, CompareVarKeeps
<1>10. ASSUME NEW v \in VarVar, NEW type \in Type, SetNumber(v, type, 2) \/ MakeNumber(v, type, "BOOL", 2)
       PROVE  ValuesInv'
  BY <1>10, SetNumberKeeps, MakeNumberKeeps
<1>11. ASSUME NEW v \in VarVar, NEW p \in RawVar, DetachVar(v, p) PROVE ValuesInv'
  BY <1>11, DetachVarKeeps
<1>12. ASSUME NEW v \in VarVar, ReadString(v) PROVE ValuesInv'
  BY <1>12, ReadStringKeeps
<1>13. ASSUME NEW p \in RawVar, GiveUp(p) \/ \E t \in Texts \cup {Null} : Receive(p, t) PROVE ValuesInv'
  <2>1. CASE GiveUp(p)
    BY <2>1, GiveUpKeeps
  <2>2. ASSUME NEW t \in Texts \cup {Null}, Receive(p, t) PROVE ValuesInv'
    <3>1. t \in Text \cup {Null}
      BY <1>0
    <3>. QED  BY <2>2, <3>1, ReceiveKeeps
  <2>. QED  BY <1>13, <2>1, <2>2
<1>14. CASE UNCHANGED values
  BY <1>14, NothingKeeps
<1>. QED  BY <1>1, <1>2, <1>3, <1>4, <1>5, <1>6, <1>7, <1>8, <1>9, <1>10, <1>11, <1>12, <1>13, <1>14 DEF ValuesNext

-----------------------------------------------------------------------------
(* What follows from the invariant.                                            *)

LEMMA ValuesAlways == ValuesAssumption => (ValuesSpec => []ValuesInv)
<1>. SUFFICES ASSUME ValuesAssumption PROVE ValuesSpec => []ValuesInv
  OBVIOUS
<1>1. ValuesInit => ValuesInv
  BY ValuesStart
<1>2. ValuesInv /\ [ValuesNext]_values => ValuesInv'
  BY ValuesStep
<1>. QED  BY <1>1, <1>2, PTL DEF ValuesSpec

LEMMA OwnersCounted == ValuesAssumption /\ ValuesInv => OneOwner
<1>. SUFFICES ASSUME ValuesAssumption, ValuesInv PROVE OneOwner
  OBVIOUS
<1>1. Sound(mem, str, var, raw, NULL, NULL) /\ TypedValues(mem, str, var, raw, NULL, NULL) /\ NULL \notin Block
  BY BlocksAre DEF ValuesInv, Sound
<1>2. ValuesTypeOK
  <2>1. mem.text \in [Block -> Texts \cup Seq({NUL, "x"}) \cup {Freed}]
    BY <1>1 DEF TypedValues, Text
  <2>2. \A d \in Block : mem.data[d].w \in Block \cup {NULL} /\ mem.data[d].refs \in Nat
    BY <1>1 DEF TypedValues, DataRecord
  <2>3. str \in [StrVar -> Block \cup {NULL}] /\ raw \in [RawVar -> Block \cup {NULL}]
    BY <1>1 DEF TypedValues
  <2>4. \A v \in VarVar : var[v].vt \in Type \cup {"EMPTY", "BSTR", "BOOL", "ARRAY"}
                          /\ var[v].b \in Block \cup {NULL}
    BY <1>1 DEF TypedValues, VariantRecord
  <2>. QED  BY <2>1, <2>2, <2>3, <2>4 DEF ValuesTypeOK, ValuesInv
<1>3. ASSUME NEW b \in Block
      PROVE  (IF mem.text[b] = Freed THEN 0 ELSE 1) =
                Cardinality({d \in Block : mem.data[d].w = b /\ mem.data[d].refs > 0})
              + Cardinality({v \in VarVar : var[v].b = b}) + Cardinality({p \in RawVar : raw[p] = b})
  <2>1. Allocated(mem, b) = Owners(b, mem.data, var, raw) + IsOne(NULL, b)
    BY <1>1 DEF Sound, Blocks
  <2>2. IsOne(NULL, b) = 0
    BY <1>1 DEF IsOne
  <2>3. Owners(b, mem.data, var, raw) \in Nat
    BY <1>1, OwnersNat
  <2>4. Tally(Wides(mem.data), b) = Cardinality({d \in Block : mem.data[d].w = b /\ mem.data[d].refs > 0})
    <3>1. {x \in DOMAIN Wides(mem.data) : Wides(mem.data)[x] = b}
            = {d \in Block : mem.data[d].w = b /\ mem.data[d].refs > 0}
      BY <1>1 DEF Wides
    <3>. QED  BY <3>1 DEF Tally
  <2>5. Tally(Strings(var), b) = Cardinality({v \in VarVar : var[v].b = b})
    <3>1. {x \in DOMAIN Strings(var) : Strings(var)[x] = b} = {v \in VarVar : var[v].b = b}
      BY DEF Strings
    <3>. QED  BY <3>1 DEF Tally
  <2>6. Tally(raw, b) = Cardinality({p \in RawVar : raw[p] = b})
    <3>1. {x \in DOMAIN raw : raw[x] = b} = {p \in RawVar : raw[p] = b}
      BY <1>1 DEF TypedValues
    <3>. QED  BY <3>1 DEF Tally
  <2>7. Allocated(mem, b) = Owners(b, mem.data, var, raw)
    BY <2>1, <2>2, <2>3
  <2>. QED  BY <2>4, <2>5, <2>6, <2>7 DEF Owners, Allocated
<1>4. ASSUME NEW d \in Block
      PROVE  mem.data[d].refs = Cardinality({s \in StrVar : str[s] = d})
  <2>1. mem.data[d].refs = Tally(str, d) + IsOne(NULL, d)
    BY <1>1 DEF Sound, DataCounted
  <2>2. IsOne(NULL, d) = 0 /\ Tally(str, d) \in Nat
    BY <1>1, OwnersNat DEF IsOne
  <2>3. {x \in DOMAIN str : str[x] = d} = {s \in StrVar : str[s] = d}
    BY <1>1 DEF TypedValues
  <2>. QED  BY <2>1, <2>2, <2>3 DEF Tally
<1>. QED  BY <1>2, <1>3, <1>4 DEF OneOwner

LEMMA Kept == ValuesAssumption /\ ValuesInv => TextsKept
<1>. SUFFICES ASSUME ValuesAssumption, ValuesInv PROVE TextsKept
  OBVIOUS
<1>1. ASSUME NEW s \in StrVar \ poked
      PROVE  /\ Wide(s) = meant[s]
             /\ str[s] # NULL /\ mem.data[str[s]].s # Null => mem.data[str[s]].s = Cut(meant[s])
  <2>1. Wide(s) = TextOf(mem, WideOf(mem, str[s]))
    BY DEF Wide, GetWString, WideOf
  <2>. QED  BY <2>1 DEF ValuesInv, StrKept
<1>2. ASSUME NEW v \in VarVar
      PROVE  /\ value[v] = <<var[v].vt, IF var[v].vt = "BSTR" THEN TextOf(mem, var[v].b) ELSE var[v].n>>
             /\ var[v].vt \in Type => \A type \in Type : AsNumber(v, type) = value[v][2]
  <2>1. value[v] = <<var[v].vt, IF var[v].vt = "BSTR" THEN TextOf(mem, var[v].b) ELSE var[v].n>>
    BY DEF ValuesInv, VarKept, Holding
  <2>2. ASSUME var[v].vt \in Type, NEW type \in Type PROVE AsNumber(v, type) = value[v][2]
    <3>1. type \notin {"EMPTY", "BSTR", "BOOL", "ARRAY"} /\ var[v].vt \notin {"EMPTY", "BSTR", "BOOL", "ARRAY"}
      BY <2>2 DEF ValuesAssumption
    <3>2. value[v][2] = var[v].n
      BY <2>1, <3>1
    <3>3. As(type, var[v].n) = var[v].n
      BY <3>1 DEF As
    <3>4. Changed(var[v], type) = As(type, var[v].n)
      BY <3>1 DEF Changed
    <3>. QED  BY <3>2, <3>3, <3>4 DEF AsNumber
  <2>. QED  BY <2>1, <2>2
<1>. QED  BY <1>1, <1>2 DEF TextsKept

\* t is before u: at the place i where they differ first, t has ended or a NUL.
Before(t, u) ==
    \E i \in 1 .. Len(u) :
        /\ i <= Len(t) + 1 /\ \A j \in 1 .. (i - 1) : t[j] = u[j]
        /\ i <= Len(t) => t[i] = NUL /\ u[i] = "x"

LEMMA BeforeTransitive ==
  ASSUME ValuesAssumption, NEW t \in Text, NEW u \in Text, NEW w \in Text, Before(t, u), Before(u, w)
  PROVE  Before(t, w)
<1>1. PICK i \in 1 .. Len(u) :
        /\ i <= Len(t) + 1 /\ \A j \in 1 .. (i - 1) : t[j] = u[j]
        /\ i <= Len(t) => t[i] = NUL /\ u[i] = "x"
  BY DEF Before
<1>2. PICK k \in 1 .. Len(w) :
        /\ k <= Len(u) + 1 /\ \A j \in 1 .. (k - 1) : u[j] = w[j]
        /\ k <= Len(u) => u[k] = NUL /\ w[k] = "x"
  BY DEF Before
<1>3. Len(t) \in Nat /\ Len(u) \in Nat /\ Len(w) \in Nat /\ i \in Nat /\ k \in Nat /\ NUL # "x"
  BY DEF Text, ValuesAssumption
<1>4. CASE i < k
  <2>1. i \in 1 .. Len(w) /\ u[i] = w[i] /\ \A j \in 1 .. (i - 1) : u[j] = w[j]
    BY <1>2, <1>3, <1>4
  <2>. QED  BY <1>1, <2>1 DEF Before
<1>5. CASE i = k
  <2>1. ~(i <= Len(t))
    BY <1>1, <1>2, <1>3, <1>5
  <2>2. i \in 1 .. Len(w) /\ i <= Len(t) + 1 /\ \A j \in 1 .. (i - 1) : t[j] = w[j]
    BY <1>1, <1>2, <1>5
  <2>. QED  BY <2>1, <2>2 DEF Before
<1>6. CASE k < i
  <2>1. k <= Len(t) /\ k <= Len(u) /\ t[k] = u[k] /\ k <= Len(t) + 1
    BY <1>1, <1>3, <1>6
  <2>2. \A j \in 1 .. (k - 1) : t[j] = w[j]
    BY <1>1, <1>2, <1>3, <1>6
  <2>. QED  BY <1>2, <2>1, <2>2 DEF Before
<1>. QED  BY <1>3, <1>4, <1>5, <1>6

LEMMA CompareIs ==
  ASSUME ValuesAssumption, NEW t \in Text, NEW u \in Text
  PROVE  /\ CompareTexts(t, u) \in {-1, 0, 1} /\ (CompareTexts(t, u) = 0 <=> t = u)
         /\ CompareTexts(t, u) = -1 <=> Before(t, u)
         /\ CompareTexts(t, u) = 1 <=> Before(u, t)
<1>1. Len(t) \in Nat /\ Len(u) \in Nat /\ NUL # "x" /\ DOMAIN t = 1 .. Len(t) /\ DOMAIN u = 1 .. Len(u)
      /\ (\A j \in 1 .. Len(t) : t[j] \in {NUL, "x"}) /\ (\A j \in 1 .. Len(u) : u[j] \in {NUL, "x"})
  BY DEF Text, ValuesAssumption
<1>2. \A a \in Text : ~Before(a, a)
  <2>. SUFFICES ASSUME NEW a \in Text, Before(a, a) PROVE FALSE
    OBVIOUS
  <2>1. PICK i \in 1 .. Len(a) : i <= Len(a) => a[i] = NUL /\ a[i] = "x"
    BY DEF Before
  <2>2. Len(a) \in Nat
    BY DEF Text
  <2>. QED  BY <1>1, <2>1, <2>2
<1>3. ASSUME NEW a \in Text, NEW b \in Text, IsStrictPrefix(a, b)
      PROVE  Before(a, b) /\ ~Before(b, a)
  <2>1. Len(a) \in Nat /\ Len(b) \in Nat
    BY DEF Text
  <2>2. Len(a) <= Len(b) /\ (\A j \in 1 .. Len(a) : a[j] = b[j]) /\ a # b
    <3>1. Len(a) <= Len(b) /\ SubSeq(a, 1, Len(a)) = SubSeq(b, 1, Len(a)) /\ a # b
      BY <1>3 DEF IsStrictPrefix, IsPrefix, Text
    <3>2. \A j \in 1 .. Len(a) : SubSeq(a, 1, Len(a))[j] = a[j] /\ SubSeq(b, 1, Len(a))[j] = b[j]
      BY <2>1, <3>1 DEF Text
    <3>. QED  BY <3>1, <3>2
  <2>3. Len(a) < Len(b)
    <3>1. Len(a) = Len(b) => a = b
      BY <2>2 DEF Text
    <3>. QED  BY <2>1, <2>2, <3>1
  <2>4. Before(a, b)
    <3>1. Len(a) + 1 \in 1 .. Len(b) /\ Len(a) + 1 <= Len(a) + 1 /\ ~(Len(a) + 1 <= Len(a))
          /\ \A j \in 1 .. (Len(a) + 1 - 1) : a[j] = b[j]
      BY <2>1, <2>2, <2>3
    <3>. QED  BY <3>1 DEF Before
  <2>5. ~Before(b, a)
    <3>. SUFFICES ASSUME Before(b, a) PROVE FALSE
      OBVIOUS
    <3>1. PICK i \in 1 .. Len(a) : i <= Len(b) => b[i] = NUL /\ a[i] = "x"
      BY DEF Before
    <3>2. i <= Len(b) /\ a[i] = b[i]
      BY <2>1, <2>2, <2>3
    <3>. QED  BY <1>1, <3>1, <3>2
  <2>. QED  BY <2>4, <2>5
<1>4. CASE t = u
  BY <1>2, <1>4 DEF CompareTexts
<1>5. CASE t # u /\ IsStrictPrefix(t, u)
  BY <1>3, <1>5 DEF CompareTexts
<1>6. CASE t # u /\ ~IsStrictPrefix(t, u) /\ IsStrictPrefix(u, t)
  BY <1>3, <1>6 DEF CompareTexts
<1>7. CASE t # u /\ ~IsStrictPrefix(t, u) /\ ~IsStrictPrefix(u, t)
  <2>. DEFINE D == {j \in DOMAIN t \cap DOMAIN u : t[j] # u[j]}
  <2>1. D # {}
    <3>. SUFFICES ASSUME D = {} PROVE FALSE
      OBVIOUS
    <3>1. \A j \in 1 .. Len(t) : j <= Len(u) => t[j] = u[j]
      BY <1>1
    <3>2. CASE Len(t) <= Len(u)
      <4>1. SubSeq(t, 1, Len(t)) = SubSeq(u, 1, Len(t))
        BY <1>1, <3>1, <3>2 DEF Text
      <4>. QED  BY <1>1, <1>7, <3>2, <4>1 DEF IsStrictPrefix, IsPrefix
    <3>3. CASE Len(u) <= Len(t)
      <4>1. SubSeq(u, 1, Len(u)) = SubSeq(t, 1, Len(u))
        BY <1>1, <3>1, <3>3 DEF Text
      <4>. QED  BY <1>1, <1>7, <3>3, <4>1 DEF IsStrictPrefix, IsPrefix
    <3>. QED  BY <1>1, <3>2, <3>3
  <2>2. PICK i : i = Min(D)
    OBVIOUS
  <2>3. i \in D /\ \A j \in D : i <= j
    <3>1. D \in SUBSET (1 .. Len(t))
      BY <1>1
    <3>. HIDE DEF D
    <3>. QED  BY <1>1, <2>1, <2>2, <3>1, Lowest
  <2>4. CompareTexts(t, u) = IF t[i] = NUL THEN -1 ELSE 1
    BY <1>7, <2>2 DEF CompareTexts
  <2>5. /\ i \in 1 .. Len(t) /\ i \in 1 .. Len(u) /\ t[i] # u[i] /\ i \in Nat
        /\ \A j \in 1 .. (i - 1) : t[j] = u[j]
    <3>1. i \in 1 .. Len(t) /\ i \in 1 .. Len(u) /\ t[i] # u[i] /\ i \in Nat
      BY <1>1, <2>3
    <3>2. ASSUME NEW j \in 1 .. (i - 1) PROVE t[j] = u[j]
      <4>1. j \in 1 .. Len(t) /\ j \in 1 .. Len(u) /\ ~(i <= j)
        BY <1>1, <3>1
      <4>. QED  BY <1>1, <2>3, <4>1
    <3>. QED  BY <3>1, <3>2
  <2>. HIDE DEF D
  <2>6. ASSUME NEW a \in Text, NEW b \in Text, i \in 1 .. Len(a), i \in 1 .. Len(b),
               a[i] = NUL, b[i] = "x", \A j \in 1 .. (i - 1) : a[j] = b[j]
        PROVE  Before(a, b) /\ ~Before(b, a)
    <3>0. Len(a) \in Nat /\ Len(b) \in Nat
      BY DEF Text
    <3>1. i <= Len(a) + 1
      BY <2>6, <3>0
    <3>2. Before(a, b)
      BY <2>6, <3>1 DEF Before
    <3>3. ~Before(b, a)
      <4>. SUFFICES ASSUME Before(b, a) PROVE FALSE
        OBVIOUS
      <4>1. PICK k \in 1 .. Len(a) :
              /\ k <= Len(b) + 1 /\ \A j \in 1 .. (k - 1) : b[j] = a[j]
              /\ k <= Len(b) => b[k] = NUL /\ a[k] = "x"
        BY DEF Before
      <4>2. CASE k < i
        <5>1. k \in 1 .. (i - 1) /\ k <= Len(b)
          BY <2>5, <2>6, <3>0, <4>2
        <5>. QED  BY <1>1, <2>6, <4>1, <5>1
      <4>3. CASE k = i
        BY <1>1, <2>6, <4>1, <4>3
      <4>4. CASE i < k
        <5>1. i \in 1 .. (k - 1)
          BY <2>5, <3>0, <4>4
        <5>. QED  BY <1>1, <2>6, <4>1, <5>1
      <4>. QED  BY <2>5, <3>0, <4>2, <4>3, <4>4
    <3>. QED  BY <3>2, <3>3
  <2>7. CASE t[i] = NUL
    <3>1. u[i] = "x"
      BY <1>1, <2>5, <2>7
    <3>2. Before(t, u) /\ ~Before(u, t)
      BY <2>5, <2>6, <2>7, <3>1
    <3>. QED  BY <1>7, <2>4, <2>7, <3>2
  <2>8. CASE t[i] # NUL
    <3>1. t[i] = "x" /\ u[i] = NUL
      BY <1>1, <2>5, <2>8
    <3>2. Before(u, t) /\ ~Before(t, u)
      BY <2>5, <2>6, <3>1
    <3>. QED  BY <1>7, <2>4, <2>8, <3>2
  <2>. QED  BY <2>7, <2>8
<1>. QED  BY <1>4, <1>5, <1>6, <1>7

\* How much a _bstr_t has: no Data_t, a Data_t without a BSTR, or a text.
Rank(s) == IF str[s] = NULL THEN 0 ELSE IF GetWString(s) = NULL THEN 1 ELSE 2

LEMMA RankIs ==
  ASSUME ValuesAssumption, ValuesInv, NEW s \in StrVar, NEW x \in StrVar
  PROVE  /\ Rank(s) \in {0, 1, 2} /\ (Rank(s) = 2 => Wide(s) \in Text)
         /\ Rank(s) # 2 => Wide(s) = Null
         /\ Rank(s) < Rank(x) => Compare(s, x) = -1
         /\ Rank(x) < Rank(s) => Compare(s, x) = 1
         /\ Rank(s) = Rank(x) /\ Rank(s) # 2 => Compare(s, x) = 0
         /\ Rank(s) = 2 /\ Rank(x) = 2 => Compare(s, x) = CompareTexts(Wide(s), Wide(x))
<1>1. /\ GetWString(s) # NULL => Wide(s) \in Text
      /\ GetWString(s) = NULL => Wide(s) = Null
      /\ str[s] = NULL => GetWString(s) = NULL
  BY TextsRead DEF Wide, TextOf, GetWString
<1>2. str[s] = str[x] => GetWString(s) = GetWString(x) /\ Wide(s) = Wide(x)
  BY DEF GetWString, Wide
<1>3. Rank(s) \in {0, 1, 2} /\ (Rank(s) = 2 => Wide(s) \in Text) /\ (Rank(s) # 2 => Wide(s) = Null)
  BY <1>1 DEF Rank
<1>4. Rank(s) < Rank(x) => Compare(s, x) = -1
  BY <1>2 DEF Rank, Compare
<1>5. Rank(x) < Rank(s) => Compare(s, x) = 1
  BY <1>2 DEF Rank, Compare
<1>6. Rank(s) = Rank(x) /\ Rank(s) # 2 => Compare(s, x) = 0
  BY DEF Rank, Compare
<1>7. Rank(s) = 2 /\ Rank(x) = 2 => Compare(s, x) = CompareTexts(Wide(s), Wide(x))
  <2>1. Wide(s) = Wide(x) => CompareTexts(Wide(s), Wide(x)) = 0
    BY DEF CompareTexts
  <2>2. Rank(s) = 2 /\ Rank(x) = 2 =>
          /\ str[s] # NULL /\ str[x] # NULL /\ GetWString(s) # NULL /\ GetWString(x) # NULL
    BY DEF Rank
  <2>. QED  BY <1>2, <2>1, <2>2 DEF Compare
<1>. QED  BY <1>3, <1>4, <1>5, <1>6, <1>7

LEMMA Ordered == ValuesAssumption /\ ValuesInv => OrderSound
<1>. SUFFICES ASSUME ValuesAssumption, ValuesInv PROVE OrderSound
  OBVIOUS
<1>1. ASSUME NEW s \in StrVar, NEW x \in StrVar
      PROVE  /\ Compare(s, x) = -Compare(x, s) /\ Compare(s, x) \in {-1, 0, 1}
             /\ Wide(s) # Null => (Compare(s, x) = 0 <=> Wide(s) = Wide(x))
  <2>1. Rank(s) \in {0, 1, 2} /\ Rank(x) \in {0, 1, 2}
    BY RankIs
  <2>2. CASE Rank(s) < Rank(x)
    <3>1. Compare(s, x) = -1 /\ Compare(x, s) = 1 /\ Wide(s) = Null
      BY <2>1, <2>2, RankIs
    <3>. QED  BY <3>1
  <2>3. CASE Rank(x) < Rank(s)
    <3>1. Compare(s, x) = 1 /\ Compare(x, s) = -1 /\ Wide(x) = Null
      BY <2>1, <2>3, RankIs
    <3>2. PICK a \in Int, b \in Int : a = Compare(s, x) /\ b = Compare(x, s)
      BY <3>1
    <3>4. a = 1 /\ b = -1
      BY <3>1, <3>2
    <3>5. a \in Int /\ b \in Int /\ a + b = 0 /\ a \in {-1, 0, 1} /\ a # 0
      BY <3>4
    <3>3. a = -b /\ a \in {-1, 0, 1} /\ a # 0
      BY ONLY <3>5
    <3>. QED  BY ONLY <3>1, <3>2, <3>3
  <2>4. CASE Rank(x) = Rank(s) /\ Rank(s) # 2
    <3>1. Compare(s, x) = 0 /\ Compare(x, s) = 0 /\ Wide(s) = Null
      BY <2>4, RankIs
    <3>2. PICK a \in Int, b \in Int : a = Compare(s, x) /\ b = Compare(x, s)
      BY <3>1
    <3>4. a = 0 /\ b = 0
      BY <3>1, <3>2
    <3>5. a \in Int /\ b \in Int /\ a + b = 0 /\ a \in {-1, 0, 1}
      BY <3>4
    <3>3. a = -b /\ a \in {-1, 0, 1}
      BY ONLY <3>5
    <3>. QED  BY ONLY <3>1, <3>2, <3>3
  <2>5. CASE Rank(x) = 2 /\ Rank(s) = 2
    <3>1. /\ Compare(s, x) = CompareTexts(Wide(s), Wide(x)) /\ Compare(x, s) = CompareTexts(Wide(x), Wide(s))
          /\ Wide(s) \in Text /\ Wide(x) \in Text
      BY <2>5, RankIs
    <3>2. PICK t \in Text, u \in Text : t = Wide(s) /\ u = Wide(x)
      BY <3>1
    <3>3. /\ CompareTexts(t, u) \in {-1, 0, 1} /\ (CompareTexts(t, u) = 0 <=> t = u)
          /\ CompareTexts(t, u) = -1 <=> Before(t, u)
          /\ CompareTexts(t, u) = 1 <=> Before(u, t)
      BY CompareIs
    <3>4. /\ CompareTexts(u, t) \in {-1, 0, 1} /\ (CompareTexts(u, t) = 0 <=> u = t)
          /\ CompareTexts(u, t) = -1 <=> Before(u, t)
          /\ CompareTexts(u, t) = 1 <=> Before(t, u)
      BY CompareIs
    <3>5. CompareTexts(t, u) = -CompareTexts(u, t)
      BY <3>3, <3>4
    <3>. QED  BY <3>1, <3>2, <3>3, <3>5
  <2>. QED  BY <2>1, <2>2, <2>3, <2>4, <2>5
<1>2. ASSUME NEW s \in StrVar, NEW x \in StrVar, NEW y \in StrVar, Compare(s, x) <= 0, Compare(x, y) <= 0
      PROVE  Compare(s, y) <= 0
  <2>1. Rank(s) \in {0, 1, 2} /\ Rank(x) \in {0, 1, 2} /\ Rank(y) \in {0, 1, 2}
    BY RankIs
  <2>2. Rank(s) <= Rank(x) /\ Rank(x) <= Rank(y)
    <3>1. ~(Rank(x) < Rank(s))
      <4>. SUFFICES ASSUME Rank(x) < Rank(s) PROVE FALSE
        OBVIOUS
      <4>1. Compare(s, x) = 1
        BY RankIs
      <4>. QED  BY <1>2, <4>1
    <3>2. ~(Rank(y) < Rank(x))
      <4>. SUFFICES ASSUME Rank(y) < Rank(x) PROVE FALSE
        OBVIOUS
      <4>1. Compare(x, y) = 1
        BY RankIs
      <4>. QED  BY <1>2, <4>1
    <3>. QED  BY <2>1, <3>1, <3>2
  <2>3. CASE Rank(s) < Rank(y)
    <3>1. Compare(s, y) = -1
      BY <2>3, RankIs
    <3>. QED  BY <3>1
  <2>4. CASE Rank(s) = Rank(y) /\ Rank(s) # 2
    <3>1. Compare(s, y) = 0
      BY <2>4, RankIs
    <3>. QED  BY <3>1
  <2>5. CASE Rank(s) = 2 /\ Rank(x) = 2 /\ Rank(y) = 2
    <3>1. /\ Compare(s, x) = CompareTexts(Wide(s), Wide(x)) /\ Compare(x, y) = CompareTexts(Wide(x), Wide(y))
          /\ Compare(s, y) = CompareTexts(Wide(s), Wide(y))
          /\ Wide(s) \in Text /\ Wide(x) \in Text /\ Wide(y) \in Text
      BY <2>5, RankIs
    <3>2. PICK t \in Text, u \in Text, w \in Text : t = Wide(s) /\ u = Wide(x) /\ w = Wide(y)
      BY <3>1
    <3>3. CompareTexts(t, u) <= 0 /\ CompareTexts(u, w) <= 0 /\ Compare(s, y) = CompareTexts(t, w)
      BY <1>2, <3>1, <3>2
    <3>4. t = u \/ Before(t, u)
      <4>1. CompareTexts(t, u) \in {-1, 0, 1} /\ (CompareTexts(t, u) = 0 <=> t = u)
            /\ (CompareTexts(t, u) = -1 <=> Before(t, u))
        BY CompareIs
      <4>. QED  BY <3>3, <4>1
    <3>5. u = w \/ Before(u, w)
      <4>1. CompareTexts(u, w) \in {-1, 0, 1} /\ (CompareTexts(u, w) = 0 <=> u = w)
            /\ (CompareTexts(u, w) = -1 <=> Before(u, w))
        BY CompareIs
      <4>. QED  BY <3>3, <4>1
    <3>6. t = w \/ Before(t, w)
      BY <3>4, <3>5, BeforeTransitive
    <3>7. CompareTexts(t, w) \in {-1, 0, 1} /\ (CompareTexts(t, w) = 0 <=> t = w)
          /\ (CompareTexts(t, w) = -1 <=> Before(t, w))
      BY CompareIs
    <3>. QED  BY <3>3, <3>6, <3>7
  <2>. QED  BY <2>1, <2>2, <2>3, <2>4, <2>5
<1>3. ASSUME NEW v \in VarVar, NEW x \in VarVar, value[v] = value[x]
      PROVE  Equal(v, x)
  <2>1. Holding(mem, var[v]) = Holding(mem, var[x])
    BY <1>3 DEF ValuesInv, VarKept
  <2>2. /\ var[v].vt = var[x].vt
        /\ var[v].vt = "BSTR" => TextOf(mem, var[v].b) = TextOf(mem, var[x].b)
        /\ var[v].vt # "BSTR" => var[v].n = var[x].n
    BY <2>1 DEF Holding
  <2>. QED  BY <2>2 DEF Equal, AsText
<1>. QED  BY <1>1, <1>2, <1>3 DEF OrderSound

\* No BSTR is lost, freed under its owner or freed twice, and every Data_t is counted by the
\* _bstr_t that have it (comutil.h).
THEOREM OneOwnerAlways == ValuesAssumption => (ValuesSpec => []OneOwner)
<1>. SUFFICES ASSUME ValuesAssumption PROVE ValuesSpec => []OneOwner
  OBVIOUS
<1>1. ValuesSpec => []ValuesInv
  BY ValuesAlways
<1>2. ValuesInv => OneOwner
  BY OwnersCounted
<1>. QED  BY <1>1, <1>2, PTL

\* A variable holds what it was given last, whatever was done to the others since; the
\* comparisons are an order and equal what was given the same; and the program is ended
\* only for one of the three reasons (comutil.h).
THEOREM ValuesKeptAlways == ValuesAssumption => (ValuesSpec => []ValuesKept)
<1>. SUFFICES ASSUME ValuesAssumption PROVE ValuesSpec => []ValuesKept
  OBVIOUS
<1>1. ValuesSpec => []ValuesInv
  BY ValuesAlways
<1>2. ValuesInv => ValuesKept
  BY Kept, Ordered DEF ValuesInv, ValuesKept
<1>. QED  BY <1>1, <1>2, PTL
=============================================================================
