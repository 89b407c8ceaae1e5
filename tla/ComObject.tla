----------------------------- MODULE ComObject -----------------------------
(* COM objects and their events: lib/core/comobject.h, comsink.h and the       *)
(* _variant_t of comutil.h.  An object counts the references to it and is      *)
(* gone at zero.  A ComObject variable is a VARIANT.  A call waits for its     *)
(* server, which may fire events before it answers; their handlers are program *)
(* code again and may set any variable.  A variable WithEvents has a sink,     *)
(* which the connection point of its object knows.                             *)
EXTENDS Integers, Sequences, SequencesExt, FiniteSets

CONSTANTS Object,       \* what the servers can make
          Var,          \* ComObject variables
          EventVar,     \* those declared WithEvents
          None, Nothing,        \* no object in the variable; a VT_DISPATCH of NULL
          MaxSinks, MaxStatements, MaxDepth     \* bounds

ASSUME ComAssumption ==
    /\ IsFiniteSet(Var) /\ EventVar \subseteq Var
    /\ {None, Nothing} \cap (Object \cup Var) = {} /\ None # Nothing
    /\ {MaxSinks, MaxStatements, MaxDepth} \subseteq Nat

VARIABLES refs,         \* the count of each object, zero when there is no such object
          own,          \* objects that their server holds itself
          held,         \* what each variable holds
          sink,         \* variable##ComEventHandler, 0 for none
          sinks,        \* the sinks made so far
          points,       \* the sinks that each object's connection point knows
          stack,        \* calls, handlers and connections under way
          lost,         \* history: references taken that nobody gives back
          faulted,      \* a pointer that is no object was used
          statements

vars == <<refs, own, held, sink, sinks, points, stack, lost, faulted, statements>>

Sink == 1 .. MaxSinks

Frame == [is : {"call"}, obj : Object, to : Var \cup {None}, arg : Var \cup {None},
          copied : Object \cup {None, Nothing}]
    \cup [is : {"event", "advise"}, sink : Sink]
    \cup [is : {"connect"}, var : EventVar] \cup [is : {"reset"}, var : EventVar, point : Object]

\* A sink: its variable, its point, its m_cRef, whether Advise went well.
TypeOK ==
    /\ refs \in [Object -> Nat] /\ lost \in [Object -> Nat] /\ own \subseteq Object
    /\ held \in [Var -> Object \cup {None, Nothing}]
    /\ sink \in [EventVar -> 0 .. MaxSinks]
    /\ sinks \in Seq([of : EventVar, point : Object, refs : Nat, advised : BOOLEAN, gone : BOOLEAN])
    /\ points \in [Object -> SUBSET Sink]
    /\ stack \in Seq(Frame)
    /\ faulted \in BOOLEAN /\ statements \in 0 .. MaxStatements

Init ==
    /\ refs = [o \in Object |-> 0] /\ lost = refs /\ own = {}
    /\ held = [v \in Var |-> None] /\ sink = [v \in EventVar |-> 0]
    /\ sinks = <<>> /\ points = [o \in Object |-> {}]
    /\ stack = <<>> /\ faulted = FALSE /\ statements = 0
-----------------------------------------------------------------------------
Alive == {o \in Object : refs[o] > 0}

Top(kind) == ~faulted /\ stack # <<>> /\ Last(stack).is = kind
\* Program code runs.
Statement ==
    /\ ~faulted /\ (stack = <<>> \/ Top("event"))
    /\ statements < MaxStatements /\ statements' = statements + 1

One(x, y) == IF x = y THEN 1 ELSE 0
Add(count, x, n) == [o \in Object |-> count[o] + n * One(x, o)]

\* The next set of counts; an object that goes takes its connection point with it.
Counts(count, known) ==
    /\ refs' = count
    /\ points' = [o \in Object |-> IF count[o] = 0 THEN {} ELSE known[o]]

\* v = x by VariantCopy: what v held is released, what is copied gets a reference.
\* For a variable WithEvents COM_EVENTS_CONNECT follows.
Assigns(v, x, count, rest) ==
    /\ Counts(Add(Add(count, x, 1), held[v], -1), points)
    /\ held' = [held EXCEPT ![v] = x]
    /\ stack' = IF v \in EventVar THEN Append(rest, [is |-> "connect", var |-> v]) ELSE rest

Set(v, w) ==
    /\ Statement
    /\ Assigns(v, held[w], refs, stack)
    /\ UNCHANGED <<own, sink, sinks, lost, faulted>>

\* CreateObject: a new object, or an exception before anything has changed.
CreateObject(v, o) ==
    /\ Statement /\ v \notin EventVar
    /\ \/ o \notin Alive /\ Assigns(v, o, refs, stack)
       \/ UNCHANGED <<refs, points, held, stack>>
    /\ UNCHANGED <<own, sink, sinks, lost, faulted>>

\* GetObject: an object its server holds; pUnk is not released, even when
\* QueryInterface fails.
GetObject(v, o) ==
    /\ Statement /\ v \notin EventVar /\ o \in own
    /\ \/ Assigns(v, o, Add(refs, o, 1), stack)
       \/ Counts(Add(refs, o, 1), points) /\ UNCHANGED <<held, stack>>
    /\ lost' = Add(lost, o, 1)
    /\ UNCHANGED <<own, sink, sinks, faulted>>

\* A local variable goes out of scope.
Leave(v) ==
    /\ ~faulted /\ stack = <<>> /\ v \notin EventVar /\ held[v] # None
    /\ Counts(Add(refs, held[v], -1), points)
    /\ held' = [held EXCEPT ![v] = None]
    /\ UNCHANGED <<own, sink, sinks, stack, lost, faulted, statements>>
-----------------------------------------------------------------------------
\* The server of an object: external.
ServerMakes(o) ==
    /\ ~faulted /\ stack = <<>> /\ o \notin Alive
    /\ own' = own \cup {o} /\ Counts(Add(refs, o, 1), points)
    /\ UNCHANGED <<held, sink, sinks, stack, lost, faulted, statements>>

ServerDrops(o) ==
    /\ ~faulted /\ o \in own
    /\ own' = own \ {o} /\ Counts(Add(refs, o, -1), points)
    /\ UNCHANGED <<held, sink, sinks, stack, lost, faulted, statements>>
-----------------------------------------------------------------------------
\* `(IDispatch * )( *this )' of each InvokeHelper and of COM_EVENTS_CONNECT takes a
\* reference that is not given back.
Takes(o, n) == /\ Counts(Add(refs, o, n), points)
               /\ lost' = Add(lost, o, n)

\* Mutant: `disp ' is the variable's own pointer.
CallBorrows(v, to, arg, several) ==
    /\ Takes(held[v], 0)
    /\ stack' = Append(stack, [is |-> "call", obj |-> held[v], to |-> to, arg |-> arg,
                               copied |-> IF several /\ arg # None THEN held[arg] ELSE None])

\* Get, Set, SetRef or Invoke by name.  One argument goes as a pointer to the
\* variable, several are copied as bytes, without a reference.
CallBegins(v, to, arg, several) ==
    /\ Takes(held[v], 2)
    /\ stack' = Append(stack, [is |-> "call", obj |-> held[v], to |-> to, arg |-> arg,
                               copied |-> IF several /\ arg # None THEN held[arg] ELSE None])

Call(v, to, arg, several) ==
    /\ Statement /\ Len(stack) < MaxDepth
    /\ \/ held[v] = None /\ UNCHANGED <<refs, points, lost, stack, faulted>>    \* no IDispatch: throws
       \/ held[v] = Nothing /\ faulted' = TRUE /\ UNCHANGED <<refs, points, lost, stack>>
       \/ held[v] \in Object /\ CallBegins(v, to, arg, several) /\ UNCHANGED faulted
       \/ held[v] \in Object /\ Takes(held[v], 1) /\ UNCHANGED <<stack, faulted>> \* no such name: throws
    /\ UNCHANGED <<own, held, sink, sinks>>

\* The server fails: an exception, and nothing is assigned.
CallFails ==
    /\ Top("call")
    /\ stack' = Front(stack)
    /\ UNCHANGED <<refs, own, held, sink, sinks, points, lost, faulted, statements>>

\* The answer: `result ' has a reference that nothing clears; the copy of it that is
\* returned is assigned, or goes.
CallReturns(x) ==
    /\ Top("call")
    /\ LET to == Last(stack).to
       IN  IF to = None
           THEN Counts(Add(refs, x, 1), points) /\ stack' = Front(stack) /\ UNCHANGED held
           ELSE Assigns(to, x, Add(refs, x, 1), Front(stack))
    /\ lost' = Add(lost, x, 1)
    /\ UNCHANGED <<own, sink, sinks, faulted, statements>>
-----------------------------------------------------------------------------
\* COM_EVENTS_CONNECT: the object's connection point.  Its errors are not looked at,
\* and a pointer that was not set is used.
Connect ==
    /\ Top("connect")
    /\ LET v == Last(stack).var
           o == held[v]
       IN  \/ o = None /\ stack' = Front(stack) /\ UNCHANGED <<refs, points, lost, faulted>>
           \/ o # None /\ faulted' = TRUE /\ UNCHANGED <<refs, points, lost, stack>>
           \/ /\ o \in Object /\ Len(sinks) < MaxSinks
              /\ Counts(Add(refs, o, 2), points) /\ lost' = Add(lost, o, 1)
              /\ stack' = Append(Front(stack), [is |-> "reset", var |-> v, point |-> o])
              /\ UNCHANGED faulted
    /\ UNCHANGED <<own, held, sink, sinks, statements>>

\* CEventSink::Release(): the sink deletes itself at zero.
Release(k) == [k EXCEPT !.refs = @ - 1, !.gone = @ \/ k.refs = 1]

InitialRef == 1

\* Mutant: connect() does not keep the cookie.
UnadvisesAny(s, c) ==
    Counts(Add(refs, sinks[s].point, -1), [points EXCEPT ![sinks[s].point] = @ \ {c}])

\* ~CEventSink: Unadvise( m_dwCookie ), which nobody has set when Advise did not go
\* well and is then any number.
Unadvises(s, c) ==
    /\ sinks[s].advised => c = s
    /\ Counts(Add(refs, sinks[s].point, -1),
              [points EXCEPT ![sinks[s].point] = @ \ {c}])
Unadvised(s, c) ==
    [i \in DOMAIN sinks |->
        IF i = s THEN [sinks[i] EXCEPT !.gone = TRUE]
        ELSE IF i = c /\ c \in points[sinks[s].point] THEN Release(sinks[i]) ELSE sinks[i]]

\* The new sink takes the place of the old, which shared_ptr deletes whatever its m_cRef.
Reset(c) ==
    /\ Top("reset")
    /\ LET v == Last(stack).var
           s == sink[v]
           new == [of |-> v, point |-> Last(stack).point, refs |-> InitialRef,
                   advised |-> FALSE, gone |-> FALSE]
       IN  /\ IF s = 0 THEN sinks' = Append(sinks, new) /\ UNCHANGED <<refs, points>>
              ELSE Unadvises(s, c) /\ sinks' = Append(Unadvised(s, c), new)
           /\ sink' = [sink EXCEPT ![v] = Len(sinks')]
           /\ stack' = Append(Front(stack), [is |-> "advise", sink |-> Len(sinks')])
    /\ UNCHANGED <<own, held, lost, faulted, statements>>

\* Advise, which takes a reference to the sink and gives the cookie; or fails.
Advise ==
    /\ Top("advise")
    /\ LET s == Last(stack).sink
       IN  \/ /\ points' = [points EXCEPT ![sinks[s].point] = @ \cup {s}]
              /\ sinks' = [sinks EXCEPT ![s].refs = @ + 1, ![s].advised = ~sinks[s].gone]
           \/ UNCHANGED <<points, sinks>>
    /\ stack' = Front(stack)
    /\ UNCHANGED <<refs, own, held, sink, lost, faulted, statements>>
-----------------------------------------------------------------------------
\* The server fires an event, from the message loop or while a call waits for it, and
\* holds the sink until its handler has returned.
Fire(o, s) ==
    /\ ~faulted /\ s \in points[o] /\ Len(stack) < MaxDepth
    /\ stack = <<>> \/ Top("call") \/ Top("advise")
    /\ IF sinks[s].gone THEN faulted' = TRUE /\ UNCHANGED <<sinks, stack>>
       ELSE /\ sinks' = [sinks EXCEPT ![s].refs = @ + 1]
            /\ stack' = Append(stack, [is |-> "event", sink |-> s])
            /\ UNCHANGED faulted
    /\ UNCHANGED <<refs, own, held, sink, points, lost, statements>>

HandlerReturns ==
    /\ Top("event")
    /\ LET s == Last(stack).sink
       IN  IF sinks[s].gone THEN faulted' = TRUE /\ UNCHANGED sinks
           ELSE sinks' = [sinks EXCEPT ![s] = Release(@)] /\ UNCHANGED faulted
    /\ stack' = Front(stack)
    /\ UNCHANGED <<refs, own, held, sink, points, lost, statements>>
-----------------------------------------------------------------------------
Next ==
    \/ \E v, w \in Var : Set(v, w)
    \/ \E v \in Var, o \in Object : CreateObject(v, o) \/ GetObject(v, o)
    \/ \E v \in Var : Leave(v)
    \/ \E o \in Object : ServerMakes(o) \/ ServerDrops(o)
    \/ \E v \in Var, to, arg \in Var \cup {None}, several \in BOOLEAN : Call(v, to, arg, several)
    \/ CallFails \/ \E x \in Object \cup {None, Nothing} : CallReturns(x)
    \/ Connect \/ (\E c \in Sink : Reset(c)) \/ Advise
    \/ \E o \in Object : \E s \in points[o] : Fire(o, s)
    \/ HandlerReturns

Spec == Init /\ [][Next]_vars
-----------------------------------------------------------------------------
\* Every reference to an object is that of a variable, of a sink's connection point, of
\* its server, or one of those that the calls are known to keep: none is given back
\* twice and no other is lost (comobject.h, comutil.h).
CountExact ==
    \A o \in Object :
        refs[o] = Cardinality({v \in Var : held[v] = o}) + (IF o \in own THEN 1 ELSE 0) + lost[o]
                + Cardinality({s \in DOMAIN sinks : sinks[s].point = o /\ ~sinks[s].gone})
                + Cardinality({i \in DOMAIN stack : stack[i].is = "reset" /\ stack[i].point = o})

\* The object that a call waits for is there, even when an event handler has set the
\* variable it was called by (comobject.h InvokeHelper).
TargetsLive == \A i \in DOMAIN stack : stack[i].is = "call" => stack[i].obj \in Alive

\* So is an object among several arguments, unless a handler has set its variable.
ArgumentsLive ==
    \A i \in DOMAIN stack :
        stack[i].is = "call" /\ stack[i].copied \in Object
            => stack[i].copied \in Alive \/ held[stack[i].arg] # stack[i].copied

\* A call uses no object that is gone (InvokeHelper).
PointersLive == TargetsLive /\ ArgumentsLive

\* Every reference is accounted for, and what a call works on, with and from which the
\* server reads its arguments stays alive until it returns (comobject.h, comsink.h).
CountsSound == CountExact /\ PointersLive

\* The sink of a variable is not deleted under it, and a connection point knows no
\* sink that is gone, unless its variable was set again while it was connected
\* (comsink.h).
SinksThere ==
    /\ \A v \in EventVar : sink[v] # 0 => ~sinks[sink[v]].gone
    /\ \A o \in Object : \A s \in points[o] :
          sinks[s].gone => ~sinks[s].advised /\ sink[sinks[s].of] > s

\* The events that reach a variable's handlers are of the object it holds, unless it is
\* being connected or was set to what is no object (COM_EVENTS_CONNECT).
EventsOfHeld ==
    \A o \in Object : \A s \in points[o] :
        LET v == sinks[s].of
        IN  \/ held[v] \in {o, None} \/ (sinks[s].gone /\ ~sinks[s].advised) \/ faulted
            \/ \E i \in DOMAIN stack : stack[i].is \in {"connect", "reset"} /\ stack[i].var = v

\* A sink that was connected is heard, until its variable is set, or until another sink
\* whose Advise failed was destroyed at the same point.
Heard ==
    \A v \in EventVar :
        LET s == sink[v]
        IN  s # 0 /\ sinks[s].advised /\ s \notin points[sinks[s].point]
              => \E f \in DOMAIN sinks : /\ f # s /\ sinks[f].gone /\ ~sinks[f].advised
                                         /\ sinks[f].point = sinks[s].point

\* The three together: a handler runs for the events of its variable's object, and for no
\* others (comsink.h).
EventsRight == SinksThere /\ EventsOfHeld /\ Heard
=============================================================================
