------------------------------ MODULE RefCount ------------------------------
(***************************************************************************)
(* The counted reference ref<T> of the runtime (src/lib/core/core.h) and   *)
(* the life of the objects it points to: construction with Initialize,     *)
(* assignment, the nested release -> Terminate -> delete -> release of the *)
(* fields, on the C++ stack of one thread.                                 *)
(*                                                                         *)
(* A cell is a ref<T> that is counted: a BASIC variable, or the field of   *)
(* an object (one field per object; the cell has the object's name).  The  *)
(* Me reference of a method (me = true) is never counted and appears only  *)
(* as the object of the handler that is running.                           *)
(***************************************************************************)
EXTENDS Integers, Sequences, FiniteSets

CONSTANTS Var,          \* BASIC variables of a class type
          BaseVar,      \* those declared with a base class that lacks the field
          Obj,          \* heap addresses
          Null,         \* Nothing
          HandlerOps,   \* bound: statements one Initialize or Terminate executes
          MaxTerms,     \* bound: calls of Terminate of one object, then no statements
          MaxLost       \* bound: no object is made once a field was lost so often

ASSUME RefAssumption ==
    /\ IsFiniteSet(Var) /\ IsFiniteSet(Obj)
    /\ BaseVar \subseteq Var
    /\ Var \cap Obj = {}
    /\ Null \notin Var \cup Obj
    /\ HandlerOps \in Nat
    /\ MaxTerms \in Nat
    /\ MaxLost \in Nat

Cell == Var \cup Obj
Value == Obj \cup {Null}

VARIABLES live,     \* allocated objects
          ptr,      \* ptr[c]: the object cell c holds
          cnt,      \* object::__refcnt
          stack,    \* operator= / ~ref activations that have not returned
          terms,    \* history: calls of Terminate since the allocation
          lost,     \* history: fields of freed objects that were never released
          strayed,  \* history: objects that a handler did not leave alone
          faulted   \* memory that was freed has been used: nothing is known any more

vars == <<live, ptr, cnt, stack, terms, lost, strayed, faulted>>

(***************************************************************************)
(* One activation: `cell' is being overwritten with `tmp' (the by-value    *)
(* parameter, counted while it lives; Null for a destructor), the object   *)
(* `obj' it gives up or, in a constructor, the object being made.          *)
(*   init - Initialize runs, under the __refcnt++ guard of the constructor *)
(*   term - release reached zero, Terminate runs                           *)
(*   dtor - `delete ptr' is releasing the field of obj                     *)
(* `via' is the variable through which a field was reached (Null if none). *)
(***************************************************************************)
Frame == [cell: Cell, tmp: Value, obj: Obj, pc: {"init", "term", "dtor"},
          via: Var \cup {Null}, ops: 0..HandlerOps]

Top == stack[Len(stack)]
Front(s) == SubSeq(s, 1, Len(s) - 1)

Init == /\ live = {}
        /\ ptr = [c \in Cell |-> Null]
        /\ cnt = [o \in Obj |-> 0]
        /\ stack = <<>>
        /\ terms = [o \in Obj |-> 0]
        /\ lost = [o \in Obj |-> 0]
        /\ strayed = {}
        /\ faulted = FALSE

-----------------------------------------------------------------------------
(* The runtime's operators. *)

\* addref: counting a null reference does nothing.
AddRef(x, count) == IF x = Null THEN count ELSE [count EXCEPT ![x] = @ + 1]

\* release takes the last reference of x.
DropsLast(x, count) == x # Null /\ count[x] = 1

\* Mutant: release forgets to decrement.
ReleaseKeepsCount(x, count) == count

\* release, when it does not reach zero.
Release(x, count) == IF x = Null THEN count ELSE [count EXCEPT ![x] = @ - 1]

\* Some of these cells and objects are in memory that has been freed.
Freed(S) == (S \cap Obj) \ live # {}

Fault == faulted' = TRUE /\ UNCHANGED <<live, ptr, cnt, stack, terms, lost>>

\* Terminate of x is called, for the cell c that is to hold y next.
Terminate(x, c, y, count, via, st) ==
    /\ cnt' = count
    /\ terms' = [terms EXCEPT ![x] = @ + 1]
    /\ stack' = Append(st, [cell |-> c, tmp |-> y, obj |-> x,
                            pc |-> "term", via |-> via, ops |-> 0])
    /\ UNCHANGED <<live, ptr, lost>>

\* Mutant: Terminate is called before the count is decremented.
AssignTerminatesFirst(c, x, count, via, st) ==
    IF DropsLast(ptr[c], count)
    THEN Terminate(ptr[c], c, x, count, via, st)
    ELSE /\ ptr' = [ptr EXCEPT ![c] = x]
         /\ cnt' = Release(ptr[c], count)
         /\ stack' = st
         /\ UNCHANGED <<live, terms, lost>>

\* operator=(ref x): `count' already holds the reference of the parameter.
\* Without a last reference to drop the call runs to its end: the parameter's
\* reference becomes the cell's.  Otherwise Terminate is entered.
ReleaseAndStore(c, x, count, via, st) ==
    IF DropsLast(ptr[c], count)
    THEN Terminate(ptr[c], c, x, [count EXCEPT ![ptr[c]] = 0], via, st)
    ELSE /\ ptr' = [ptr EXCEPT ![c] = x]
         /\ cnt' = Release(ptr[c], count)
         /\ stack' = st
         /\ UNCHANGED <<live, terms, lost>>

OperatorAssign(c, x, count, via, st) ==
    IF Freed({c, ptr[c], x}) THEN Fault
    ELSE ReleaseAndStore(c, x, count, via, st) /\ UNCHANGED faulted

-----------------------------------------------------------------------------
(* BASIC statements: of Main, or of the handler on top of the stack. *)

InHandler == stack # <<>> /\ Top.pc \in {"init", "term"}

CanExecute ==
    /\ stack = <<>> \/ (InHandler /\ Top.ops < HandlerOps)
    /\ \A o \in live : terms[o] <= MaxTerms

\* The stack once the running handler has used one of its statements.
Counted == IF stack = <<>> THEN stack
           ELSE [stack EXCEPT ![Len(stack)].ops = @ + 1]

\* The activations that have given up the reference of their cell: Terminate runs, or
\* delete; those cells, and those objects.
Releases == {i \in DOMAIN stack : stack[i].pc # "init"}
Releasing == {stack[i].cell : i \in Releases}
Dying == {stack[i].obj : i \in Releases}

\* The objects that suffer when c is assigned x.  A handler has to leave alone what is
\* going on under it: copy no object that is dying (its own Me in Terminate, or a cell
\* that is being released), overwrite no cell that is being released (release reads
\* ptr again), nor the variable a field being overwritten was reached through.
Strays(c, x) ==
    ({x} \cap Dying) \cup (IF c \in Releasing THEN {x, ptr[c]} \ {Null} ELSE {})
    \cup {stack[i].cell : i \in {j \in DOMAIN stack : stack[j].via = c}}

\* Set v = Nothing | w | w.field | Me | Me.field
Sources ==
    LET holders == {ptr[w] : w \in Var \ BaseVar} \cup (IF InHandler THEN {Top.obj} ELSE {})
    IN  {Null} \cup {ptr[w] : w \in Var} \cup {ptr[o] : o \in holders \cap live}
        \cup (IF InHandler THEN {Top.obj} ELSE {})

\* Set c = x, for any source x.
Assign(c, via) ==
    \E x \in Sources : /\ OperatorAssign(c, x, AddRef(x, cnt), via, Counted)
                       /\ strayed' = strayed \cup Strays(c, x)

AssignVar(v) ==
    /\ CanExecute
    /\ Assign(v, Null)

\* Set w.field = ...
AssignField(w) ==
    /\ CanExecute
    /\ w \notin BaseVar
    /\ ptr[w] # Null
    /\ Assign(ptr[w], w)

\* Set Me.field = ..., in Initialize or Terminate
AssignOwnField ==
    /\ CanExecute
    /\ InHandler
    /\ Assign(Top.obj, Null)

\* Set v = New C: the constructor guards Initialize with __refcnt++.  An address that
\* dangling references may hold is not given out again: to use one is undefined anyway.
NewObject(v) ==
    /\ CanExecute
    /\ \A o \in live : lost[o] < MaxLost
    /\ \E o \in Obj \ (live \cup strayed) :
          /\ live' = live \cup {o}
          /\ cnt' = [cnt EXCEPT ![o] = 1]
          /\ terms' = [terms EXCEPT ![o] = 0]
          /\ lost' = [lost EXCEPT ![o] = 0]
          /\ stack' = Append(Counted, [cell |-> v, tmp |-> o, obj |-> o,
                                       pc |-> "init", via |-> Null, ops |-> 0])
          /\ strayed' = strayed \cup Strays(v, o)
          /\ UNCHANGED <<ptr, faulted>>

-----------------------------------------------------------------------------
(* Returns. *)

\* Initialize returns, __refcnt-- is followed by the ++ of the temporary
\* reference, and operator= goes on with it.
InitializeReturns ==
    /\ stack # <<>> /\ Top.pc = "init"
    /\ OperatorAssign(Top.cell, Top.tmp, cnt, Null, Front(stack))
    /\ UNCHANGED strayed

\* delete has run the destructor: x is freed, ptr = 0, and operator= stores
\* its parameter, whose reference passes to the cell.
FreeAndStore(x) ==
    /\ live' = live \ {x}
    /\ ptr' = [c \in Cell |-> IF c = Top.cell THEN Top.tmp ELSE IF c = x THEN Null ELSE ptr[c]]
    /\ stack' = Front(stack)

\* delete through a base class does not run the destructor of the field.
SkipsField == Top.cell \in BaseVar

\* What the cell on top holds now, and its field if delete is going to release it.
Deleted == ptr[Top.cell]
FieldOf(x) == IF x = Null THEN Null ELSE ptr[x]

\* Terminate returns; release reads ptr again and deletes what it points to, if anything.
TerminateReturns ==
    /\ stack # <<>> /\ Top.pc = "term"
    /\ UNCHANGED strayed
    /\ LET x == Deleted
           field == FieldOf(x)
       IN IF \/ x \in Releasing      \* the destructor would run on a field that is in use
             \/ Freed({x, Top.tmp}) \/ (Top.tmp = x /\ x # Null)
             \/ ~SkipsField /\ Freed({field})
          THEN Fault
          ELSE IF ~SkipsField /\ DropsLast(field, cnt)
          THEN /\ Terminate(field, x, Null, [cnt EXCEPT ![field] = 0], Null,
                            [stack EXCEPT ![Len(stack)].pc = "dtor", ![Len(stack)].obj = x])
               /\ UNCHANGED faulted
          ELSE /\ FreeAndStore(x)
               /\ cnt' = IF SkipsField THEN cnt ELSE Release(field, cnt)
               /\ lost' = IF SkipsField /\ field # Null
                          THEN [lost EXCEPT ![field] = @ + 1] ELSE lost
               /\ UNCHANGED <<terms, faulted>>

\* The field of the deleted object has been released.
DestructorReturns ==
    /\ stack # <<>> /\ Top.pc = "dtor"
    /\ IF Freed({Top.tmp}) THEN Fault
       ELSE FreeAndStore(Top.obj) /\ UNCHANGED <<cnt, terms, lost, faulted>>
    /\ UNCHANGED strayed

Statement == \/ \E v \in Var : AssignVar(v) \/ AssignField(v) \/ NewObject(v)
             \/ AssignOwnField

Return == InitializeReturns \/ TerminateReturns \/ DestructorReturns

Next == ~faulted /\ (Statement \/ Return)

Spec == Init /\ [][Next]_vars

\* Straight-line C++ code that has been entered runs on.
FairSpec == Spec /\ WF_vars(~faulted /\ Return)

-----------------------------------------------------------------------------
(* Properties. *)

TypeOK ==
    /\ live \subseteq Obj
    /\ ptr \in [Cell -> Value]
    /\ cnt \in [Obj -> Int]
    /\ stack \in Seq(Frame)
    /\ terms \in [Obj -> Nat]
    /\ lost \in [Obj -> Nat]
    /\ strayed \subseteq Obj
    /\ faulted \in BOOLEAN

CellRefs(o) == {c \in Cell \ Releasing : ptr[c] = o}
TmpRefs(o) == {i \in DOMAIN stack : stack[i].tmp = o}

\* The count of an object is the number of references to it: cells that have
\* not been given up, parameters in flight, and the fields that deletes
\* through a base class forgot (addref, release); with the types of the variables.
CountExact ==
    /\ TypeOK
    /\ \A o \in live \ strayed :
       cnt[o] = Cardinality(CellRefs(o)) + Cardinality(TmpRefs(o)) + lost[o]

\* Each activation that waits for a handler still holds what it is about to
\* delete, nobody else refers to it, and no two of them delete the same object.
DeletesOwnObject ==
    LET R == {i \in Releases : stack[i].obj \notin strayed} IN
    /\ \A i \in R : /\ stack[i].obj \in live
                    /\ ptr[stack[i].cell] = stack[i].obj
                    /\ cnt[stack[i].obj] = 0
    /\ \A i, j \in R : stack[i].obj = stack[j].obj => i = j

\* No variable, no field of an object that is allocated, and no parameter in
\* flight ever points to an object that has been freed, and every delete frees an
\* object of its own (operator=, release).
NoDangling ==
    /\ DeletesOwnObject
    /\ \A c \in Var \cup live : ptr[c] \in live \cup strayed \cup {Null}
    /\ \A i \in DOMAIN stack : stack[i].tmp \in live \cup strayed \cup {Null}

\* A count is the number of references, and no reference is to an object that is gone,
\* but for the objects that a handler did not leave alone: a Terminate that copies its
\* Me, or writes over what is being released, does no harm to any other object, and
\* freed memory is used only after that (ref<T> of core.h).
CountsSound == CountExact /\ NoDangling /\ (faulted => strayed # {})

\* Terminate runs exactly once in the life of an object, and before its
\* memory is freed, unless a handler did not leave the object alone.
TerminateOnce ==
    [][\A o \in (live \ live') \ strayed : terms[o] = 1]_vars

Reachable ==
    {o \in live : \A S \in SUBSET live :
        ( /\ \A v \in Var : ptr[v] \in live => ptr[v] \in S
          /\ \A p \in S : ptr[p] \in live => ptr[p] \in S ) => o \in S}

\* What stays allocated without being reachable from a variable is held by
\* another unreachable object: only cycles (and the fields forgotten by deletes
\* through a base class, and objects a handler did not leave alone) are never reclaimed.
OnlyCyclesLeak ==
    stack = <<>> =>
        \A o \in live \ (Reachable \cup strayed) :
           lost[o] > 0 \/ \E p \in live \ Reachable : ptr[p] = o

\* Every cascade of handlers and deletes comes to its end; not of a Terminate that copies
\* its Me and drops the copy, for instance, which calls itself.
CascadeEnds == []<>(stack = <<>> \/ strayed # {})
=============================================================================
