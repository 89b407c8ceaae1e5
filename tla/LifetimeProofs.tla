--------------------------- MODULE LifetimeProofs ---------------------------
(* Theorems about CallStack, for any number of threads, procedures and lines   *)
(* and any depth of calls, and about Lifetime: a program's start and end keep  *)
(* the call stack as CallStack says, so what is proved of CallStack holds of a *)
(* program with modules and libraries too.                                     *)
EXTENDS Lifetime, SequenceTheorems, TLAPS

-----------------------------------------------------------------------------
(* The call stack. *)

\* In every thread: the dbg_ functions run where the generated code calls them,
\* and the vectors are at least as long as the C++ stack.
Calls(t) ==
    /\ op[t].k \in {"func", "line", "end"} => mode[t] = "run"
    /\ op[t].k \in {"line", "end"} => real[t] # <<>>
    /\ op[t].k = "report" => mode[t] # "dead"
    /\ Len(dbg[t]) >= Len(real[t])

\* In a thread that catches only what its own procedures throw, the vectors are
\* the C++ stack, or the stack at the throw when nothing catches it.
Own(t) ==
    /\ mode[t] = "run" => dbg[t] = real[t]
    /\ mode[t] = "handler" => dbg[t] = real[t] /\ thrown[t] = real[t]
    /\ mode[t] = "abort" => dbg[t] = thrown[t]

Local(t) == Calls(t) /\ (t \in OwnThread => Own(t))

Inv == TypeOK /\ \A t \in Thread : Local(t)

\* Facts about the stacks.
LEMMA Stacks ==
  ASSUME NEW s \in Seq(Call)
  PROVE  /\ SubSeq(s, 1, Len(s)) = s
         /\ \A d \in 0 .. Len(s) : /\ SubSeq(s, 1, d) \in Seq(Call)
                                  /\ Len(SubSeq(s, 1, d)) = d
         /\ s # <<>> => /\ Front(s) \in Seq(Call)
                        /\ Len(Front(s)) = Len(s) - 1
         /\ \A g \in Func : LET c == [func |-> g, line |-> 0] IN
               /\ Append(s, c) \in Seq(Call)
               /\ Len(Append(s, c)) = Len(s) + 1
         /\ \A n \in Line : s # <<>> =>
               /\ [s EXCEPT ![Len(s)].line = n] \in Seq(Call)
               /\ Len([s EXCEPT ![Len(s)].line = n]) = Len(s)
<1>1. SubSeq(s, 1, Len(s)) = s
  OBVIOUS
<1>2. ASSUME NEW d \in 0 .. Len(s)
      PROVE  SubSeq(s, 1, d) \in Seq(Call) /\ Len(SubSeq(s, 1, d)) = d
  <2>1. d \in Nat /\ d <= Len(s)
    BY <1>2
  <2> QED
    BY <2>1
<1>3. ASSUME s # <<>>
      PROVE  Front(s) \in Seq(Call) /\ Len(Front(s)) = Len(s) - 1
  <2>1. Len(s) - 1 \in 0 .. Len(s)
    BY <1>3
  <2> QED
    BY <2>1, <1>2 DEF Front
<1>4. ASSUME NEW g \in Func
      PROVE  /\ Append(s, [func |-> g, line |-> 0]) \in Seq(Call)
             /\ Len(Append(s, [func |-> g, line |-> 0])) = Len(s) + 1
  <2>1. [func |-> g, line |-> 0] \in Call
    BY <1>4 DEF Call
  <2> QED
    BY <2>1
<1>5. ASSUME NEW n \in Line, s # <<>>
      PROVE  /\ [s EXCEPT ![Len(s)].line = n] \in Seq(Call)
             /\ Len([s EXCEPT ![Len(s)].line = n]) = Len(s)
  <2>1. Len(s) \in 1 .. Len(s)
    BY <1>5
  <2>2. s[Len(s)] \in Call
    BY <2>1
  <2> DEFINE c == [s[Len(s)] EXCEPT !.line = n]
  <2>3. c \in Call
    BY <2>2, <1>5 DEF Call
  <2>4. [s EXCEPT ![Len(s)].line = n] = [s EXCEPT ![Len(s)] = c]
    OBVIOUS
  <2> HIDE DEF c
  <2>5. [s EXCEPT ![Len(s)] = c] \in Seq(Call)
    BY <2>3, <2>1
  <2>6. Len([s EXCEPT ![Len(s)] = c]) = Len(s)
    BY <2>3, <2>1
  <2> QED
    BY <2>4, <2>5, <2>6
<1> QED
  BY <1>1, <1>2, <1>3, <1>4, <1>5

LEMMA InitInv == Init => Inv
  BY CallAssumption DEF Init, Inv, TypeOK, Local, Calls, Own, NoOp, Call

\* What the calls of dbg_func and dbg_line carry.
LEMMA Arguments ==
  ASSUME TypeOK, NEW t \in Thread
  PROVE  /\ op[t].k = "func" => op[t].f \in Func
         /\ op[t].k = "line" => op[t].n \in Line
<1> DEFINE o == op[t]
<1>1. o \in {NoOp} \cup [k: {"func"}, f: Func]
              \cup [k: {"line"}, n: Line] \cup [k: {"end", "report"}]
  BY DEF TypeOK
<1> HIDE DEF o
<1>2. o = NoOp => o.k = "none"
  BY DEF NoOp
<1>3. o \in [k: {"func"}, f: Func] => o.k = "func" /\ o.f \in Func
  OBVIOUS
<1>4. o \in [k: {"line"}, n: Line] => o.k = "line" /\ o.n \in Line
  OBVIOUS
<1>5. o \in [k: {"end", "report"}] => o.k \in {"end", "report"}
  OBVIOUS
<1>6. (o.k = "func" => o.f \in Func) /\ (o.k = "line" => o.n \in Line)
  BY <1>1, <1>2, <1>3, <1>4, <1>5
<1> QED
  BY <1>6 DEF o

\* An action of thread t leaves the other threads alone.
LEMMA Frame ==
  ASSUME Inv, TypeOK', NEW t \in Thread, Local(t)',
         \A u \in Thread \ {t} : /\ op'[u] = op[u]
                                 /\ mode'[u] = mode[u]
                                 /\ real'[u] = real[u]
                                 /\ dbg'[u] = dbg[u]
                                 /\ thrown'[u] = thrown[u]
  PROVE  Inv'
  BY DEF Inv, Local, Calls, Own

\* Entering a dbg_ function changes op only.
LEMMA EnterInv ==
  ASSUME Inv, NEW t \in Thread,
         CallProc(t) \/ NextLine(t) \/ EndProc(t) \/ Report(t)
  PROVE  Inv'
<1> USE DEF Inv
<1>1. CASE CallProc(t)
  <2>1. TypeOK'
    BY <1>1 DEF CallProc, Enter, TypeOK, NoOp
  <2>2. Local(t)'
    BY <1>1 DEF CallProc, Enter, TypeOK, Local, Calls, Own
  <2> QED
    BY <1>1, <2>1, <2>2, Frame DEF CallProc, Enter, TypeOK
<1>2. CASE NextLine(t)
  <2>1. TypeOK'
    BY <1>2 DEF NextLine, Enter, TypeOK, NoOp
  <2>2. Local(t)'
    BY <1>2 DEF NextLine, Enter, TypeOK, Local, Calls, Own
  <2> QED
    BY <1>2, <2>1, <2>2, Frame DEF NextLine, Enter, TypeOK
<1>3. CASE EndProc(t)
  <2>1. TypeOK'
    BY <1>3 DEF EndProc, Enter, TypeOK, NoOp
  <2>2. Local(t)'
    BY <1>3 DEF EndProc, Enter, TypeOK, Local, Calls, Own
  <2> QED
    BY <1>3, <2>1, <2>2, Frame DEF EndProc, Enter, TypeOK
<1>4. CASE Report(t)
  <2>1. TypeOK'
    BY <1>4 DEF Report, Enter, TypeOK, NoOp
  <2>2. Local(t)'
    BY <1>4 DEF Report, Enter, TypeOK, Local, Calls, Own
  <2> QED
    BY <1>4, <2>1, <2>2, Frame DEF Report, Enter, TypeOK
<1> QED
  BY <1>1, <1>2, <1>3, <1>4

\* What a dbg_ function returns with keeps Local, given what became of the
\* vectors and the C++ stack.
LEMMA ReturnInv ==
  ASSUME Inv, NEW t \in Thread, NEW r \in Seq(Call), NEW d \in Seq(Call),
         mode[t] = "run", Len(d) >= Len(r),
         t \in OwnThread => d = r,
         real' = [real EXCEPT ![t] = r], dbg' = [dbg EXCEPT ![t] = d],
         Return(t), thrown' = thrown, mode' = mode
  PROVE  Inv'
<1> USE DEF Inv
<1>1. TypeOK'
  BY DEF Return, TypeOK
<1>2. Local(t)'
  BY DEF Return, TypeOK, Local, Calls, Own, NoOp
<1> QED
  BY <1>1, <1>2, Frame DEF Return, TypeOK

\* The dbg_ functions do to the vectors what the call does to the C++ stack.
LEMMA RuntimeInv ==
  ASSUME Inv, NEW t \in Thread, Runtime(t)
  PROVE  Inv'
<1> USE DEF Inv
<1>0. /\ real[t] \in Seq(Call) /\ dbg[t] \in Seq(Call)
      /\ Calls(t)
      /\ t \in OwnThread /\ mode[t] = "run" => dbg[t] = real[t]
  BY DEF TypeOK, Local, Own
<1>1. CASE DbgFunc(t)
  <2> DEFINE c == [func |-> op[t].f, line |-> 0]
             r == Append(real[t], c)
             d == Append(dbg[t], c)
  <2>1. op[t].f \in Func /\ mode[t] = "run"
    BY <1>0, <1>1, Arguments DEF DbgFunc, Calls
  <2>2. /\ r \in Seq(Call) /\ d \in Seq(Call)
        /\ Len(r) = Len(real[t]) + 1 /\ Len(d) = Len(dbg[t]) + 1
    BY <1>0, <2>1, Stacks
  <2>3. Len(d) >= Len(r)
    BY <1>0, <2>2 DEF Calls
  <2>4. t \in OwnThread => d = r
    BY <1>0, <2>1
  <2>5. /\ real' = [real EXCEPT ![t] = r] /\ dbg' = [dbg EXCEPT ![t] = d]
        /\ Return(t) /\ thrown' = thrown /\ mode' = mode
    BY <1>1 DEF DbgFunc
  <2> HIDE DEF r, d
  <2> QED
    BY <2>1, <2>2, <2>3, <2>4, <2>5, ReturnInv
<1>2. CASE DbgLine(t)
  <2> DEFINE r == [real[t] EXCEPT ![Len(real[t])].line = op[t].n]
             d == [dbg[t] EXCEPT ![Len(dbg[t])].line = op[t].n]
  <2>1. op[t].n \in Line /\ mode[t] = "run" /\ real[t] # <<>> /\ dbg[t] # <<>>
    BY <1>0, <1>2, Arguments DEF DbgLine, Calls
  <2>2. /\ r \in Seq(Call) /\ d \in Seq(Call)
        /\ Len(r) = Len(real[t]) /\ Len(d) = Len(dbg[t])
    BY <1>0, <2>1, Stacks
  <2>3. Len(d) >= Len(r)
    BY <1>0, <2>2 DEF Calls
  <2>4. t \in OwnThread => d = r
    BY <1>0, <2>1
  <2>5. /\ real' = [real EXCEPT ![t] = r] /\ dbg' = [dbg EXCEPT ![t] = d]
        /\ Return(t) /\ thrown' = thrown /\ mode' = mode
    BY <1>2 DEF DbgLine
  <2> HIDE DEF r, d
  <2> QED
    BY <2>1, <2>2, <2>3, <2>4, <2>5, ReturnInv
<1>3. CASE DbgEndFunc(t)
  <2> DEFINE r == Front(real[t])
             d == Front(dbg[t])
  <2>1. mode[t] = "run" /\ real[t] # <<>> /\ dbg[t] # <<>>
    BY <1>0, <1>3 DEF DbgEndFunc, Calls
  <2>2. /\ r \in Seq(Call) /\ d \in Seq(Call)
        /\ Len(r) = Len(real[t]) - 1 /\ Len(d) = Len(dbg[t]) - 1
    BY <1>0, <2>1, Stacks
  <2>3. Len(d) >= Len(r)
    BY <1>0, <2>2 DEF Calls
  <2>4. t \in OwnThread => d = r
    BY <1>0, <2>1
  <2>5. /\ real' = [real EXCEPT ![t] = r] /\ dbg' = [dbg EXCEPT ![t] = d]
        /\ Return(t) /\ thrown' = thrown /\ mode' = mode
    BY <1>3 DEF DbgEndFunc
  <2> HIDE DEF r, d
  <2> QED
    BY <2>1, <2>2, <2>3, <2>4, <2>5, ReturnInv
<1>4. CASE DbgCallStack(t)
  <2>1. TypeOK'
    BY <1>4 DEF DbgCallStack, Return, TypeOK
  <2>2. Local(t)'
    BY <1>4 DEF DbgCallStack, Return, TypeOK, Local, Calls, Own, NoOp
  <2> QED
    BY <1>4, <2>1, <2>2, Frame DEF DbgCallStack, Return, TypeOK
<1> QED
  BY <1>1, <1>2, <1>3, <1>4 DEF Runtime

\* A throw cuts the C++ stack back; when only its own procedure catches it,
\* not at all or altogether.
LEMMA ThrowInv ==
  ASSUME Inv, NEW t \in Thread, Throw(t)
  PROVE  Inv'
<1> USE DEF Inv
<1>1. PICK d \in 0 .. Len(real[t]) :
         /\ t \in CatchesCallee \/ d \in {0, Len(real[t])}
         /\ real' = [real EXCEPT ![t] = SubSeq(real[t], 1, d)]
         /\ mode' = [mode EXCEPT ![t] = IF d = 0 THEN "abort" ELSE "handler"]
  BY DEF Throw
<1>2. /\ real[t] \in Seq(Call) /\ dbg[t] \in Seq(Call)
      /\ op[t] = NoOp /\ mode[t] = "run" /\ Len(dbg[t]) >= Len(real[t])
      /\ t \in OwnThread => dbg[t] = real[t]
  BY DEF Throw, TypeOK, Local, Calls, Own
<1>3. /\ SubSeq(real[t], 1, d) \in Seq(Call)
      /\ Len(SubSeq(real[t], 1, d)) = d
      /\ d = Len(real[t]) => SubSeq(real[t], 1, d) = real[t]
  BY <1>1, <1>2, Stacks
<1>4. d <= Len(dbg[t])
  BY <1>1, <1>2
<1>5. t \in OwnThread => d = 0 \/ SubSeq(real[t], 1, d) = real[t]
  BY <1>1, <1>3 DEF OwnThread
<1>6. TypeOK'
  BY <1>1, <1>2, <1>3 DEF Throw, TypeOK
<1>7. /\ real'[t] = SubSeq(real[t], 1, d)
      /\ mode'[t] = IF d = 0 THEN "abort" ELSE "handler"
      /\ thrown'[t] = real[t] /\ dbg'[t] = dbg[t] /\ op'[t] = NoOp
  BY <1>1, <1>2 DEF Throw, TypeOK
<1>8. Calls(t)'
  BY <1>2, <1>3, <1>4, <1>7 DEF Calls, NoOp
<1>9. t \in OwnThread => Own(t)'
  BY <1>2, <1>5, <1>7 DEF Own
<1> QED
  BY <1>1, <1>6, <1>8, <1>9, Frame DEF Throw, TypeOK, Local

\* At the end of a handler the vectors are the C++ stack again, if they were.
LEMMA LeaveHandlerInv ==
  ASSUME Inv, NEW t \in Thread, LeaveHandler(t)
  PROVE  Inv'
<1> USE DEF Inv
<1>1. TypeOK'
  BY DEF LeaveHandler, TypeOK
<1>2. Local(t)'
  BY DEF LeaveHandler, TypeOK, Local, Calls, Own, NoOp
<1> QED
  BY <1>1, <1>2, Frame DEF LeaveHandler, TypeOK

\* Inv is inductive.
LEMMA Inductive == Spec => []Inv
<1>1. Inv /\ [Next]_vars => Inv'
  <2> SUFFICES ASSUME Inv, [Next]_vars PROVE Inv'
    OBVIOUS
  <2>1. CASE UNCHANGED vars
    BY <2>1 DEF vars, Inv, TypeOK, Local, Calls, Own
  <2>2. ASSUME NEW t \in Thread, Program(t)  PROVE Inv'
    BY <2>2, EnterInv, ThrowInv, LeaveHandlerInv DEF Program
  <2>3. ASSUME NEW t \in Thread, Runtime(t)  PROVE Inv'
    BY <2>3, RuntimeInv
  <2> QED
    BY <2>1, <2>2, <2>3 DEF Next
<1> QED
  BY InitInv, <1>1, PTL DEF Spec

\* Every variable keeps its type: names and lines stay paired, and dbg_line
\* and dbg_func only ever work with a line and a name.
THEOREM TypeCorrect == Spec => []TypeOK
<1>1. Inv => TypeOK
  BY DEF Inv
<1> QED
  BY Inductive, <1>1, PTL

\* dbg_endfunc and dbg_line never meet an empty vector, whatever is thrown and
\* wherever it is caught: the vectors are at least as long as the C++ stack.
THEOREM NeverUnderflows == Spec => []NoUnderflow
<1>1. Inv => NoUnderflow
  BY DEF Inv, Local, Calls, NoUnderflow
<1> QED
  BY Inductive, <1>1, PTL

\* In a thread that catches only what its own procedures throw, dbg_funcs and
\* dbg_lines are the C++ call stack whenever ordinary code runs.
THEOREM StaysExact == Spec => []Exact
<1>1. Inv => Exact
  BY DEF Inv, Local, Own, OwnThread, Exact
<1> QED
  BY Inductive, <1>1, PTL

\* In such a thread what dbg_callstack returns is the active calls with their
\* lines, newest first, and in a Catch or at abort_with_error those of the throw.
THEOREM ReportsRight == Spec => []OwnReportRight
<1>1. Inv => OwnReportRight
  <2> SUFFICES ASSUME Inv, NEW t \in OwnThread, op[t].k = "report"
               PROVE  dbg[t] = IF mode[t] = "run" THEN real[t] ELSE thrown[t]
    BY DEF OwnReportRight, RightReport, ReportText
  <2> QED
    BY DEF Inv, TypeOK, OwnThread, Local, Calls, Own
<1> QED
  BY Inductive, <1>1, PTL

-----------------------------------------------------------------------------
(* The life of a program. *)

\* Every step of the life of a program is a step of CallStack, or leaves the stacks
\* alone (stc.cpp and the generated code around core.cpp).
LEMMA StepOfStack == LifeNext => [Next]_vars
<1> SUFFICES ASSUME LifeNext PROVE [Next]_vars
  OBVIOUS
<1>1. ASSUME NEW t \in Thread, Life(t) PROVE [Next]_vars
  <2>1. CASE \E l \in Lib : CallLib(t, l)
    BY <2>1 DEF CallLib
  <2>2. CASE StartProc(t)
    BY <2>2 DEF StartProc, Next, Runtime
  <2>3. CASE EndsProc(t)
    BY <2>3 DEF EndsProc, Next, Runtime
  <2>4. CASE Raise(t)
    BY <2>4 DEF Raise, Next, Program
  <2>5. CASE Reports(t)
    BY <2>5 DEF Reports, Next, Program
  <2>6. CASE Reported(t)
    BY <2>6 DEF Reported, Next, Runtime
  <2>7. CASE Plain(t)
    BY <2>7 DEF Plain, Next, Program, Runtime
  <2> QED BY <1>1, <2>1, <2>2, <2>3, <2>4, <2>5, <2>6, <2>7 DEF Life
<1>2. CASE UnwindModule
  BY <1>2 DEF UnwindModule
<1>3. CASE Quit
  BY <1>3 DEF Quit
<1> QED BY <1>1, <1>2, <1>3 DEF LifeNext

\* A program with modules and libraries keeps its stack as CallStack specifies
\* (main, abort_with_error).
THEOREM LifeKeepsStack == LifeSpec => Spec
<1>1. LifeInit => Init
  BY DEF LifeInit
<1>2. [LifeNext]_allVars => [Next]_vars
  BY StepOfStack DEF allVars
<1> QED BY <1>1, <1>2, PTL DEF LifeSpec, Spec

-----------------------------------------------------------------------------
(* Until the first unloadlibs() whatever hlib knows is open.                   *)
Loaded ==
    /\ stage \in Stage /\ hlib \subseteq Lib /\ opened \in [Lib -> Nat]
    /\ stage \in {"init", "main"} => \A l \in hlib : opened[l] > 0
    /\ CallsLand

LEMMA LoadedInit == LifeInit => Loaded
BY DEF LifeInit, Loaded, Stage, CallsLand

LEMMA LoadKeeps == ASSUME Loaded, NEW k, LoadLibs(k), UNCHANGED <<stage, wild>> PROVE Loaded'
<1>1. Present \subseteq Lib
  BY LifetimeAssumption
<1>2. hlib' \subseteq Lib /\ opened' \in [Lib -> Nat]
  BY <1>1 DEF Loaded, LoadLibs
<1>3. ASSUME stage \in {"init", "main"}, NEW l \in hlib' PROVE opened'[l] > 0
  BY <1>1, <1>3 DEF Loaded, LoadLibs
<1> QED BY <1>2, <1>3 DEF Loaded, CallsLand

LEMMA UnloadKeeps ==
    ASSUME Loaded, UnloadLibs, UNCHANGED <<stage, wild>>, stage \notin {"init", "main"}
    PROVE  Loaded'
<1>1. opened' \in [Lib -> Nat]
  BY DEF Loaded, UnloadLibs
<1> QED BY <1>1 DEF Loaded, UnloadLibs, CallsLand

\* The stage goes on, but never back to one in which nothing has been unloaded.
LEMMA MoveKeeps ==
    ASSUME Loaded, UNCHANGED <<libVars, wild>>, stage' \in Stage,
           stage' \in {"init", "main"} => stage \in {"init", "main"}
    PROVE  Loaded'
BY DEF Loaded, libVars, CallsLand

LEMMA AfterBlockMoves ==
    ASSUME AfterBlock
    PROVE  /\ stage' \in Stage
           /\ stage' \in {"init", "main"} => stage \in {"init", "main"}
BY DEF AfterBlock, Goes, Stage

LEMMA LoadedStep == Loaded /\ [LifeNext]_allVars => Loaded'
<1> SUFFICES ASSUME Loaded, [LifeNext]_allVars PROVE Loaded'
  OBVIOUS
<1>1. ASSUME NEW t \in Thread, StartProc(t) PROVE Loaded'
  <2>1. UNCHANGED <<stage, wild>>
    BY <1>1 DEF StartProc
  <2>2. CASE LoadLibs(module)
    BY <2>1, <2>2, LoadKeeps
  <2>3. CASE UnloadLibs /\ stage = "final"
    BY <2>1, <2>3, UnloadKeeps
  <2>4. CASE UNCHANGED libVars
    BY <2>1, <2>4, MoveKeeps DEF libVars, Loaded
  <2> QED BY <1>1, <2>2, <2>3, <2>4 DEF StartProc
<1>2. ASSUME NEW t \in Thread, EndsProc(t) PROVE Loaded'
  <2>1. UNCHANGED <<libVars, wild>>
    BY <1>2 DEF EndsProc
  <2>2. CASE AfterBlock
    BY <2>1, <2>2, AfterBlockMoves, MoveKeeps
  <2>3. CASE UNCHANGED stage
    BY <2>1, <2>3, MoveKeeps DEF Loaded
  <2> QED BY <1>2, <2>2, <2>3 DEF EndsProc
<1>3. ASSUME NEW t \in Thread, NEW l \in Lib, CallLib(t, l), stage # "exit" PROVE Loaded'
  <2>1. UNCHANGED <<stage, hlib, opened>> /\ l \in hlib
    BY <1>3 DEF CallLib
  <2>2. CallsLand'
    <3>1. CASE opened[l] = 0
      BY <1>3, <2>1, <3>1 DEF CallLib, Loaded, CallsLand, Stage
    <3>2. CASE opened[l] # 0
      BY <1>3, <2>1, <3>2 DEF CallLib, Loaded, CallsLand
    <3> QED BY <3>1, <3>2
  <2> QED BY <2>1, <2>2 DEF Loaded
<1>4. ASSUME NEW t \in Thread, Raise(t) PROVE Loaded'
  BY <1>4, MoveKeeps DEF Raise, Escapes, Goes, Stage, Loaded
<1>5. ASSUME NEW t \in Thread, Reports(t) \/ Reported(t) \/ Plain(t) PROVE Loaded'
  BY <1>5, MoveKeeps DEF Reports, Reported, Plain, lifeVars, Stage, Loaded
<1>6. CASE UnwindModule
  BY <1>6, UnloadKeeps DEF UnwindModule
<1>7. CASE Quit
  BY <1>7, MoveKeeps DEF Quit, Stage
<1>8. CASE UNCHANGED allVars
  BY <1>8, MoveKeeps DEF allVars, lifeVars, Loaded
<1> QED BY <1>1, <1>2, <1>3, <1>4, <1>5, <1>6, <1>7, <1>8 DEF LifeNext, Life

\* A call of a library that is made before __final_all goes into it, whatever modules
\* have loaded it and whichever thread calls (loadlib, unloadlibs).
THEOREM LibraryCallsLand == LifeSpec => []CallsLand
<1>1. Loaded => CallsLand
  BY DEF Loaded
<1> QED BY <1>1, LoadedInit, LoadedStep, PTL DEF LifeSpec

\* The reports of a program whose Try catches only its own procedure are right, in
\* every block of every module (dbg_callstack).
THEOREM LifeReportsRight == LifeSpec => []OwnReportRight
BY LifeKeepsStack, ReportsRight, PTL
-----------------------------------------------------------------------------
(* The order of the FINALIZATION blocks, and the libraries they close.         *)

\* 1 as soon as the block that runs has loaded or unloaded its libraries.
Ran == IF real[Main] = <<>> THEN 0 ELSE 1

LifeTypes ==
    /\ stage \in Stage /\ module \in 0 .. LastModule
    /\ hlib \subseteq Present /\ cached \subseteq hlib
    /\ opened \in [Lib -> 0 .. LastModule]
    /\ finals \in Seq(1 .. LastModule)
    /\ code \in {"none", "0", "255"}
    /\ wild \subseteq Stage

\* How many modules are finalized, in every stage, and which one was last.
Order ==
    /\ stage \in {"init", "final"} => module > 0
    /\ stage \in {"init", "main"} => finals = <<>>
    /\ stage = "final" => Len(finals) = LastModule - module
    /\ stage = "unwind" => Len(finals) + module < LastModule
    /\ stage = "events" => Len(finals) = LastModule
    /\ \A i \in 1 .. Len(finals) - 1 : finals[i + 1] = finals[i] - 1
    /\ stage \in {"final", "unwind"} /\ finals # <<>> => finals[Len(finals)] = module + 1
    /\ stage # "exit" => code = "none"
    /\ code = "0" => Len(finals) = LastModule

\* A library is open at most as often as modules have loaded it that are not
\* finalized yet.
OpenFor(l) ==
    /\ opened[l] > 0 => l \in hlib
    /\ stage = "init" => opened[l] <= module - 1 + Ran
    /\ stage = "final" => opened[l] <= module - Ran
    /\ stage = "events" => opened[l] = 0
    /\ code = "0" => opened[l] = 0

LifeInv == LifeTypes /\ Order /\ \A l \in Lib : OpenFor(l)

\* What the stack of Main does to Ran: the facts of CallStack that the order needs.
LEMMA StackOfMain ==
    ASSUME Inv, NEW t \in Thread
    PROVE  /\ DbgFunc(t) => real'[Main] = real[Main] \/ (t = Main /\ real'[Main] # <<>>)
           /\ DbgEndFunc(t) /\ t # Main => real'[Main] = real[Main]
           /\ DbgEndFunc(Main) =>
                 /\ Len(real[Main]) \in Nat \ {0}
                 /\ Len(real[Main]) # 1 => real[Main] # <<>> /\ real'[Main] # <<>>
                 /\ Len(real[Main]) = 1 => real[Main] # <<>> /\ real'[Main] = <<>>
<1>1. Main \in Thread /\ real \in [Thread -> Seq(Call)] /\ real[Main] \in Seq(Call)
  BY CallAssumption DEF Inv, TypeOK
<1>2. DbgFunc(t) => real'[Main] = real[Main] \/ (t = Main /\ real'[Main] # <<>>)
  <2> SUFFICES ASSUME DbgFunc(t), t = Main PROVE real'[Main] # <<>>
    BY <1>1 DEF DbgFunc
  <2>1. op[Main].f \in Func
    BY <1>1, Arguments DEF DbgFunc, Inv
  <2> DEFINE s == Append(real[Main], [func |-> op[Main].f, line |-> 0])
  <2>2. Len(s) = Len(real[Main]) + 1 /\ s \in Seq(Call)
    BY <1>1, <2>1, Stacks
  <2>3. real'[Main] = s
    BY <1>1 DEF DbgFunc
  <2> HIDE DEF s
  <2> QED BY <1>1, <2>2, <2>3
<1>3. DbgEndFunc(t) /\ t # Main => real'[Main] = real[Main]
  BY <1>1 DEF DbgEndFunc
<1>4. ASSUME DbgEndFunc(Main)
      PROVE  /\ Len(real[Main]) \in Nat \ {0}
             /\ Len(real[Main]) # 1 => real[Main] # <<>> /\ real'[Main] # <<>>
             /\ Len(real[Main]) = 1 => real[Main] # <<>> /\ real'[Main] = <<>>
  <2>1. real[Main] # <<>>
    BY <1>1, <1>4 DEF DbgEndFunc, Inv, Local, Calls
  <2>2. /\ Front(real[Main]) \in Seq(Call)
        /\ Len(Front(real[Main])) = Len(real[Main]) - 1
    BY <1>1, <2>1, Stacks
  <2>3. real'[Main] = Front(real[Main])
    BY <1>1, <1>4 DEF DbgEndFunc
  <2>4. \A s \in Seq(Call) : (s = <<>>) <=> (Len(s) = 0)
    OBVIOUS
  <2>5. Len(real[Main]) \in Nat /\ Len(real[Main]) # 0
    BY <1>1, <2>1, <2>4
  <2>6. (real'[Main] = <<>>) <=> (Len(real[Main]) = 1)
    <3>1. (Front(real[Main]) = <<>>) <=> (Len(Front(real[Main])) = 0)
      BY <2>2, <2>4
    <3> QED BY <2>2, <2>3, <2>5, <3>1
  <2> QED BY <2>1, <2>5, <2>6
<1> QED BY <1>2, <1>3, <1>4

LEMMA LifeInvInit == LifeInit => LifeInv
<1> SUFFICES ASSUME LifeInit PROVE LifeInv
  OBVIOUS
<1>1. LastModule \in Nat \ {0} /\ Main \in Thread
  BY LifetimeAssumption, CallAssumption DEF LastModule
<1>2. LifeTypes
  BY <1>1 DEF LifeInit, LifeTypes, Stage
<1>3. Order
  BY <1>1 DEF LifeInit, Order
<1>4. \A l \in Lib : OpenFor(l)
  BY <1>1 DEF LifeInit, Init, OpenFor, Ran
<1> QED BY <1>2, <1>3, <1>4 DEF LifeInv

\* Nothing that the order depends on changes when the stages, the modules and the
\* libraries stay, and Main neither begins nor ends a block.
LEMMA OrderStays ==
    ASSUME LifeInv, UNCHANGED <<stage, module, hlib, opened, finals, code>>, Ran' = Ran,
           cached' \subseteq hlib, wild' \subseteq Stage
    PROVE  LifeInv'
<1>1. LifeTypes' /\ Order'
  BY DEF LifeInv, LifeTypes, Order
<1>2. \A l \in Lib : OpenFor(l)'
  BY DEF LifeInv, OpenFor
<1> QED BY <1>1, <1>2 DEF LifeInv

\* The start of a block loads or unloads (loadlib, unloadlibs).
LEMMA StartKeepsOrder ==
    ASSUME LifeInv, Inv, NEW t \in Thread, StartProc(t)
    PROVE  LifeInv'
<1> USE DEF LifeInv
<1>1. /\ LastModule \in Nat \ {0} /\ Main \in Thread /\ Present \subseteq Lib
      /\ \A k \in 1 .. LastModule : Declares[k] \subseteq Lib
  BY LifetimeAssumption, CallAssumption DEF LastModule
<1>2. /\ UNCHANGED <<stage, module, finals, code, wild>> /\ DbgFunc(t)
      /\ real'[Main] = real[Main] \/ (t = Main /\ real'[Main] # <<>>)
  BY StackOfMain DEF StartProc
<1>3. CASE t = Main /\ real[Main] = <<>> /\ stage = "init"
  <2>1. LoadLibs(module) /\ UNCHANGED cached
    BY <1>3 DEF StartProc, LoadLibs
  <2>2. module \in 1 .. LastModule /\ Ran = 0 /\ Ran' \in {0, 1}
    BY <1>1, <1>3 DEF LifeTypes, Order, Ran
  <2>3. real'[Main] # <<>> /\ Ran' = 1
    <3>1. op[Main].f \in Func /\ real \in [Thread -> Seq(Call)]
      BY <1>2, <1>3, Arguments DEF DbgFunc, Inv, TypeOK
    <3>2. real'[Main] = Append(<<>>, [func |-> op[Main].f, line |-> 0])
      BY <1>1, <1>2, <1>3, <3>1 DEF DbgFunc
    <3> QED BY <3>2 DEF Ran
  <2>4. /\ hlib' = hlib \cup (Declares[module] \cap Present)
        /\ \A l \in Lib : opened'[l] = IF l \in Declares[module] \cap Present
                                       THEN opened[l] + 1 ELSE opened[l]
        /\ DOMAIN opened' = Lib /\ opened' = [l \in Lib |-> opened'[l]]
    BY <2>1 DEF LoadLibs
  <2>5. \A l \in Lib : opened[l] \in Nat /\ opened[l] <= module - 1
    BY <1>3, <2>2 DEF LifeTypes, OpenFor
  <2>6. \A l \in Lib : opened'[l] \in Nat /\ opened'[l] <= module
    BY <2>2, <2>4, <2>5
  <2>7. LifeTypes'
    BY <1>1, <1>2, <2>1, <2>2, <2>4, <2>6 DEF LifeTypes
  <2>8. Order'
    BY <1>2 DEF Order
  <2>9. \A l \in Lib : OpenFor(l)'
    BY <1>2, <1>3, <2>2, <2>3, <2>4, <2>5, <2>6 DEF OpenFor, Order
  <2> QED BY <2>7, <2>8, <2>9
<1>4. CASE t = Main /\ real[Main] = <<>> /\ stage = "final"
  <2>1. UnloadLibs
    BY <1>4 DEF StartProc
  <2>2. module \in 1 .. LastModule /\ Ran = 0 /\ Ran' \in {0, 1}
    BY <1>1, <1>4 DEF LifeTypes, Order, Ran
  <2>3. /\ UNCHANGED <<hlib, cached>>
        /\ \A l \in Lib : opened'[l] = IF l \in hlib /\ opened[l] > 0
                                       THEN opened[l] - 1 ELSE opened[l]
        /\ opened' = [l \in Lib |-> opened'[l]]
    BY <2>1 DEF UnloadLibs
  <2>4. \A l \in Lib : /\ opened[l] \in 0 .. LastModule /\ opened[l] <= module
                       /\ opened[l] > 0 => l \in hlib
    BY <1>4, <2>2 DEF LifeTypes, OpenFor
  <2>5. \A l \in Lib : opened'[l] \in 0 .. LastModule /\ opened'[l] <= module - 1
    BY <1>1, <2>2, <2>3, <2>4
  <2>6. LifeTypes'
    BY <1>2, <2>3, <2>5 DEF LifeTypes
  <2>7. Order'
    BY <1>2 DEF Order
  <2>8. \A l \in Lib : OpenFor(l)'
    BY <1>1, <1>2, <1>4, <2>2, <2>3, <2>4, <2>5 DEF OpenFor, Order
  <2> QED BY <2>6, <2>7, <2>8
<1>5. CASE ~(t = Main /\ real[Main] = <<>> /\ stage \in {"init", "final"})
  <2>1. UNCHANGED libVars
    BY <1>5 DEF StartProc
  <2>2. stage \in {"init", "final"} => Ran' = Ran
    BY <1>2, <1>5 DEF Ran
  <2>3. LifeTypes' /\ Order'
    BY <1>2, <2>1 DEF LifeTypes, Order, libVars
  <2>4. \A l \in Lib : OpenFor(l)'
    BY <1>2, <2>1, <2>2 DEF OpenFor, libVars
  <2> QED BY <2>3, <2>4
<1> QED BY <1>3, <1>4, <1>5

\* The end of a block goes on to the next one (stc.cpp, __init_all and __final_all).
LEMMA EndKeepsOrder ==
    ASSUME LifeInv, Inv, NEW t \in Thread, EndsProc(t)
    PROVE  LifeInv'
<1> USE DEF LifeInv
<1>1. /\ LastModule \in Nat \ {0}
      /\ UNCHANGED <<libVars, wild>> /\ DbgEndFunc(t)
      /\ DbgEndFunc(t) /\ t # Main => real'[Main] = real[Main]
  BY LifetimeAssumption, StackOfMain DEF LastModule, EndsProc
<1>2. module \in 0 .. LastModule /\ finals \in Seq(1 .. LastModule)
  BY DEF LifeTypes
<1>3. CASE t = Main /\ Len(real[Main]) = 1
  <2>1. /\ Ran = 1 /\ Ran' = 0 /\ AfterBlock
        /\ finals' = IF stage = "final" THEN Append(finals, module) ELSE finals
        /\ code' = IF stage' = "exit" THEN "0" ELSE code
    BY <1>1, <1>3, StackOfMain DEF EndsProc, Ran
  <2>2. CASE stage = "init"
    <3>1. /\ module \in 1 .. LastModule /\ UNCHANGED <<finals, code>>
          /\ \/ module < LastModule /\ Goes("init", module + 1)
             \/ module = LastModule /\ Goes("main", 0)
      BY <1>2, <2>1, <2>2 DEF Order, AfterBlock, Goes
    <3>2. LifeTypes' /\ Order'
      BY <1>1, <1>2, <2>2, <3>1 DEF LifeTypes, Order, libVars, Goes, Stage
    <3>3. \A l \in Lib : OpenFor(l)'
      BY <1>1, <1>2, <2>1, <2>2, <3>1 DEF LifeTypes, OpenFor, libVars, Goes, Order
    <3> QED BY <3>2, <3>3
  <2>3. CASE stage = "main"
    <3>1. UNCHANGED <<finals, code>> /\ Goes("final", LastModule) /\ finals = <<>>
      BY <2>1, <2>3 DEF Order, AfterBlock, Goes
    <3>2. LifeTypes' /\ Order'
      BY <1>1, <1>2, <2>3, <3>1 DEF LifeTypes, Order, libVars, Goes, Stage
    <3>3. \A l \in Lib : OpenFor(l)'
      BY <1>1, <1>2, <2>1, <2>3, <3>1 DEF LifeTypes, OpenFor, libVars, Goes, Order
    <3> QED BY <3>2, <3>3
  <2>4. CASE stage = "final"
    <3>1. /\ module \in 1 .. LastModule /\ code = "none"
          /\ Len(finals) = LastModule - module
          /\ finals # <<>> => finals[Len(finals)] = module + 1
          /\ finals' = Append(finals, module)
      BY <1>2, <2>1, <2>4 DEF Order
    <3>2. /\ finals' \in Seq(1 .. LastModule) /\ Len(finals') = Len(finals) + 1
          /\ finals'[Len(finals')] = module
          /\ \A i \in 1 .. Len(finals) : finals'[i] = finals[i]
      BY <1>2, <3>1
    <3>3. \A i \in 1 .. Len(finals') - 1 : finals'[i + 1] = finals'[i] - 1
      <4> SUFFICES ASSUME NEW i \in 1 .. Len(finals') - 1
                   PROVE  finals'[i + 1] = finals'[i] - 1
        OBVIOUS
      <4>1. Len(finals) \in Nat /\ (finals = <<>>) <=> (Len(finals) = 0)
        BY <1>2
      <4>2. CASE i = Len(finals)
        BY <1>1, <3>1, <3>2, <4>1, <4>2
      <4>3. CASE i # Len(finals)
        BY <3>2, <4>1, <4>3 DEF Order
      <4> QED BY <4>2, <4>3
    <3>4. \/ module > 1 /\ Goes("final", module - 1) /\ code' = code
          \/ module = 1 /\ Goes("events", 0) /\ code' = code
          \/ module = 1 /\ Goes("exit", 0) /\ code' = "0"
      BY <2>1, <2>4 DEF AfterBlock, Goes
    <3>5. LifeTypes'
      BY <1>1, <1>2, <3>1, <3>2, <3>4 DEF LifeTypes, libVars, Goes, Stage
    <3>6. Order'
      <4>1. Len(finals') = LastModule - (module - 1) /\ Len(finals') \in Nat
        BY <1>1, <1>2, <3>1, <3>2
      <4>2. CASE module > 1 /\ Goes("final", module - 1) /\ code' = code
        BY <3>1, <3>2, <3>3, <4>1, <4>2 DEF Order, Goes
      <4>3. CASE module = 1 /\ stage' \in {"events", "exit"}
        BY <1>1, <3>1, <3>3, <3>4, <4>1, <4>3 DEF Order, Goes
      <4> QED BY <3>4, <4>2, <4>3 DEF Goes
    <3>7. \A l \in Lib : OpenFor(l)'
      BY <1>1, <1>2, <2>1, <2>4, <3>1, <3>4 DEF LifeTypes, OpenFor, libVars, Goes
    <3> QED BY <3>5, <3>6, <3>7
  <2>5. CASE stage = "events"
    <3>1. UNCHANGED <<stage, module, finals, code>>
      BY <2>1, <2>5 DEF AfterBlock
    <3>2. LifeTypes' /\ Order'
      BY <1>1, <3>1 DEF LifeTypes, Order, libVars
    <3>3. \A l \in Lib : OpenFor(l)'
      BY <1>1, <2>5, <3>1 DEF OpenFor, libVars
    <3> QED BY <3>2, <3>3
  <2> QED BY <2>1, <2>2, <2>3, <2>4, <2>5 DEF AfterBlock
<1>4. CASE ~(t = Main /\ Len(real[Main]) = 1)
  <2>1. UNCHANGED <<stage, module, finals, code>> /\ Ran' = Ran
    BY <1>1, <1>4, StackOfMain DEF EndsProc, Ran
  <2> QED BY <1>1, <2>1, OrderStays DEF libVars, LifeTypes
<1> QED BY <1>3, <1>4

\* An exception that nothing in Main catches begins the unwinding, or changes neither
\* the blocks nor the libraries (main, abort_with_error).
LEMMA RaiseKeepsOrder ==
    ASSUME LifeInv, Inv, NEW t \in Thread, Raise(t), stage # "exit"
    PROVE  LifeInv'
<1> USE DEF LifeInv
<1>1. /\ LastModule \in Nat \ {0} /\ Main \in Thread
      /\ module \in 0 .. LastModule /\ finals \in Seq(1 .. LastModule)
      /\ UNCHANGED <<libVars, finals, code, wild>> /\ Throw(t) /\ Escapes(t)
  BY LifetimeAssumption, CallAssumption DEF LastModule, LifeTypes, Raise
<1>2. CASE stage = "init" /\ stage' = "unwind"
  <2>1. module > 0 /\ module' = module - 1 /\ finals = <<>> /\ code = "none"
    BY <1>1, <1>2 DEF Escapes, Goes, Order
  <2>2. LifeTypes' /\ Order'
    BY <1>1, <1>2, <2>1 DEF LifeTypes, Order, libVars, Stage
  <2>3. \A l \in Lib : OpenFor(l)'
    BY <1>1, <1>2, <2>1 DEF OpenFor, libVars
  <2> QED BY <2>2, <2>3
<1>3. CASE UNCHANGED <<stage, module>>
  <2>1. stage = "init" => Ran' = Ran
    <3>1. SUFFICES ASSUME stage = "init", t = Main, mode'[Main] # "abort" PROVE Ran' = Ran
      BY <1>1, <1>3 DEF Throw, Escapes, Goes, Ran, Inv, TypeOK
    <3>2. PICK d \in 0 .. Len(real[Main]) :
             /\ real' = [real EXCEPT ![Main] = SubSeq(@, 1, d)]
             /\ mode' = [mode EXCEPT ![Main] = IF d = 0 THEN "abort" ELSE "handler"]
      BY <1>1, <3>1 DEF Throw
    <3>3. d # 0 /\ real[Main] \in Seq(Call) /\ real'[Main] = SubSeq(real[Main], 1, d)
      BY <1>1, <3>1, <3>2 DEF Inv, TypeOK
    <3>4. SubSeq(real[Main], 1, d) \in Seq(Call) /\ Len(SubSeq(real[Main], 1, d)) = d
      BY <3>2, <3>3, Stacks
    <3>5. real'[Main] # <<>> /\ real[Main] # <<>>
      <4>1. \A s \in Seq(Call) : Len(s) # 0 => s # <<>>
        OBVIOUS
      <4> QED BY <1>1, <3>1, <3>3, <3>4, <4>1 DEF Throw
    <3> QED BY <3>5 DEF Ran
  <2>2. real[Main] = <<>> => Ran' = 0
    <3> SUFFICES ASSUME real[Main] = <<>> PROVE real'[Main] = <<>>
      BY DEF Ran
    <3> QED BY <1>1 DEF Throw, Inv, TypeOK
  <2>3. Ran' \in {0, 1} /\ (Ran' <= Ran)
    BY <2>2 DEF Ran
  <2>4. LifeTypes' /\ Order'
    BY <1>1, <1>3 DEF LifeTypes, Order, libVars
  <2>5. \A l \in Lib : OpenFor(l)'
    BY <1>1, <1>3, <2>1, <2>3 DEF OpenFor, libVars, LifeTypes, Ran
  <2> QED BY <2>4, <2>5
<1> QED BY <1>1, <1>2, <1>3 DEF Escapes, Goes

\* The order is kept by every step of the life of a program.
LEMMA LifeInvStep == LifeInv /\ Inv /\ [LifeNext]_allVars => LifeInv'
<1> SUFFICES ASSUME LifeInv, Inv, [LifeNext]_allVars PROVE LifeInv'
  OBVIOUS
<1> USE DEF LifeInv
<1>1. ASSUME NEW t \in Thread, Life(t), stage # "exit" PROVE LifeInv'
  <2>1. CASE StartProc(t)
    BY <2>1, StartKeepsOrder
  <2>2. CASE EndsProc(t)
    BY <2>2, EndKeepsOrder
  <2>3. CASE Raise(t)
    BY <1>1, <2>3, RaiseKeepsOrder
  <2>4. CASE Reports(t) \/ Plain(t)
    <3>1. UNCHANGED lifeVars /\ Ran' = Ran
      <4>1. (DbgLine(t) => (real'[Main] = <<>> <=> real[Main] = <<>>))
        <5> SUFFICES ASSUME DbgLine(t), t = Main PROVE real'[Main] # <<>> /\ real[Main] # <<>>
          BY CallAssumption DEF DbgLine, Inv, TypeOK
        <5>1. op[Main].n \in Line /\ real[Main] # <<>> /\ real[Main] \in Seq(Call)
          BY CallAssumption, Arguments DEF DbgLine, Inv, Local, Calls, TypeOK
        <5> DEFINE s == [real[Main] EXCEPT ![Len(real[Main])].line = op[Main].n]
        <5>2. s \in Seq(Call) /\ Len(s) = Len(real[Main])
          BY <5>1, Stacks
        <5>3. real'[Main] = s
          BY CallAssumption DEF DbgLine, Inv, TypeOK
        <5> HIDE DEF s
        <5> QED BY <5>1, <5>2, <5>3
      <4> QED
        BY <2>4, <4>1 DEF Reports, Plain, Report, CallProc, NextLine, EndProc, LeaveHandler, Ran
    <3> QED BY <3>1, OrderStays DEF lifeVars, libVars, LifeTypes
  <2>5. CASE Reported(t)
    <3>1. /\ UNCHANGED <<module, libVars, finals, wild>> /\ Ran' = Ran
          /\ (stage' = "exit" /\ code' = "255") \/ UNCHANGED <<stage, code>>
      BY <2>5 DEF Reported, DbgCallStack, Ran
    <3>2. LifeTypes' /\ Order'
      BY <3>1 DEF LifeTypes, Order, libVars, Stage
    <3>3. \A l \in Lib : OpenFor(l)'
      BY <3>1 DEF OpenFor, libVars
    <3> QED BY <3>2, <3>3
  <2>6. ASSUME NEW l \in Lib, CallLib(t, l) PROVE LifeInv'
    <3>1. /\ UNCHANGED <<stage, module, hlib, opened, finals, code>> /\ Ran' = Ran
          /\ cached' \subseteq hlib /\ wild' \subseteq Stage
      BY <2>6 DEF CallLib, LifeTypes, vars, Ran
    <3> QED BY <3>1, OrderStays
  <2> QED BY <1>1, <2>1, <2>2, <2>3, <2>4, <2>5, <2>6 DEF Life
<1>2. CASE UnwindModule
  <2>1. /\ LastModule \in Nat \ {0} /\ module \in 1 .. LastModule
        /\ finals \in Seq(1 .. LastModule) /\ stage = "unwind"
        /\ Len(finals) \in Nat /\ ((finals = <<>>) <=> (Len(finals) = 0))
        /\ finals' = Append(finals, module) /\ module' = module - 1
        /\ UNCHANGED <<hlib, cached, stage, code, wild, real>>
        /\ opened' = [l \in Lib |-> IF l \in hlib /\ opened[l] > 0 THEN opened[l] - 1
                                                                  ELSE opened[l]]
    BY <1>2, LifetimeAssumption DEF UnwindModule, UnloadLibs, LifeTypes, LastModule, vars
  <2>2. /\ finals' \in Seq(1 .. LastModule) /\ Len(finals') = Len(finals) + 1
        /\ finals'[Len(finals')] = module
        /\ \A i \in 1 .. Len(finals) : finals'[i] = finals[i]
    BY <2>1
  <2>3. \A i \in 1 .. Len(finals') - 1 : finals'[i + 1] = finals'[i] - 1
    <3> SUFFICES ASSUME NEW i \in 1 .. Len(finals') - 1
                 PROVE  finals'[i + 1] = finals'[i] - 1
      OBVIOUS
    <3>1. CASE i = Len(finals)
      BY <2>1, <2>2, <3>1 DEF Order
    <3>2. CASE i # Len(finals)
      BY <2>1, <2>2, <3>2 DEF Order
    <3> QED BY <3>1, <3>2
  <2>4. \A l \in Lib : opened[l] \in 0 .. LastModule /\ opened'[l] \in 0 .. LastModule
    BY <2>1 DEF LifeTypes
  <2>5. LifeTypes'
    BY <2>1, <2>2, <2>4 DEF LifeTypes
  <2>6. Order'
    BY <2>1, <2>2, <2>3 DEF Order
  <2>7. \A l \in Lib : OpenFor(l)'
    BY <2>1, <2>4 DEF OpenFor, Order
  <2> QED BY <2>5, <2>6, <2>7
<1>3. CASE Quit
  <2>1. /\ UNCHANGED <<module, libVars, finals, wild, real>> /\ stage = "events"
        /\ stage' = "exit" /\ code' = "0"
    BY <1>3 DEF Quit, vars
  <2>2. LifeTypes' /\ Order'
    BY <2>1 DEF LifeTypes, Order, libVars, Stage
  <2>3. \A l \in Lib : OpenFor(l)'
    BY <2>1 DEF OpenFor, libVars
  <2> QED BY <2>2, <2>3
<1>4. CASE UNCHANGED allVars
  <2>1. UNCHANGED <<stage, module, hlib, opened, finals, code, cached, wild>> /\ Ran' = Ran
    BY <1>4 DEF allVars, lifeVars, libVars, vars, Ran
  <2> QED BY <2>1, OrderStays DEF LifeTypes
<1> QED BY <1>1, <1>2, <1>3, <1>4 DEF LifeNext

\* The FINALIZATION blocks run backwards and once each, those and only those whose
\* module was complete, and a program that ends normally has closed each library as
\* often as it has opened it, whatever is thrown and whichever modules share a library
\* (__final_all, the catch of main, unloadlibs).
THEOREM BlocksEndBackwards == LifeSpec => []FinalizedBackwards
<1>1. Inv /\ LifeInv => FinalizedBackwards
  <2> SUFFICES ASSUME Inv, LifeInv PROVE FinalizedBackwards
    OBVIOUS
  <2>1. LifeTypeOK
    BY DEF Inv, LifeInv, LifeTypes, LifeTypeOK
  <2>2. code = "0" => opened = [l \in Lib |-> 0]
    BY DEF LifeInv, LifeTypes, OpenFor
  <2> QED BY <2>1, <2>2 DEF LifeInv, Order, FinalizedBackwards
<1> QED BY <1>1, LifeKeepsStack, Inductive, LifeInvInit, LifeInvStep, PTL DEF LifeSpec
=============================================================================
