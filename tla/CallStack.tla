------------------------------ MODULE CallStack ------------------------------
(***************************************************************************)
(* The call stack that Option CallStack On keeps for error reports         *)
(* (src/lib/core/core.cpp): dbg_func, dbg_line, dbg_endfunc and            *)
(* dbg_callstack on two maps from the thread to a vector, called by the    *)
(* generated code at the start of each procedure, before each statement    *)
(* and at the end of the procedure.  A C++ exception leaves procedures     *)
(* without dbg_endfunc.                                                    *)
(*                                                                         *)
(* A call of a dbg_ function is two steps: it is entered with its          *)
(* argument, and it takes effect and returns.  Each thread works on the    *)
(* vectors of its own.  The maps themselves have no lock; that a first     *)
(* call of a thread inserts into them while others search is not modelled. *)
(***************************************************************************)
EXTENDS Integers, Sequences, SequencesExt

CONSTANTS Thread,
          Main,             \* the thread that runs Main; it starts the others
          Func,             \* procedure names
          Line,             \* line numbers
          MaxDepth,         \* bound: length of the vectors
          CatchesCallee     \* the threads in which a Try catches what a callee
                            \* has thrown; in the others a Try catches only
                            \* what its own procedure throws

ASSUME CallAssumption ==
    /\ Main \in Thread
    /\ 0 \notin Line /\ Line \subseteq Nat
    /\ MaxDepth \in Nat \ {0}
    /\ CatchesCallee \subseteq Thread

VARIABLES real,     \* real[t]: the C++ call stack, [func, line] of each call
          dbg,      \* dbg[t]: dbg_funcs[t] and dbg_lines[t], pairwise
          op,       \* op[t]: the dbg_ function t is in, or NoOp
          thrown,   \* thrown[t]: the stack at the throw a handler is about
          mode      \* mode[t]: run, handler (a Catch, until it ends or calls
                    \* a procedure), abort or dead

vars == <<real, dbg, op, thrown, mode>>

Call == [func: Func, line: Line \cup {0}]

NoOp == [k |-> "none"]

Init == /\ real = [t \in Thread |-> <<>>]
        /\ dbg = [t \in Thread |-> <<>>]
        /\ op = [t \in Thread |-> NoOp]
        /\ thrown = [t \in Thread |-> <<>>]
        /\ mode = [t \in Thread |-> "run"]

Enter(t, call) ==
    /\ op[t] = NoOp
    /\ op' = [op EXCEPT ![t] = call]

Return(t) == op' = [op EXCEPT ![t] = NoOp]

-----------------------------------------------------------------------------
(* What the generated code calls. *)

\* dbg_func, at the start of a procedure
CallProc(t) ==
    /\ mode[t] = "run" /\ Len(dbg[t]) < MaxDepth
    /\ t # Main => real[Main] # <<>>
    /\ real[t] # <<>> => Last(real[t]).line # 0
    /\ \E g \in Func : Enter(t, [k |-> "func", f |-> g])
    /\ UNCHANGED <<real, dbg, thrown, mode>>

\* dbg_line, before a statement
NextLine(t) ==
    /\ mode[t] = "run" /\ real[t] # <<>>
    /\ \E n \in Line : Enter(t, [k |-> "line", n |-> n])
    /\ UNCHANGED <<real, dbg, thrown, mode>>

\* dbg_endfunc, at the end of a procedure and at Return
EndProc(t) ==
    /\ mode[t] = "run" /\ real[t] # <<>>
    /\ Enter(t, [k |-> "end"])
    /\ UNCHANGED <<real, dbg, thrown, mode>>

\* Err.CallStack in a procedure or a Catch, and abort_with_error
Report(t) ==
    /\ \/ mode[t] \in {"run", "handler"} /\ real[t] # <<>>
       \/ mode[t] = "abort"
    /\ Enter(t, [k |-> "report"])
    /\ UNCHANGED <<real, dbg, thrown, mode>>

\* Mutant: the exception takes the caller's entry along.
ThrowPops(t) ==
    /\ mode[t] = "run" /\ op[t] = NoOp
    /\ real[t] # <<>> /\ Last(real[t]).line # 0
    /\ thrown' = [thrown EXCEPT ![t] = real[t]]
    /\ \E d \in 0 .. Len(real[t]) :
          /\ t \in CatchesCallee \/ d \in {0, Len(real[t])}
          /\ real' = [real EXCEPT ![t] = SubSeq(@, 1, d)]
          /\ mode' = [mode EXCEPT ![t] = IF d = 0 THEN "abort" ELSE "handler"]
    /\ dbg' = [dbg EXCEPT ![t] = Front(@)]
    /\ UNCHANGED <<op>>

\* Throw: the C++ stack is cut back to the procedure whose Try catches it, or
\* nothing catches it; no dbg_ function is called on the way.
Throw(t) ==
    /\ mode[t] = "run" /\ op[t] = NoOp
    /\ real[t] # <<>> /\ Last(real[t]).line # 0
    /\ thrown' = [thrown EXCEPT ![t] = real[t]]
    /\ \E d \in 0 .. Len(real[t]) :
          /\ t \in CatchesCallee \/ d \in {0, Len(real[t])}
          /\ real' = [real EXCEPT ![t] = SubSeq(@, 1, d)]
          /\ mode' = [mode EXCEPT ![t] = IF d = 0 THEN "abort" ELSE "handler"]
    /\ UNCHANGED <<dbg, op>>

\* The Catch ends, or goes on with ordinary calls.
LeaveHandler(t) ==
    /\ mode[t] = "handler" /\ op[t] = NoOp
    /\ mode' = [mode EXCEPT ![t] = "run"]
    /\ thrown' = [thrown EXCEPT ![t] = <<>>]
    /\ UNCHANGED <<real, dbg, op>>

-----------------------------------------------------------------------------
(* The dbg_ functions. *)

\* dbg_funcs[tid].push_back(s); dbg_lines[tid].push_back(0)
DbgFunc(t) ==
    /\ op[t].k = "func"
    /\ dbg' = [dbg EXCEPT ![t] = Append(@, [func |-> op[t].f, line |-> 0])]
    /\ real' = [real EXCEPT ![t] = Append(@, [func |-> op[t].f, line |-> 0])]
    /\ Return(t)
    /\ UNCHANGED <<thrown, mode>>

\* dbg_lines[tid].back() = n
DbgLine(t) ==
    /\ op[t].k = "line"
    /\ dbg' = [dbg EXCEPT ![t][Len(dbg[t])].line = op[t].n]
    /\ real' = [real EXCEPT ![t][Len(real[t])].line = op[t].n]
    /\ Return(t)
    /\ UNCHANGED <<thrown, mode>>

\* Mutant: only dbg_lines is popped, the name of the procedure stays.
DbgEndFuncKeeps(t) ==
    /\ op[t].k = "end"
    /\ real' = [real EXCEPT ![t] = Front(@)]
    /\ Return(t)
    /\ UNCHANGED <<dbg, thrown, mode>>

\* dbg_funcs[tid].pop_back(); dbg_lines[tid].pop_back()
DbgEndFunc(t) ==
    /\ op[t].k = "end"
    /\ dbg' = [dbg EXCEPT ![t] = Front(@)]
    /\ real' = [real EXCEPT ![t] = Front(@)]
    /\ Return(t)
    /\ UNCHANGED <<thrown, mode>>

\* Mutant: the oldest call first.
ReportOldestFirst(t) == dbg[t]

\* dbg_callstack: the newest call first.
ReportText(t) == Reverse(dbg[t])

\* It returns the text; after abort_with_error the process ends, and so does
\* the thread here.
DbgCallStack(t) ==
    /\ op[t].k = "report"
    /\ mode' = IF mode[t] = "abort" THEN [mode EXCEPT ![t] = "dead"] ELSE mode
    /\ Return(t)
    /\ UNCHANGED <<real, dbg, thrown>>

Program(t) == \/ CallProc(t) \/ NextLine(t) \/ EndProc(t) \/ Report(t)
              \/ Throw(t) \/ LeaveHandler(t)

Runtime(t) == DbgFunc(t) \/ DbgLine(t) \/ DbgEndFunc(t) \/ DbgCallStack(t)

Next == \E t \in Thread : Program(t) \/ Runtime(t)

Spec == Init /\ [][Next]_vars

-----------------------------------------------------------------------------
(* Properties. *)

TypeOK ==
    /\ real \in [Thread -> Seq(Call)]
    /\ dbg \in [Thread -> Seq(Call)]
    /\ thrown \in [Thread -> Seq(Call)]
    /\ mode \in [Thread -> {"run", "handler", "abort", "dead"}]
    /\ op \in [Thread -> {NoOp} \cup [k: {"func"}, f: Func]
                         \cup [k: {"line"}, n: Line] \cup [k: {"end", "report"}]]

\* back() and pop_back() never meet an empty vector, whatever was thrown: the
\* vectors are at least as long as the C++ stack.
NoUnderflow == \A t \in Thread : Len(dbg[t]) >= Len(real[t])

\* Threads that catch only what the procedure of the Try has thrown.
OwnThread == Thread \ CatchesCallee

\* In these threads the vectors are the C++ stack, outside of a handler.
Exact == \A t \in OwnThread : mode[t] = "run" => dbg[t] = real[t]

\* The report of t names the procedures that are active, newest first, with
\* their lines; in a Catch and at the end of the program those that were active
\* where the exception was thrown.
RightReport(t) ==
    op[t].k = "report" =>
        ReportText(t) = Reverse(IF mode[t] = "run" THEN real[t] ELSE thrown[t])

\* Every report of these threads is right.
OwnReportRight == \A t \in OwnThread : RightReport(t)

\* Every report is right.
ReportRight == \A t \in Thread : RightReport(t)
=============================================================================
