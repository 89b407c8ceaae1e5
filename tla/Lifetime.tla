------------------------------ MODULE Lifetime ------------------------------
(* A program from main() to its exit (src/lib/core/stc.cpp): __init_all runs    *)
(* the INITIALIZATION of the main module, of System and of the modules it uses, *)
(* Main follows, __final_all runs the FINALIZATION blocks backwards.  A module  *)
(* with Declare ... Lib loads its libraries at the start of the first block,    *)
(* and every module calls unloadlibs() at the start of the second (generated    *)
(* code, as in src/samples/coretests/builtin/dir/222.cpp:241-268).  System,     *)
(* whose two blocks do neither, is left out.                                   *)
(*                                                                             *)
(* The blocks and Main are the outermost procedures of the thread Main of      *)
(* CallStack, and every thread may call what a library exports.                *)
EXTENDS CallStack

CONSTANTS Lib,          \* libraries named in Declare
          Present,      \* those that dlopen() finds
          Declares,     \* the libraries of each module, in the order of the members
          GUI           \* TRUE: stwQT.cpp, app.exec() calls handlers after __final_all

LastModule == Len(Declares)

ASSUME LifetimeAssumption ==
    /\ Present \subseteq Lib
    /\ Declares \in Seq(SUBSET Lib) /\ LastModule > 0
    /\ GUI \in BOOLEAN

VARIABLES stage,        \* what the thread Main runs: init, main, final, unwind, events, exit
          module,       \* the module whose block it is
          hlib,         \* the libraries hlib has a handle for
          opened,       \* how often each is open, as the loader counts it
          cached,       \* the libraries whose handle a call has kept in its static variable
          finals,       \* the modules whose FINALIZATION has run, in that order
          code,         \* the exit code
          wild          \* history: the stages in which a call went into a closed library

libVars == <<hlib, opened, cached>>
lifeVars == <<stage, module, libVars, finals, code, wild>>
allVars == <<vars, lifeVars>>

Stage == {"init", "main", "final", "unwind", "events", "exit"}

LifeTypeOK ==
    /\ TypeOK
    /\ stage \in Stage /\ module \in 0 .. LastModule
    /\ hlib \subseteq Present /\ cached \subseteq hlib
    /\ opened \in [Lib -> 0 .. LastModule]
    /\ finals \in Seq(1 .. LastModule)
    /\ code \in {"none", "0", "255"}
    /\ wild \subseteq Stage

LifeInit ==
    /\ Init
    /\ stage = "init" /\ module = 1
    /\ hlib = {} /\ opened = [l \in Lib |-> 0] /\ cached = {}
    /\ finals = <<>> /\ code = "none" /\ wild = {}
-----------------------------------------------------------------------------
\* loadlib() for each library: one that is not found is only reported on the screen.
LoadLibs(k) ==
    /\ hlib' = hlib \cup (Declares[k] \cap Present)
    /\ opened' = [l \in Lib |-> IF l \in Declares[k] \cap Present THEN opened[l] + 1
                                                                  ELSE opened[l]]
    /\ UNCHANGED cached

\* unloadlibs(): every handle is closed and stays in hlib.  A handle that is closed
\* already is refused by dlclose().
UnloadLibs ==
    /\ opened' = [l \in Lib |-> IF l \in hlib /\ opened[l] > 0 THEN opened[l] - 1 ELSE opened[l]]
    /\ UNCHANGED <<hlib, cached>>

Idle == real[Main] = <<>> /\ mode[Main] = "run"

\* The thread Main runs procedures in these stages; the first one is the block.
Blocks == {"init", "main", "final", "events"}

\* Mutant: the libraries are unloaded at the start of Main already.
StartProcUnloads(t) ==
    /\ DbgFunc(t)
    /\ IF t = Main /\ real[Main] = <<>> /\ stage = "init" THEN LoadLibs(module)
       ELSE IF t = Main /\ real[Main] = <<>> /\ stage = "main" THEN UnloadLibs
       ELSE UNCHANGED libVars
    /\ UNCHANGED <<stage, module, finals, code, wild>>

\* dbg_func() of a procedure; at the start of a block the libraries follow.
StartProc(t) ==
    /\ DbgFunc(t)
    /\ IF t = Main /\ real[Main] = <<>> /\ stage = "init" THEN LoadLibs(module)
       ELSE IF t = Main /\ real[Main] = <<>> /\ stage = "final" THEN UnloadLibs
       ELSE UNCHANGED libVars
    /\ UNCHANGED <<stage, module, finals, code, wild>>

Goes(to, k) == stage' = to /\ module' = k

\* Mutant: the finalizers run in the order of the members.
AfterBlockForwards ==
    \/ stage = "init" /\ module < LastModule /\ Goes("init", module + 1)
    \/ stage = "init" /\ module = LastModule /\ Goes("main", 0)
    \/ stage = "main" /\ Goes("final", 1)
    \/ stage = "final" /\ module < LastModule /\ Goes("final", module + 1)
    \/ stage = "final" /\ module = LastModule /\ Goes(IF GUI THEN "events" ELSE "exit", 0)
    \/ stage = "events" /\ UNCHANGED <<stage, module>>

\* The next block: the members are made in their order and deleted in reverse.
AfterBlock ==
    \/ stage = "init" /\ module < LastModule /\ Goes("init", module + 1)
    \/ stage = "init" /\ module = LastModule /\ Goes("main", 0)
    \/ stage = "main" /\ Goes("final", LastModule)
    \/ stage = "final" /\ module > 1 /\ Goes("final", module - 1)
    \/ stage = "final" /\ module = 1 /\ Goes(IF GUI THEN "events" ELSE "exit", 0)
    \/ stage = "events" /\ UNCHANGED <<stage, module>>

\* dbg_endfunc(): the end of a block goes on to the next one.
EndsProc(t) ==
    /\ DbgEndFunc(t)
    /\ IF t = Main /\ Len(real[Main]) = 1
       THEN /\ AfterBlock
            /\ finals' = IF stage = "final" THEN Append(finals, module) ELSE finals
            /\ code' = IF stage' = "exit" THEN "0" ELSE code
       ELSE UNCHANGED <<stage, module, finals, code>>
    /\ UNCHANGED <<libVars, wild>>

\* A call of a procedure of a library: its handle is looked up in hlib on the first
\* call and kept (getlibhandle, getprocaddr).
CallLib(t, l) ==
    /\ mode[t] = "run" /\ op[t] = NoOp
    /\ real[t] # <<>> /\ Last(real[t]).line # 0
    /\ l \in hlib
    /\ cached' = cached \cup {l}
    /\ wild' = IF opened[l] = 0 THEN wild \cup {stage} ELSE wild
    /\ UNCHANGED <<vars, stage, module, hlib, opened, finals, code>>

\* What an exception of t does to the program: out of an INITIALIZATION it deletes the
\* members that are complete, before the catch of main() is entered; out of Main or of
\* a FINALIZATION, or of another thread, nothing is deleted.
Escapes(t) ==
    IF t = Main /\ mode'[Main] = "abort" /\ stage = "init"
    THEN Goes("unwind", module - 1)
    ELSE UNCHANGED <<stage, module>>

Raise(t) ==
    /\ Throw(t)
    /\ Escapes(t)
    /\ UNCHANGED <<libVars, finals, code, wild>>

\* The FINALIZATION of a module on the way out of __init_all; what it calls has
\* returned when it ends.
UnwindModule ==
    /\ stage = "unwind" /\ module > 0
    /\ UnloadLibs
    /\ finals' = Append(finals, module)
    /\ module' = module - 1
    /\ UNCHANGED <<vars, stage, code, wild>>

\* abort_with_error() or term_func(), whose report ends the process.
Reports(t) ==
    /\ Report(t)
    /\ mode[t] = "abort" /\ stage = "unwind" => module = 0
    /\ UNCHANGED lifeVars

\* Mutant: only the thread Main ends the process.
ReportedStays(t) ==
    /\ DbgCallStack(t)
    /\ IF mode[t] = "abort" /\ t = Main THEN stage' = "exit" /\ code' = "255"
                                        ELSE UNCHANGED <<stage, code>>
    /\ UNCHANGED <<module, libVars, finals, wild>>

Reported(t) ==
    /\ DbgCallStack(t)
    /\ IF mode[t] = "abort" THEN stage' = "exit" /\ code' = "255" ELSE UNCHANGED <<stage, code>>
    /\ UNCHANGED <<module, libVars, finals, wild>>

\* What needs nothing but the stack.  Main calls procedures only in its blocks.
Plain(t) ==
    /\ \/ CallProc(t) /\ (t = Main => stage \in Blocks)
       \/ NextLine(t) \/ EndProc(t) \/ LeaveHandler(t) \/ DbgLine(t)
    /\ UNCHANGED lifeVars

\* The window is closed and app.exec() returns.
Quit ==
    /\ stage = "events" /\ Idle /\ op[Main] = NoOp
    /\ stage' = "exit" /\ code' = "0"
    /\ UNCHANGED <<vars, module, libVars, finals, wild>>

Life(t) ==
    \/ StartProc(t) \/ EndsProc(t) \/ Raise(t) \/ Reports(t) \/ Reported(t) \/ Plain(t)
    \/ \E l \in Lib : CallLib(t, l)

LifeNext ==
    /\ stage # "exit"
    /\ \/ \E t \in Thread : Life(t)
       \/ UnwindModule
       \/ Quit

LifeSpec == LifeInit /\ [][LifeNext]_allVars

(* A thread that has thrown out of its last procedure runs on to its report.   *)
Ending == UnwindModule \/ \E t \in Thread : mode[t] = "abort" /\ (Reports(t) \/ Reported(t))
LifeFairSpec == LifeSpec /\ WF_allVars(stage # "exit" /\ Ending)
-----------------------------------------------------------------------------
\* As long as __final_all and an unwinding have not begun, a call of a library that was
\* found goes into it, however many modules have loaded it.  Later it may not: the
\* libraries are unloaded before the statements of a FINALIZATION block, before those
\* of the modules that come earlier, and before the handlers of a window (stwQT.cpp).
CallsLand == wild \subseteq {"final", "unwind", "events"}

\* The FINALIZATION blocks run backwards and once each: all of them when the program
\* ends normally, none when an exception leaves Main, and when one leaves an
\* INITIALIZATION those whose INITIALIZATION was complete; a normal end has closed
\* each library as often as it was opened (core.cpp, unloadlibs).
FinalizedBackwards ==
    /\ LifeTypeOK
    /\ \A i \in 1 .. Len(finals) - 1 : finals[i + 1] = finals[i] - 1
    /\ code = "0" => Len(finals) = LastModule /\ opened = [l \in Lib |-> 0]
    /\ stage = "main" => finals = <<>>
    /\ stage = "unwind" => Len(finals) + module < LastModule

\* An exception that nothing catches, of whichever thread, ends the process: no thread
\* goes on for ever behind it (abort_with_error, term_func).  Whether it is reported is
\* a race when another thread has thrown it: Main may return first.
UncaughtEnds == \A t \in Thread : mode[t] = "abort" ~> stage = "exit"

=============================================================================
