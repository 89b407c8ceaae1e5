------------------------------ MODULE FileTable ------------------------------
(***************************************************************************)
(* The table of open files of the runtime library (src/lib/System.cpp):    *)
(* FreeFile, FileOpen, FileClose and FileGetObject over the global array   *)
(* OpenFiles, called by the threads of a BASIC program.  No lock protects  *)
(* the array, so each access to it is a step of its own.                   *)
(*                                                                         *)
(* A thread runs a procedure that opens files and keeps them until it      *)
(* closes them (Close #n, or Close for all files) or leaves, normally or   *)
(* by an exception.  With Deferred each Open is followed by                *)
(* "Defer Close #n", whose closures run when the procedure is left.        *)
(***************************************************************************)
EXTENDS Integers, FiniteSets

CONSTANTS Thread,
          MAX_OPEN_FILES,   \* 512 in the code
          Stream,           \* bound: the fstream objects that can be allocated
          Null,             \* the null pointer
          Literal,          \* Literal[t]: the file numbers in the text of t
          UseFreeFile,      \* TRUE: every number comes from FreeFile instead
          ClosesAll,        \* the threads that use Close without a number
          Deferred          \* TRUE: Open is followed by Defer Close #n

ASSUME FileAssumption ==
    /\ MAX_OPEN_FILES \in Nat \ {0, 1}
    /\ Null \notin Stream
    /\ Literal \in [Thread -> SUBSET (1 .. MAX_OPEN_FILES - 1)]
    /\ UseFreeFile \in BOOLEAN
    /\ ClosesAll \subseteq Thread
    /\ Deferred \in BOOLEAN

FileNo == 1 .. MAX_OPEN_FILES - 1

VARIABLES OpenFiles,    \* OpenFiles[n]: the stream of number n, or Null
          live,         \* allocated fstream objects
          failed,       \* those of them whose file could not be opened
          pc,           \* where each thread is
          ret,          \* where its call of FileClose returns to
          fn,           \* the file number the call works with
          f,            \* the local variable f of FileOpen and FileClose
          mine,         \* mine[t][n]: the stream t opened as n and has not closed
          fault         \* threads that used a null or a freed stream

vars == <<OpenFiles, live, failed, pc, ret, fn, f, mine, fault>>

PC == {"run", "scan", "open", "store", "close", "delete", "clear",
       "all", "unwind"}

Init == /\ OpenFiles = [n \in FileNo |-> Null]
        /\ live = {}
        /\ failed = {}
        /\ pc = [t \in Thread |-> "run"]
        /\ ret = [t \in Thread |-> "run"]
        /\ fn = [t \in Thread |-> 0]
        /\ f = [t \in Thread |-> Null]
        /\ mine = [t \in Thread |-> [n \in FileNo |-> Null]]
        /\ fault = {}

Goto(t, label) == pc' = [pc EXCEPT ![t] = label]

Held(t) == {n \in FileNo : mine[t][n] # Null}

\* A null or freed pointer kills the program; the model stops the thread.
Running(t) == pc[t] = "run" /\ t \notin fault

-----------------------------------------------------------------------------
(* FreeFile: the scan for the first null entry, one entry per step; 0 when   *)
(* every entry is in use.                                                    *)

CallFreeFile(t) ==
    /\ Running(t) /\ UseFreeFile
    /\ fn' = [fn EXCEPT ![t] = 1]
    /\ Goto(t, "scan")
    /\ UNCHANGED <<OpenFiles, live, failed, ret, f, mine, fault>>

ScanEntry(t) ==
    /\ pc[t] = "scan"
    /\ IF OpenFiles[fn[t]] = Null
       THEN Goto(t, "open") /\ UNCHANGED fn
       ELSE IF fn[t] + 1 < MAX_OPEN_FILES
            THEN fn' = [fn EXCEPT ![t] = @ + 1] /\ UNCHANGED pc
            ELSE fn' = [fn EXCEPT ![t] = 0] /\ Goto(t, "open")
    /\ UNCHANGED <<OpenFiles, live, failed, ret, f, mine, fault>>

\* Open ... As #n with a number of the program text that t has not open.
UseLiteral(t) ==
    /\ Running(t) /\ ~UseFreeFile
    /\ \E n \in Literal[t] \ Held(t) : fn' = [fn EXCEPT ![t] = n]
    /\ Goto(t, "open")
    /\ UNCHANGED <<OpenFiles, live, failed, ret, f, mine, fault>>

-----------------------------------------------------------------------------
(* FileOpen: the stream is made first; a file that cannot be opened, and a   *)
(* number that is not positive, are found out afterwards and throw.          *)

\* A throw leaves the procedure: deferred closes run, otherwise what the
\* procedure had open is forgotten and stays in the table.
Throws(t) ==
    IF Deferred
    THEN Goto(t, "unwind") /\ UNCHANGED mine
    ELSE Goto(t, "run") /\ mine' = [mine EXCEPT ![t] = [n \in FileNo |-> Null]]

\* A Try around the Open of the same procedure catches what FileOpen throws.
Caught(t) == Goto(t, "run") /\ UNCHANGED mine

MakeStream(t) ==
    /\ pc[t] = "open"
    /\ \E s \in Stream \ live, opened \in BOOLEAN :
          /\ live' = live \cup {s}
          /\ failed' = IF opened THEN failed ELSE failed \cup {s}
          /\ IF opened /\ fn[t] > 0
             THEN /\ f' = [f EXCEPT ![t] = s]
                  /\ Goto(t, "store")
                  /\ UNCHANGED mine
             ELSE (Throws(t) \/ Caught(t)) /\ UNCHANGED f
    /\ UNCHANGED <<OpenFiles, ret, fn, fault>>

StoreStream(t) ==
    /\ pc[t] = "store"
    /\ OpenFiles' = [OpenFiles EXCEPT ![fn[t]] = f[t]]
    /\ mine' = [mine EXCEPT ![t][fn[t]] = f[t]]
    /\ Goto(t, "run")
    /\ UNCHANGED <<live, failed, ret, fn, f, fault>>

\* Input, Print, Eof, FileLen: the result of FileGetObject is dereferenced.
Access(t) ==
    /\ Running(t)
    /\ \E n \in Held(t) :
          fault' = IF OpenFiles[n] \in live THEN fault ELSE fault \cup {t}
    /\ UNCHANGED <<OpenFiles, live, failed, pc, ret, fn, f, mine>>

-----------------------------------------------------------------------------
(* FileClose. *)

\* Close #n of a file the thread has open.
CallClose(t) ==
    /\ Running(t) /\ ~Deferred
    /\ \E n \in Held(t) : fn' = [fn EXCEPT ![t] = n]
    /\ ret' = [ret EXCEPT ![t] = "run"]
    /\ Goto(t, "close")
    /\ UNCHANGED <<OpenFiles, live, failed, f, mine, fault>>

\* f = OpenFiles[fn]; f->close()
ReadEntry(t) ==
    /\ pc[t] = "close"
    /\ IF OpenFiles[fn[t]] \in live
       THEN f' = [f EXCEPT ![t] = OpenFiles[fn[t]]] /\ Goto(t, "delete")
            /\ UNCHANGED fault
       ELSE fault' = fault \cup {t} /\ Goto(t, "run") /\ UNCHANGED f
    /\ UNCHANGED <<OpenFiles, live, failed, ret, fn, mine>>

\* delete f
DeleteStream(t) ==
    /\ pc[t] = "delete"
    /\ IF f[t] \in live
       THEN live' = live \ {f[t]} /\ Goto(t, "clear") /\ UNCHANGED fault
       ELSE fault' = fault \cup {t} /\ Goto(t, "run") /\ UNCHANGED live
    /\ failed' = failed \ {f[t]}
    /\ UNCHANGED <<OpenFiles, ret, fn, f, mine>>

\* Mutant: the loop runs to MAX_OPEN_FILES inclusive.
NextNumberTooFar(t) ==
    IF fn[t] + 1 <= MAX_OPEN_FILES
    THEN fn' = [fn EXCEPT ![t] = @ + 1] /\ Goto(t, "all")
    ELSE Goto(t, "run") /\ UNCHANGED fn

\* The loop of Close without a number goes on after number n.
NextNumber(t) ==
    IF fn[t] + 1 < MAX_OPEN_FILES
    THEN fn' = [fn EXCEPT ![t] = @ + 1] /\ Goto(t, "all")
    ELSE Goto(t, "run") /\ UNCHANGED fn

\* Mutant: the entry after the one that was closed is cleared.
ClearNext(t) ==
    /\ pc[t] = "clear"
    /\ OpenFiles' = [OpenFiles EXCEPT ![fn[t] + 1] = Null]
    /\ mine' = [mine EXCEPT ![t][fn[t]] = Null]
    /\ IF ret[t] = "all" THEN NextNumber(t) ELSE Goto(t, ret[t]) /\ UNCHANGED fn
    /\ UNCHANGED <<live, failed, ret, f, fault>>

\* OpenFiles[fn] = 0, and FileClose returns.
ClearEntry(t) ==
    /\ pc[t] = "clear"
    /\ OpenFiles' = [OpenFiles EXCEPT ![fn[t]] = Null]
    /\ mine' = [mine EXCEPT ![t][fn[t]] = Null]
    /\ IF ret[t] = "all" THEN NextNumber(t) ELSE Goto(t, ret[t]) /\ UNCHANGED fn
    /\ UNCHANGED <<live, failed, ret, f, fault>>

\* Close: FileClose(0), for ( fn = 1; fn < MAX_OPEN_FILES; fn++ ).
CallCloseAll(t) ==
    /\ Running(t) /\ ~Deferred /\ t \in ClosesAll
    /\ fn' = [fn EXCEPT ![t] = 1]
    /\ ret' = [ret EXCEPT ![t] = "all"]
    /\ Goto(t, "all")
    /\ UNCHANGED <<OpenFiles, live, failed, f, mine, fault>>

CloseAllEntry(t) ==
    /\ pc[t] = "all"
    /\ IF OpenFiles[fn[t]] # Null
       THEN Goto(t, "close") /\ UNCHANGED fn
       ELSE NextNumber(t)
    /\ UNCHANGED <<OpenFiles, live, failed, ret, f, mine, fault>>

-----------------------------------------------------------------------------
(* The procedure is left, by its end or by an exception of its body. *)

Leave(t) ==
    /\ Running(t)
    /\ Throws(t)
    /\ UNCHANGED <<OpenFiles, live, failed, ret, fn, f, fault>>

\* Mutant: one deferred Close runs, the others are forgotten.
UnwindOnce(t) ==
    /\ pc[t] = "unwind" /\ t \notin fault
    /\ IF Held(t) = {}
       THEN Goto(t, "run") /\ UNCHANGED <<fn, ret>>
       ELSE /\ \E n \in Held(t) : fn' = [fn EXCEPT ![t] = n]
            /\ ret' = [ret EXCEPT ![t] = "run"]
            /\ Goto(t, "close")
    /\ UNCHANGED <<OpenFiles, live, failed, f, mine, fault>>

\* One deferred Close (the destructors run newest first; any order is allowed
\* here), or none is left and the caller goes on.
Unwind(t) ==
    /\ pc[t] = "unwind" /\ t \notin fault
    /\ IF Held(t) = {}
       THEN Goto(t, "run") /\ UNCHANGED <<fn, ret>>
       ELSE /\ \E n \in Held(t) : fn' = [fn EXCEPT ![t] = n]
            /\ ret' = [ret EXCEPT ![t] = "unwind"]
            /\ Goto(t, "close")
    /\ UNCHANGED <<OpenFiles, live, failed, f, mine, fault>>

Step(t) == \/ ScanEntry(t) \/ MakeStream(t) \/ StoreStream(t)
           \/ ReadEntry(t) \/ DeleteStream(t) \/ ClearEntry(t)
           \/ CloseAllEntry(t) \/ Unwind(t)

Call(t) == \/ CallFreeFile(t) \/ UseLiteral(t) \/ Access(t)
           \/ CallClose(t) \/ CallCloseAll(t) \/ Leave(t)

Next == \E t \in Thread : Step(t) \/ Call(t)

Spec == Init /\ [][Next]_vars

\* A call that has been entered runs to its end.
FairSpec == Spec /\ \A t \in Thread : WF_vars(Step(t))

-----------------------------------------------------------------------------
(* Properties. *)

TypeOK ==
    /\ OpenFiles \in [FileNo -> Stream \cup {Null}]
    /\ live \subseteq Stream
    /\ failed \subseteq live
    /\ pc \in [Thread -> PC]
    /\ ret \in [Thread -> {"run", "all", "unwind"}]
    /\ fn \in [Thread -> 0 .. MAX_OPEN_FILES - 1]
    /\ f \in [Thread -> Stream \cup {Null}]
    /\ mine \in [Thread -> [FileNo -> Stream \cup {Null}]]
    /\ fault \subseteq Thread

\* No call ever uses a null or a freed stream: Close of a file that is open
\* finds its stream, and every access between Open and Close does.
NoFault == fault = {}

\* While a thread has a file open under a number, that number denotes the
\* stream the thread opened (until its own Close has deleted the stream).
NumbersAreMine ==
    \A t \in Thread : \A n \in Held(t) :
        /\ OpenFiles[n] = mine[t][n]
        /\ mine[t][n] \in live \/ (pc[t] = "clear" /\ fn[t] = n)

\* The numbers whose stream a Close has deleted and whose entry it clears next.
Clearing == {fn[t] : t \in {u \in Thread : pc[u] = "clear"}}

\* Two numbers never share a stream, and what the table holds is allocated and
\* open, but for the entries that a Close is about to clear.
TableSound ==
    \A m \in FileNo \ Clearing :
        /\ OpenFiles[m] \in (live \ failed) \cup {Null}
        /\ \A n \in FileNo \ Clearing :
              OpenFiles[m] = OpenFiles[n] /\ OpenFiles[m] # Null => m = n

\* A stream the program can still get at or that FileOpen is about to store.
Placed(s) == \/ \E n \in FileNo : OpenFiles[n] = s
             \/ \E t \in Thread : pc[t] = "store" /\ f[t] = s

TableFull == \A n \in FileNo : OpenFiles[n] # Null

\* A stream whose file was opened stays within reach until it is deleted; the
\* only one that is lost is opened as number 0 because the table is full.
StreamsStay ==
    \A s \in live' \ failed' :
        (s \notin live \/ Placed(s)) => (Placed(s)' \/ TableFull)

NothingLost == [][StreamsStay]_vars

\* Close without a number leaves no entry behind.
CloseEmpties ==
    \A t \in Thread :
        (pc[t] \in {"all", "clear"} /\ ret[t] = "all" /\ pc'[t] = "run")
            => OpenFiles' = [n \in FileNo |-> Null]

AllClosed == [][CloseEmpties]_vars

\* The three together.
EntriesKept == []TableSound /\ NothingLost /\ AllClosed

\* With Defer, a thread that leaves its procedure has closed what it opened.
DeferredClosed ==
    \A t \in Thread : (pc[t] = "unwind") ~> (Held(t) = {})
=============================================================================
