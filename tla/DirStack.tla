------------------------------ MODULE DirStack ------------------------------
(***************************************************************************)
(* Directory listing of the runtime library (src/lib/System.cpp): Dir      *)
(* opens a directory on a global stack of levels or reads the next entry   *)
(* of the top level, CloseDir pops a level.  The callers are the recursive *)
(* procedures showdir of the built-in function tests                       *)
(* (src/samples/coretests/builtin/Buildin.bas), one per thread.            *)
(***************************************************************************)
EXTENDS Integers, Sequences, SequencesExt

CONSTANTS Thread,
          Directory,        \* the directories of the file system
          Entries,          \* Entries[d]: the names readdir gives for d
          Root,             \* Root[t]: where the listing of thread t starts
          MayFail,          \* directories whose opendir may fail
          NoEntry,          \* the empty string
          MAX_DIR_LEVEL,    \* 1024 in the code
          ClosesAlways,     \* TRUE: showdir as the test has it, CloseDir even
                            \* after a Dir that failed; FALSE: only after a
                            \* Dir that opened its directory
          MayThrow          \* the body of showdir may throw

DirAssumption ==
    /\ Root \in [Thread -> Directory]
    /\ MayFail \subseteq Directory
    /\ \A d \in Directory : Entries[d] # {} /\ NoEntry \notin Entries[d]
    /\ MAX_DIR_LEVEL \in Nat
    /\ ClosesAlways \in BOOLEAN /\ MayThrow \in BOOLEAN

Name == UNION {Entries[d] : d \in Directory}

VARIABLES levels,   \* tagDirLevel[0 .. dirIndex]: directory and entries unread
          frames,   \* frames[t]: the calls of showdir that have not returned
          printed,  \* printed[t]: directory and entry of each line of output
          opened,   \* opened[t]: the directories the listing has opened
          abandoned,    \* how many levels exceptions have left on the stack
          fault     \* "underflow": readdir was called without one; "overflow": Dir has
                    \* written behind the array; what comes then is undefined

vars == <<levels, frames, printed, opened, abandoned, fault>>

\* One call of showdir: its argument (exists: the path is a directory), the
\* variable ss, whether its Dir( sDir ) opened a level, and where it is.
Frame == [dir: Directory \cup Name, exists: BOOLEAN, ss: Name \cup {NoEntry},
          opened: BOOLEAN, pc: {"open", "test", "next", "close"}]

Level == [dir: Directory, left: SUBSET Name]

Init == /\ levels = <<>>
        /\ frames = [t \in Thread |-> <<>>]
        /\ printed = [t \in Thread |-> {}]
        /\ opened = [t \in Thread |-> {}]
        /\ abandoned = 0
        /\ fault = "none"

Top(t) == Last(frames[t])
At(t, label) == frames[t] # <<>> /\ Top(t).pc = label /\ fault = "none"

NewFrame(d, exists) == [dir |-> d, exists |-> exists, ss |-> NoEntry,
                        opened |-> FALSE, pc |-> "open"]

SetTop(t, frame) == [frames EXCEPT ![t] = Append(Front(@), frame)]

-----------------------------------------------------------------------------
(* Dir and CloseDir. *)

\* readdir on the top level: some entry that was not read yet, or none.
ReadDir(lv, e, rest) ==
    IF lv[Len(lv)].left = {}
    THEN e = NoEntry /\ rest = lv
    ELSE /\ e \in lv[Len(lv)].left
         /\ rest = [lv EXCEPT ![Len(lv)].left = @ \ {e}]

\* Dir( path ): a level is pushed, and popped again when opendir fails.
PushLevel(d) == Append(levels, [dir |-> d, left |-> Entries[d]])

\* CloseDir: without a level it does nothing.
PopLevel == IF levels = <<>> THEN levels ELSE Front(levels)

-----------------------------------------------------------------------------
(* Sub showdir. *)

Start(t) ==
    /\ frames[t] = <<>> /\ fault = "none"
    /\ frames' = [frames EXCEPT ![t] = <<NewFrame(Root[t], TRUE)>>]
    /\ printed' = [printed EXCEPT ![t] = {}]
    /\ opened' = [opened EXCEPT ![t] = {}]
    /\ UNCHANGED <<levels, abandoned, fault>>

\* ss = Dir( sDir ), opendir succeeds; dirIndex is not compared with MAX_DIR_LEVEL.
OpenDir(t) ==
    /\ At(t, "open") /\ Top(t).exists
    /\ IF Len(levels) = MAX_DIR_LEVEL
       THEN fault' = "overflow" /\ UNCHANGED <<levels, frames, opened>>
       ELSE /\ \E e \in Name :
                  /\ ReadDir(PushLevel(Top(t).dir), e, levels')
                  /\ frames' = SetTop(t, [Top(t) EXCEPT !.ss = e, !.opened = TRUE,
                                                        !.pc = "test"])
            /\ opened' = [opened EXCEPT ![t] = @ \cup {Top(t).dir}]
            /\ UNCHANGED fault
    /\ UNCHANGED <<printed, abandoned>>

\* Mutant: a failed opendir leaves its level on the stack.
OpenDirFailsKeepsLevel(t) ==
    /\ At(t, "open")
    /\ Top(t).exists => Top(t).dir \in MayFail
    /\ Len(levels) < MAX_DIR_LEVEL
    /\ levels' = Append(levels, [dir |-> NoEntry, left |-> {}])
    /\ frames' = SetTop(t, [Top(t) EXCEPT !.pc = "test"])
    /\ UNCHANGED <<printed, opened, abandoned, fault>>

\* ss = Dir( sDir ), opendir fails: dirIndex++, dirIndex--, return ""; the null pointer
\* is written to the level in between.
OpenDirFails(t) ==
    /\ At(t, "open")
    /\ Top(t).exists => Top(t).dir \in MayFail
    /\ IF Len(levels) = MAX_DIR_LEVEL
       THEN fault' = "overflow" /\ UNCHANGED frames
       ELSE frames' = SetTop(t, [Top(t) EXCEPT !.pc = "test"]) /\ UNCHANGED fault
    /\ UNCHANGED <<levels, printed, opened, abandoned>>

\* What IsDir answers: stat on a path that does not exist leaves its result
\* uninitialized.
IsDir(d, e) == IF d \in Directory /\ e \in Entries[d] THEN {e \in Directory}
               ELSE BOOLEAN

\* Do While ss <> "": Print, and the recursive call for a directory
TestEntry(t) ==
    /\ At(t, "test")
    /\ IF Top(t).ss = NoEntry
       THEN /\ frames' = SetTop(t, [Top(t) EXCEPT !.pc = "close"])
            /\ UNCHANGED printed
       ELSE /\ printed' = [printed EXCEPT ![t] = @ \cup {<<Top(t).dir, Top(t).ss>>}]
            /\ \E dir \in IsDir(Top(t).dir, Top(t).ss) :
                 LET this == SetTop(t, [Top(t) EXCEPT !.pc = "next"]) IN
                 frames' = IF dir
                           THEN [this EXCEPT ![t] = Append(@,
                                   NewFrame(Top(t).ss, Top(t).dir \in Directory
                                              /\ Top(t).ss \in Entries[Top(t).dir]))]
                           ELSE this
    /\ UNCHANGED <<levels, opened, abandoned, fault>>

\* ss = Dir: tagDirLevel[dirIndex], whatever dirIndex is
NextEntry(t) ==
    /\ At(t, "next")
    /\ IF levels = <<>>
       THEN fault' = "underflow" /\ UNCHANGED <<levels, frames>>
       ELSE /\ \E e \in Name \cup {NoEntry} :
                  /\ ReadDir(levels, e, levels')
                  /\ frames' = SetTop(t, [Top(t) EXCEPT !.ss = e, !.pc = "test"])
            /\ UNCHANGED fault
    /\ UNCHANGED <<printed, opened, abandoned>>

\* CloseDir, and End Sub
Close(t) ==
    /\ At(t, "close")
    /\ levels' = IF ClosesAlways \/ Top(t).opened THEN PopLevel ELSE levels
    /\ frames' = [frames EXCEPT ![t] = Front(@)]
    /\ UNCHANGED <<printed, opened, abandoned, fault>>

\* The body throws; the handler is outside of the listing, and the levels stay.
Throw(t) ==
    /\ MayThrow
    /\ At(t, "next")
    /\ frames' = [frames EXCEPT ![t] = <<>>]
    /\ abandoned' = abandoned + Len(frames[t])
    /\ UNCHANGED <<levels, printed, opened, fault>>

\* CloseDir( True ): every level is closed.
CloseAll(t) ==
    /\ frames[t] = <<>> /\ fault = "none"
    /\ levels' = <<>> /\ abandoned' = 0
    /\ UNCHANGED <<frames, printed, opened, fault>>

Showdir(t) == \/ OpenDir(t) \/ OpenDirFails(t) \/ TestEntry(t)
              \/ NextEntry(t) \/ Close(t)

Next == \E t \in Thread : Start(t) \/ Showdir(t) \/ Throw(t) \/ CloseAll(t)

Spec == Init /\ [][Next]_vars

-----------------------------------------------------------------------------
(* Properties. *)

TypeOK ==
    /\ levels \in Seq(Level) /\ Len(levels) <= MAX_DIR_LEVEL
    /\ frames \in [Thread -> Seq(Frame)]
    /\ printed \in [Thread -> SUBSET ((Directory \cup Name) \X Name)]
    /\ opened \in [Thread -> SUBSET Directory]
    /\ abandoned \in Nat
    /\ fault \in {"none", "underflow", "overflow"}

OpenFrames(t) == IF frames[t] # <<>> /\ ~Top(t).opened THEN Front(frames[t]) ELSE frames[t]

\* The variables have their types, and the levels on top of the stack are those of the
\* calls that have opened one, which only the innermost call may not have, in the order
\* of the calls, whatever levels an exception left below them (Dir, CloseDir).
LevelsMatch ==
    /\ TypeOK
    /\ \A t \in Thread :
       LET n == Len(OpenFrames(t)) IN
       /\ Len(levels) >= n
       /\ \A i \in 1..n : /\ OpenFrames(t)[i].opened
                         /\ levels[Len(levels) - n + i].dir = OpenFrames(t)[i].dir

\* readdir always has a level to read, and Dir writes behind the array only when the levels
\* that exceptions have left and the calls of a listing, one level each, are more than it
\* has (Dir does not compare dirIndex with MAX_DIR_LEVEL): no failed opendir and no listing
\* that has returned has taken any of them.
FaultForReason ==
    /\ fault # "underflow"
    /\ fault = "overflow" => \E t \in Thread : abandoned + Len(frames[t]) > MAX_DIR_LEVEL

\* A line of output pairs a directory with one of its own entries.
PrintsOwnEntries ==
    \A t \in Thread : \A p \in printed[t] :
       p[1] \in Directory /\ p[2] \in Entries[p[1]]

\* A listing that returns has printed every entry of every directory it opened, and has
\* given back exactly the levels it took, whatever opendir refused (showdir, CloseDir).
\* Close is the only step that leaves the outermost call with nothing unread.
ListsAll ==
    [][\A t \in Thread :
          (At(t, "close") /\ Len(frames[t]) = 1 /\ frames'[t] = <<>>) =>
             /\ printed[t] = UNION {{d} \X Entries[d] : d \in opened[t]}
             /\ opened[t] # {} => levels' = Front(levels) /\ Last(levels).dir = Root[t]]_vars
=============================================================================
