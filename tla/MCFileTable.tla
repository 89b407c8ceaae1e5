---------------------------- MODULE MCFileTable ----------------------------
(* Two instances of FileTable on one set of variables: one thread that takes   *)
(* its numbers from FreeFile and closes everything now and then, and two       *)
(* threads with file numbers of their own in their texts and Defer Close.      *)
EXTENDS FileTable, TLC

CONSTANTS t1, t2

VARIABLE part       \* which of the two

MCLiteral == t1 :> {1, 2} @@ t2 :> {3}

Single == INSTANCE FileTable WITH
    Literal <- [t \in Thread |-> {}], UseFreeFile <- TRUE, ClosesAll <- {t1}, Deferred <- FALSE

\* Two threads that ask FreeFile.
Race == INSTANCE FileTable WITH
    Literal <- [t \in Thread |-> {}], UseFreeFile <- TRUE, ClosesAll <- {}, Deferred <- FALSE

RaceSpec == Init /\ part = "race" /\ [][UNCHANGED part /\ Race!Next]_<<vars, part>>

MCInit == Init /\ part \in {"single", "deferred"}

MCNext ==
    /\ UNCHANGED part
    /\ \/ part = "single" /\ (Single!Step(t1) \/ Single!Call(t1))
       \/ part = "deferred" /\ Next

MCSpec ==
    /\ MCInit /\ [][MCNext]_<<vars, part>>
    /\ \A t \in Thread : WF_vars(part = "deferred" /\ Step(t))

\* The table knows every open stream but those that an exception has left, only a Close
\* takes one out, Close of all files leaves none, and a procedure that is left has closed
\* what it has opened (System.cpp FileOpen, FileClose; Defer of core.h).
TableKept == EntriesKept /\ DeferredClosed
=============================================================================
