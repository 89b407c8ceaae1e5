-------------------------- MODULE FileTableProofs --------------------------
(* Theorems about FileTable, for any number of threads, file numbers and     *)
(* streams, and about the directory levels of the same source file, DirStack, *)
(* for any directory tree.                                                   *)
EXTENDS FileTable, Sequences, TLAPS

\* The file number is one of the table wherever a call indexes the table, and
\* FileOpen stores the stream it has made.
NumberInRange ==
    \A t \in Thread :
        /\ pc[t] \in {"scan", "store", "close", "delete", "clear", "all"}
              => fn[t] \in FileNo
        /\ pc[t] = "store" => f[t] \in Stream

TypeInv == TypeOK /\ NumberInRange

LEMMA InitType == Init => TypeInv
  BY FileAssumption DEF Init, TypeInv, TypeOK, NumberInRange, FileNo, PC

LEMMA Numbers ==
    /\ 1 \in FileNo
    /\ FileNo \subseteq 0 .. MAX_OPEN_FILES - 1
    /\ 0 \in 0 .. MAX_OPEN_FILES - 1
    /\ \A n \in 0 .. MAX_OPEN_FILES - 1 : n > 0 => n \in FileNo
    /\ \A n \in FileNo : n + 1 < MAX_OPEN_FILES => n + 1 \in FileNo
  BY FileAssumption DEF FileNo

LEMMA StepType ==
  ASSUME TypeInv, NEW t \in Thread, Step(t) PROVE TypeInv'
<1> USE DEF TypeInv, TypeOK, NumberInRange, PC, Goto
<1>1. CASE ScanEntry(t)
  <2>1. CASE OpenFiles[fn[t]] = Null
    BY Numbers, <1>1, <2>1 DEF ScanEntry
  <2>2. CASE OpenFiles[fn[t]] # Null /\ fn[t] + 1 < MAX_OPEN_FILES
    BY SMTT(40), Numbers, <1>1, <2>2 DEF ScanEntry
  <2>3. CASE OpenFiles[fn[t]] # Null /\ ~(fn[t] + 1 < MAX_OPEN_FILES)
    BY Numbers, <1>1, <2>3 DEF ScanEntry
  <2> QED BY <2>1, <2>2, <2>3
<1>2. CASE MakeStream(t)
  <2>1. PICK s \in Stream \ live, opened \in BOOLEAN :
           /\ live' = live \cup {s}
           /\ failed' = IF opened THEN failed ELSE failed \cup {s}
           /\ IF opened /\ fn[t] > 0
              THEN /\ f' = [f EXCEPT ![t] = s]
                   /\ Goto(t, "store")
                   /\ UNCHANGED mine
              ELSE (Throws(t) \/ Caught(t)) /\ UNCHANGED f
    BY Numbers, <1>2 DEF MakeStream
  <2>2. CASE opened /\ fn[t] > 0
    <3>1. /\ f' = [f EXCEPT ![t] = s] /\ pc' = [pc EXCEPT ![t] = "store"]
          /\ live' = live \cup {s} /\ failed' = failed /\ s \in Stream
          /\ UNCHANGED <<OpenFiles, ret, fn, mine, fault>>
      BY <1>2, <2>1, <2>2 DEF MakeStream
    <3>2. fn[t] \in FileNo
      BY Numbers, <2>2
    <3> QED BY <3>1, <3>2
  <2>3. CASE ~(opened /\ fn[t] > 0) /\ Deferred
    BY Numbers, <1>2, <2>1, <2>3 DEF MakeStream, Throws, Caught
  <2>4. CASE ~(opened /\ fn[t] > 0) /\ ~Deferred
    BY Numbers, <1>2, <2>1, <2>4 DEF MakeStream, Throws, Caught
  <2> QED BY <2>2, <2>3, <2>4
<1>3. CASE StoreStream(t)
  BY Numbers, <1>3 DEF StoreStream
<1>4. CASE ReadEntry(t)
  BY Numbers, <1>4 DEF ReadEntry
<1>5. CASE DeleteStream(t)
  BY Numbers, <1>5 DEF DeleteStream
<1>6. CASE ClearEntry(t)
  <2>1. CASE ret[t] # "all"
    BY Numbers, <1>6, <2>1 DEF ClearEntry
  <2>2. CASE ret[t] = "all" /\ fn[t] + 1 < MAX_OPEN_FILES
    <3>1. fn[t] + 1 \in FileNo
      BY Numbers, <1>6, <2>2 DEF ClearEntry
    <3>2. fn' = [fn EXCEPT ![t] = fn[t] + 1] /\ pc' = [pc EXCEPT ![t] = "all"]
      BY <1>6, <2>2 DEF ClearEntry, NextNumber
    <3> QED BY Numbers, <1>6, <3>1, <3>2 DEF ClearEntry
  <2>3. CASE ret[t] = "all" /\ ~(fn[t] + 1 < MAX_OPEN_FILES)
    BY Numbers, <1>6, <2>3 DEF ClearEntry, NextNumber
  <2> QED BY <2>1, <2>2, <2>3
<1>7. CASE CloseAllEntry(t)
  <2>1. CASE OpenFiles[fn[t]] # Null
    BY Numbers, <1>7, <2>1 DEF CloseAllEntry
  <2>2. CASE OpenFiles[fn[t]] = Null /\ fn[t] + 1 < MAX_OPEN_FILES
    BY Numbers, <1>7, <2>2 DEF CloseAllEntry, NextNumber
  <2>3. CASE OpenFiles[fn[t]] = Null /\ ~(fn[t] + 1 < MAX_OPEN_FILES)
    BY Numbers, <1>7, <2>3 DEF CloseAllEntry, NextNumber
  <2> QED BY <2>1, <2>2, <2>3
<1>8. CASE Unwind(t)
  <2>1. CASE Held(t) = {}
    BY Numbers, <1>8, <2>1 DEF Unwind
  <2>2. CASE Held(t) # {}
    BY Numbers, <1>8, <2>2 DEF Unwind, Held
  <2> QED BY <2>1, <2>2
<1> QED BY <1>1, <1>2, <1>3, <1>4, <1>5, <1>6, <1>7, <1>8 DEF Step

LEMMA CallType ==
  ASSUME TypeInv, NEW t \in Thread, Call(t) PROVE TypeInv'
<1> USE DEF TypeInv, TypeOK, NumberInRange, PC, Goto
<1>1. CASE CallFreeFile(t)
  BY Numbers, <1>1 DEF CallFreeFile
<1>2. CASE UseLiteral(t)
  BY FileAssumption, Numbers, <1>2 DEF UseLiteral, FileNo
<1>3. CASE Access(t)
  BY Numbers, <1>3 DEF Access
<1>4. CASE CallClose(t)
  BY Numbers, <1>4 DEF CallClose, Held
<1>5. CASE CallCloseAll(t)
  BY Numbers, <1>5 DEF CallCloseAll
<1>6. CASE Leave(t)
  <2>1. CASE Deferred
    BY Numbers, <1>6, <2>1 DEF Leave, Throws
  <2>2. CASE ~Deferred
    BY Numbers, <1>6, <2>2 DEF Leave, Throws
  <2> QED BY <2>1, <2>2
<1> QED BY <1>1, <1>2, <1>3, <1>4, <1>5, <1>6 DEF Call

LEMMA NextType == TypeInv /\ [Next]_vars => TypeInv'
<1> SUFFICES ASSUME TypeInv, [Next]_vars PROVE TypeInv'
  OBVIOUS
<1>1. CASE UNCHANGED vars
  BY <1>1 DEF vars, TypeInv, TypeOK, NumberInRange
<1>2. ASSUME NEW t \in Thread, Step(t) \/ Call(t) PROVE TypeInv'
  BY <1>2, StepType, CallType
<1> QED BY <1>1, <1>2 DEF Next

\* Every variable keeps its type, whatever the program does: in particular no
\* call ever indexes OpenFiles outside its bounds.
THEOREM TypeCorrect == Spec => []TypeOK
<1>1. TypeInv => TypeOK
  BY DEF TypeInv
<1> QED BY InitType, NextType, <1>1, PTL DEF Spec

-----------------------------------------------------------------------------
(* Threads that use file numbers of their own do not interfere. *)

\* Every thread opens the numbers of its own program text, no two threads have
\* a number in common, and none closes all files.
Isolated ==
    /\ ~UseFreeFile
    /\ ClosesAll = {}
    /\ \A t, u \in Thread : t # u => Literal[t] \cap Literal[u] = {}

\* Where thread t is, and what it may rely on there.
Local(t) ==
    /\ pc[t] \notin {"scan", "all"}
    /\ ret[t] # "all"
    /\ pc[t] \in {"open", "store", "close", "delete", "clear"} => fn[t] \in Literal[t]
    /\ pc[t] \in {"close", "delete", "clear"} => mine[t][fn[t]] # Null
    /\ pc[t] \in {"delete", "clear"} => f[t] = OpenFiles[fn[t]]
    /\ \A n \in FileNo : mine[t][n] # Null =>
          /\ n \in Literal[t]
          /\ OpenFiles[n] = mine[t][n]

\* What the table holds is allocated, and no two numbers share it.
Distinct ==
    \A m \in FileNo \ Clearing :
        /\ OpenFiles[m] \in live \cup {Null}
        /\ \A n \in FileNo \ Clearing :
              OpenFiles[m] = OpenFiles[n] /\ OpenFiles[m] # Null => m = n

\* A stream that is about to be stored is known to its thread alone.
Fresh ==
    \A t \in Thread : pc[t] = "store" =>
        /\ f[t] \in live
        /\ \A m \in FileNo \ Clearing : OpenFiles[m] # f[t]
        /\ \A u \in Thread : pc[u] = "store" /\ f[u] = f[t] => u = t

IInv ==
    /\ TypeInv
    /\ fault = {}
    /\ \A t \in Thread : Local(t)
    /\ Distinct
    /\ Fresh

LEMMA InitIsolated == Isolated /\ Init => IInv
  BY InitType, FileAssumption
     DEF Init, IInv, Local, Distinct, Fresh, Clearing

\* Only thread t itself ever clears a number of its text.
LEMMA OwnNumber ==
  ASSUME Isolated, TypeInv, \A u \in Thread : Local(u),
         NEW t \in Thread, NEW n \in Literal[t]
  PROVE  n \in Clearing <=> pc[t] = "clear" /\ fn[t] = n
  BY DEF Isolated, Local, Clearing, TypeInv, TypeOK

\* A call that touches neither the table nor the streams, and whose thread is
\* neither storing nor clearing before or after it.
LEMMA QuietStep ==
  ASSUME Isolated, IInv, TypeInv', NEW t \in Thread,
         UNCHANGED <<OpenFiles, live, fault>>,
         \A u \in Thread \ {t} : /\ pc'[u] = pc[u] /\ ret'[u] = ret[u]
                                 /\ fn'[u] = fn[u] /\ f'[u] = f[u]
                                 /\ mine'[u] = mine[u],
         pc[t] \notin {"store", "clear"}, pc'[t] \notin {"store", "clear"},
         Local(t)'
  PROVE  IInv'
<1>1. Clearing' = Clearing
  BY DEF Clearing
<1>2. ASSUME NEW u \in Thread PROVE Local(u)'
  BY <1>2 DEF IInv, Local
<1>3. Distinct' /\ Fresh'
  BY <1>1 DEF IInv, Distinct, Fresh
<1> QED BY <1>2, <1>3 DEF IInv

LEMMA StepIsolated ==
  ASSUME Isolated, IInv, NEW t \in Thread, Step(t) PROVE IInv'
<1> TypeInv'
  BY StepType DEF IInv
<1> USE DEF IInv, TypeInv, TypeOK, Goto
<1>1. CASE ScanEntry(t)
  BY <1>1 DEF ScanEntry, Local
<1>2. CASE MakeStream(t)
  <2>1. PICK s \in Stream \ live, opened \in BOOLEAN :
           /\ live' = live \cup {s}
           /\ IF opened /\ fn[t] > 0
              THEN /\ f' = [f EXCEPT ![t] = s]
                   /\ Goto(t, "store")
                   /\ UNCHANGED mine
              ELSE (Throws(t) \/ Caught(t)) /\ UNCHANGED f
    BY <1>2 DEF MakeStream
  <2>2. Clearing' = Clearing
    BY <1>2, <2>1 DEF MakeStream, Clearing, Throws, Caught
  <2>3. Distinct'
    BY <1>2, <2>1, <2>2, FileAssumption DEF MakeStream, Distinct
  <2>4. CASE opened /\ fn[t] > 0
    <3>1. ASSUME NEW u \in Thread PROVE Local(u)'
      BY <1>2, <2>1, <2>4, <3>1 DEF MakeStream, Local
    <3>2. Fresh'
      BY <1>2, <2>1, <2>2, <2>4, FileAssumption DEF MakeStream, Fresh, Distinct
    <3> QED BY <1>2, <2>3, <3>1, <3>2 DEF MakeStream
  <2>5. CASE ~(opened /\ fn[t] > 0)
    <3>1. ASSUME NEW u \in Thread PROVE Local(u)'
      BY <1>2, <2>1, <2>5, <3>1 DEF MakeStream, Local, Throws, Caught
    <3>2. Fresh'
      BY <1>2, <2>1, <2>2, <2>5 DEF MakeStream, Fresh, Throws, Caught
    <3> QED BY <1>2, <2>3, <3>1, <3>2 DEF MakeStream
  <2> QED BY <2>4, <2>5
<1>3. CASE StoreStream(t)
  <2>1. fn[t] \in Literal[t] /\ fn[t] \in FileNo /\ fn[t] \notin Clearing
    BY <1>3, OwnNumber DEF StoreStream, Local, NumberInRange
  <2>2. Clearing' = Clearing
    BY <1>3 DEF StoreStream, Clearing
  <2>3. ASSUME NEW u \in Thread PROVE Local(u)'
    <3>1. CASE u = t
      BY <1>3, <2>1, <3>1 DEF StoreStream, Local
    <3>2. CASE u # t
      BY <1>3, <2>1, <3>2 DEF StoreStream, Local, Isolated
    <3> QED BY <3>1, <3>2
  <2>4. Distinct'
    BY <1>3, <2>1, <2>2 DEF StoreStream, Distinct, Fresh
  <2>5. Fresh'
    BY <1>3, <2>1, <2>2 DEF StoreStream, Fresh
  <2> QED BY <1>3, <2>3, <2>4, <2>5 DEF StoreStream
<1>4. CASE ReadEntry(t)
  <2>1. fn[t] \in FileNo \ Clearing /\ OpenFiles[fn[t]] # Null
    BY <1>4, OwnNumber DEF ReadEntry, Local, NumberInRange
  <2>2. OpenFiles[fn[t]] \in live
    BY <2>1 DEF Distinct
  <2>3. Local(t)'
    BY <1>4, <2>2 DEF ReadEntry, Local
  <2> QED BY <1>4, <2>2, <2>3, QuietStep DEF ReadEntry
<1>5. CASE DeleteStream(t)
  <2>1. fn[t] \in FileNo \ Clearing /\ f[t] = OpenFiles[fn[t]] /\ f[t] # Null
    BY <1>5, OwnNumber DEF DeleteStream, Local, NumberInRange
  <2>2. f[t] \in live
    BY <2>1 DEF Distinct
  <2>3. Clearing' = Clearing \cup {fn[t]}
    BY <1>5, <2>2 DEF DeleteStream, Clearing
  <2>4. ASSUME NEW u \in Thread PROVE Local(u)'
    BY <1>5, <2>2, <2>4 DEF DeleteStream, Local
  <2>5. Distinct'
    BY <1>5, <2>1, <2>2, <2>3 DEF DeleteStream, Distinct
  <2>6. Fresh'
    BY <1>5, <2>1, <2>2, <2>3 DEF DeleteStream, Fresh
  <2> QED BY <1>5, <2>2, <2>4, <2>5, <2>6 DEF DeleteStream
<1>6. CASE ClearEntry(t)
  <2>1. /\ fn[t] \in Literal[t] /\ fn[t] \in FileNo
        /\ fn' = fn /\ pc' = [pc EXCEPT ![t] = ret[t]]
    BY <1>6 DEF ClearEntry, Local, NumberInRange
  <2>2. Clearing' = Clearing \ {fn[t]}
    <3>1. \A u \in Thread : pc[u] = "clear" /\ fn[u] = fn[t] => u = t
      BY <2>1 DEF Local, Isolated
    <3> QED BY <1>6, <2>1, <3>1 DEF ClearEntry, Clearing
  <2>3. ASSUME NEW u \in Thread PROVE Local(u)'
    <3>1. CASE u = t
      BY <1>6, <2>1, <3>1 DEF ClearEntry, Local
    <3>2. CASE u # t
      BY <1>6, <2>1, <3>2 DEF ClearEntry, Local, Isolated
    <3> QED BY <3>1, <3>2
  <2>4. Distinct'
    BY <1>6, <2>1, <2>2 DEF ClearEntry, Distinct
  <2>5. Fresh'
    BY <1>6, <2>1, <2>2, FileAssumption DEF ClearEntry, Fresh
  <2> QED BY <1>6, <2>3, <2>4, <2>5 DEF ClearEntry
<1>7. CASE CloseAllEntry(t)
  BY <1>7 DEF CloseAllEntry, Local
<1>8. CASE Unwind(t)
  <2>1. Local(t)'
    BY <1>8 DEF Unwind, Local, Held
  <2> QED BY <1>8, <2>1, QuietStep DEF Unwind
<1> QED BY <1>1, <1>2, <1>3, <1>4, <1>5, <1>6, <1>7, <1>8 DEF Step

LEMMA CallIsolated ==
  ASSUME Isolated, IInv, NEW t \in Thread, Call(t) PROVE IInv'
<1> TypeInv'
  BY CallType DEF IInv
<1> USE DEF IInv, TypeInv, TypeOK, Goto
<1>1. CASE CallFreeFile(t)
  BY <1>1 DEF CallFreeFile, Isolated
<1>2. CASE UseLiteral(t)
  <2>1. Local(t)'
    BY <1>2 DEF UseLiteral, Local, Running
  <2> QED BY <1>2, <2>1, QuietStep DEF UseLiteral, Running
<1>3. CASE Access(t)
  <2>1. \A n \in Held(t) : OpenFiles[n] \in live
    <3> SUFFICES ASSUME NEW n \in Held(t) PROVE OpenFiles[n] \in live
      OBVIOUS
    <3>1. n \in FileNo \ Clearing
      BY <1>3, OwnNumber DEF Access, Running, Held, Local
    <3> QED BY <3>1 DEF Held, Local, Distinct
  <2>2. Local(t)'
    BY <1>3 DEF Access, Local
  <2> QED BY <1>3, <2>1, <2>2, QuietStep DEF Access, Running
<1>4. CASE CallClose(t)
  <2>1. Local(t)'
    BY <1>4 DEF CallClose, Local, Running, Held
  <2> QED BY <1>4, <2>1, QuietStep DEF CallClose, Running
<1>5. CASE CallCloseAll(t)
  BY <1>5 DEF CallCloseAll, Isolated
<1>6. CASE Leave(t)
  <2>1. Local(t)'
    BY <1>6 DEF Leave, Local, Running, Throws
  <2> QED BY <1>6, <2>1, QuietStep DEF Leave, Running, Throws
<1> QED BY <1>1, <1>2, <1>3, <1>4, <1>5, <1>6 DEF Call

LEMMA NextIsolated == Isolated /\ IInv /\ [Next]_vars => IInv'
<1> SUFFICES ASSUME Isolated, IInv, [Next]_vars PROVE IInv'
  OBVIOUS
<1>1. CASE UNCHANGED vars
  BY <1>1 DEF vars, IInv, TypeInv, TypeOK, NumberInRange, Local, Distinct, Fresh, Clearing
<1>2. ASSUME NEW t \in Thread, Step(t) \/ Call(t) PROVE IInv'
  BY <1>2, StepIsolated, CallIsolated
<1> QED BY <1>1, <1>2 DEF Next

LEMMA IsolatedInv == Isolated => (Spec => []IInv)
<1> SUFFICES ASSUME Isolated PROVE Spec => []IInv
  OBVIOUS
<1>1. Init => IInv
  BY InitIsolated
<1>2. IInv /\ [Next]_vars => IInv'
  BY NextIsolated
<1> QED BY <1>1, <1>2, PTL DEF Spec

\* Threads with numbers of their own never use a null or a freed stream, ...
THEOREM IsolatedNoFault == Isolated => (Spec => []NoFault)
<1> SUFFICES ASSUME Isolated PROVE Spec => []NoFault
  OBVIOUS
<1>1. IInv => NoFault
  BY DEF IInv, NoFault
<1> QED BY <1>1, IsolatedInv, PTL

\* ... and whatever other threads open, store, delete and clear in between, the
\* numbers a thread has open denote the streams it opened.
THEOREM IsolatedNumbers == Isolated => (Spec => []NumbersAreMine)
<1> SUFFICES ASSUME Isolated PROVE Spec => []NumbersAreMine
  OBVIOUS
<1>1. IInv => NumbersAreMine
  <2> SUFFICES ASSUME IInv, NEW t \in Thread, NEW n \in Held(t)
               PROVE  /\ OpenFiles[n] = mine[t][n]
                      /\ mine[t][n] \in live \/ (pc[t] = "clear" /\ fn[t] = n)
    BY DEF NumbersAreMine
  <2>1. n \in FileNo /\ n \in Literal[t] /\ OpenFiles[n] = mine[t][n] /\ mine[t][n] # Null
    BY DEF IInv, Local, Held
  <2>2. CASE n \in Clearing
    BY <2>1, <2>2, OwnNumber DEF IInv
  <2>3. CASE n \notin Clearing
    BY <2>1, <2>3 DEF IInv, Distinct
  <2> QED BY <2>1, <2>2, <2>3
<1> QED BY <1>1, IsolatedInv, PTL

-----------------------------------------------------------------------------
(* One thread alone, with any numbers: those of FreeFile, those of its text, *)
(* and Close of all files.                                                   *)

\* What the table holds is open, and no two numbers share it.
TableOf(t) ==
    /\ \A n \in FileNo : mine[t][n] # Null => OpenFiles[n] = mine[t][n]
    /\ TableSound
    /\ Deferred => \A n \in FileNo : OpenFiles[n] # Null => mine[t][n] # Null

\* The number that Open was given is free, and the stream it stores is new.
Opening(t) ==
    /\ pc[t] = "scan" => \A m \in FileNo : m < fn[t] => OpenFiles[m] # Null
    /\ pc[t] = "open" /\ fn[t] = 0 => TableFull
    /\ pc[t] \in {"open", "store"} /\ fn[t] # 0 /\ (UseFreeFile \/ Deferred)
          => OpenFiles[fn[t]] = Null
    /\ pc[t] = "store" => /\ f[t] \in live \ failed
                          /\ \A m \in FileNo : OpenFiles[m] # f[t]

\* Close works on a number that is open; one of all files has come this far.
Closing(t) ==
    /\ pc[t] \in {"close", "delete", "clear"} => OpenFiles[fn[t]] # Null
    /\ pc[t] \in {"delete", "clear"} => f[t] = OpenFiles[fn[t]]
    /\ pc[t] = "clear" => f[t] \notin live
    /\ pc[t] = "all" => ret[t] = "all"
    /\ ret[t] = "all" /\ pc[t] \in {"close", "delete", "clear", "all"}
          => \A m \in FileNo : m < fn[t] => OpenFiles[m] = Null

AloneInv(t) == TypeInv /\ fault = {} /\ TableOf(t) /\ Opening(t) /\ Closing(t)

LEMMA InitAlone ==
  ASSUME NEW t \in Thread, Init PROVE AloneInv(t)
<1>1. TypeInv
  BY InitType
<1>2. TableSound
  BY DEF Init, TableSound
<1>. QED  BY <1>1, <1>2 DEF Init, AloneInv, TableOf, Opening, Closing

\* What is being cleared, when there is one thread.
LEMMA AloneClearing ==
  ASSUME NEW t, Thread = {t}
  PROVE  /\ Clearing = IF pc[t] = "clear" THEN {fn[t]} ELSE {}
         /\ Clearing' = IF pc'[t] = "clear" THEN {fn'[t]} ELSE {}
  BY DEF Clearing

\* A step that leaves the table and the streams alone and is not clearing.
LEMMA AloneCalm ==
  ASSUME NEW t, Thread = {t}, AloneInv(t), TypeInv', UNCHANGED <<OpenFiles, live, failed, mine, fault>>,
         pc[t] # "clear", pc'[t] # "clear", Opening(t)', Closing(t)'
  PROVE  AloneInv(t)'
<1>1. Clearing' = Clearing
  BY AloneClearing
<1>2. TableSound'
  BY <1>1 DEF AloneInv, TableOf, TableSound
<1>. QED  BY <1>2 DEF AloneInv, TableOf

LEMMA StepAlone ==
  ASSUME NEW t, Thread = {t}, AloneInv(t), Step(t) PROVE AloneInv(t)'
<1> t \in Thread
  OBVIOUS
<1> TypeInv'
  BY StepType DEF AloneInv
<1> USE DEF AloneInv, TypeInv, TypeOK, Goto
<1>1. CASE ScanEntry(t)
  <2>1. Opening(t)'
    <3>1. CASE OpenFiles[fn[t]] = Null
      BY <1>1, <3>1, FileAssumption DEF ScanEntry, Opening, FileNo, NumberInRange
    <3>2. CASE OpenFiles[fn[t]] # Null /\ fn[t] + 1 < MAX_OPEN_FILES
      BY <1>1, <3>2, FileAssumption DEF ScanEntry, Opening, FileNo, NumberInRange
    <3>3. CASE OpenFiles[fn[t]] # Null /\ ~(fn[t] + 1 < MAX_OPEN_FILES)
      <4>1. \A m \in FileNo : OpenFiles[m] # Null
        BY <1>1, <3>3, FileAssumption DEF ScanEntry, Opening, FileNo, NumberInRange
      <4>. QED  BY <1>1, <3>3, <4>1 DEF ScanEntry, Opening, TableFull
    <3>. QED  BY <3>1, <3>2, <3>3
  <2>2. Closing(t)' /\ pc[t] # "clear" /\ pc'[t] # "clear"
    BY <1>1 DEF ScanEntry, Closing
  <2>. QED  BY <1>1, <2>1, <2>2, AloneCalm DEF ScanEntry
<1>2. CASE MakeStream(t)
  <2>1. PICK s \in Stream \ live, opened \in BOOLEAN :
           /\ live' = live \cup {s}
           /\ failed' = IF opened THEN failed ELSE failed \cup {s}
           /\ IF opened /\ fn[t] > 0
              THEN /\ f' = [f EXCEPT ![t] = s]
                   /\ Goto(t, "store")
                   /\ UNCHANGED mine
              ELSE (Throws(t) \/ Caught(t)) /\ UNCHANGED f
    BY <1>2 DEF MakeStream
  <2>2. pc[t] = "open" /\ pc'[t] \in {"store", "run", "unwind"} /\ UNCHANGED <<OpenFiles, fn, ret, fault>>
    BY <1>2, <2>1 DEF MakeStream, Throws, Caught
  <2>3. Clearing = {} /\ Clearing' = {}
    BY <2>2, AloneClearing
  <2>4. TableSound
    BY DEF TableOf
  <2>5. live \ failed \subseteq live' \ failed' /\ s \notin live
    BY <2>1
  <2>6. TableSound'
    BY <2>2, <2>3, <2>4, <2>5 DEF TableSound
  <2>7. \A m \in FileNo : OpenFiles[m] # s
    BY <2>1, <2>3, <2>4, FileAssumption DEF TableSound
  <2>8. mine'[t] = mine[t] \/ (~Deferred /\ mine'[t] = [n \in FileNo |-> Null])
    BY <2>1 DEF Throws, Caught
  <2>9. TableOf(t)'
    BY <2>2, <2>6, <2>8 DEF TableOf
  <2>10. Opening(t)'
    BY <2>1, <2>2, <2>7 DEF Opening, Throws, Caught
  <2>11. Closing(t)'
    BY <2>2 DEF Closing
  <2>. QED  BY <2>2, <2>9, <2>10, <2>11
<1>3. CASE StoreStream(t)
  <2>1. /\ pc[t] = "store" /\ pc'[t] = "run" /\ fn[t] \in FileNo
        /\ OpenFiles' = [OpenFiles EXCEPT ![fn[t]] = f[t]]
        /\ mine' = [mine EXCEPT ![t][fn[t]] = f[t]]
        /\ UNCHANGED <<live, failed, fault>>
    BY <1>3 DEF StoreStream, NumberInRange
  <2>2. Clearing = {} /\ Clearing' = {}
    BY <2>1, AloneClearing
  <2>3. f[t] \in live \ failed /\ \A m \in FileNo : OpenFiles[m] # f[t]
    BY <2>1 DEF Opening
  <2>4. TableSound'
    BY <2>1, <2>2, <2>3 DEF TableOf, TableSound
  <2>5. TableOf(t)'
    BY <2>1, <2>3, <2>4, FileAssumption DEF TableOf
  <2>. QED  BY <2>1, <2>5 DEF Opening, Closing
<1>4. CASE ReadEntry(t)
  <2>1. pc[t] = "close" /\ fn[t] \in FileNo /\ OpenFiles[fn[t]] # Null
    BY <1>4 DEF ReadEntry, NumberInRange, Closing
  <2>2. OpenFiles[fn[t]] \in live
    BY <2>1, AloneClearing DEF TableOf, TableSound
  <2>3. /\ pc'[t] = "delete" /\ f'[t] = OpenFiles[fn[t]]
        /\ UNCHANGED <<OpenFiles, live, failed, fault, mine, fn, ret>>
    BY <1>4, <2>2 DEF ReadEntry
  <2>4. Opening(t)' /\ Closing(t)'
    BY <2>1, <2>3 DEF Opening, Closing
  <2>. QED  BY <2>1, <2>3, <2>4, AloneCalm
<1>5. CASE DeleteStream(t)
  <2>1. /\ pc[t] = "delete" /\ fn[t] \in FileNo /\ OpenFiles[fn[t]] # Null
        /\ f[t] = OpenFiles[fn[t]]
    BY <1>5 DEF DeleteStream, NumberInRange, Closing
  <2>2. Clearing = {}
    BY <2>1, AloneClearing
  <2>3. f[t] \in live
    BY <2>1, <2>2 DEF TableOf, TableSound
  <2>4. /\ pc'[t] = "clear" /\ live' = live \ {f[t]} /\ failed' = failed \ {f[t]}
        /\ UNCHANGED <<OpenFiles, fault, mine, fn, ret, f>>
    BY <1>5, <2>3 DEF DeleteStream
  <2>5. Clearing' = {fn[t]}
    BY <2>4, AloneClearing
  <2>6. TableSound'
    BY <2>1, <2>2, <2>4, <2>5 DEF TableOf, TableSound
  <2>7. TableOf(t)'
    BY <2>4, <2>6 DEF TableOf
  <2>8. Opening(t)' /\ Closing(t)'
    BY <2>1, <2>4 DEF Opening, Closing
  <2>. QED  BY <2>4, <2>7, <2>8
<1>6. CASE ClearEntry(t)
  <2>1. /\ pc[t] = "clear" /\ fn[t] \in FileNo
        /\ OpenFiles' = [OpenFiles EXCEPT ![fn[t]] = Null]
        /\ mine' = [mine EXCEPT ![t][fn[t]] = Null]
        /\ UNCHANGED <<live, failed, ret, f, fault>>
    BY <1>6 DEF ClearEntry, NumberInRange
  <2>2. \/ /\ ret[t] = "all" /\ fn[t] + 1 < MAX_OPEN_FILES /\ fn'[t] = fn[t] + 1 /\ pc'[t] = "all"
        \/ ret[t] = "all" /\ ~(fn[t] + 1 < MAX_OPEN_FILES) /\ pc'[t] = "run" /\ fn' = fn
        \/ ret[t] # "all" /\ pc'[t] = ret[t] /\ fn' = fn
    BY <1>6 DEF ClearEntry, NextNumber
  <2>3. Clearing = {fn[t]} /\ Clearing' = {}
    <3>1. pc'[t] # "clear"
      BY <2>2
    <3>. QED  BY <2>1, <3>1, AloneClearing
  <2>4. TableSound'
    BY <2>1, <2>3 DEF TableOf, TableSound
  <2>5. TableOf(t)'
    BY <2>1, <2>4 DEF TableOf
  <2>6. pc'[t] \in {"run", "unwind", "all"}
    BY <2>2
  <2>7. Opening(t)'
    BY <2>6 DEF Opening
  <2>8. Closing(t)'
    <3>1. CASE pc'[t] = "all"
      <4>1. ret[t] = "all" /\ fn'[t] = fn[t] + 1
        BY <2>2, <3>1
      <4>2. \A m \in FileNo : m < fn[t] => OpenFiles[m] = Null
        BY <2>1, <4>1 DEF Closing
      <4>3. \A m \in FileNo : m < fn[t] + 1 => m < fn[t] \/ m = fn[t]
        BY <2>1, FileAssumption DEF FileNo
      <4>4. \A m \in FileNo : m < fn'[t] => OpenFiles'[m] = Null
        BY <2>1, <4>1, <4>2, <4>3
      <4>. QED  BY <2>1, <3>1, <4>1, <4>4 DEF Closing
    <3>2. CASE pc'[t] # "all"
      BY <2>6, <3>2 DEF Closing
    <3>. QED  BY <3>1, <3>2
  <2>. QED  BY <2>1, <2>5, <2>7, <2>8
<1>7. CASE CloseAllEntry(t)
  <2>1. /\ pc[t] = "all" /\ ret[t] = "all" /\ fn[t] \in FileNo
        /\ UNCHANGED <<OpenFiles, live, failed, ret, f, mine, fault>>
        /\ \A m \in FileNo : m < fn[t] => OpenFiles[m] = Null
    BY <1>7 DEF CloseAllEntry, NumberInRange, Closing
  <2>2. \/ OpenFiles[fn[t]] # Null /\ pc'[t] = "close" /\ fn' = fn
        \/ OpenFiles[fn[t]] = Null /\ pc'[t] = "all" /\ fn'[t] = fn[t] + 1
        \/ OpenFiles[fn[t]] = Null /\ pc'[t] = "run" /\ fn' = fn
    BY <1>7 DEF CloseAllEntry, NextNumber
  <2>3. \A m \in FileNo : m < fn[t] + 1 => m < fn[t] \/ m = fn[t]
    BY <2>1, FileAssumption DEF FileNo
  <2>4. Opening(t)' /\ Closing(t)'
    BY <2>1, <2>2, <2>3 DEF Opening, Closing
  <2>. QED  BY <2>1, <2>2, <2>4, AloneCalm
<1>8. CASE Unwind(t)
  <2>1. Opening(t)' /\ pc[t] = "unwind" /\ pc'[t] \in {"run", "close"}
    BY <1>8 DEF Unwind, Opening
  <2>2. Closing(t)'
    <3>1. CASE Held(t) = {}
      BY <1>8, <3>1 DEF Unwind, Closing
    <3>2. CASE Held(t) # {}
      <4>1. PICK n \in Held(t) : fn' = [fn EXCEPT ![t] = n]
        BY <1>8, <3>2 DEF Unwind
      <4>2. n \in FileNo /\ OpenFiles[n] # Null
        BY DEF Held, TableOf
      <4>3. pc'[t] = "close" /\ ret'[t] = "unwind" /\ OpenFiles' = OpenFiles /\ fn'[t] = n
        BY <1>8, <3>2, <4>1 DEF Unwind
      <4>. QED  BY <4>2, <4>3 DEF Closing
    <3>. QED  BY <3>1, <3>2
  <2>. QED  BY <1>8, <2>1, <2>2, AloneCalm DEF Unwind
<1>. QED  BY <1>1, <1>2, <1>3, <1>4, <1>5, <1>6, <1>7, <1>8 DEF Step


LEMMA CallAlone ==
  ASSUME NEW t, Thread = {t}, AloneInv(t), Call(t) PROVE AloneInv(t)'
<1> t \in Thread
  OBVIOUS
<1> TypeInv'
  BY CallType DEF AloneInv
<1> USE DEF AloneInv, TypeInv, TypeOK, Goto
<1>1. CASE CallFreeFile(t)
  <2>1. pc[t] = "run" /\ pc'[t] = "scan" /\ fn'[t] = 1
    BY <1>1 DEF CallFreeFile, Running
  <2>2. Opening(t)' /\ Closing(t)'
    BY <2>1 DEF Opening, Closing, FileNo
  <2>. QED  BY <1>1, <2>1, <2>2, AloneCalm DEF CallFreeFile
<1>2. CASE UseLiteral(t)
  <2>1. PICK n \in Literal[t] \ Held(t) : fn' = [fn EXCEPT ![t] = n]
    BY <1>2 DEF UseLiteral
  <2>2. /\ pc[t] = "run" /\ pc'[t] = "open" /\ fn'[t] = n /\ ~UseFreeFile
        /\ UNCHANGED <<OpenFiles, live, failed, ret, f, mine, fault>>
    BY <1>2, <2>1 DEF UseLiteral, Running
  <2>3. n \in FileNo /\ n # 0
    BY <2>1, FileAssumption DEF FileNo
  <2>4. mine[t][n] = Null
    BY <2>1, <2>3 DEF Held
  <2>5. Deferred => OpenFiles[n] = Null
    BY <2>3, <2>4 DEF TableOf
  <2>6. Opening(t)' /\ Closing(t)'
    BY <2>2, <2>3, <2>5 DEF Opening, Closing
  <2>. QED  BY <2>2, <2>6, AloneCalm
<1>3. CASE Access(t)
  <2>1. pc[t] = "run" /\ Clearing = {}
    BY <1>3, AloneClearing DEF Access, Running
  <2>2. \A n \in Held(t) : OpenFiles[n] \in live
    BY <2>1 DEF Held, TableOf, TableSound
  <2>3. UNCHANGED <<OpenFiles, live, failed, pc, ret, fn, f, mine, fault>>
    BY <1>3, <2>2 DEF Access
  <2>4. Opening(t)' /\ Closing(t)'
    BY <2>1, <2>3 DEF Opening, Closing
  <2>. QED  BY <2>1, <2>3, <2>4, AloneCalm
<1>4. CASE CallClose(t)
  <2>1. PICK n \in Held(t) : fn' = [fn EXCEPT ![t] = n]
    BY <1>4 DEF CallClose
  <2>2. /\ pc[t] = "run" /\ pc'[t] = "close" /\ ret'[t] = "run" /\ fn'[t] = n
        /\ UNCHANGED <<OpenFiles, live, failed, f, mine, fault>>
    BY <1>4, <2>1 DEF CallClose, Running
  <2>3. n \in FileNo /\ OpenFiles[n] # Null
    BY DEF Held, TableOf
  <2>4. Opening(t)' /\ Closing(t)'
    BY <2>2, <2>3 DEF Opening, Closing
  <2>. QED  BY <2>2, <2>4, AloneCalm
<1>5. CASE CallCloseAll(t)
  <2>1. /\ pc[t] = "run" /\ pc'[t] = "all" /\ ret'[t] = "all" /\ fn'[t] = 1
        /\ UNCHANGED <<OpenFiles, live, failed, f, mine, fault>>
    BY <1>5 DEF CallCloseAll, Running
  <2>2. Opening(t)' /\ Closing(t)'
    BY <2>1 DEF Opening, Closing, FileNo
  <2>. QED  BY <2>1, <2>2, AloneCalm
<1>6. CASE Leave(t)
  <2>1. /\ pc[t] = "run" /\ pc'[t] \in {"run", "unwind"}
        /\ UNCHANGED <<OpenFiles, live, failed, ret, fn, f, fault>>
    BY <1>6 DEF Leave, Running, Throws
  <2>2. mine'[t] = mine[t] \/ (~Deferred /\ mine'[t] = [n \in FileNo |-> Null])
    BY <1>6 DEF Leave, Throws
  <2>3. Clearing = {} /\ Clearing' = {}
    BY <2>1, AloneClearing
  <2>4. TableSound'
    BY <2>1, <2>3 DEF TableOf, TableSound
  <2>5. TableOf(t)'
    BY <2>1, <2>2, <2>4 DEF TableOf
  <2>6. Opening(t)' /\ Closing(t)'
    BY <2>1 DEF Opening, Closing
  <2>. QED  BY <2>1, <2>5, <2>6
<1>. QED  BY <1>1, <1>2, <1>3, <1>4, <1>5, <1>6 DEF Call

LEMMA AloneInductive ==
  ASSUME NEW t, Thread = {t} PROVE Spec => []AloneInv(t)
<1>1. Init => AloneInv(t)
  BY InitAlone
<1>2. AloneInv(t) /\ [Next]_vars => AloneInv(t)'
  <2> SUFFICES ASSUME AloneInv(t), [Next]_vars PROVE AloneInv(t)'
    OBVIOUS
  <2>1. CASE UNCHANGED vars
    <3>1. TypeInv'
      BY <2>1, NextType DEF AloneInv
    <3>2. UNCHANGED Clearing
      BY <2>1 DEF vars, Clearing
    <3>. QED  BY <2>1, <3>1, <3>2
              DEF vars, AloneInv, TableOf, TableSound, Opening, Closing, TableFull
  <2>2. CASE Next
    BY <2>2, StepAlone, CallAlone DEF Next
  <2>. QED  BY <2>1, <2>2
<1>. QED  BY <1>1, <1>2, PTL DEF Spec

\* Close of all files has come to its last number when it returns.
LEMMA AloneAllClosed ==
  ASSUME NEW t, Thread = {t}, AloneInv(t), [Next]_vars,
         pc[t] \in {"all", "clear"}, ret[t] = "all", pc'[t] = "run"
  PROVE  OpenFiles' = [n \in FileNo |-> Null]
<1> USE DEF AloneInv, TypeInv, TypeOK, Goto
<1>1. \/ /\ pc[t] = "clear" /\ OpenFiles' = [OpenFiles EXCEPT ![fn[t]] = Null]
         /\ ~(fn[t] + 1 < MAX_OPEN_FILES)
      \/ /\ pc[t] = "all" /\ OpenFiles' = OpenFiles /\ OpenFiles[fn[t]] = Null
         /\ ~(fn[t] + 1 < MAX_OPEN_FILES)
  <2>1. pc' # pc
    OBVIOUS
  <2>2. Step(t) \/ Call(t)
    BY <2>1 DEF Next, vars
  <2>3. ClearEntry(t) \/ CloseAllEntry(t)
    BY <2>2 DEF Step, Call, ScanEntry, MakeStream, StoreStream, ReadEntry, DeleteStream, Unwind,
         CallFreeFile, UseLiteral, Access, CallClose, CallCloseAll, Leave, Running
  <2>. QED  BY <2>3 DEF ClearEntry, CloseAllEntry, NextNumber
<1>2. fn[t] \in FileNo /\ \A m \in FileNo : m < fn[t] => OpenFiles[m] = Null
  BY DEF NumberInRange, Closing
<1>3. \A m \in FileNo : m < fn[t] \/ m = fn[t]
  BY <1>1, <1>2, FileAssumption DEF FileNo
<1>4. \A m \in FileNo : OpenFiles'[m] = Null
  BY <1>1, <1>2, <1>3
<1>5. OpenFiles' = [m \in FileNo |-> OpenFiles'[m]]
  BY <1>1
<1>. QED  BY <1>4, <1>5


\* A new stream is stored next, or it has number 0; the entry that an Open
\* overwrites is null, and the entry that a Close clears has a deleted stream.
LEMMA AloneNothingLost ==
  ASSUME NEW t, Thread = {t}, UseFreeFile \/ Deferred, AloneInv(t), [Next]_vars,
         NEW s \in live' \ failed', s \notin live \/ Placed(s)
  PROVE  Placed(s)' \/ TableFull
<1> t \in Thread
  OBVIOUS
<1> USE DEF AloneInv, TypeInv, TypeOK, Goto
<1>0. ASSUME UNCHANGED <<OpenFiles, live>>, pc[t] # "store" PROVE Placed(s)'
  BY <1>0 DEF Placed
<1>1. CASE UNCHANGED vars
  BY <1>1 DEF vars, Placed
<1>2. CASE MakeStream(t)
  <2>1. PICK r \in Stream \ live, opened \in BOOLEAN :
           /\ live' = live \cup {r}
           /\ failed' = IF opened THEN failed ELSE failed \cup {r}
           /\ IF opened /\ fn[t] > 0
              THEN /\ f' = [f EXCEPT ![t] = r]
                   /\ Goto(t, "store")
                   /\ UNCHANGED mine
              ELSE (Throws(t) \/ Caught(t)) /\ UNCHANGED f
    BY <1>2 DEF MakeStream
  <2>2. pc[t] = "open" /\ OpenFiles' = OpenFiles
    BY <1>2 DEF MakeStream
  <2>3. CASE s \in live
    BY <2>2, <2>3 DEF Placed
  <2>4. CASE s \notin live
    <3>1. s = r /\ opened
      BY <2>1, <2>4
    <3>2. CASE fn[t] > 0
      BY <2>1, <3>1, <3>2 DEF Placed
    <3>3. CASE ~(fn[t] > 0)
      <4>1. fn[t] = 0
        BY <3>3, FileAssumption
      <4>. QED  BY <2>2, <4>1 DEF Opening
    <3>. QED  BY <3>2, <3>3
  <2>. QED  BY <2>3, <2>4
<1>3. CASE StoreStream(t)
  <2>1. /\ pc[t] = "store" /\ fn[t] \in FileNo /\ live' = live
        /\ OpenFiles' = [OpenFiles EXCEPT ![fn[t]] = f[t]]
    BY <1>3 DEF StoreStream, NumberInRange
  <2>2. fn[t] # 0
    BY <2>1, FileAssumption DEF FileNo
  <2>3. OpenFiles[fn[t]] = Null /\ s # Null
    BY <2>1, <2>2, FileAssumption DEF Opening
  <2>4. CASE s = f[t]
    BY <2>1, <2>4 DEF Placed
  <2>5. CASE s # f[t]
    <3>1. PICK n \in FileNo : OpenFiles[n] = s
      BY <2>1, <2>5 DEF Placed
    <3>2. OpenFiles'[n] = s
      BY <2>1, <2>3, <3>1
    <3>. QED  BY <3>2 DEF Placed
  <2>. QED  BY <2>4, <2>5
<1>4. CASE DeleteStream(t)
  <2>1. pc[t] = "delete" /\ OpenFiles' = OpenFiles /\ live' \subseteq live
    BY <1>4 DEF DeleteStream
  <2>. QED  BY <2>1 DEF Placed
<1>5. CASE ClearEntry(t)
  <2>1. /\ pc[t] = "clear" /\ fn[t] \in FileNo /\ live' = live
        /\ OpenFiles' = [OpenFiles EXCEPT ![fn[t]] = Null]
    BY <1>5 DEF ClearEntry, NumberInRange
  <2>2. s # OpenFiles[fn[t]]
    BY <2>1 DEF Closing
  <2>3. PICK n \in FileNo : OpenFiles[n] = s
    BY <2>1 DEF Placed
  <2>4. OpenFiles'[n] = s
    BY <2>1, <2>2, <2>3
  <2>. QED  BY <2>4 DEF Placed
<1>6. CASE ScanEntry(t) \/ ReadEntry(t) \/ CloseAllEntry(t) \/ Unwind(t)
  BY <1>0, <1>6 DEF ScanEntry, ReadEntry, CloseAllEntry, Unwind
<1>7. CASE Call(t)
  BY <1>0, <1>7 DEF Call, CallFreeFile, UseLiteral, Access, CallClose, CallCloseAll, Leave, Running
<1>. QED  BY <1>1, <1>2, <1>3, <1>4, <1>5, <1>6, <1>7 DEF Next, Step

\* In a program of one thread every Close and every access finds its stream,
\* and a number denotes the stream that was opened with it, ...
THEOREM AloneNumbers ==
  ASSUME NEW t, Thread = {t} PROVE Spec => [](NoFault /\ NumbersAreMine)
<1>1. AloneInv(t) => NoFault /\ NumbersAreMine
  <2> SUFFICES ASSUME AloneInv(t) PROVE NoFault /\ NumbersAreMine
    OBVIOUS
  <2>1. ASSUME NEW n \in Held(t)
        PROVE  /\ OpenFiles[n] = mine[t][n]
               /\ mine[t][n] \in live \/ (pc[t] = "clear" /\ fn[t] = n)
    <3>1. n \in FileNo /\ OpenFiles[n] = mine[t][n] /\ mine[t][n] # Null
      BY DEF Held, AloneInv, TableOf
    <3>2. CASE n \in Clearing
      BY <3>1, <3>2, AloneClearing
    <3>3. CASE n \notin Clearing
      BY <3>1, <3>3 DEF AloneInv, TableOf, TableSound
    <3>. QED  BY <3>1, <3>2, <3>3
  <2>. QED  BY <2>1 DEF AloneInv, NoFault, NumbersAreMine
<1>. QED  BY <1>1, AloneInductive, PTL

\* ... no two entries share a stream, no open stream gets out of reach when its
\* number comes from FreeFile or is closed by a Defer, and Close of all files
\* leaves the table empty.
THEOREM AloneKept ==
  ASSUME NEW t, Thread = {t}, UseFreeFile \/ Deferred PROVE Spec => EntriesKept
<1>1. AloneInv(t) => TableSound
  BY DEF AloneInv, TableOf
<1>2. AloneInv(t) /\ [Next]_vars => StreamsStay
  BY AloneNothingLost DEF StreamsStay
<1>3. AloneInv(t) /\ [Next]_vars => CloseEmpties
  BY AloneAllClosed DEF CloseEmpties
<1>. QED  BY <1>1, <1>2, <1>3, AloneInductive, PTL DEF Spec, EntriesKept, NothingLost, AllClosed


-----------------------------------------------------------------------------
(* Threads with numbers of their own that defer every Close. *)

\* What is in the table or about to be stored there was opened.
Unfailed ==
    /\ \A m \in FileNo \ Clearing : OpenFiles[m] \notin failed
    /\ \A u \in Thread : pc[u] = "store" => f[u] \notin failed

\* An entry belongs to the thread that has the number open, and an Open works
\* on a number that its thread does not have open.
Owned ==
    /\ \A n \in FileNo : OpenFiles[n] # Null => \E u \in Thread : mine[u][n] # Null
    /\ \A u \in Thread : pc[u] \in {"open", "store"} => mine[u][fn[u]] = Null

\* Every stream whose file was opened is in the table or about to be stored.
AllPlaced ==
    \A s \in live \ failed :
        \/ \E n \in FileNo \ Clearing : OpenFiles[n] = s
        \/ \E u \in Thread : pc[u] = "store" /\ f[u] = s

KInv == IInv /\ Unfailed /\ Owned /\ AllPlaced

LEMMA InitKept == Isolated /\ Init => KInv
  BY InitIsolated, FileAssumption DEF Init, KInv, Unfailed, Owned, AllPlaced, Clearing

\* A call that touches neither the table nor the streams, and whose thread is
\* neither storing nor clearing before or after it.
LEMMA QuietKept ==
  ASSUME KInv, IInv', NEW t \in Thread,
         UNCHANGED <<OpenFiles, live, failed, mine>>,
         \A u \in Thread \ {t} : pc'[u] = pc[u] /\ fn'[u] = fn[u] /\ f'[u] = f[u],
         pc[t] \notin {"store", "clear"}, pc'[t] \notin {"store", "clear"},
         pc'[t] = "open" => mine[t][fn'[t]] = Null
  PROVE  KInv'
<1>1. Clearing' = Clearing
  BY DEF Clearing
<1>2. Unfailed'
  BY <1>1 DEF KInv, Unfailed
<1>3. Owned'
  BY DEF KInv, Owned
<1>4. AllPlaced'
  BY <1>1 DEF KInv, AllPlaced
<1> QED BY <1>2, <1>3, <1>4 DEF KInv

LEMMA StepKept ==
  ASSUME Isolated, Deferred, KInv, NEW t \in Thread, Step(t) PROVE KInv'
<1> IInv /\ IInv'
  BY StepIsolated DEF KInv
<1> TypeInv /\ TypeInv' /\ Local(t) /\ Local(t)'
  BY DEF IInv
<1> USE DEF TypeInv, TypeOK, Goto
<1>1. CASE ScanEntry(t) \/ CloseAllEntry(t)
  BY <1>1 DEF ScanEntry, CloseAllEntry, Local
<1>2. CASE MakeStream(t)
  <2>1. PICK s \in Stream \ live, opened \in BOOLEAN :
           /\ live' = live \cup {s}
           /\ failed' = IF opened THEN failed ELSE failed \cup {s}
           /\ IF opened /\ fn[t] > 0
              THEN /\ f' = [f EXCEPT ![t] = s]
                   /\ Goto(t, "store")
                   /\ UNCHANGED mine
              ELSE (Throws(t) \/ Caught(t)) /\ UNCHANGED f
    BY <1>2 DEF MakeStream
  <2>2. /\ pc[t] = "open" /\ UNCHANGED <<OpenFiles, mine, fn>>
        /\ pc'[t] \in {"store", "run", "unwind"}
        /\ \A u \in Thread \ {t} : pc'[u] = pc[u] /\ f'[u] = f[u]
    BY <1>2, <2>1 DEF MakeStream, Throws, Caught
  <2>3. Clearing' = Clearing
    BY <2>2 DEF Clearing
  <2>4. fn[t] > 0
    BY <2>2, FileAssumption DEF Local
  <2>5. Unfailed'
    <3>1. \A m \in FileNo \ Clearing : OpenFiles[m] # s
      BY <2>1, FileAssumption DEF IInv, Distinct
    <3>2. \A m \in FileNo \ Clearing' : OpenFiles'[m] \notin failed'
      BY <2>1, <2>2, <2>3, <3>1 DEF KInv, Unfailed
    <3>3. ASSUME NEW u \in Thread, pc'[u] = "store" PROVE f'[u] \notin failed'
      <4>1. CASE u = t
        BY <2>1, <2>2, <3>3, <4>1 DEF Throws, Caught
      <4>2. CASE u # t
        BY <2>1, <2>2, <3>3, <4>2 DEF KInv, Unfailed, IInv, Fresh
      <4> QED BY <4>1, <4>2
    <3> QED BY <3>2, <3>3 DEF Unfailed
  <2>6. Owned'
    BY <2>2 DEF KInv, Owned
  <2>7. AllPlaced'
    <3> SUFFICES ASSUME NEW r \in live' \ failed'
                 PROVE  \/ \E n \in FileNo \ Clearing' : OpenFiles'[n] = r
                        \/ \E u \in Thread : pc'[u] = "store" /\ f'[u] = r
      BY DEF AllPlaced
    <3>1. CASE r = s
      BY <2>1, <2>4, <3>1
    <3>2. CASE r # s
      <4>1. r \in live \ failed
        BY <2>1, <3>2
      <4>2. CASE \E n \in FileNo \ Clearing : OpenFiles[n] = r
        BY <2>2, <2>3, <4>2
      <4>3. CASE \E u \in Thread : pc[u] = "store" /\ f[u] = r
        <5>1. PICK u \in Thread : pc[u] = "store" /\ f[u] = r
          BY <4>3
        <5>2. u # t
          BY <2>2, <5>1
        <5> QED BY <2>2, <5>1, <5>2
      <4> QED BY <4>1, <4>2, <4>3 DEF KInv, AllPlaced
    <3> QED BY <3>1, <3>2
  <2> QED BY <2>5, <2>6, <2>7 DEF KInv
<1>3. CASE StoreStream(t)
  <2>1. /\ pc[t] = "store" /\ pc' = [pc EXCEPT ![t] = "run"]
        /\ OpenFiles' = [OpenFiles EXCEPT ![fn[t]] = f[t]]
        /\ mine' = [mine EXCEPT ![t][fn[t]] = f[t]]
        /\ UNCHANGED <<live, failed, fn, f>>
    BY <1>3 DEF StoreStream
  <2>2. fn[t] \in Literal[t] /\ fn[t] \in FileNo /\ fn[t] \notin Clearing
    BY <2>1, OwnNumber DEF IInv, Local, NumberInRange
  <2>3. Clearing' = Clearing
    BY <2>1 DEF Clearing
  <2>4. OpenFiles[fn[t]] = Null
    <3>1. \A u \in Thread : mine[u][fn[t]] # Null => u = t
      BY <2>2 DEF IInv, Local, Isolated
    <3> QED BY <2>1, <2>2, <3>1 DEF KInv, Owned
  <2>5. Unfailed'
    BY <2>1, <2>3 DEF KInv, Unfailed
  <2>6. Owned'
    <3>1. f[t] # Null
      BY <2>1, FileAssumption DEF NumberInRange
    <3>2. \A n \in FileNo : OpenFiles'[n] # Null => \E u \in Thread : mine'[u][n] # Null
      <4> SUFFICES ASSUME NEW n \in FileNo, OpenFiles'[n] # Null
                   PROVE  \E u \in Thread : mine'[u][n] # Null
        OBVIOUS
      <4>1. CASE n = fn[t]
        <5>1. mine'[t][n] = f[t]
          BY <2>1, <4>1
        <5> QED BY <3>1, <5>1
      <4>2. CASE n # fn[t]
        <5>1. PICK u \in Thread : mine[u][n] # Null
          BY <2>1, <4>2 DEF KInv, Owned
        <5>2. mine'[u][n] = mine[u][n]
          BY <2>1, <4>2
        <5> QED BY <5>1, <5>2
      <4> QED BY <4>1, <4>2
    <3>3. ASSUME NEW u \in Thread, pc'[u] \in {"open", "store"} PROVE mine'[u][fn'[u]] = Null
      <4>1. u # t
        BY <2>1, <3>3
      <4> QED BY <2>1, <3>3, <4>1 DEF KInv, Owned
    <3> QED BY <3>2, <3>3 DEF Owned
  <2>7. AllPlaced'
    <3> SUFFICES ASSUME NEW r \in live \ failed
                 PROVE  \/ \E n \in FileNo \ Clearing : OpenFiles'[n] = r
                        \/ \E u \in Thread : pc'[u] = "store" /\ f[u] = r
      BY <2>1, <2>3 DEF AllPlaced
    <3>1. CASE \E n \in FileNo \ Clearing : OpenFiles[n] = r
      <4>1. PICK n \in FileNo \ Clearing : OpenFiles[n] = r
        BY <3>1
      <4>2. n # fn[t]
        BY <2>4, <4>1, FileAssumption
      <4> QED BY <2>1, <4>1, <4>2
    <3>2. CASE \E u \in Thread : pc[u] = "store" /\ f[u] = r
      BY <2>1, <2>2, <3>2
    <3> QED BY <3>1, <3>2 DEF KInv, AllPlaced
  <2> QED BY <2>5, <2>6, <2>7 DEF KInv
<1>4. CASE ReadEntry(t)
  BY <1>4, QuietKept DEF ReadEntry
<1>5. CASE DeleteStream(t)
  <2>1. fn[t] \in FileNo \ Clearing /\ f[t] = OpenFiles[fn[t]] /\ f[t] # Null
    BY <1>5, OwnNumber DEF DeleteStream, Local, NumberInRange, IInv
  <2>2. f[t] \in live
    BY <2>1 DEF IInv, Distinct
  <2>3. /\ pc[t] = "delete" /\ pc' = [pc EXCEPT ![t] = "clear"]
        /\ live' = live \ {f[t]} /\ failed' = failed \ {f[t]}
        /\ UNCHANGED <<OpenFiles, fn, f, mine>>
    BY <1>5, <2>2 DEF DeleteStream
  <2>4. Clearing' = Clearing \cup {fn[t]}
    BY <2>3 DEF Clearing
  <2>5. Unfailed' /\ Owned'
    BY <2>3, <2>4 DEF KInv, Unfailed, Owned
  <2>6. AllPlaced'
    BY <2>1, <2>3, <2>4 DEF KInv, AllPlaced
  <2> QED BY <2>5, <2>6 DEF KInv
<1>6. CASE ClearEntry(t)
  <2>1. /\ fn[t] \in Literal[t] /\ fn[t] \in FileNo /\ pc[t] = "clear"
        /\ pc' = [pc EXCEPT ![t] = ret[t]] /\ ret[t] \in {"run", "unwind"}
        /\ OpenFiles' = [OpenFiles EXCEPT ![fn[t]] = Null]
        /\ mine' = [mine EXCEPT ![t][fn[t]] = Null]
        /\ UNCHANGED <<live, failed, fn, f>>
    BY <1>6 DEF ClearEntry, Local, NumberInRange
  <2>2. Clearing' = Clearing \ {fn[t]}
    <3>1. \A u \in Thread : pc[u] = "clear" /\ fn[u] = fn[t] => u = t
      BY <2>1 DEF IInv, Local, Isolated
    <3> QED BY <2>1, <3>1 DEF Clearing
  <2>3. Unfailed'
    BY <2>1, <2>2, FileAssumption DEF KInv, Unfailed
  <2>4. Owned'
    <3>1. \A n \in FileNo : OpenFiles'[n] # Null => \E u \in Thread : mine'[u][n] # Null
      <4> SUFFICES ASSUME NEW n \in FileNo, OpenFiles'[n] # Null
                   PROVE  \E u \in Thread : mine'[u][n] # Null
        OBVIOUS
      <4>1. n # fn[t]
        BY <2>1
      <4>2. PICK u \in Thread : mine[u][n] # Null
        BY <2>1, <4>1 DEF KInv, Owned
      <4>3. mine'[u][n] = mine[u][n]
        BY <2>1, <4>1
      <4> QED BY <4>2, <4>3
    <3>2. ASSUME NEW u \in Thread, pc'[u] \in {"open", "store"} PROVE mine'[u][fn'[u]] = Null
      <4>1. u # t
        BY <2>1, <3>2
      <4> QED BY <2>1, <3>2, <4>1 DEF KInv, Owned
    <3> QED BY <3>1, <3>2 DEF Owned
  <2>5. AllPlaced'
    <3> SUFFICES ASSUME NEW r \in live \ failed
                 PROVE  \/ \E n \in FileNo \ Clearing' : OpenFiles'[n] = r
                        \/ \E u \in Thread : pc'[u] = "store" /\ f[u] = r
      BY <2>1 DEF AllPlaced
    <3>1. CASE \E n \in FileNo \ Clearing : OpenFiles[n] = r
      <4>1. PICK n \in FileNo \ Clearing : OpenFiles[n] = r
        BY <3>1
      <4>2. n # fn[t]
        BY <2>1, <4>1 DEF Clearing
      <4> QED BY <2>1, <2>2, <4>1, <4>2
    <3>2. CASE \E u \in Thread : pc[u] = "store" /\ f[u] = r
      <4>1. PICK u \in Thread : pc[u] = "store" /\ f[u] = r
        BY <3>2
      <4>2. u # t
        BY <2>1, <4>1
      <4> QED BY <2>1, <4>1, <4>2
    <3> QED BY <3>1, <3>2 DEF KInv, AllPlaced
  <2> QED BY <2>3, <2>4, <2>5 DEF KInv
<1>7. CASE Unwind(t)
  BY <1>7, QuietKept DEF Unwind
<1> QED BY <1>1, <1>2, <1>3, <1>4, <1>5, <1>6, <1>7 DEF Step

LEMMA CallKept ==
  ASSUME Isolated, Deferred, KInv, NEW t \in Thread, Call(t) PROVE KInv'
<1> IInv /\ IInv'
  BY CallIsolated DEF KInv
<1> TypeInv
  BY DEF IInv
<1> USE DEF TypeInv, TypeOK, Goto
<1>1. CASE CallFreeFile(t) \/ CallClose(t) \/ CallCloseAll(t)
  BY <1>1 DEF CallFreeFile, CallClose, CallCloseAll, Isolated
<1>2. CASE UseLiteral(t)
  <2>1. PICK n \in Literal[t] \ Held(t) : fn' = [fn EXCEPT ![t] = n]
    BY <1>2 DEF UseLiteral
  <2>2. n \in FileNo
    BY FileAssumption DEF FileNo
  <2>3. mine[t][fn'[t]] = Null
    BY <2>1, <2>2 DEF Held
  <2> QED BY <1>2, <2>1, <2>3, QuietKept DEF UseLiteral, Running
<1>3. CASE Access(t)
  BY <1>3, QuietKept DEF Access, Running
<1>4. CASE Leave(t)
  BY <1>4, QuietKept DEF Leave, Running, Throws
<1> QED BY <1>1, <1>2, <1>3, <1>4 DEF Call

LEMMA NextKept == Isolated /\ Deferred /\ KInv /\ [Next]_vars => KInv'
<1> SUFFICES ASSUME Isolated, Deferred, KInv, [Next]_vars PROVE KInv'
  OBVIOUS
<1>1. CASE UNCHANGED vars
  <2>1. IInv'
    BY <1>1, NextIsolated DEF KInv
  <2>2. Clearing' = Clearing
    BY <1>1 DEF vars, Clearing
  <2> QED BY <1>1, <2>1, <2>2 DEF vars, KInv, Unfailed, Owned, AllPlaced
<1>2. ASSUME NEW t \in Thread, Step(t) \/ Call(t) PROVE KInv'
  BY <1>2, StepKept, CallKept
<1> QED BY <1>1, <1>2 DEF Next

\* Whatever threads with numbers of their own and a Defer for every Open do in
\* between one another's steps, no two entries share a stream, what the table
\* holds is open, and no open stream gets out of reach before it is deleted.
THEOREM IsolatedKept == Isolated /\ Deferred => (Spec => EntriesKept)
<1> SUFFICES ASSUME Isolated, Deferred PROVE Spec => EntriesKept
  OBVIOUS
<1>1. Init => KInv
  BY InitKept
<1>2. KInv /\ [Next]_vars => KInv'
  BY NextKept
<1>3. KInv => TableSound
  <2> SUFFICES ASSUME KInv PROVE TableSound
    OBVIOUS
  <2>1. Null \notin failed
    BY FileAssumption DEF KInv, IInv, TypeInv, TypeOK
  <2> QED BY <2>1 DEF KInv, Unfailed, IInv, Distinct, TableSound
<1>4. KInv /\ KInv' => StreamsStay
  BY DEF KInv, AllPlaced, StreamsStay, Placed
<1>5. KInv => CloseEmpties
  BY DEF KInv, IInv, Local, CloseEmpties
<1> QED BY <1>1, <1>2, <1>3, <1>4, <1>5, PTL DEF Spec, EntriesKept, NothingLost, AllClosed

-----------------------------------------------------------------------------
(* The levels of Dir. *)

CONSTANTS Directory, Entries, Root, MayFail, NoEntry,      \* of DirStack
          MAX_DIR_LEVEL, ClosesAlways, MayThrow
VARIABLES levels, frames, printed, opened, abandoned, unreadable       \* unreadable is its fault

Dir == INSTANCE DirStack WITH fault <- unreadable

\* One thread lists directories, and closes those only that Dir has opened for it.
ListsAlone == (\A t, u \in Thread : t = u) /\ ~ClosesAlways

\* Call i of showdir, when n calls have levels and b levels are below them.
ShowdirCall(t, b, n, i) ==
    /\ frames[t][i].dir \in Directory /\ frames[t][i].exists
    /\ i < Len(frames[t]) => frames[t][i].pc = "next"
    /\ i <= n =>
        /\ frames[t][i].opened /\ frames[t][i].dir \in opened[t]
        /\ levels[b + i].dir = frames[t][i].dir
        /\ levels[b + i].left \subseteq Entries[frames[t][i].dir]
        /\ frames[t][i].pc # "open"
        /\ frames[t][i].pc = "close" => frames[t][i].ss = NoEntry
        /\ IF frames[t][i].ss = NoEntry THEN frames[t][i].pc # "next" /\ levels[b + i].left = {}
           ELSE frames[t][i].ss \in Entries[frames[t][i].dir]
    /\ i > n => ~frames[t][i].opened /\ frames[t][i].ss = NoEntry /\ frames[t][i].pc # "next"

LevelStack(t, b, n) ==
    /\ Len(levels) = b + n /\ abandoned = b
    /\ n <= Len(frames[t]) /\ Len(frames[t]) <= n + 1
    /\ frames[t] # <<>> => frames[t][1].dir = Root[t]
    /\ \A i \in 1 .. Len(frames[t]) : ShowdirCall(t, b, n, i)

\* Entry e of directory d is still to be printed by one of the calls.
Unprinted(t, b, n, d, e) ==
    \E i \in 1 .. n : /\ frames[t][i].dir = d
                      /\ e \in levels[b + i].left
                         \/ (frames[t][i].ss = e /\ frames[t][i].pc = "test")

\* What is printed are entries of directories that were opened; those not printed are pending.
Printing(t, b, n) ==
    /\ \A p \in printed[t] : p[1] \in opened[t] /\ p[2] \in Entries[p[1]]
    /\ frames[t] # <<>> =>
        /\ opened[t] # {} => n > 0
        /\ \A d \in opened[t] : \A e \in Entries[d] :
               <<d, e>> \in printed[t] \/ Unprinted(t, b, n, d, e)

DirInv ==
    /\ Dir!TypeOK /\ Dir!FaultForReason
    /\ \A t \in Thread : \E b \in 0 .. Len(levels), n \in 0 .. Len(frames[t]) :
           LevelStack(t, b, n) /\ Printing(t, b, n)

-----------------------------------------------------------------------------
(* Sequences, and the step of readdir. *)

LEMMA LastPart ==
  ASSUME NEW S, NEW s \in Seq(S), s # <<>>
  PROVE  /\ Len(s) \in Nat \ {0} /\ Dir!Last(s) = s[Len(s)] /\ Dir!Last(s) \in S
         /\ Dir!Front(s) \in Seq(S) /\ Len(Dir!Front(s)) = Len(s) - 1
         /\ \A i \in 1 .. Len(s) - 1 : Dir!Front(s)[i] = s[i]
<1>1. Len(s) \in Nat \ {0} /\ Dir!Last(s) = s[Len(s)] /\ Dir!Last(s) \in S
  BY DEF Dir!Last
<1>2. Dir!Front(s) \in Seq(S) /\ Len(Dir!Front(s)) = Len(s) - 1
  <2>1. ASSUME NEW k \in 0 .. Len(s) PROVE SubSeq(s, 1, k) \in Seq(S) /\ Len(SubSeq(s, 1, k)) = k
    <3>1. k \in Nat /\ k <= Len(s)
      BY <1>1
    <3> QED BY <3>1
  <2>2. Len(s) - 1 \in 0 .. Len(s)
    BY <1>1
  <2> QED BY <2>1, <2>2 DEF Dir!Front
<1>3. \A i \in 1 .. Len(s) - 1 : Dir!Front(s)[i] = s[i]
  BY <1>1 DEF Dir!Front
<1> QED BY <1>1, <1>2, <1>3

LEMMA LastChanges ==
  ASSUME NEW S, NEW s \in Seq(S), s # <<>>, NEW x \in S
  PROVE  /\ Append(Dir!Front(s), x) \in Seq(S) /\ Len(Append(Dir!Front(s), x)) = Len(s)
         /\ Append(Dir!Front(s), x) # <<>> /\ Append(Dir!Front(s), x)[Len(s)] = x
         /\ \A i \in 1 .. Len(s) : i # Len(s) => Append(Dir!Front(s), x)[i] = s[i]
<1>1. /\ Len(s) \in Nat \ {0} /\ Dir!Front(s) \in Seq(S) /\ Len(Dir!Front(s)) = Len(s) - 1
      /\ \A i \in 1 .. Len(s) - 1 : Dir!Front(s)[i] = s[i]
  BY LastPart
<1>2. PICK u \in Seq(S) : u = Dir!Front(s)
  BY <1>1
<1>3. /\ Append(u, x) \in Seq(S) /\ Len(Append(u, x)) = Len(u) + 1 /\ Append(u, x)[Len(u) + 1] = x
      /\ Append(u, x) # <<>> /\ \A i \in 1 .. Len(u) : Append(u, x)[i] = u[i]
  OBVIOUS
<1>4. Len(u) = Len(s) - 1 /\ \A i \in 1 .. Len(s) - 1 : u[i] = s[i]
  BY <1>1, <1>2
<1>5. Len(u) + 1 = Len(s) /\ \A i \in 1 .. Len(s) : i # Len(s) => i \in 1 .. Len(u)
  BY <1>1, <1>4
<1>6. \A i \in 1 .. Len(s) : i # Len(s) => Append(u, x)[i] = s[i]
  <2>1. ASSUME NEW i \in 1 .. Len(s), i # Len(s) PROVE Append(u, x)[i] = s[i]
    <3>1. i \in 1 .. Len(u) /\ i \in 1 .. Len(s) - 1
      BY <1>1, <1>5, <2>1
    <3> QED BY <1>3, <1>4, <3>1
  <2> QED BY <2>1
<1> QED BY <1>2, <1>3, <1>5, <1>6

LEMMA TopReplaced ==
  ASSUME NEW t \in Thread, frames \in [Thread -> Seq(Dir!Frame)], frames[t] # <<>>,
         NEW fr \in Dir!Frame, frames' = Dir!SetTop(t, fr)
  PROVE  /\ frames' \in [Thread -> Seq(Dir!Frame)]
         /\ Len(frames'[t]) = Len(frames[t]) /\ frames'[t] # <<>>
         /\ frames'[t][Len(frames[t])] = fr
         /\ \A i \in 1 .. Len(frames[t]) : i # Len(frames[t]) => frames'[t][i] = frames[t][i]
<1>1. PICK s \in Seq(Dir!Frame) : s = frames[t] /\ s # <<>>
  OBVIOUS
<1>2. PICK q : q = Append(Dir!Front(s), fr)
  OBVIOUS
<1>3. frames' = [frames EXCEPT ![t] = q] /\ frames'[t] = q
  BY <1>1, <1>2 DEF Dir!SetTop
<1>4. /\ q \in Seq(Dir!Frame) /\ Len(q) = Len(s) /\ q # <<>> /\ q[Len(s)] = fr
      /\ \A i \in 1 .. Len(s) : i # Len(s) => q[i] = s[i]
  BY <1>1, <1>2, LastChanges
<1> QED BY <1>1, <1>3, <1>4

LEMMA PushedLast ==
  ASSUME NEW S, NEW s \in Seq(S), NEW x \in S, NEW q, q = Append(s, x)
  PROVE  /\ Len(s) \in Nat /\ q \in Seq(S) /\ Len(q) = Len(s) + 1 /\ q # <<>>
         /\ q[Len(s) + 1] = x
         /\ \A i \in 1 .. Len(s) : q[i] = s[i]
OBVIOUS

LEMMA NoName == ASSUME Dir!DirAssumption PROVE NoEntry \notin Dir!Name
  BY DEF Dir!DirAssumption, Dir!Name

LEMMA ReadsEntry ==
  ASSUME NEW lv \in Seq(Dir!Level), lv # <<>>, NEW e, NEW rest, Dir!ReadDir(lv, e, rest)
  PROVE  /\ Len(lv) \in Nat \ {0} /\ rest \in Seq(Dir!Level) /\ Len(rest) = Len(lv)
         /\ \A i \in 1 .. Len(lv) : i # Len(lv) => rest[i] = lv[i]
         /\ rest[Len(lv)].dir = lv[Len(lv)].dir
         /\ \/ lv[Len(lv)].left = {} /\ rest[Len(lv)].left = {} /\ e = NoEntry
            \/ e \in lv[Len(lv)].left /\ rest[Len(lv)].left = lv[Len(lv)].left \ {e}
<1> DEFINE k == Len(lv)
<1>1. k \in Nat \ {0} /\ lv[k] \in Dir!Level /\ k \in 1 .. Len(lv) /\ k = Len(lv)
  OBVIOUS
<1>2. CASE lv[k].left = {}
  BY <1>1, <1>2 DEF Dir!ReadDir
<1>3. CASE lv[k].left # {}
  <2>1. e \in lv[k].left /\ rest = [lv EXCEPT ![k].left = lv[k].left \ {e}]
    BY <1>3 DEF Dir!ReadDir
  <2> DEFINE x == [lv[k] EXCEPT !.left = lv[k].left \ {e}]
  <2>2. x \in Dir!Level /\ x.dir = lv[k].dir /\ x.left = lv[k].left \ {e}
    BY <1>1 DEF Dir!Level
  <2>3. rest = [lv EXCEPT ![k] = x]
    BY <2>1
  <2> HIDE DEF x
  <2>4. rest \in Seq(Dir!Level) /\ Len(rest) = Len(lv) /\ rest[k] = x
        /\ \A i \in 1 .. Len(lv) : i # k => rest[i] = lv[i]
    BY <1>1, <2>2, <2>3
  <2> QED BY <1>1, <2>1, <2>2, <2>4
<1> QED BY <1>2, <1>3

-----------------------------------------------------------------------------
(* The steps of the only thread. *)

\* What a step of thread t starts from.
BeforeDir(t, b, n) ==
    /\ Dir!DirAssumption /\ ListsAlone /\ Dir!TypeOK
    /\ b \in Nat /\ n \in Nat
    /\ LevelStack(t, b, n) /\ Printing(t, b, n)

AfterDir(t) ==
    /\ Dir!TypeOK'
    /\ \/ unreadable' = unreadable
       \/ unreadable' = "overflow" /\ abandoned' + Len(frames'[t]) > MAX_DIR_LEVEL
    /\ \E b \in 0 .. Len(levels'), n \in 0 .. Len(frames'[t]) : LevelStack(t, b, n)' /\ Printing(t, b, n)'

\* The calls below the innermost one, which has at most one entry to come.
LEMMA TopCall ==
  ASSUME NEW t \in Thread, NEW b, NEW n, BeforeDir(t, b, n), frames[t] # <<>>,
         NEW m, m = Len(frames[t])
  PROVE  /\ m \in Nat \ {0} /\ (n = m \/ n = m - 1)
         /\ Dir!Top(t) = frames[t][m] /\ Dir!Top(t) \in Dir!Frame /\ frames[t] \in Seq(Dir!Frame)
         /\ Dir!Top(t).dir \in Directory /\ Dir!Top(t).exists
         /\ b + m \in Nat
         /\ ShowdirCall(t, b, n, m)
<1>1. frames[t] \in Seq(Dir!Frame) /\ MAX_DIR_LEVEL \in Nat
  BY DEF BeforeDir, Dir!TypeOK, Dir!DirAssumption
<1>2. m \in Nat \ {0} /\ Dir!Top(t) = frames[t][m] /\ Dir!Top(t) \in Dir!Frame
  BY <1>1, LastPart DEF Dir!Top
<1>3. n <= m /\ m <= n + 1 /\ b \in Nat /\ n \in Nat
  BY DEF BeforeDir, LevelStack
<1>4. ShowdirCall(t, b, n, m)
  BY <1>2 DEF BeforeDir, LevelStack
<1>5. Dir!Top(t).dir \in Directory /\ Dir!Top(t).exists
  BY <1>2, <1>4 DEF ShowdirCall
<1> QED BY <1>1, <1>2, <1>3, <1>4, <1>5

LEMMA StartDir ==
  ASSUME NEW t \in Thread, NEW b, NEW n, BeforeDir(t, b, n), Dir!Start(t)
  PROVE  AfterDir(t)
<1> DEFINE fr == Dir!NewFrame(Root[t], TRUE)
<1>1. /\ frames[t] = <<>> /\ frames' = [frames EXCEPT ![t] = <<fr>>] /\ printed'[t] = {}
      /\ opened'[t] = {} /\ UNCHANGED <<levels, abandoned, unreadable>>
      /\ frames'[t] = <<fr>>
  BY DEF Dir!Start, BeforeDir, Dir!TypeOK
<1>2. Root[t] \in Directory /\ Len(levels) \in Nat /\ abandoned = Len(levels)
  <2>1. Root[t] \in Directory /\ Len(levels) \in Nat
    BY DEF BeforeDir, Dir!DirAssumption, Dir!TypeOK
  <2>2. Len(frames[t]) = 0
    BY <1>1
  <2>3. Len(levels) = b + n /\ abandoned = b /\ n <= 0 /\ b \in Nat /\ n \in Nat
    BY <2>2 DEF BeforeDir, LevelStack
  <2> QED BY <2>1, <2>3
<1>3. fr \in Dir!Frame /\ fr.dir = Root[t] /\ fr.exists /\ ~fr.opened /\ fr.ss = NoEntry /\ fr.pc = "open"
  BY <1>2 DEF Dir!NewFrame, Dir!Frame
<1> HIDE DEF fr
<1>4. Len(frames'[t]) = 1 /\ frames'[t][1] = fr /\ frames'[t] # <<>>
  BY <1>1
<1>5. Dir!TypeOK'
  <2>1. frames' \in [Thread -> Seq(Dir!Frame)]
    BY <1>1, <1>3 DEF BeforeDir, Dir!TypeOK
  <2>2. /\ printed' \in [Thread -> SUBSET ((Directory \cup Dir!Name) \X Dir!Name)]
        /\ opened' \in [Thread -> SUBSET Directory]
    BY DEF Dir!Start, BeforeDir, Dir!TypeOK
  <2> QED BY <1>1, <2>1, <2>2 DEF BeforeDir, Dir!TypeOK
<1>6. LevelStack(t, Len(levels), 0)'
  <2>1. \A i \in 1 .. Len(frames'[t]) : i = 1
    BY <1>4
  <2>2. \A i \in 1 .. Len(frames'[t]) : ShowdirCall(t, Len(levels), 0, i)'
    BY <1>2, <1>3, <1>4, <2>1 DEF ShowdirCall
  <2> QED BY <1>1, <1>2, <1>3, <1>4, <2>2 DEF LevelStack
<1>7. Printing(t, Len(levels), 0)'
  BY <1>1 DEF Printing
<1> QED BY <1>1, <1>2, <1>4, <1>5, <1>6, <1>7 DEF AfterDir, BeforeDir

LEMMA OpenDirDir ==
  ASSUME NEW t \in Thread, NEW b, NEW n, BeforeDir(t, b, n), Dir!OpenDir(t),
         Len(levels) # MAX_DIR_LEVEL
  PROVE  AfterDir(t)
<1>0. PICK m, d, k : m = Len(frames[t]) /\ d = Dir!Top(t).dir /\ k = Len(levels)
  OBVIOUS
<1>1. frames[t] # <<>> /\ Dir!Top(t).pc = "open"
  BY DEF Dir!OpenDir, Dir!At
<1>2. /\ m \in Nat \ {0} /\ (n = m \/ n = m - 1) /\ Dir!Top(t) = frames[t][m]
      /\ Dir!Top(t) \in Dir!Frame /\ frames[t] \in Seq(Dir!Frame) /\ d \in Directory /\ Dir!Top(t).exists
      /\ b + m \in Nat /\ ShowdirCall(t, b, n, m)
  BY <1>0, <1>1, TopCall
<1>3. n = m - 1 /\ n + 1 = m
  BY <1>1, <1>2 DEF ShowdirCall
<1>4. k = b + n /\ b \in Nat /\ n \in Nat /\ levels \in Seq(Dir!Level)
  BY <1>0 DEF BeforeDir, LevelStack, Dir!TypeOK
<1>5. k + 1 = b + m /\ k # MAX_DIR_LEVEL
  BY <1>0, <1>2, <1>3, <1>4
<1>6. PICK e \in Dir!Name : /\ Dir!ReadDir(Dir!PushLevel(d), e, levels')
                        /\ frames' = Dir!SetTop(t, [Dir!Top(t) EXCEPT !.ss = e, !.opened = TRUE, !.pc = "test"])
  BY <1>0, <1>5 DEF Dir!OpenDir
<1>7. opened' = [opened EXCEPT ![t] = @ \cup {d}] /\ UNCHANGED <<printed, abandoned, unreadable>>
  BY <1>0, <1>5 DEF Dir!OpenDir
<1> DEFINE fr == [Dir!Top(t) EXCEPT !.ss = e, !.opened = TRUE, !.pc = "test"]
           lv == [dir |-> d, left |-> Entries[d]]
<1>8. /\ fr \in Dir!Frame /\ fr.dir = d /\ fr.exists /\ fr.ss = e /\ fr.opened /\ fr.pc = "test"
  BY <1>0, <1>2 DEF Dir!Frame
<1>9. lv \in Dir!Level /\ lv.dir = d /\ lv.left = Entries[d]
  BY <1>2 DEF Dir!Level, Dir!Name
<1>10. Dir!PushLevel(d) = Append(levels, lv) /\ frames' = [frames EXCEPT ![t] = Append(Dir!Front(frames[t]), fr)]
  BY <1>6 DEF Dir!PushLevel, Dir!SetTop
<1> HIDE DEF fr, lv
<1>11. /\ Dir!PushLevel(d) \in Seq(Dir!Level) /\ Len(Dir!PushLevel(d)) = k + 1 /\ Dir!PushLevel(d) # <<>>
       /\ Dir!PushLevel(d)[k + 1] = lv /\ \A i \in 1 .. k : Dir!PushLevel(d)[i] = levels[i]
  <2>1. levels \in Seq(Dir!Level) /\ lv \in Dir!Level /\ Dir!PushLevel(d) = Append(levels, lv)
    BY <1>4, <1>9, <1>10
  <2>2. /\ Dir!PushLevel(d) \in Seq(Dir!Level) /\ Len(Dir!PushLevel(d)) = Len(levels) + 1 /\ Dir!PushLevel(d) # <<>>
        /\ Dir!PushLevel(d)[Len(levels) + 1] = lv
        /\ \A i \in 1 .. Len(levels) : Dir!PushLevel(d)[i] = levels[i]
    BY <2>1, PushedLast
  <2> QED BY <1>0, <2>2
<1>12. e # NoEntry /\ Entries[d] # {}
  BY <1>2, NoName DEF BeforeDir, Dir!DirAssumption
<1>13. /\ levels' \in Seq(Dir!Level) /\ Len(levels') = k + 1
       /\ \A i \in 1 .. k : levels'[i] = levels[i]
       /\ levels'[k + 1].dir = d /\ e \in Entries[d] /\ levels'[k + 1].left = Entries[d] \ {e}
  <2>1. /\ Len(Dir!PushLevel(d)) \in Nat \ {0} /\ levels' \in Seq(Dir!Level) /\ Len(levels') = Len(Dir!PushLevel(d))
        /\ \A i \in 1 .. Len(Dir!PushLevel(d)) : i # Len(Dir!PushLevel(d)) => levels'[i] = Dir!PushLevel(d)[i]
        /\ levels'[Len(Dir!PushLevel(d))].dir = Dir!PushLevel(d)[Len(Dir!PushLevel(d))].dir
        /\ \/ Dir!PushLevel(d)[Len(Dir!PushLevel(d))].left = {} /\ e = NoEntry
           \/ e \in Dir!PushLevel(d)[Len(Dir!PushLevel(d))].left
              /\ levels'[Len(Dir!PushLevel(d))].left = Dir!PushLevel(d)[Len(Dir!PushLevel(d))].left \ {e}
    BY <1>6, <1>11, ReadsEntry
  <2>2. /\ levels' \in Seq(Dir!Level) /\ Len(levels') = k + 1
        /\ \A i \in 1 .. k + 1 : i # k + 1 => levels'[i] = Dir!PushLevel(d)[i]
        /\ levels'[k + 1].dir = lv.dir
        /\ \/ lv.left = {} /\ e = NoEntry
           \/ e \in lv.left /\ levels'[k + 1].left = lv.left \ {e}
    BY <1>11, <2>1
  <2>3. k \in Nat
    BY <1>4
  <2>4. \A i \in 1 .. k : levels'[i] = levels[i]
    BY <1>11, <2>2, <2>3
  <2> QED BY <1>9, <1>12, <2>2, <2>4
<1>14. /\ frames'[t] \in Seq(Dir!Frame) /\ Len(frames'[t]) = m /\ frames'[t] # <<>> /\ frames'[t][m] = fr
       /\ \A i \in 1 .. m : i # m => frames'[t][i] = frames[t][i]
       /\ frames' \in [Thread -> Seq(Dir!Frame)]
  <2>1. frames \in [Thread -> Seq(Dir!Frame)] /\ frames' = Dir!SetTop(t, fr)
    BY <1>10 DEF BeforeDir, Dir!TypeOK, Dir!SetTop
  <2>2. /\ frames' \in [Thread -> Seq(Dir!Frame)]
        /\ Len(frames'[t]) = Len(frames[t]) /\ frames'[t] # <<>>
        /\ frames'[t][Len(frames[t])] = fr
        /\ \A i \in 1 .. Len(frames[t]) : i # Len(frames[t]) => frames'[t][i] = frames[t][i]
    BY <1>1, <1>8, <2>1, TopReplaced
  <2> QED BY <1>0, <2>2
<1>15. opened'[t] = opened[t] \cup {d} /\ opened' \in [Thread -> SUBSET Directory]
  BY <1>2, <1>7 DEF BeforeDir, Dir!TypeOK
<1>16. Dir!TypeOK'
  <2>1. Len(levels') <= MAX_DIR_LEVEL
    BY <1>0, <1>4, <1>5, <1>13 DEF BeforeDir, Dir!TypeOK, Dir!DirAssumption
  <2> QED BY <1>7, <1>13, <1>14, <1>15, <2>1 DEF BeforeDir, Dir!TypeOK
<1>17. LevelStack(t, b, m)'
  <2>1. (frames[t] # <<>> => frames[t][1].dir = Root[t]) /\ abandoned = b
    BY DEF BeforeDir, LevelStack
  <2>2. frames'[t][1].dir = Root[t]
    BY <1>0, <1>1, <1>2, <1>8, <1>14, <2>1
  <2>3. ASSUME NEW i \in 1 .. m, i # m PROVE ShowdirCall(t, b, m, i)'
    <3>0. i <= n /\ i < m /\ b + i \in 1 .. k
      <4>1. m \in Nat /\ n \in Nat /\ b \in Nat /\ n = m - 1 /\ k = b + n /\ i \in 1 .. m /\ i # m
        BY <1>2, <1>3, <1>4, <2>3
      <4> QED BY ONLY <4>1
    <3>1. ShowdirCall(t, b, n, i)
      BY <1>0, <2>3 DEF BeforeDir, LevelStack
    <3>2. frames'[t][i] = frames[t][i] /\ levels'[b + i] = levels[b + i]
      BY <1>13, <1>14, <2>3, <3>0
    <3>3. i < Len(frames[t]) /\ Len(frames'[t]) = Len(frames[t]) /\ i <= m /\ ~(i > m)
      BY <1>0, <1>2, <1>14, <3>0
    <3> QED BY <1>15, <3>0, <3>1, <3>2, <3>3 DEF ShowdirCall
  <2>4. ShowdirCall(t, b, m, m)'
    <3>1. b + m = k + 1
      BY <1>5
    <3>2. ~(m < Len(frames'[t])) /\ ~(m > m)
      BY <1>2, <1>14
    <3> QED BY <1>2, <1>8, <1>12, <1>13, <1>14, <1>15, <3>1, <3>2 DEF ShowdirCall
  <2>5. Len(levels') = b + m
    BY <1>5, <1>13
  <2> QED BY <1>0, <1>1, <1>2, <1>7, <1>14, <2>1, <2>2, <2>3, <2>4, <2>5 DEF LevelStack
<1>18. Printing(t, b, m)'
  <2>1. \A p \in printed'[t] : p[1] \in opened'[t] /\ p[2] \in Entries[p[1]]
    BY <1>7, <1>15 DEF BeforeDir, Printing
  <2>2. ASSUME NEW c \in opened[t], NEW x \in Entries[c], Unprinted(t, b, n, c, x)
        PROVE  Unprinted(t, b, m, c, x)'
    <3>1. PICK i \in 1 .. n : /\ frames[t][i].dir = c
                              /\ x \in levels[b + i].left
                                 \/ (frames[t][i].ss = x /\ frames[t][i].pc = "test")
      BY <2>2 DEF Unprinted
    <3>2. i \in 1 .. m /\ i # m /\ b + i \in 1 .. k
      BY <1>2, <1>3, <1>4
    <3>3. frames'[t][i] = frames[t][i] /\ levels'[b + i] = levels[b + i]
      BY <1>13, <1>14, <3>2
    <3> QED BY <3>1, <3>2, <3>3 DEF Unprinted
  <2>3. ASSUME NEW x \in Entries[d] PROVE Unprinted(t, b, m, d, x)'
    <3>1. b + m = k + 1 /\ m \in 1 .. m
      BY <1>2, <1>5
    <3> QED BY <1>8, <1>13, <1>14, <3>1 DEF Unprinted
  <2> QED BY <1>1, <1>2, <1>7, <1>15, <2>1, <2>2, <2>3 DEF BeforeDir, Printing
<1>19. b \in 0 .. Len(levels') /\ m \in 0 .. Len(frames'[t])
  BY <1>2, <1>4, <1>5, <1>13, <1>14
<1> QED BY <1>7, <1>16, <1>17, <1>18, <1>19 DEF AfterDir, BeforeDir


\* The innermost call goes on, and nothing below it changes.
LEMMA CallGoesOn ==
  ASSUME NEW t \in Thread, NEW b, NEW n, BeforeDir(t, b, n), frames[t] # <<>>,
         NEW m, m = Len(frames[t]), NEW fr \in Dir!Frame, frames' = Dir!SetTop(t, fr),
         fr.dir = Dir!Top(t).dir, opened' = opened, abandoned' = abandoned, Len(levels') = Len(levels),
         \A i \in 1 .. n : i # m => levels'[b + i] = levels[b + i],
         ShowdirCall(t, b, n, m)'
  PROVE  /\ frames' \in [Thread -> Seq(Dir!Frame)] /\ frames'[t] # <<>> /\ Len(frames'[t]) = m
         /\ frames'[t][m] = fr /\ \A i \in 1 .. m : i # m => frames'[t][i] = frames[t][i]
         /\ LevelStack(t, b, n)'
         /\ b \in 0 .. Len(levels') /\ n \in 0 .. Len(frames'[t])
<1>1. /\ frames' \in [Thread -> Seq(Dir!Frame)] /\ frames'[t] # <<>> /\ Len(frames'[t]) = m
      /\ frames'[t][m] = fr /\ \A i \in 1 .. m : i # m => frames'[t][i] = frames[t][i]
  <2>1. frames \in [Thread -> Seq(Dir!Frame)]
    BY DEF BeforeDir, Dir!TypeOK
  <2>2. /\ frames' \in [Thread -> Seq(Dir!Frame)]
        /\ Len(frames'[t]) = Len(frames[t]) /\ frames'[t] # <<>>
        /\ frames'[t][Len(frames[t])] = fr
        /\ \A i \in 1 .. Len(frames[t]) : i # Len(frames[t]) => frames'[t][i] = frames[t][i]
    BY <2>1, TopReplaced
  <2> QED BY <2>2
<1>2. /\ m \in Nat \ {0} /\ (n = m \/ n = m - 1) /\ Dir!Top(t) = frames[t][m]
      /\ b \in Nat /\ n \in Nat /\ Len(levels) = b + n
  <2>1. m \in Nat \ {0} /\ (n = m \/ n = m - 1) /\ Dir!Top(t) = frames[t][m]
    BY TopCall
  <2> QED BY <2>1 DEF BeforeDir, LevelStack
<1>3. (frames[t] # <<>> => frames[t][1].dir = Root[t]) /\ abandoned = b
  BY DEF BeforeDir, LevelStack
<1>4. frames'[t][1].dir = Root[t]
  BY <1>1, <1>2, <1>3
<1>5. ASSUME NEW i \in 1 .. m, i # m PROVE ShowdirCall(t, b, n, i)'
  <2>1. ShowdirCall(t, b, n, i)
    BY <1>5 DEF BeforeDir, LevelStack
  <2>2. i <= n => i \in 1 .. n
    BY <1>2, <1>5
  <2>3. frames'[t][i] = frames[t][i] /\ (i <= n => levels'[b + i] = levels[b + i])
    BY <1>1, <1>5, <2>2
  <2>4. i < Len(frames'[t]) <=> i < Len(frames[t])
    BY <1>1
  <2> QED BY <2>1, <2>3, <2>4 DEF ShowdirCall
<1>6. LevelStack(t, b, n)'
  BY <1>1, <1>2, <1>3, <1>4, <1>5 DEF LevelStack
<1> QED BY <1>1, <1>2, <1>6

LEMMA OpenDirFailsDir ==
  ASSUME NEW t \in Thread, NEW b, NEW n, BeforeDir(t, b, n), Dir!OpenDirFails(t),
         Len(levels) # MAX_DIR_LEVEL
  PROVE  AfterDir(t)
<1>0. PICK m, d, k : m = Len(frames[t]) /\ d = Dir!Top(t).dir /\ k = Len(levels)
  OBVIOUS
<1>1. frames[t] # <<>> /\ Dir!Top(t).pc = "open"
  BY DEF Dir!OpenDirFails, Dir!At
<1>2. /\ m \in Nat \ {0} /\ (n = m \/ n = m - 1) /\ Dir!Top(t) = frames[t][m]
      /\ Dir!Top(t) \in Dir!Frame /\ frames[t] \in Seq(Dir!Frame) /\ d \in Directory /\ Dir!Top(t).exists
      /\ b + m \in Nat /\ ShowdirCall(t, b, n, m)
  BY <1>0, <1>1, TopCall
<1>3. n = m - 1 /\ n + 1 = m
  BY <1>1, <1>2 DEF ShowdirCall
<1>4. k = b + n /\ b \in Nat /\ n \in Nat /\ levels \in Seq(Dir!Level)
  BY <1>0 DEF BeforeDir, LevelStack, Dir!TypeOK
<1>5. k + 1 = b + m /\ k # MAX_DIR_LEVEL
  BY <1>0, <1>2, <1>3, <1>4
<1> DEFINE fr == [Dir!Top(t) EXCEPT !.pc = "test"]
<1>6. frames' = Dir!SetTop(t, fr) /\ UNCHANGED <<levels, printed, opened, abandoned, unreadable>>
  BY <1>0, <1>5 DEF Dir!OpenDirFails
<1>7. /\ fr \in Dir!Frame /\ fr.dir = d /\ fr.exists /\ fr.ss = Dir!Top(t).ss
      /\ fr.opened = Dir!Top(t).opened /\ fr.pc = "test"
  BY <1>0, <1>2 DEF Dir!Frame
<1> HIDE DEF fr
<1>8. frames'[t][m] = fr /\ Len(frames'[t]) = m
  <2>1. frames \in [Thread -> Seq(Dir!Frame)]
    BY DEF BeforeDir, Dir!TypeOK
  <2>2. Len(frames'[t]) = Len(frames[t]) /\ frames'[t][Len(frames[t])] = fr
    BY <1>1, <1>6, <1>7, <2>1, TopReplaced
  <2> QED BY <1>0, <2>2
<1>9. ShowdirCall(t, b, n, m)'
  <2>1. m > n /\ ~(m <= n) /\ ~(m < Len(frames'[t]))
    BY <1>2, <1>3, <1>4, <1>8
  <2> QED BY <1>2, <1>7, <1>8, <2>1 DEF ShowdirCall
<1>10. /\ frames' \in [Thread -> Seq(Dir!Frame)] /\ frames'[t] # <<>>
       /\ \A i \in 1 .. m : i # m => frames'[t][i] = frames[t][i]
       /\ LevelStack(t, b, n)' /\ b \in 0 .. Len(levels') /\ n \in 0 .. Len(frames'[t])
  BY <1>0, <1>1, <1>6, <1>7, <1>9, CallGoesOn
<1>11. Dir!TypeOK'
  BY <1>6, <1>10 DEF BeforeDir, Dir!TypeOK
<1>12. Printing(t, b, n)'
  <2>1. ASSUME NEW c \in opened[t], NEW x \in Entries[c], Unprinted(t, b, n, c, x)
        PROVE  Unprinted(t, b, n, c, x)'
    <3>1. \A i \in 1 .. n : i \in 1 .. m /\ i # m
      BY <1>2, <1>3
    <3> QED BY <1>6, <1>10, <2>1, <3>1 DEF Unprinted
  <2> QED BY <1>1, <1>6, <2>1 DEF BeforeDir, Printing
<1> QED BY <1>6, <1>10, <1>11, <1>12 DEF AfterDir, BeforeDir

LEMMA NextEntryDir ==
  ASSUME NEW t \in Thread, NEW b, NEW n, BeforeDir(t, b, n), Dir!NextEntry(t)
  PROVE  AfterDir(t)
<1>0. PICK m, d, k : m = Len(frames[t]) /\ d = Dir!Top(t).dir /\ k = Len(levels)
  OBVIOUS
<1>1. frames[t] # <<>> /\ Dir!Top(t).pc = "next"
  BY DEF Dir!NextEntry, Dir!At
<1>2. /\ m \in Nat \ {0} /\ (n = m \/ n = m - 1) /\ Dir!Top(t) = frames[t][m]
      /\ Dir!Top(t) \in Dir!Frame /\ frames[t] \in Seq(Dir!Frame) /\ d \in Directory /\ Dir!Top(t).exists
      /\ b + m \in Nat /\ ShowdirCall(t, b, n, m)
  BY <1>0, <1>1, TopCall
<1>3. n = m
  BY <1>1, <1>2 DEF ShowdirCall
<1>4. k = b + m /\ b \in Nat /\ levels \in Seq(Dir!Level) /\ levels # <<>>
  <2>1. k = b + n /\ b \in Nat /\ levels \in Seq(Dir!Level)
    BY <1>0 DEF BeforeDir, LevelStack, Dir!TypeOK
  <2>2. k # 0
    BY <1>2, <1>3, <2>1
  <2> QED BY <1>0, <1>3, <2>1, <2>2
<1>5. PICK e \in Dir!Name \cup {NoEntry} :
          /\ Dir!ReadDir(levels, e, levels')
          /\ frames' = Dir!SetTop(t, [Dir!Top(t) EXCEPT !.ss = e, !.pc = "test"])
  BY <1>4 DEF Dir!NextEntry
<1>6. UNCHANGED <<printed, opened, abandoned, unreadable>>
  BY <1>4 DEF Dir!NextEntry
<1> DEFINE fr == [Dir!Top(t) EXCEPT !.ss = e, !.pc = "test"]
<1>7. /\ fr \in Dir!Frame /\ fr.dir = d /\ fr.exists /\ fr.ss = e
      /\ fr.opened = Dir!Top(t).opened /\ fr.pc = "test" /\ frames' = Dir!SetTop(t, fr)
  BY <1>0, <1>2, <1>5 DEF Dir!Frame
<1> HIDE DEF fr
<1>8. frames'[t][m] = fr /\ Len(frames'[t]) = m
  <2>1. frames \in [Thread -> Seq(Dir!Frame)]
    BY DEF BeforeDir, Dir!TypeOK
  <2>2. Len(frames'[t]) = Len(frames[t]) /\ frames'[t][Len(frames[t])] = fr
    BY <1>1, <1>7, <2>1, TopReplaced
  <2> QED BY <1>0, <2>2
<1>9. /\ levels' \in Seq(Dir!Level) /\ Len(levels') = k
      /\ \A i \in 1 .. k : i # k => levels'[i] = levels[i]
      /\ levels'[k].dir = levels[k].dir
      /\ \/ levels[k].left = {} /\ levels'[k].left = {} /\ e = NoEntry
         \/ e \in levels[k].left /\ levels'[k].left = levels[k].left \ {e}
  <2>1. levels \in Seq(Dir!Level) /\ levels # <<>> /\ Dir!ReadDir(levels, e, levels')
    BY <1>4, <1>5
  <2>2. /\ levels' \in Seq(Dir!Level) /\ Len(levels') = Len(levels)
        /\ \A i \in 1 .. Len(levels) : i # Len(levels) => levels'[i] = levels[i]
        /\ levels'[Len(levels)].dir = levels[Len(levels)].dir
        /\ \/ levels[Len(levels)].left = {} /\ levels'[Len(levels)].left = {} /\ e = NoEntry
           \/ e \in levels[Len(levels)].left
              /\ levels'[Len(levels)].left = levels[Len(levels)].left \ {e}
    BY <2>1, ReadsEntry
  <2> QED BY <1>0, <2>2
<1>10. ShowdirCall(t, b, n, m)
       /\ levels[k].dir = d /\ levels[k].left \subseteq Entries[d] /\ Dir!Top(t).opened
       /\ d \in opened[t] /\ NoEntry \notin Entries[d]
  BY <1>0, <1>2, <1>3, <1>4 DEF ShowdirCall, BeforeDir, Dir!DirAssumption
<1>11. ShowdirCall(t, b, n, m)'
  <2>1. ~(m > n) /\ m <= n /\ ~(m < Len(frames'[t])) /\ b + m = k
    BY <1>2, <1>3, <1>4, <1>8
  <2>2. levels'[k].dir = d /\ levels'[k].left \subseteq Entries[d]
    BY <1>9, <1>10
  <2>3. e = NoEntry => levels'[k].left = {}
    BY <1>9, <1>10
  <2>4. e # NoEntry => e \in Entries[d]
    BY <1>9, <1>10
  <2> QED BY <1>2, <1>6, <1>7, <1>8, <1>10, <2>1, <2>2, <2>3, <2>4 DEF ShowdirCall
<1>12. \A i \in 1 .. n : i # m => b + i \in 1 .. k /\ b + i # k
  BY <1>2, <1>3, <1>4
<1>13. /\ frames' \in [Thread -> Seq(Dir!Frame)] /\ frames'[t] # <<>>
       /\ \A i \in 1 .. m : i # m => frames'[t][i] = frames[t][i]
       /\ LevelStack(t, b, n)' /\ b \in 0 .. Len(levels') /\ n \in 0 .. Len(frames'[t])
  <2>1. Len(levels') = Len(levels) /\ opened' = opened /\ abandoned' = abandoned
    BY <1>0, <1>6, <1>9
  <2>2. \A i \in 1 .. n : i # m => levels'[b + i] = levels[b + i]
    BY <1>9, <1>12
  <2>3. fr.dir = Dir!Top(t).dir
    BY <1>0, <1>7
  <2> QED BY <1>0, <1>1, <1>7, <1>11, <2>1, <2>2, <2>3, CallGoesOn
<1>14. Dir!TypeOK'
  <2>1. Len(levels') <= MAX_DIR_LEVEL
    BY <1>0, <1>9 DEF BeforeDir, Dir!TypeOK
  <2> QED BY <1>6, <1>9, <1>13, <2>1 DEF BeforeDir, Dir!TypeOK
<1>15. Printing(t, b, n)'
  <2>1. ASSUME NEW c \in opened[t], NEW x \in Entries[c], Unprinted(t, b, n, c, x)
        PROVE  Unprinted(t, b, n, c, x)'
    <3>1. PICK i \in 1 .. n : /\ frames[t][i].dir = c
                              /\ x \in levels[b + i].left
                                 \/ (frames[t][i].ss = x /\ frames[t][i].pc = "test")
      BY <2>1 DEF Unprinted
    <3>2. CASE i # m
      <4>1. frames'[t][i] = frames[t][i] /\ levels'[b + i] = levels[b + i]
        BY <1>3, <1>9, <1>12, <1>13, <3>2
      <4> QED BY <3>1, <4>1 DEF Unprinted
    <3>3. CASE i = m
      <4>1. c = d /\ x \in levels[k].left
        BY <1>0, <1>1, <1>2, <1>4, <3>1, <3>3
      <4>2. x \in levels'[k].left \/ x = e
        BY <1>9, <4>1
      <4> QED BY <1>4, <1>7, <1>8, <3>3, <4>1, <4>2 DEF Unprinted
    <3> QED BY <3>2, <3>3
  <2> QED BY <1>1, <1>6, <2>1 DEF BeforeDir, Printing
<1> QED BY <1>6, <1>13, <1>14, <1>15 DEF AfterDir, BeforeDir


\* No more entries: the call is to close its level.
LEMMA TestNoEntryDir ==
  ASSUME NEW t \in Thread, NEW b, NEW n, BeforeDir(t, b, n), Dir!TestEntry(t), Dir!Top(t).ss = NoEntry
  PROVE  AfterDir(t)
<1>0. PICK m, d, k : m = Len(frames[t]) /\ d = Dir!Top(t).dir /\ k = Len(levels)
  OBVIOUS
<1>1. frames[t] # <<>> /\ Dir!Top(t).pc = "test"
  BY DEF Dir!TestEntry, Dir!At
<1>2. /\ m \in Nat \ {0} /\ (n = m \/ n = m - 1) /\ Dir!Top(t) = frames[t][m]
      /\ Dir!Top(t) \in Dir!Frame /\ frames[t] \in Seq(Dir!Frame) /\ d \in Directory /\ Dir!Top(t).exists
      /\ ShowdirCall(t, b, n, m)
  BY <1>0, <1>1, TopCall
<1> DEFINE fr == [Dir!Top(t) EXCEPT !.pc = "close"]
<1>3. frames' = Dir!SetTop(t, fr) /\ UNCHANGED <<levels, printed, opened, abandoned, unreadable>>
  BY DEF Dir!TestEntry
<1>4. /\ fr \in Dir!Frame /\ fr.dir = d /\ fr.exists /\ fr.ss = NoEntry
      /\ fr.opened = Dir!Top(t).opened /\ fr.pc = "close"
  BY <1>0, <1>2 DEF Dir!Frame
<1> HIDE DEF fr
<1>5. frames'[t][m] = fr /\ Len(frames'[t]) = m
  <2>1. frames \in [Thread -> Seq(Dir!Frame)]
    BY DEF BeforeDir, Dir!TypeOK
  <2>2. Len(frames'[t]) = Len(frames[t]) /\ frames'[t][Len(frames[t])] = fr
    BY <1>1, <1>3, <1>4, <2>1, TopReplaced
  <2> QED BY <1>0, <2>2
<1>6. ShowdirCall(t, b, n, m)'
  <2>1. ~(m < Len(frames'[t]))
    BY <1>2, <1>5
  <2>2. frames[t][m].dir = d /\ frames[t][m].ss = NoEntry /\ levels' = levels /\ opened' = opened
    BY <1>0, <1>2, <1>3
  <2>3. m <= n => /\ fr.opened /\ d \in opened[t] /\ levels[b + m].dir = d
                  /\ levels[b + m].left \subseteq Entries[d] /\ levels[b + m].left = {}
    BY <1>2, <1>4, <2>2 DEF ShowdirCall
  <2>4. m > n => ~fr.opened
    BY <1>2, <1>4 DEF ShowdirCall
  <2> QED BY <1>2, <1>4, <1>5, <2>1, <2>2, <2>3, <2>4 DEF ShowdirCall
<1>7. /\ frames' \in [Thread -> Seq(Dir!Frame)] /\ frames'[t] # <<>>
      /\ \A i \in 1 .. m : i # m => frames'[t][i] = frames[t][i]
      /\ LevelStack(t, b, n)' /\ b \in 0 .. Len(levels') /\ n \in 0 .. Len(frames'[t])
  BY <1>0, <1>1, <1>3, <1>4, <1>6, CallGoesOn
<1>8. Dir!TypeOK'
  BY <1>3, <1>7 DEF BeforeDir, Dir!TypeOK
<1>9. Printing(t, b, n)'
  <2>1. ASSUME NEW c \in opened[t], NEW x \in Entries[c], Unprinted(t, b, n, c, x)
        PROVE  Unprinted(t, b, n, c, x)'
    <3>1. PICK i \in 1 .. n : /\ frames[t][i].dir = c
                              /\ x \in levels[b + i].left
                                 \/ (frames[t][i].ss = x /\ frames[t][i].pc = "test")
      BY <2>1 DEF Unprinted
    <3>2. CASE i # m
      <4>1. i \in 1 .. m
        BY <1>2
      <4> QED BY <1>3, <1>7, <3>1, <3>2, <4>1 DEF Unprinted
    <3>3. CASE i = m
      <4>1. levels[b + m].left = {}
        BY <1>2, <3>3 DEF ShowdirCall
      <4>2. x # NoEntry
        <5>1. c \in Directory
          BY DEF BeforeDir, Dir!TypeOK
        <5> QED BY <2>1, <5>1 DEF BeforeDir, Dir!DirAssumption
      <4>3. Dir!Top(t).ss = NoEntry /\ frames[t][m] = Dir!Top(t)
        BY <1>2
      <4> QED BY <3>1, <3>3, <4>1, <4>2, <4>3
    <3> QED BY <3>2, <3>3
  <2> QED BY <1>1, <1>3, <2>1 DEF BeforeDir, Printing
<1> QED BY <1>3, <1>7, <1>8, <1>9 DEF AfterDir, BeforeDir

\* An entry is printed, and a call for the directory that it names may begin.
LEMMA TestSomeEntryDir ==
  ASSUME NEW t \in Thread, NEW b, NEW n, BeforeDir(t, b, n), Dir!TestEntry(t), Dir!Top(t).ss # NoEntry
  PROVE  AfterDir(t)
<1>0. PICK m, d, k, e : m = Len(frames[t]) /\ d = Dir!Top(t).dir /\ k = Len(levels) /\ e = Dir!Top(t).ss
  OBVIOUS
<1>1. frames[t] # <<>> /\ Dir!Top(t).pc = "test"
  BY DEF Dir!TestEntry, Dir!At
<1>2. /\ m \in Nat \ {0} /\ (n = m \/ n = m - 1) /\ Dir!Top(t) = frames[t][m]
      /\ Dir!Top(t) \in Dir!Frame /\ frames[t] \in Seq(Dir!Frame) /\ d \in Directory /\ Dir!Top(t).exists
      /\ ShowdirCall(t, b, n, m)
  BY <1>0, <1>1, TopCall
<1>3. n = m
  <2>1. ~(m > n)
    BY <1>0, <1>2 DEF ShowdirCall
  <2> QED BY <1>2, <2>1
<1>4. e \in Entries[d] /\ d \in opened[t] /\ Dir!Top(t).opened
  BY <1>0, <1>2, <1>3 DEF ShowdirCall
<1> DEFINE fr == [Dir!Top(t) EXCEPT !.pc = "next"]
           nf == Dir!NewFrame(e, d \in Directory /\ e \in Entries[d])
           this == Append(Dir!Front(frames[t]), fr)
<1>5. /\ fr \in Dir!Frame /\ fr.dir = d /\ fr.exists /\ fr.ss = e /\ fr.opened /\ fr.pc = "next"
  BY <1>0, <1>2, <1>4 DEF Dir!Frame
<1>6. /\ nf.dir = e /\ nf.exists /\ ~nf.opened /\ nf.ss = NoEntry /\ nf.pc = "open"
      /\ e \in Directory => nf \in Dir!Frame
  BY <1>2, <1>4 DEF Dir!NewFrame, Dir!Frame
<1>7. /\ printed' = [printed EXCEPT ![t] = @ \cup {<<d, e>>}]
      /\ UNCHANGED <<levels, opened, abandoned, unreadable>>
  BY <1>0 DEF Dir!TestEntry
<1>8. \/ frames' = [frames EXCEPT ![t] = this]
      \/ /\ e \in Directory
         /\ frames' = [frames EXCEPT ![t] = Append(this, nf)]
  <2>0. frames \in [Thread -> Seq(Dir!Frame)]
    BY DEF BeforeDir, Dir!TypeOK
  <2>1. PICK dir \in Dir!IsDir(d, e) :
            frames' = IF dir
                      THEN [Dir!SetTop(t, fr) EXCEPT ![t] = Append(@, nf)] ELSE Dir!SetTop(t, fr)
    BY <1>0 DEF Dir!TestEntry
  <2>2. Dir!SetTop(t, fr) = [frames EXCEPT ![t] = this]
    BY DEF Dir!SetTop
  <2>3. CASE dir
    <3>1. frames' = [Dir!SetTop(t, fr) EXCEPT ![t] = Append(@, nf)]
      BY <2>1, <2>3
    <3>2. [Dir!SetTop(t, fr) EXCEPT ![t] = Append(@, nf)] = [frames EXCEPT ![t] = Append(this, nf)]
      <4> HIDE DEF this, nf, fr
      <4> QED BY <2>0, <2>2
    <3>3. e \in Directory
      BY <1>2, <1>4, <2>3 DEF Dir!IsDir
    <3> QED BY <2>3, <3>1, <3>2, <3>3
  <2>4. CASE ~dir
    BY <2>1, <2>2, <2>4
  <2> QED BY <2>3, <2>4
<1>9. /\ this \in Seq(Dir!Frame) /\ Len(this) = m /\ this # <<>> /\ this[m] = fr
      /\ \A i \in 1 .. m : i # m => this[i] = frames[t][i]
  <2> HIDE DEF fr
  <2>1. frames[t] \in Seq(Dir!Frame) /\ frames[t] # <<>>
    BY <1>1, <1>2
  <2> QED BY <1>0, <1>5, <2>1, LastChanges
<1> HIDE DEF fr, nf, this
<1>10. PICK s : /\ s \in Seq(Dir!Frame) /\ frames' = [frames EXCEPT ![t] = s] /\ s # <<>>
                /\ \A i \in 1 .. m : s[i] = this[i]
                /\ \/ Len(s) = m
                   \/ Len(s) = m + 1 /\ s[m + 1] = nf /\ e \in Directory
  <2>1. CASE frames' = [frames EXCEPT ![t] = this]
    BY <1>9, <2>1
  <2>2. CASE e \in Directory /\ frames' = [frames EXCEPT ![t] = Append(this, nf)]
    <3>1. /\ Append(this, nf) \in Seq(Dir!Frame) /\ Len(Append(this, nf)) = m + 1
          /\ Append(this, nf) # <<>> /\ Append(this, nf)[m + 1] = nf
          /\ \A i \in 1 .. m : Append(this, nf)[i] = this[i]
      BY <1>6, <1>9, <2>2
    <3> QED BY <2>2, <3>1
  <2> QED BY <1>8, <2>1, <2>2
<1>11. frames' \in [Thread -> Seq(Dir!Frame)] /\ frames'[t] = s
  BY <1>10 DEF BeforeDir, Dir!TypeOK
<1>12. Dir!TypeOK'
  <2>1. <<d, e>> \in (Directory \cup Dir!Name) \X Dir!Name
    BY <1>2, <1>4 DEF Dir!Name
  <2>2. printed' \in [Thread -> SUBSET ((Directory \cup Dir!Name) \X Dir!Name)]
    BY <1>7, <2>1 DEF BeforeDir, Dir!TypeOK
  <2> QED BY <1>7, <1>11, <2>2 DEF BeforeDir, Dir!TypeOK
<1>13. LevelStack(t, b, n)'
  <2>1. frames[t][1].dir = Root[t] /\ Len(levels) = b + n /\ abandoned = b
    BY <1>0, <1>1 DEF BeforeDir, LevelStack
  <2>2. s[1].dir = Root[t]
    <3>1. s[1] = this[1] /\ (1 # m => this[1] = frames[t][1])
      BY <1>2, <1>9, <1>10
    <3> QED BY <1>0, <1>2, <1>5, <1>9, <2>1, <3>1
  <2>3. Len(s) \in Nat /\ m <= Len(s) /\ Len(s) <= m + 1
    BY <1>2, <1>10
  <2>4. ASSUME NEW i \in 1 .. Len(s) PROVE ShowdirCall(t, b, n, i)'
    <3>1. CASE i \in 1 .. m /\ i # m
      <4>1. i < m /\ i <= n /\ ~(i > n) /\ s[i] = frames[t][i]
        BY <1>2, <1>3, <1>9, <1>10, <3>1
      <4>2. ShowdirCall(t, b, n, i)
        BY <1>0, <3>1 DEF BeforeDir, LevelStack
      <4> QED BY <1>0, <1>7, <1>11, <4>1, <4>2 DEF ShowdirCall
    <3>2. CASE i = m
      <4>1. s[i] = fr /\ i <= n /\ ~(i > n)
        BY <1>2, <1>3, <1>9, <1>10, <3>2
      <4>2. e # NoEntry
        BY <1>0
      <4> QED BY <1>0, <1>2, <1>3, <1>4, <1>5, <1>7, <1>11, <3>2, <4>1, <4>2 DEF ShowdirCall
    <3>3. CASE i \notin 1 .. m
      <4>1. i = m + 1 /\ s[i] = nf /\ e \in Directory /\ ~(i <= n) /\ i > n /\ ~(i < Len(s))
        BY <1>2, <1>3, <1>10, <2>3, <3>3
      <4> QED BY <1>6, <1>11, <4>1 DEF ShowdirCall
    <3> QED BY <3>1, <3>2, <3>3
  <2> QED BY <1>3, <1>7, <1>11, <2>1, <2>2, <2>3, <2>4 DEF LevelStack
<1>14. Printing(t, b, n)'
  <2>0. printed'[t] = printed[t] \cup {<<d, e>>}
    BY <1>7 DEF BeforeDir, Dir!TypeOK
  <2>1. ASSUME NEW c \in opened[t], NEW x \in Entries[c], Unprinted(t, b, n, c, x)
        PROVE  <<c, x>> = <<d, e>> \/ Unprinted(t, b, n, c, x)'
    <3>1. PICK i \in 1 .. n : /\ frames[t][i].dir = c
                              /\ x \in levels[b + i].left
                                 \/ (frames[t][i].ss = x /\ frames[t][i].pc = "test")
      BY <2>1 DEF Unprinted
    <3>2. CASE i # m
      <4>1. s[i] = frames[t][i]
        BY <1>3, <1>9, <1>10, <3>2
      <4> QED BY <1>7, <1>11, <3>1, <4>1 DEF Unprinted
    <3>3. CASE i = m
      <4>1. s[i] = fr
        BY <1>3, <1>9, <1>10, <3>3
      <4>2. c = d /\ (x \in levels[b + i].left \/ x = e)
        BY <1>0, <1>2, <3>1, <3>3
      <4> QED BY <1>5, <1>7, <1>11, <4>1, <4>2 DEF Unprinted
    <3> QED BY <3>2, <3>3
  <2> QED BY <1>1, <1>4, <1>7, <2>0, <2>1 DEF BeforeDir, Printing
<1>15. b \in 0 .. Len(levels') /\ n \in 0 .. Len(frames'[t])
  BY <1>2, <1>3, <1>7, <1>10, <1>11 DEF BeforeDir, LevelStack
<1> QED BY <1>7, <1>12, <1>13, <1>14, <1>15 DEF AfterDir, BeforeDir


\* The innermost call returns and gives back the level that it has opened.
LEMMA CloseDirDir ==
  ASSUME NEW t \in Thread, NEW b, NEW n, BeforeDir(t, b, n), Dir!Close(t)
  PROVE  /\ AfterDir(t)
         /\ Len(frames[t]) = 1 /\ opened[t] # {} =>
                levels' = Dir!Front(levels) /\ Dir!Last(levels).dir = Root[t]
<1>0. PICK m, d, k : m = Len(frames[t]) /\ d = Dir!Top(t).dir /\ k = Len(levels)
  OBVIOUS
<1>1. frames[t] # <<>> /\ Dir!Top(t).pc = "close" /\ frames' = [frames EXCEPT ![t] = Dir!Front(frames[t])]
      /\ UNCHANGED <<printed, opened, abandoned, unreadable>>
  BY DEF Dir!Close, Dir!At
<1>2. /\ m \in Nat \ {0} /\ (n = m \/ n = m - 1) /\ Dir!Top(t) = frames[t][m]
      /\ Dir!Top(t) \in Dir!Frame /\ frames[t] \in Seq(Dir!Frame) /\ d \in Directory /\ Dir!Top(t).exists
      /\ ShowdirCall(t, b, n, m)
  BY <1>0, <1>1, TopCall
<1>3. k = b + n /\ b \in Nat /\ n \in Nat /\ levels \in Seq(Dir!Level)
  BY <1>0 DEF BeforeDir, LevelStack, Dir!TypeOK
<1>4. /\ levels' \in Seq(Dir!Level) /\ Len(levels') = b + (m - 1)
      /\ \A i \in 1 .. m - 1 : levels'[b + i] = levels[b + i]
      /\ n = m => levels' = Dir!Front(levels) /\ Dir!Last(levels) = levels[b + m]
  <2>1. CASE n = m
    <3>1. Dir!Top(t).opened /\ levels # <<>>
      <4>1. m <= n
        BY <1>2, <2>1
      <4>2. k # 0
        BY <1>2, <1>3, <2>1
      <4> QED BY <1>0, <1>2, <1>3, <4>1, <4>2 DEF ShowdirCall
    <3>2. levels' = Dir!Front(levels)
      BY <3>1 DEF Dir!Close, Dir!PopLevel
    <3>3. /\ Len(levels) \in Nat \ {0} /\ Dir!Last(levels) = levels[Len(levels)]
          /\ Dir!Front(levels) \in Seq(Dir!Level) /\ Len(Dir!Front(levels)) = Len(levels) - 1
          /\ \A i \in 1 .. Len(levels) - 1 : Dir!Front(levels)[i] = levels[i]
      BY <1>3, <3>1, LastPart
    <3>4. k - 1 = b + (m - 1) /\ \A i \in 1 .. m - 1 : b + i \in 1 .. k - 1
      BY <1>2, <1>3, <2>1
    <3> QED BY <1>0, <1>3, <2>1, <3>2, <3>3, <3>4
  <2>2. CASE n = m - 1
    <3>1. ~Dir!Top(t).opened
      <4>1. m > n
        BY <1>2, <2>2
      <4> QED BY <1>2, <4>1 DEF ShowdirCall
    <3>2. levels' = levels
      BY <3>1 DEF Dir!Close, BeforeDir, ListsAlone
    <3>3. n # m
      BY <1>2, <2>2
    <3> QED BY <1>0, <1>3, <2>2, <3>2, <3>3
  <2> QED BY <1>2, <2>1, <2>2
<1>5. /\ frames' \in [Thread -> Seq(Dir!Frame)] /\ Len(frames'[t]) = m - 1
      /\ \A i \in 1 .. m - 1 : frames'[t][i] = frames[t][i]
  <2>1. /\ Dir!Front(frames[t]) \in Seq(Dir!Frame) /\ Len(Dir!Front(frames[t])) = Len(frames[t]) - 1
        /\ \A i \in 1 .. Len(frames[t]) - 1 : Dir!Front(frames[t])[i] = frames[t][i]
    BY <1>1, <1>2, LastPart
  <2>2. frames' \in [Thread -> Seq(Dir!Frame)] /\ frames'[t] = Dir!Front(frames[t])
    BY <1>1, <2>1 DEF BeforeDir, Dir!TypeOK
  <2> QED BY <1>0, <2>1, <2>2
<1>6. PICK j : j = m - 1
  OBVIOUS
<1>7. j \in Nat /\ j <= n /\ j < m /\ \A i \in 1 .. j : i \in 1 .. m /\ i < m /\ i <= n /\ ~(i > j)
  BY <1>2, <1>6
<1>8. Dir!TypeOK'
  <2>1. Len(levels') <= MAX_DIR_LEVEL
    <3>1. b + n <= MAX_DIR_LEVEL /\ MAX_DIR_LEVEL \in Nat /\ m - 1 <= n
      BY <1>0, <1>2, <1>3 DEF BeforeDir, Dir!TypeOK, Dir!DirAssumption
    <3> QED BY <1>2, <1>3, <1>4, <3>1
  <2> QED BY <1>1, <1>4, <1>5, <2>1 DEF BeforeDir, Dir!TypeOK
<1>9. LevelStack(t, b, j)'
  <2>1. ASSUME NEW i \in 1 .. j PROVE ShowdirCall(t, b, j, i)'
    <3>1. ShowdirCall(t, b, n, i)
      BY <1>0, <1>7 DEF BeforeDir, LevelStack
    <3>2. i < Len(frames[t]) /\ i <= n /\ ~(i > j)
      BY <1>0, <1>7
    <3>3. frames'[t][i] = frames[t][i] /\ levels'[b + i] = levels[b + i]
      BY <1>4, <1>5, <1>6
    <3> QED BY <1>1, <3>1, <3>2, <3>3 DEF ShowdirCall
  <2>2. frames[t][1].dir = Root[t] /\ abandoned = b
    BY <1>0, <1>1 DEF BeforeDir, LevelStack
  <2>3. frames'[t] # <<>> => frames'[t][1].dir = Root[t]
    <3> SUFFICES ASSUME frames'[t] # <<>> PROVE frames'[t][1].dir = Root[t]
      OBVIOUS
    <3>1. Len(frames'[t]) # 0
      BY <1>5, <1>2 DEF Dir!TypeOK
    <3>2. 1 \in 1 .. m - 1
      BY <1>2, <1>5, <3>1
    <3> QED BY <1>2, <1>5, <1>6, <2>2, <3>2
  <2>4. j <= j /\ j <= j + 1
    BY <1>7
  <2> QED BY <1>1, <1>4, <1>5, <1>6, <2>1, <2>2, <2>3, <2>4 DEF LevelStack
<1>10. Printing(t, b, j)'
  <2>1. frames'[t] # <<>> => j > 0
    <3>1. frames'[t] # <<>> => Len(frames'[t]) # 0
      BY <1>5
    <3> QED BY <1>5, <1>6, <1>7, <3>1
  <2>2. ASSUME NEW c \in opened[t], NEW x \in Entries[c], Unprinted(t, b, n, c, x)
        PROVE  Unprinted(t, b, j, c, x)'
    <3>1. PICK i \in 1 .. n : /\ frames[t][i].dir = c
                              /\ x \in levels[b + i].left
                                 \/ (frames[t][i].ss = x /\ frames[t][i].pc = "test")
      BY <2>2 DEF Unprinted
    <3>2. CASE i = m
      <4>1. levels[b + m].left = {} /\ Dir!Top(t).pc = "close"
        BY <1>1, <1>2, <3>2 DEF ShowdirCall
      <4> QED BY <1>2, <3>1, <3>2, <4>1
    <3>3. CASE i # m
      <4>1. i \in 1 .. j /\ i \in 1 .. m - 1
        BY <1>2, <1>6, <3>3
      <4> QED BY <1>4, <1>5, <3>1, <4>1 DEF Unprinted
    <3> QED BY <3>2, <3>3
  <2> QED BY <1>1, <2>1, <2>2 DEF BeforeDir, Printing
<1>11. b \in 0 .. Len(levels') /\ j \in 0 .. Len(frames'[t])
  BY <1>3, <1>4, <1>5, <1>6, <1>7
<1>12. AfterDir(t)
  BY <1>1, <1>8, <1>9, <1>10, <1>11 DEF AfterDir, BeforeDir
<1>13. ASSUME Len(frames[t]) = 1, opened[t] # {}
       PROVE  levels' = Dir!Front(levels) /\ Dir!Last(levels).dir = Root[t]
  <2>1. n > 0 /\ frames[t][1].dir = Root[t]
    BY <1>1, <1>13 DEF BeforeDir, Printing, LevelStack
  <2>2. n = m /\ m = 1 /\ m <= n
    BY <1>0, <1>2, <1>3, <1>13, <2>1
  <2>3. levels[b + m].dir = frames[t][m].dir
    BY <1>2, <2>2 DEF ShowdirCall
  <2> QED BY <1>4, <2>1, <2>2, <2>3
<1> QED BY <1>12, <1>13

LEMMA EmptyDir ==
  ASSUME NEW t \in Thread, NEW b, NEW n, BeforeDir(t, b, n), Dir!Throw(t) \/ Dir!CloseAll(t)
  PROVE  AfterDir(t)
<1>1. /\ frames' \in [Thread -> Seq(Dir!Frame)] /\ frames'[t] = <<>>
      /\ UNCHANGED <<printed, opened, unreadable>> /\ (levels' = levels \/ levels' = <<>>)
  <2>1. <<>> \in Seq(Dir!Frame) /\ frames \in [Thread -> Seq(Dir!Frame)]
    BY DEF BeforeDir, Dir!TypeOK
  <2>2. CASE Dir!Throw(t)
    BY <2>1, <2>2 DEF Dir!Throw
  <2>3. CASE Dir!CloseAll(t)
    BY <2>1, <2>3 DEF Dir!CloseAll
  <2> QED BY <2>2, <2>3
<1>2. levels' \in Seq(Dir!Level) /\ Len(levels') <= MAX_DIR_LEVEL
  BY <1>1 DEF BeforeDir, Dir!TypeOK, Dir!DirAssumption
<1>3. PICK k : k = Len(levels')
  OBVIOUS
<1>4. k \in Nat /\ Len(frames'[t]) = 0
  BY <1>1, <1>2, <1>3
<1>5. abandoned' = k
  <2>1. CASE Dir!Throw(t)
    <3>1. PICK m : m = Len(frames[t])
      OBVIOUS
    <3>2. frames[t] # <<>> /\ Dir!Top(t).pc = "next" /\ levels' = levels /\ abandoned' = abandoned + m
      BY <2>1, <3>1 DEF Dir!Throw, Dir!At
    <3>3. /\ m \in Nat \ {0} /\ (n = m \/ n = m - 1) /\ Dir!Top(t) = frames[t][m]
          /\ ShowdirCall(t, b, n, m)
      BY <3>1, <3>2, TopCall
    <3>4. n = m
      BY <3>2, <3>3 DEF ShowdirCall
    <3>5. Len(levels) = b + n /\ abandoned = b
      BY DEF BeforeDir, LevelStack
    <3> QED BY <1>3, <3>2, <3>4, <3>5
  <2>2. CASE Dir!CloseAll(t)
    BY <1>3, <2>2 DEF Dir!CloseAll
  <2> QED BY <2>1, <2>2
<1>6. LevelStack(t, k, 0)'
  BY <1>1, <1>3, <1>4, <1>5 DEF LevelStack
<1>7. Printing(t, k, 0)'
  BY <1>1 DEF Printing, BeforeDir
<1>8. Dir!TypeOK'
  BY <1>1, <1>2, <1>4, <1>5 DEF BeforeDir, Dir!TypeOK
<1>9. k \in 0 .. Len(levels') /\ 0 \in 0 .. Len(frames'[t])
  BY <1>3, <1>4
<1> QED BY <1>1, <1>6, <1>7, <1>8, <1>9 DEF AfterDir, BeforeDir

\* Dir has no level left in the array.
LEMMA OverflowDir ==
  ASSUME NEW t \in Thread, NEW b, NEW n, BeforeDir(t, b, n), Dir!OpenDir(t) \/ Dir!OpenDirFails(t),
         Len(levels) = MAX_DIR_LEVEL
  PROVE  AfterDir(t)
<1>1. /\ frames[t] # <<>> /\ Dir!Top(t).pc = "open" /\ unreadable' = "overflow"
      /\ UNCHANGED <<levels, frames, printed, opened, abandoned>>
  BY DEF Dir!OpenDir, Dir!OpenDirFails, Dir!At
<1>2. PICK m : m = Len(frames[t])
  OBVIOUS
<1>3. /\ m \in Nat \ {0} /\ (n = m \/ n = m - 1) /\ Dir!Top(t) = frames[t][m]
      /\ ShowdirCall(t, b, n, m)
  BY <1>1, <1>2, TopCall
<1>4. n = m - 1
  BY <1>1, <1>3 DEF ShowdirCall
<1>5. Len(levels) = b + n /\ abandoned = b /\ b \in Nat /\ n \in Nat
  BY DEF BeforeDir, LevelStack
<1>6. abandoned' + Len(frames'[t]) > MAX_DIR_LEVEL
  BY <1>1, <1>2, <1>3, <1>4, <1>5
<1>7. LevelStack(t, b, n)'
  BY <1>1 DEF BeforeDir, LevelStack, ShowdirCall
<1>8. Printing(t, b, n)'
  BY <1>1 DEF BeforeDir, Printing, Unprinted
<1>9. Dir!TypeOK'
  BY <1>1 DEF BeforeDir, Dir!TypeOK
<1>10. b \in 0 .. Len(levels') /\ n \in 0 .. Len(frames'[t])
  BY <1>1, <1>2, <1>3, <1>4, <1>5
<1> QED BY <1>1, <1>6, <1>7, <1>8, <1>9, <1>10 DEF AfterDir

-----------------------------------------------------------------------------
(* The invariant, and what follows from it. *)

LEMMA StackOf ==
  ASSUME Dir!DirAssumption, ListsAlone, DirInv, NEW t \in Thread
  PROVE  \E b, n : BeforeDir(t, b, n)
<1>1. PICK b \in 0 .. Len(levels), n \in 0 .. Len(frames[t]) : LevelStack(t, b, n) /\ Printing(t, b, n)
  BY DEF DirInv
<1>2. b \in Nat /\ n \in Nat
  OBVIOUS
<1> QED BY <1>1, <1>2 DEF DirInv, BeforeDir

LEMMA InitDir == Dir!DirAssumption /\ Dir!Init => DirInv
<1> SUFFICES ASSUME Dir!DirAssumption, Dir!Init PROVE DirInv
  OBVIOUS
<1>1. Dir!TypeOK /\ Dir!FaultForReason
  <2>1. <<>> \in Seq(Dir!Frame) /\ <<>> \in Seq(Dir!Level) /\ Len(<<>>) = 0
    OBVIOUS
  <2>2. frames \in [Thread -> Seq(Dir!Frame)]
    BY <2>1 DEF Dir!Init
  <2>3. levels \in Seq(Dir!Level) /\ Len(levels) <= MAX_DIR_LEVEL
    BY <2>1 DEF Dir!Init, Dir!DirAssumption
  <2>4. /\ printed \in [Thread -> SUBSET ((Directory \cup Dir!Name) \X Dir!Name)]
        /\ opened \in [Thread -> SUBSET Directory] /\ unreadable = "none" /\ abandoned = 0
    BY DEF Dir!Init
  <2> QED BY <2>2, <2>3, <2>4 DEF Dir!TypeOK, Dir!FaultForReason
<1>2. ASSUME NEW t \in Thread PROVE LevelStack(t, 0, 0) /\ Printing(t, 0, 0)
  BY DEF Dir!Init, LevelStack, Printing
<1>3. 0 \in 0 .. Len(levels) /\ \A t \in Thread : 0 \in 0 .. Len(frames[t])
  BY DEF Dir!Init
<1> QED BY <1>1, <1>2, <1>3 DEF DirInv

LEMMA NextDir == Dir!DirAssumption /\ ListsAlone /\ DirInv /\ [Dir!Next]_Dir!vars => DirInv'
<1> SUFFICES ASSUME Dir!DirAssumption, ListsAlone, DirInv, [Dir!Next]_Dir!vars PROVE DirInv'
  OBVIOUS
<1>1. CASE UNCHANGED Dir!vars
  <2>1. UNCHANGED <<levels, frames, printed, opened, abandoned, unreadable>>
    BY <1>1 DEF Dir!vars
  <2>2. \A t \in Thread : \A b, n : LevelStack(t, b, n) => LevelStack(t, b, n)'
    BY <2>1 DEF LevelStack, ShowdirCall
  <2>3. \A t \in Thread : \A b, n : Printing(t, b, n) => Printing(t, b, n)'
    BY <2>1 DEF Printing, Unprinted
  <2> QED BY <2>1, <2>2, <2>3 DEF DirInv, Dir!TypeOK, Dir!FaultForReason
<1>2. CASE Dir!Next
  <2>1. PICK t \in Thread : Dir!Start(t) \/ Dir!Showdir(t) \/ Dir!Throw(t) \/ Dir!CloseAll(t)
    BY <1>2 DEF Dir!Next
  <2>2. PICK b, n : BeforeDir(t, b, n)
    BY StackOf
  <2>3. AfterDir(t)
    <3>1. CASE Dir!Start(t)
      BY <2>2, <3>1, StartDir
    <3>2. CASE Dir!OpenDir(t) \/ Dir!OpenDirFails(t)
      BY <2>2, <3>2, OpenDirDir, OpenDirFailsDir, OverflowDir
    <3>3. CASE Dir!TestEntry(t)
      BY <2>2, <3>3, TestNoEntryDir, TestSomeEntryDir
    <3>4. CASE Dir!NextEntry(t) \/ Dir!Close(t)
      BY <2>2, <3>4, NextEntryDir, CloseDirDir
    <3>5. CASE Dir!Throw(t) \/ Dir!CloseAll(t)
      BY <2>2, <3>5, EmptyDir
    <3> QED BY <2>1, <3>1, <3>2, <3>3, <3>4, <3>5 DEF Dir!Showdir
  <2>4. \A u \in Thread : u = t
    BY DEF ListsAlone
  <2>5. unreadable = "none"
    BY <2>1 DEF Dir!Start, Dir!Showdir, Dir!OpenDir, Dir!OpenDirFails, Dir!TestEntry,
                Dir!NextEntry, Dir!Close, Dir!Throw, Dir!CloseAll, Dir!At
  <2>6. Dir!FaultForReason'
    BY <2>3, <2>5 DEF AfterDir, Dir!FaultForReason
  <2> QED BY <2>3, <2>4, <2>6 DEF AfterDir, DirInv
<1> QED BY <1>1, <1>2

\* When one thread lists directories and closes only what Dir has opened for it, the levels
\* on top of the stack are those of its calls, in their order, whatever levels exceptions
\* have left below, readdir always has a level to read, and the array overflows only when
\* these calls and those levels are more than it has (Dir, CloseDir).
THEOREM LevelsAreTheCalls ==
  Dir!DirAssumption /\ ListsAlone => (Dir!Spec => [](Dir!LevelsMatch /\ Dir!FaultForReason))
<1> SUFFICES ASSUME Dir!DirAssumption, ListsAlone PROVE Dir!Spec => [](Dir!LevelsMatch /\ Dir!FaultForReason)
  OBVIOUS
<1>1. Dir!Init => DirInv
  BY InitDir
<1>2. DirInv /\ [Dir!Next]_Dir!vars => DirInv'
  BY NextDir
<1>3. DirInv => Dir!LevelsMatch /\ Dir!FaultForReason
  <2> SUFFICES ASSUME DirInv, NEW t \in Thread
               PROVE  /\ Len(levels) >= Len(Dir!OpenFrames(t))
                      /\ \A i \in 1 .. Len(Dir!OpenFrames(t)) :
                            /\ Dir!OpenFrames(t)[i].opened
                            /\ levels[Len(levels) - Len(Dir!OpenFrames(t)) + i].dir
                                   = Dir!OpenFrames(t)[i].dir
    BY DEF DirInv, Dir!LevelsMatch, Dir!FaultForReason
  <2>1. PICK b, n : BeforeDir(t, b, n)
    BY StackOf
  <2>2. /\ frames[t] \in Seq(Dir!Frame) /\ Len(levels) = b + n /\ b \in Nat /\ n \in Nat
        /\ n <= Len(frames[t]) /\ Len(frames[t]) <= n + 1
        /\ \A i \in 1 .. Len(frames[t]) : ShowdirCall(t, b, n, i)
    BY <2>1 DEF BeforeDir, LevelStack, Dir!TypeOK
  <2>3. Len(Dir!OpenFrames(t)) = n /\ \A i \in 1 .. n : Dir!OpenFrames(t)[i] = frames[t][i]
    <3>1. CASE frames[t] = <<>>
      BY <2>2, <3>1 DEF Dir!OpenFrames
    <3>2. CASE frames[t] # <<>>
      <4>1. PICK m : m = Len(frames[t])
        OBVIOUS
      <4>2. m \in Nat \ {0} /\ (n = m \/ n = m - 1) /\ Dir!Top(t) = frames[t][m] /\ ShowdirCall(t, b, n, m)
        BY <2>1, <3>2, <4>1, TopCall
      <4>3. CASE n = m
        <5>1. Dir!Top(t).opened
          BY <4>2, <4>3 DEF ShowdirCall
        <5> QED BY <4>1, <4>3, <5>1 DEF Dir!OpenFrames
      <4>4. CASE n = m - 1
        <5>1. m > n
          BY <4>2, <4>4
        <5>2. ~Dir!Top(t).opened
          BY <4>2, <5>1 DEF ShowdirCall
        <5>3. Dir!OpenFrames(t) = Dir!Front(frames[t])
          BY <3>2, <5>2 DEF Dir!OpenFrames
        <5>4. /\ Len(Dir!Front(frames[t])) = Len(frames[t]) - 1
              /\ \A i \in 1 .. Len(frames[t]) - 1 : Dir!Front(frames[t])[i] = frames[t][i]
          BY <2>2, <3>2, LastPart
        <5> QED BY <4>1, <4>4, <5>3, <5>4
      <4> QED BY <4>2, <4>3, <4>4
    <3> QED BY <3>1, <3>2
  <2>4. Len(levels) >= n /\ \A i \in 1 .. n : Len(levels) - n + i = b + i /\ i <= n /\ i \in 1 .. Len(frames[t])
    BY <2>2
  <2> QED BY <2>2, <2>3, <2>4 DEF ShowdirCall
<1> QED BY <1>1, <1>2, <1>3, PTL DEF Dir!Spec

\* When such a listing returns, it has printed all entries of all directories that it has
\* opened and nothing else, and has given back its level (Dir, CloseDir).
THEOREM ListingIsWhole == Dir!DirAssumption /\ ListsAlone => (Dir!Spec => Dir!ListsAll)
<1> SUFFICES ASSUME Dir!DirAssumption, ListsAlone PROVE Dir!Spec => Dir!ListsAll
  OBVIOUS
<1>1. Dir!Init => DirInv
  BY InitDir
<1>2. DirInv /\ [Dir!Next]_Dir!vars => DirInv'
  BY NextDir
<1>3. ASSUME DirInv, [Dir!Next]_Dir!vars, NEW t \in Thread,
             Dir!At(t, "close"), Len(frames[t]) = 1, frames'[t] = <<>>
      PROVE  /\ printed[t] = UNION {{d} \X Entries[d] : d \in opened[t]}
             /\ opened[t] # {} => levels' = Dir!Front(levels) /\ Dir!Last(levels).dir = Root[t]
  <2>1. PICK b, n : BeforeDir(t, b, n)
    BY <1>3, StackOf
  <2>2. frames[t] # <<>> /\ Dir!Top(t).pc = "close"
    BY <1>3 DEF Dir!At
  <2>3. Dir!Close(t)
    <3>1. PICK u \in Thread : Dir!Start(u) \/ Dir!Showdir(u) \/ Dir!Throw(u) \/ Dir!CloseAll(u)
      BY <1>3, <2>2 DEF Dir!Next, Dir!vars
    <3>2. u = t
      BY DEF ListsAlone
    <3> QED BY <2>2, <3>1, <3>2 DEF Dir!Start, Dir!Showdir, Dir!OpenDir, Dir!OpenDirFails,
                                    Dir!TestEntry, Dir!NextEntry,
                                    Dir!Throw, Dir!CloseAll, Dir!At
  <2>4. \A d \in opened[t] : \A e \in Entries[d] : ~Unprinted(t, b, n, d, e)
    <3> SUFFICES ASSUME NEW d \in opened[t], NEW e \in Entries[d], Unprinted(t, b, n, d, e) PROVE FALSE
      OBVIOUS
    <3>1. PICK i \in 1 .. n : e \in levels[b + i].left \/ frames[t][i].pc = "test"
      BY DEF Unprinted
    <3>2. n \in Nat /\ (n = 1 \/ n = 0) /\ Dir!Top(t) = frames[t][1] /\ ShowdirCall(t, b, n, 1)
      <4>1. PICK m : m = Len(frames[t])
        OBVIOUS
      <4>2. (n = m \/ n = m - 1) /\ Dir!Top(t) = frames[t][m] /\ ShowdirCall(t, b, n, m)
        BY <2>1, <2>2, <4>1, TopCall
      <4>3. m = 1
        BY <1>3, <4>1
      <4> QED BY <4>2, <4>3
    <3>3. i = 1 /\ 1 <= n
      BY <3>2
    <3>4. levels[b + 1].left = {}
      BY <2>2, <3>2, <3>3 DEF ShowdirCall
    <3> QED BY <2>2, <3>1, <3>2, <3>3, <3>4
  <2>5. \A d \in opened[t] : \A e \in Entries[d] : <<d, e>> \in printed[t]
    BY <2>1, <2>2, <2>4 DEF BeforeDir, Printing
  <2>6. \A p \in printed[t] : p[1] \in opened[t] /\ p[2] \in Entries[p[1]] /\ p = <<p[1], p[2]>>
    BY <2>1 DEF BeforeDir, Printing, Dir!TypeOK
  <2>7. printed[t] = UNION {{d} \X Entries[d] : d \in opened[t]}
    BY <2>5, <2>6
  <2> QED BY <1>3, <2>1, <2>3, <2>7, CloseDirDir
<1>4. DirInv /\ [Dir!Next]_Dir!vars =>
        [\A t \in Thread :
            (Dir!At(t, "close") /\ Len(frames[t]) = 1 /\ frames'[t] = <<>>) =>
               /\ printed[t] = UNION {{d} \X Entries[d] : d \in opened[t]}
               /\ opened[t] # {} => levels' = Dir!Front(levels) /\ Dir!Last(levels).dir = Root[t]]_Dir!vars
  BY <1>3
<1> QED BY <1>1, <1>2, <1>4, PTL DEF Dir!Spec, Dir!ListsAll
=============================================================================
