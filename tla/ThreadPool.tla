----------------------------- MODULE ThreadPool -----------------------------
(* The task queue of an httplib server (include/httplib.h, ThreadPool): worker *)
(* threads that take closures from a list under a mutex and a condition        *)
(* variable.  What the code does while it holds the mutex is one step; wait()  *)
(* gives the mutex back and blocks in the step that found nothing to do.       *)
EXTENDS Naturals, Sequences, FiniteSets

CONSTANTS Worker,   \* the threads of threads_
          Job,      \* the closures that may be enqueued
          NoJob     \* fn of a worker that has none

ASSUME PoolAssumption == Worker # {} /\ IsFiniteSet(Worker) /\ NoJob \notin Job

VARIABLES jobs,     \* jobs_
          at,       \* where each worker is: before the predicate, blocked, in fn(), left
          fn,       \* the closure a worker took
          down,     \* how far shutdown() is; shutdown_ is down # "no"
          given,    \* history: every closure enqueued so far
          done      \* history: every closure that has returned

poolVars == <<jobs, at, fn, down, given, done>>

PoolTypeOK ==
    /\ jobs \in Seq(Job)
    /\ at \in [Worker -> {"look", "wait", "run", "left"}]
    /\ fn \in [Worker -> Job \cup {NoJob}]
    /\ down \in {"no", "flagged", "notified", "joined"}
    /\ given \in SUBSET Job
    /\ done \in SUBSET Job

PoolInit ==
    /\ jobs = <<>>
    /\ at = [w \in Worker |-> "look"]
    /\ fn = [w \in Worker |-> NoJob]
    /\ down = "no"
    /\ given = {}
    /\ done = {}

Waiting == {w \in Worker : at[w] = "wait"}
-----------------------------------------------------------------------------
\* enqueue(): notify_one wakes one of the blocked workers, or nobody.
Enqueue(j) ==
    /\ down = "no"
    /\ j \notin given
    /\ jobs' = Append(jobs, j)
    /\ given' = given \cup {j}
    /\ \/ \E w \in Waiting : at' = [at EXCEPT ![w] = "look"]
       \/ Waiting = {} /\ UNCHANGED at
    /\ UNCHANGED <<fn, down, done>>

\* shutdown(): the flag under the mutex, notify_all without it, the joins.
Flag ==
    /\ down = "no"
    /\ down' = "flagged"
    /\ UNCHANGED <<jobs, at, fn, given, done>>

\* Mutant: one worker is notified instead of all.
NotifyOne ==
    /\ down = "flagged"
    /\ down' = "notified"
    /\ \/ \E w \in Waiting : at' = [at EXCEPT ![w] = "look"]
       \/ Waiting = {} /\ UNCHANGED at
    /\ UNCHANGED <<jobs, fn, given, done>>

NotifyAll ==
    /\ down = "flagged"
    /\ down' = "notified"
    /\ at' = [w \in Worker |-> IF w \in Waiting THEN "look" ELSE at[w]]
    /\ UNCHANGED <<jobs, fn, given, done>>

Join ==
    /\ down = "notified"
    /\ \A w \in Worker : at[w] = "left"
    /\ down' = "joined"
    /\ UNCHANGED <<jobs, at, fn, given, done>>

\* worker::operator(): the predicate of wait(), and what follows when it holds.
Blocks(w) ==
    /\ at[w] = "look" /\ jobs = <<>> /\ down = "no"
    /\ at' = [at EXCEPT ![w] = "wait"]
    /\ UNCHANGED <<jobs, fn, down, given, done>>

\* Mutant: a worker leaves as soon as the flag is set.
LeavesEarly(w) ==
    /\ at[w] = "look" /\ down # "no"
    /\ at' = [at EXCEPT ![w] = "left"]
    /\ UNCHANGED <<jobs, fn, down, given, done>>

Leaves(w) ==
    /\ at[w] = "look" /\ jobs = <<>> /\ down # "no"
    /\ at' = [at EXCEPT ![w] = "left"]
    /\ UNCHANGED <<jobs, fn, down, given, done>>

Takes(w) ==
    /\ at[w] = "look" /\ jobs # <<>>
    /\ at' = [at EXCEPT ![w] = "run"]
    /\ fn' = [fn EXCEPT ![w] = Head(jobs)]
    /\ jobs' = Tail(jobs)
    /\ UNCHANGED <<down, given, done>>

Look(w) == Blocks(w) \/ Leaves(w) \/ Takes(w)

\* wait() may return without a notification.
Wakes(w) ==
    /\ at[w] = "wait"
    /\ at' = [at EXCEPT ![w] = "look"]
    /\ UNCHANGED <<jobs, fn, down, given, done>>

\* fn() has returned and the closure is destroyed.
Returns(w) ==
    /\ at[w] = "run"
    /\ at' = [at EXCEPT ![w] = "look"]
    /\ fn' = [fn EXCEPT ![w] = NoJob]
    /\ done' = done \cup {fn[w]}
    /\ UNCHANGED <<jobs, down, given>>

PoolNext ==
    \/ \E j \in Job : Enqueue(j)
    \/ Flag \/ NotifyAll \/ Join
    \/ \E w \in Worker : Look(w) \/ Wakes(w) \/ Returns(w)

PoolSpec == PoolInit /\ [][PoolNext]_poolVars
-----------------------------------------------------------------------------
Queued == {jobs[i] : i \in 1 .. Len(jobs)}
Running == {fn[w] : w \in {v \in Worker : at[v] = "run"}}

\* A closure that was enqueued is in one place: once in the list, with one worker,
\* or finished.  None is run twice and none is lost, whatever the order of
\* enqueue, wake-ups and shutdown (ThreadPool::enqueue, worker::operator()).
OneOwner ==
    /\ given = Queued \cup Running \cup done
    /\ Queued \cap Running = {} /\ Queued \cap done = {} /\ Running \cap done = {}
    /\ \A i, k \in 1 .. Len(jobs) : jobs[i] = jobs[k] => i = k
    /\ \A v, w \in Worker : at[v] = "run" /\ at[w] = "run" /\ fn[v] = fn[w] => v = w

\* Workers leave only when everything enqueued has been taken, so shutdown()
\* returns after the last closure has: stopping drains the queue.
Drained ==
    /\ (\E w \in Worker : at[w] = "left") => jobs = <<>> /\ down # "no"
    /\ down = "joined" => given = done

\* No wake-up is lost: while the list has a closure some worker is on its way to
\* it, and after notify_all nobody is blocked.
NeverStuck ==
    /\ jobs # <<>> => \E w \in Worker : at[w] \in {"look", "run"}
    /\ down \in {"notified", "joined"} => Waiting = {}

PoolSound == OneOwner /\ Drained /\ NeverStuck
=============================================================================
