----------------------------- MODULE WorkersPool -----------------------------
(***************************************************************************)
(* WorkersPool: an io_context, the threads that run it and the counter of  *)
(* its tasks; and AsyncContext, the shared owner of the pool, which        *)
(* runAsync reaches through a weak pointer.                                *)
(*                                                                         *)
(* The owner is the thread that made the context: main, which also reads   *)
(* the requests, or a test.  A task may call runAsync too; while it does   *)
(* it holds a reference of its own, and whoever drops the last reference   *)
(* runs the destructor.                                                    *)
(***************************************************************************)
EXTENDS Naturals, Sequences, FiniteSets

CONSTANTS Tasks, PoolThreads, Owner, Nobody, NoTask

ASSUME PoolAssumption ==
    /\ {Owner, Nobody} \cap PoolThreads = {} /\ Owner # Nobody
    /\ NoTask \notin Tasks /\ PoolThreads # {} /\ IsFiniteSet(PoolThreads)

VARIABLES
    handlers,   \* io_context_: the tasks posted and not yet taken
    exec,       \* exec[t]: the task that thread t executes
    at,         \* at[t]: where thread t is in runThread
    counter,    \* counter_
    owning,     \* does the owner hold its reference to the context
    destroyer,  \* who runs the destructor of the pool
    pool,       \* "running", "stopped" (io_context_.stop), "gone" or "aborted"
    posted,     \* history: the tasks posted
    ended,      \* history: the tasks that ended normally
    thrown      \* history: the tasks that ended by an exception

poolVars == <<handlers, exec, at, counter, owning, destroyer, pool, posted, ended, thrown>>

Places == {"ready", "body", "locked", "posted", "destroying", "done"}

InTask == {t \in PoolThreads : exec[t] # NoTask}
Holders == {t \in PoolThreads : at[t] \in {"locked", "posted"}}

------------------------------------------------------------------------------
(* WorkersPool::post *)

Queued(q, x) == Append(q, x)

PostTask(x) ==
    /\ x \in Tasks \ posted
    /\ counter' = counter + 1
    /\ handlers' = Queued(handlers, x)
    /\ posted' = posted \cup {x}

OwnerPosts(x) ==
    /\ owning
    /\ PostTask(x)
    /\ UNCHANGED <<exec, at, owning, destroyer, pool, ended, thrown>>

(* runAsync inside a task: the weak pointer is locked, ... *)
LockContext(t) ==
    /\ at[t] = "body"
    /\ owning \/ Holders # {}
    /\ at' = [at EXCEPT ![t] = "locked"]
    /\ UNCHANGED <<handlers, exec, counter, owning, destroyer, pool, posted, ended, thrown>>

(* ... the task is posted, ... *)
PostFromTask(t, x) ==
    /\ at[t] = "locked"
    /\ PostTask(x)
    /\ at' = [at EXCEPT ![t] = "posted"]
    /\ UNCHANGED <<exec, owning, destroyer, pool, ended, thrown>>

(* ... and the reference dropped. *)
DropContext(t) ==
    /\ at[t] = "posted"
    /\ IF ~owning /\ Holders = {t}
       THEN at' = [at EXCEPT ![t] = "destroying"] /\ destroyer' = t
       ELSE at' = [at EXCEPT ![t] = "body"] /\ UNCHANGED destroyer
    /\ UNCHANGED <<handlers, exec, counter, owning, pool, posted, ended, thrown>>

------------------------------------------------------------------------------
(* runThread *)

Take(t) ==
    /\ at[t] = "ready" /\ pool = "running" /\ handlers # <<>>
    /\ exec' = [exec EXCEPT ![t] = Head(handlers)]
    /\ handlers' = Tail(handlers)
    /\ at' = [at EXCEPT ![t] = "body"]
    /\ UNCHANGED <<counter, owning, destroyer, pool, posted, ended, thrown>>

KeepsTask(t) == UNCHANGED exec
LeavesTask(t) == exec' = [exec EXCEPT ![t] = NoTask]

Finish(t) ==
    /\ at[t] = "body"
    /\ counter' = counter - 1
    /\ ended' = ended \cup {exec[t]}
    /\ LeavesTask(t) /\ at' = [at EXCEPT ![t] = "ready"]
    /\ UNCHANGED <<handlers, owning, destroyer, pool, posted, thrown>>

AfterThrowLeave == "done"
AfterThrow == "ready"

CountOfThrown == counter

(* An exception skips endTask; runThread catches it and runs again. *)
Throw(t) ==
    /\ at[t] = "body"
    /\ counter' = CountOfThrown
    /\ thrown' = thrown \cup {exec[t]}
    /\ LeavesTask(t) /\ at' = [at EXCEPT ![t] = AfterThrow]
    /\ UNCHANGED <<handlers, owning, destroyer, pool, posted, ended>>

(* run() returns once the io_context is stopped, tasks left or not. *)
Exit(t) ==
    /\ at[t] = "ready" /\ pool = "stopped"
    /\ at' = [at EXCEPT ![t] = "done"]
    /\ UNCHANGED <<handlers, exec, counter, owning, destroyer, pool, posted, ended, thrown>>

------------------------------------------------------------------------------
(* ~WorkersPool *)

OwnerReleases ==
    /\ owning /\ owning' = FALSE
    /\ destroyer' = IF Holders = {} THEN Owner ELSE destroyer
    /\ UNCHANGED <<handlers, exec, at, counter, pool, posted, ended, thrown>>

Stop ==
    /\ destroyer # Nobody /\ pool = "running"
    /\ pool' = "stopped"
    /\ UNCHANGED <<handlers, exec, at, counter, owning, destroyer, posted, ended, thrown>>

JoinedAny == \E t \in PoolThreads : at[t] = "done"
JoinedAll == \A t \in PoolThreads : at[t] = "done"

(* The tasks left are destroyed with the io_context. *)
Join ==
    /\ pool = "stopped" /\ destroyer = Owner /\ JoinedAll
    /\ pool' = "gone" /\ handlers' = <<>>
    /\ UNCHANGED <<exec, at, counter, owning, destroyer, posted, ended, thrown>>

(* The process ends with all its threads. *)
Abort ==
    /\ pool' = "aborted" /\ handlers' = <<>>
    /\ exec' = [t \in PoolThreads |-> NoTask] /\ at' = [t \in PoolThreads |-> "done"]
    /\ UNCHANGED <<counter, owning, destroyer, posted, ended, thrown>>

(* A thread of the pool joins itself: join throws, and a destructor is noexcept. *)
JoinSelf ==
    /\ pool = "stopped" /\ destroyer \in PoolThreads
    /\ Abort

------------------------------------------------------------------------------
PoolInit ==
    /\ handlers = <<>> /\ counter = 0
    /\ exec = [t \in PoolThreads |-> NoTask]
    /\ at = [t \in PoolThreads |-> "ready"]
    /\ owning = TRUE /\ destroyer = Nobody /\ pool = "running"
    /\ posted = {} /\ ended = {} /\ thrown = {}

(* What only a task that posts other tasks does. *)
Reposting ==
    \/ JoinSelf
    \/ \E t \in PoolThreads :
         LockContext(t) \/ DropContext(t) \/ \E x \in Tasks : PostFromTask(t, x)

PoolNext ==
    \/ \E x \in Tasks : OwnerPosts(x)
    \/ \E t \in PoolThreads : Take(t) \/ Finish(t) \/ Throw(t) \/ Exit(t)
    \/ OwnerReleases \/ Stop \/ Join
    \/ Reposting

PoolSpec == PoolInit /\ [][PoolNext]_poolVars

------------------------------------------------------------------------------
(* Properties *)

PoolTypeOK ==
    /\ handlers \in Seq(Tasks)
    /\ exec \in [PoolThreads -> Tasks \cup {NoTask}]
    /\ at \in [PoolThreads -> Places]
    /\ counter \in Nat /\ owning \in BOOLEAN
    /\ destroyer \in PoolThreads \cup {Owner, Nobody}
    /\ pool \in {"running", "stopped", "gone", "aborted"}
    /\ posted \subseteq Tasks /\ ended \subseteq Tasks /\ thrown \subseteq Tasks
    /\ \A t \in PoolThreads : (exec[t] = NoTask) <=> (at[t] \in {"ready", "done"})

(***************************************************************************)
(* The counter that the destructor logs as "counter tasks" counts, while   *)
(* the pool lives, the tasks that wait, those that run and those that ever *)
(* threw: endTask is skipped by an exception and nothing makes up for it.  *)
(***************************************************************************)
CounterCountsThrown ==
    pool \in {"running", "stopped"} =>
        counter = Len(handlers) + Cardinality(InTask) + Cardinality(thrown)

(***************************************************************************)
(* Once the destructor has returned no thread is inside a task, and every  *)
(* task that was posted and neither ended nor threw was never begun.       *)
(***************************************************************************)
NothingRunsAfterJoin ==
    pool = "gone" => InTask = {} /\ counter = Cardinality(posted \ ended)

(***************************************************************************)
(* "ASSERT_EQ(status, expected)" of simpleTwoTaskFromPrev: a task may post *)
(* another, and the owner may then let go of the context; the process does *)
(* not end by a thread of the pool destroying the pool.                    *)
(***************************************************************************)
NeverAborted == pool # "aborted"

==============================================================================
