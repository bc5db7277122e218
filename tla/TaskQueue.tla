------------------------------ MODULE TaskQueue ------------------------------
(***************************************************************************)
(* ThreadSafeQueue: a std::queue of tasks, a mutex, a condition variable   *)
(* and a fixed set of threads that execute the tasks.  The session writers *)
(* push a task for every response.                                         *)
(*                                                                         *)
(* Whoever holds the mutex only does so within one action, except between  *)
(* the evaluation of the predicate of cv_.wait and the moment the thread   *)
(* blocks: the destructor takes no mutex and may run in between.           *)
(***************************************************************************)
EXTENDS Naturals, Sequences, FiniteSets

CONSTANTS Tasks, Threads, NoTask, NoThread

ASSUME QueueAssumption ==
    NoTask \notin Tasks /\ NoThread \notin Threads /\ Threads # {} /\ IsFiniteSet(Threads)

VARIABLES
    tasks,      \* queueTasks_
    quit,       \* quit_
    holder,     \* cv_mutex_: the thread that holds it between two actions
    pc,         \* pc[t]: where thread t is in worker()
    running,    \* running[t]: the task that t executes
    finished,   \* history: the tasks executed, with or without an exception
    owner,      \* the owner of the queue
    lost        \* history: some thread was between the predicate and the wait
                \* when the destructor notified

tqVars == <<tasks, quit, holder, pc, running, finished, owner, lost>>

Pcs == {"unborn", "loop", "lock", "block", "wait", "run", "leave", "done"}
Active == {running[t] : t \in {t \in Threads : running[t] # NoTask}}
Pushed == {tasks[i] : i \in DOMAIN tasks} \cup Active \cup finished

Move(t, l) == pc' = [pc EXCEPT ![t] = l]

------------------------------------------------------------------------------
(* The owner: main, or the last holder of the shared pointer. *)

Spawn(t) ==
    /\ owner = "starting" /\ pc[t] = "unborn"
    /\ Move(t, "loop")
    /\ UNCHANGED <<tasks, quit, holder, running, finished, owner, lost>>

(* start() resets the flag after it has created the threads. *)
Started ==
    /\ owner = "starting" /\ \A t \in Threads : pc[t] # "unborn"
    /\ quit' = FALSE /\ owner' = "serving"
    /\ UNCHANGED <<tasks, holder, pc, running, finished, lost>>

(* ~ThreadSafeQueue sets the flag ... *)
Quit ==
    /\ owner = "serving"
    /\ quit' = TRUE /\ owner' = "notifying"
    /\ UNCHANGED <<tasks, holder, pc, running, finished, lost>>

Anyway == TRUE
MutexFree == holder = NoThread

WokenFirst == \E t \in Threads : pc[t] = "wait" /\ Move(t, "lock")
WokenAll == pc' = [t \in Threads |-> IF pc[t] = "wait" THEN "lock" ELSE pc[t]]

(* ... wakes the threads that wait, both without the mutex ... *)
NotifyAll ==
    /\ owner = "notifying"
    /\ WokenAll
    /\ lost' = (\E t \in Threads : pc[t] = "block")
    /\ owner' = "joining"
    /\ UNCHANGED <<tasks, quit, holder, running, finished>>

(* ... and joins every thread. *)
Join ==
    /\ owner = "joining" /\ \A t \in Threads : pc[t] = "done"
    /\ owner' = "gone"
    /\ UNCHANGED <<tasks, quit, holder, pc, running, finished, lost>>

------------------------------------------------------------------------------
(* push *)

(* notify_one wakes one of the threads that wait, if there is one. *)
NotifyOne ==
    \/ \E t \in Threads : pc[t] = "wait" /\ Move(t, "lock")
    \/ (\A t \in Threads : pc[t] # "wait") /\ UNCHANGED pc

InFront(q, x) == <<x>> \o q
Behind(q, x) == Append(q, x)

(* The writers hold a weak pointer: nobody pushes once the destructor runs. *)
Push(x) ==
    /\ owner \in {"starting", "serving"} /\ MutexFree
    /\ x \notin Pushed
    /\ tasks' = Behind(tasks, x)
    /\ NotifyOne
    /\ UNCHANGED <<quit, holder, running, finished, owner, lost>>

------------------------------------------------------------------------------
(* worker *)

Loop(t) ==
    /\ pc[t] = "loop"
    /\ Move(t, IF quit THEN "leave" ELSE "lock")
    /\ UNCHANGED <<tasks, quit, holder, running, finished, owner, lost>>

(* The lock, and the predicate "!queueTasks_.empty() || quit_": true with a task ... *)
Pop(q) == Tail(q)

Take(t) ==
    /\ pc[t] = "lock" /\ MutexFree
    /\ tasks # <<>>
    /\ running' = [running EXCEPT ![t] = Head(tasks)]
    /\ tasks' = Pop(tasks)
    /\ Move(t, "run")
    /\ UNCHANGED <<quit, holder, finished, owner, lost>>

(* ... true without one ... *)
NothingLeft(t) ==
    /\ pc[t] = "lock" /\ MutexFree
    /\ tasks = <<>> /\ quit
    /\ Move(t, "loop")
    /\ UNCHANGED <<tasks, quit, holder, running, finished, owner, lost>>

(* ... or false; the mutex is still held when the thread decides to block ... *)
DecideToWait(t) ==
    /\ pc[t] = "lock" /\ MutexFree
    /\ tasks = <<>> /\ ~quit
    /\ Move(t, "block") /\ holder' = t
    /\ UNCHANGED <<tasks, quit, running, finished, owner, lost>>

(* ... and released as it blocks. *)
Block(t) ==
    /\ pc[t] = "block"
    /\ Move(t, "wait") /\ holder' = NoThread
    /\ UNCHANGED <<tasks, quit, running, finished, owner, lost>>

(* A condition variable may wake without a notification. *)
WakeUp(t) ==
    /\ pc[t] = "wait"
    /\ Move(t, "lock")
    /\ UNCHANGED <<tasks, quit, holder, running, finished, owner, lost>>

AfterTaskAgain == "run"
AfterTask == "loop"

(* The task ends, or its exception is caught. *)
Run(t) ==
    /\ pc[t] = "run"
    /\ finished' = finished \cup {running[t]}
    /\ running' = [running EXCEPT ![t] = NoTask]
    /\ Move(t, AfterTask)
    /\ UNCHANGED <<tasks, quit, holder, owner, lost>>

(* The thread function ends with one more lock of the mutex. *)
Leave(t) ==
    /\ pc[t] = "leave" /\ MutexFree
    /\ Move(t, "done")
    /\ UNCHANGED <<tasks, quit, holder, running, finished, owner, lost>>

------------------------------------------------------------------------------
TQInit ==
    /\ tasks = <<>> /\ quit = FALSE /\ holder = NoThread
    /\ pc = [t \in Threads |-> "unborn"]
    /\ running = [t \in Threads |-> NoTask]
    /\ finished = {} /\ owner = "starting" /\ lost = FALSE

OwnerStep == Started \/ NotifyAll \/ Join \/ \E t \in Threads : Spawn(t)

ThreadStep(t) ==
    \/ Loop(t) \/ Take(t) \/ NothingLeft(t) \/ DecideToWait(t) \/ Block(t)
    \/ Run(t) \/ Leave(t)

TQNext ==
    \/ OwnerStep \/ Quit
    \/ \E x \in Tasks : Push(x)
    \/ \E t \in Threads : ThreadStep(t) \/ WakeUp(t)

(***************************************************************************)
(* A runnable thread runs; nobody is bound to push, to quit or to wake up  *)
(* spuriously.                                                             *)
(***************************************************************************)
TQFairness ==
    /\ WF_tqVars(OwnerStep)
    /\ \A t \in Threads : WF_tqVars(ThreadStep(t))

TQSpec == TQInit /\ [][TQNext]_tqVars /\ TQFairness

------------------------------------------------------------------------------
(* Properties *)

TQTypeOK ==
    /\ tasks \in Seq(Tasks)
    /\ quit \in BOOLEAN /\ lost \in BOOLEAN
    /\ holder \in Threads \cup {NoThread}
    /\ pc \in [Threads -> Pcs]
    /\ running \in [Threads -> Tasks \cup {NoTask}]
    /\ finished \subseteq Tasks
    /\ owner \in {"starting", "serving", "notifying", "joining", "gone"}
    /\ \A t \in Threads : (running[t] # NoTask) <=> (pc[t] = "run")

(***************************************************************************)
(* The responses of a client are written in the order they were pushed and *)
(* once each, as WorkQueue says, and every one of them while the queue     *)
(* lives.                                                                  *)
(***************************************************************************)
Abstract == INSTANCE WorkQueue WITH
    Limit <- Cardinality(Threads),
    pending <- tasks,
    active <- Active,
    closed <- owner \notin {"starting", "serving"}

ImplementsWorkQueue == Abstract!WQSpec

(***************************************************************************)
(* There is never work to do while every living thread sleeps: one that is *)
(* awake will look at the queue, whatever the destructor does.             *)
(***************************************************************************)
SomebodyLooks ==
    tasks # <<>> /\ ~quit /\ owner # "starting" =>
        \E t \in Threads : pc[t] \in {"loop", "lock", "run"}

(***************************************************************************)
(* The destructor returns, unless the notification fell between the        *)
(* predicate of a thread and its wait.                                     *)
(***************************************************************************)
ShutdownEnds == (owner = "notifying") ~> (owner = "gone" \/ lost)

==============================================================================
