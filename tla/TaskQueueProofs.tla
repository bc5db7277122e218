--------------------------- MODULE TaskQueueProofs ---------------------------
(***************************************************************************)
(* ThreadSafeQueue implements WorkQueue for any tasks and any finite set   *)
(* of threads, and there is always a thread that will look at the queue.   *)
(***************************************************************************)
EXTENDS TaskQueue, FiniteSetTheorems, TLAPS

(* A task is in one place: queued once, or executed by one thread, or finished. *)
OnePlace ==
    /\ \A i, j \in DOMAIN tasks : tasks[i] = tasks[j] => i = j
    /\ \A t, u \in Threads : running[t] = running[u] /\ running[t] # NoTask => t = u
    /\ \A i \in DOMAIN tasks : tasks[i] \notin Active \cup finished
    /\ Active \cap finished = {}

(* The mutex, the flag and the life of the threads. *)
Locking ==
    /\ \A t \in Threads : pc[t] = "block" <=> holder = t
    /\ holder # NoThread => tasks = <<>>
    /\ quit <=> owner \notin {"starting", "serving"}
    /\ ~quit => \A t \in Threads : pc[t] \notin {"leave", "done"}
    /\ owner # "starting" => \A t \in Threads : pc[t] # "unborn"
    /\ tasks # <<>> /\ ~quit => \E t \in Threads : pc[t] \in {"unborn", "loop", "lock", "run"}

TQInv == TQTypeOK /\ Locking /\ OnePlace

------------------------------------------------------------------------------
LEMMA InitTQInv == TQInit => TQInv
  <1> SUFFICES ASSUME TQInit PROVE TQInv
    OBVIOUS
  <1>1. TQTypeOK
    <2>1. quit \in BOOLEAN /\ lost \in BOOLEAN
      BY Zenon DEF TQInit
    <2>4. tasks \in Seq(Tasks)
      BY DEF TQInit
    <2>2. pc \in [Threads -> Pcs] /\ running \in [Threads -> Tasks \cup {NoTask}]
      BY DEF TQInit, Pcs
    <2>3. \A t \in Threads : pc[t] = "unborn" /\ running[t] = NoTask
      BY DEF TQInit
    <2> QED
      BY <2>1, <2>2, <2>3, <2>4 DEF TQInit, TQTypeOK
  <1>2. Locking
    BY QueueAssumption DEF TQInit, Locking
  <1>3. OnePlace
    BY DEF TQInit, OnePlace, Active
  <1> QED
    BY <1>1, <1>2, <1>3 DEF TQInv

LEMMA OwnerTQInv ==
    ASSUME TQInv, OwnerStep \/ Quit
    PROVE  TQInv'
  <1> USE QueueAssumption DEF TQInv, TQTypeOK, Locking, OnePlace, Active, Pcs, Move
  <1>1. CASE Started
    <2>1. quit' = FALSE /\ owner' = "serving"
      BY <1>1 DEF Started
    <2>2. UNCHANGED <<tasks, holder, pc, running, finished, lost>>
      BY <1>1 DEF Started
    <2>6. quit' \in BOOLEAN
      BY <2>1, Zenon
    <2>3. TQTypeOK' /\ OnePlace'
      BY <2>1, <2>2, <2>6
    <2>4. \A t \in Threads : pc[t] \notin {"unborn", "leave", "done"}
      BY <1>1 DEF Started
    <2>5. Locking'
      BY <1>1, <2>1, <2>2, <2>4 DEF Started
    <2> QED
      BY <2>3, <2>5
  <1>2. CASE Quit
    <2>1. TQTypeOK' /\ OnePlace'
      BY <1>2 DEF Quit
    <2>2. Locking'
      BY <1>2 DEF Quit
    <2> QED
      BY <2>1, <2>2
  <1>3. CASE NotifyAll
    BY <1>3 DEF NotifyAll, WokenAll
  <1>4. CASE Join
    BY <1>4 DEF Join
  <1>5. ASSUME NEW t \in Threads, Spawn(t) PROVE TQInv'
    BY <1>5 DEF Spawn
  <1> QED
    BY <1>1, <1>2, <1>3, <1>4, <1>5 DEF OwnerStep

LEMMA Appended ==
    ASSUME NEW S, NEW q \in Seq(S), NEW x \in S
    PROVE  /\ Append(q, x) \in Seq(S) /\ Append(q, x) # <<>>
           /\ DOMAIN Append(q, x) = DOMAIN q \cup {Len(q) + 1}
           /\ Len(q) + 1 \notin DOMAIN q
           /\ Append(q, x)[Len(q) + 1] = x
           /\ \A i \in DOMAIN q : Append(q, x)[i] = q[i]
  OBVIOUS

LEMMA Popped ==
    ASSUME NEW S, NEW q \in Seq(S), q # <<>>
    PROVE  /\ Tail(q) \in Seq(S) /\ Head(q) \in S /\ Head(q) = q[1] /\ 1 \in DOMAIN q
           /\ \A i \in DOMAIN Tail(q) : i + 1 \in DOMAIN q /\ i + 1 # 1 /\ Tail(q)[i] = q[i + 1]
           /\ DOMAIN Tail(q) \subseteq Nat
           /\ \A j \in DOMAIN q : j = 1 \/ (j - 1 \in DOMAIN Tail(q) /\ Tail(q)[j - 1] = q[j])
  OBVIOUS

LEMMA PushTQInv ==
    ASSUME TQInv, NEW x \in Tasks, Push(x)
    PROVE  TQInv'
  <1>1. /\ tasks \in Seq(Tasks) /\ tasks' = Append(tasks, x)
        /\ holder = NoThread /\ x \notin Pushed /\ ~quit
        /\ UNCHANGED <<quit, holder, running, finished, owner, lost>>
    BY DEF Push, Behind, MutexFree, TQInv, TQTypeOK, Locking
  <1>2. /\ pc' \in [Threads -> Pcs]
        /\ \A t \in Threads : pc'[t] = pc[t] \/ (pc[t] = "wait" /\ pc'[t] = "lock")
        /\ (\E t \in Threads : pc'[t] = "lock") \/ (\A t \in Threads : pc'[t] # "wait")
    BY DEF Push, NotifyOne, Move, TQInv, TQTypeOK, Pcs
  <1>3. TQTypeOK'
    BY <1>1, <1>2, Appended DEF TQInv, TQTypeOK
  <1>4. Locking'
    <2>1. \A t \in Threads : pc'[t] # "block" /\ pc'[t] \notin {"leave", "done"}
      BY <1>1, <1>2, QueueAssumption DEF TQInv, Locking
    <2>2. \E t \in Threads : pc'[t] \in {"unborn", "loop", "lock", "run"}
      BY <1>2, <2>1, QueueAssumption DEF Pcs
    <2> QED
      BY <1>1, <1>2, <2>1, <2>2, QueueAssumption DEF TQInv, Locking
  <1>5. OnePlace'
    <2>1. Active' = Active /\ \A i \in DOMAIN tasks : tasks[i] # x
      BY <1>1 DEF Active, Pushed
    <2>2. x \notin Active \cup finished
      BY <1>1 DEF Pushed
    <2> QED
      BY <1>1, <2>1, <2>2, Appended DEF TQInv, OnePlace
  <1> QED
    BY <1>3, <1>4, <1>5 DEF TQInv

(* The steps of a thread other than taking and ending a task. *)
LEMMA MoveTQInv ==
    ASSUME TQInv, NEW t \in Threads,
           \/ Loop(t) \/ NothingLeft(t) \/ DecideToWait(t) \/ Block(t)
           \/ Leave(t) \/ WakeUp(t)
    PROVE  TQInv'
  <1> USE QueueAssumption DEF TQInv
  <1>1. PICK l \in Pcs : Move(t, l)
    BY DEF Loop, NothingLeft, DecideToWait, Block, Leave, WakeUp, Pcs
  <1>2. /\ pc' \in [Threads -> Pcs] /\ pc'[t] = l
        /\ \A u \in Threads \ {t} : pc'[u] = pc[u]
    BY <1>1 DEF Move, TQTypeOK
  <1>3. UNCHANGED <<tasks, quit, running, finished, owner, lost>>
    BY DEF Loop, NothingLeft, DecideToWait, Block, Leave, WakeUp
  <1>4. OnePlace'
    BY <1>3 DEF OnePlace, Active
  <1>5. CASE Loop(t)
    <2>1. /\ pc[t] = "loop" /\ holder' = holder
          /\ pc'[t] = "leave" \/ pc'[t] = "lock"
          /\ ~quit => pc'[t] = "lock"
      BY <1>5 DEF Loop, Move, TQTypeOK
    <2> QED
      BY <1>2, <1>3, <1>4, <2>1 DEF TQTypeOK, Locking
  <1>6. CASE NothingLeft(t)
    BY <1>2, <1>3, <1>4, <1>6 DEF NothingLeft, Move, MutexFree, TQTypeOK, Locking
  <1>7. CASE DecideToWait(t)
    BY <1>2, <1>3, <1>4, <1>7 DEF DecideToWait, Move, MutexFree, TQTypeOK, Locking
  <1>8. CASE Block(t)
    BY <1>2, <1>3, <1>4, <1>8 DEF Block, Move, TQTypeOK, Locking
  <1>9. CASE Leave(t)
    BY <1>2, <1>3, <1>4, <1>9 DEF Leave, Move, MutexFree, TQTypeOK, Locking
  <1>10. CASE WakeUp(t)
    BY <1>2, <1>3, <1>4, <1>10 DEF WakeUp, Move, TQTypeOK, Locking
  <1> QED
    BY <1>5, <1>6, <1>7, <1>8, <1>9, <1>10

LEMMA TakeTQInv ==
    ASSUME TQInv, NEW t \in Threads, Take(t)
    PROVE  /\ TQInv'
           /\ running[t] = NoTask /\ Head(tasks) \notin Active
           /\ Active' = Active \cup {Head(tasks)}
  <1> USE QueueAssumption DEF TQInv
  <1>1. /\ tasks \in Seq(Tasks) /\ tasks # <<>> /\ tasks' = Tail(tasks)
        /\ pc[t] = "lock" /\ holder = NoThread
        /\ UNCHANGED <<quit, holder, finished, owner, lost>>
    BY DEF Take, Pop, MutexFree, TQTypeOK
  <1> DEFINE h == Head(tasks)
  <1>2. /\ tasks' \in Seq(Tasks) /\ h \in Tasks /\ h = tasks[1] /\ 1 \in DOMAIN tasks
        /\ \A i \in DOMAIN tasks' : i + 1 \in DOMAIN tasks /\ i + 1 # 1 /\ tasks'[i] = tasks[i + 1]
        /\ DOMAIN tasks' \subseteq Nat
    BY <1>1, Popped
  <1>3. /\ running' \in [Threads -> Tasks \cup {NoTask}] /\ running'[t] = h
        /\ \A u \in Threads \ {t} : running'[u] = running[u]
        /\ pc' \in [Threads -> Pcs] /\ pc'[t] = "run"
        /\ \A u \in Threads \ {t} : pc'[u] = pc[u]
    BY <1>2 DEF Take, Move, TQTypeOK, Pcs
  <1>4. running[t] = NoTask /\ h # NoTask
    BY <1>1, <1>2 DEF TQTypeOK
  <1>5. h \notin Active \cup finished
    BY <1>2 DEF OnePlace
  <1>6. Active' = Active \cup {h}
    BY <1>3, <1>4 DEF Active
  <1> HIDE DEF h
  <1>7. TQTypeOK'
    BY <1>1, <1>2, <1>3, <1>4 DEF TQTypeOK
  <1>8. Locking'
    BY <1>1, <1>3 DEF Locking
  <1>9. OnePlace'
    <2>1. \A i, j \in DOMAIN tasks' : tasks'[i] = tasks'[j] => i = j
      BY <1>2 DEF OnePlace
    <2>2. \A u, v \in Threads : running'[u] = running'[v] /\ running'[u] # NoTask => u = v
      BY <1>3, <1>4, <1>5 DEF OnePlace, Active
    <2>3. \A i \in DOMAIN tasks' : tasks'[i] # h
      BY <1>2 DEF OnePlace
    <2>4. \A i \in DOMAIN tasks' : tasks'[i] \notin Active' \cup finished'
      BY <1>1, <1>2, <1>6, <2>3 DEF OnePlace
    <2>5. Active' \cap finished' = {}
      BY <1>1, <1>5, <1>6 DEF OnePlace
    <2> QED
      BY <2>1, <2>2, <2>4, <2>5 DEF OnePlace
  <1> QED
    BY <1>4, <1>5, <1>6, <1>7, <1>8, <1>9 DEF h

LEMMA RunTQInv ==
    ASSUME TQInv, NEW t \in Threads, Run(t)
    PROVE  /\ TQInv'
           /\ running[t] \in Active /\ running[t] \in Tasks
           /\ Active' = Active \ {running[t]}
  <1> USE QueueAssumption DEF TQInv
  <1>1. /\ pc[t] = "run" /\ running[t] # NoTask /\ running[t] \in Tasks
        /\ finished' = finished \cup {running[t]}
        /\ UNCHANGED <<tasks, quit, holder, owner, lost>>
    BY DEF Run, TQTypeOK
  <1>2. /\ running' \in [Threads -> Tasks \cup {NoTask}] /\ running'[t] = NoTask
        /\ \A u \in Threads \ {t} : running'[u] = running[u]
        /\ pc' \in [Threads -> Pcs] /\ pc'[t] = "loop"
        /\ \A u \in Threads \ {t} : pc'[u] = pc[u]
    BY DEF Run, AfterTask, Move, TQTypeOK, Pcs
  <1>3. running[t] \in Active
    BY <1>1 DEF Active
  <1>4. Active' = Active \ {running[t]}
    BY <1>1, <1>2 DEF Active, OnePlace
  <1>5. TQTypeOK'
    BY <1>1, <1>2 DEF TQTypeOK
  <1>6. Locking'
    BY <1>1, <1>2 DEF Locking
  <1>7. OnePlace'
    <2>1. \A u, v \in Threads : running'[u] = running'[v] /\ running'[u] # NoTask => u = v
      BY <1>2 DEF OnePlace
    <2>2. \A i \in DOMAIN tasks' : tasks'[i] \notin Active' \cup finished'
      BY <1>1, <1>3, <1>4 DEF OnePlace
    <2>3. Active' \cap finished' = {}
      BY <1>1, <1>4 DEF OnePlace
    <2> QED
      BY <1>1, <2>1, <2>2, <2>3 DEF OnePlace
  <1> QED
    BY <1>1, <1>3, <1>4, <1>5, <1>6, <1>7

LEMMA NextTQInv ==
    ASSUME TQInv, [TQNext]_tqVars
    PROVE  TQInv'
  <1>1. CASE UNCHANGED tqVars
    BY <1>1 DEF tqVars, TQInv, TQTypeOK, Locking, OnePlace, Active
  <1>2. CASE OwnerStep \/ Quit
    BY <1>2, OwnerTQInv
  <1>3. ASSUME NEW x \in Tasks, Push(x) PROVE TQInv'
    BY <1>3, PushTQInv
  <1>4. ASSUME NEW t \in Threads, ThreadStep(t) \/ WakeUp(t) PROVE TQInv'
    BY <1>4, MoveTQInv, TakeTQInv, RunTQInv DEF ThreadStep
  <1> QED
    BY <1>1, <1>2, <1>3, <1>4 DEF TQNext

LEMMA AlwaysTQInv == TQSpec => []TQInv
  BY InitTQInv, NextTQInv, PTL DEF TQSpec

(***************************************************************************)
(* Type correctness of ThreadSafeQueue and of worker(): a thread executes  *)
(* a task exactly between taking it and ending it.                         *)
(***************************************************************************)
THEOREM QueueTypeCorrect == TQSpec => []TQTypeOK
  <1>1. TQInv => TQTypeOK
    BY DEF TQInv
  <1> QED
    BY <1>1, AlwaysTQInv, PTL

(***************************************************************************)
(* No wakeup of push is lost: while there is a task and the queue serves,  *)
(* some thread of worker() is on its way to the queue.                     *)
(***************************************************************************)
THEOREM NoLostWakeup == TQSpec => []SomebodyLooks
  <1>1. TQInv => SomebodyLooks
    BY DEF TQInv, TQTypeOK, Locking, SomebodyLooks
  <1> QED
    BY <1>1, AlwaysTQInv, PTL

------------------------------------------------------------------------------
(* A thread that is about to take a task leaves room for it. *)
LEMMA RoomToBegin ==
    ASSUME NEW t \in Threads, running[t] = NoTask
    PROVE  Cardinality(Active) < Cardinality(Threads)
  <1> DEFINE Busy == {u \in Threads : running[u] # NoTask}
             f == [u \in Busy |-> running[u]]
  <1>1. f \in Surjection(Busy, Active)
    BY DEF Surjection, Active
  <1>2. /\ IsFiniteSet(Threads \ {t})
        /\ Cardinality(Threads \ {t}) = Cardinality(Threads) - 1
    BY FS_RemoveElement, QueueAssumption
  <1>3. Busy \in SUBSET (Threads \ {t})
    OBVIOUS
  <1>4. IsFiniteSet(Busy) /\ Cardinality(Busy) <= Cardinality(Threads \ {t})
    BY <1>2, <1>3, FS_Subset
  <1>5. IsFiniteSet(Active) /\ Cardinality(Active) <= Cardinality(Busy)
    BY <1>1, <1>4, FS_Surjection
  <1>6. Cardinality(Active) \in Nat /\ Cardinality(Busy) \in Nat /\ Cardinality(Threads) \in Nat
    BY <1>4, <1>5, QueueAssumption, FS_CardinalityType
  <1> QED
    BY <1>2, <1>4, <1>5, <1>6

LEMMA InitRefines == TQInit => Abstract!WQInit
  BY DEF TQInit, Abstract!WQInit, Active

LEMMA NextRefines ==
    ASSUME TQInv, [TQNext]_tqVars
    PROVE  [Abstract!WQNext]_(Abstract!wqVars)
  <1> USE DEF Abstract!wqVars
  <1>1. CASE UNCHANGED tqVars
    BY <1>1 DEF tqVars, Active
  <1>2. CASE OwnerStep
    BY <1>2 DEF OwnerStep, Started, NotifyAll, Join, Spawn, Active
  <1>3. CASE Quit
    <2>1. Abstract!Close
      BY <1>3 DEF Quit, Abstract!Close, Active
    <2> QED
      BY <2>1 DEF Abstract!WQNext
  <1>4. ASSUME NEW x \in Tasks, Push(x) PROVE Abstract!WQNext
    <2>1. Abstract!Submit(x)
      BY <1>4 DEF Push, Pushed, Behind, Active, Abstract!Submit, Abstract!Later, Abstract!Known
    <2> QED
      BY <2>1 DEF Abstract!WQNext
  <1>5. ASSUME NEW t \in Threads, Take(t) PROVE Abstract!WQNext
    <2>1. /\ running[t] = NoTask
          /\ Active' = Active \cup {Head(tasks)}
      BY <1>5, TakeTQInv
    <2>2. Cardinality(Active) < Cardinality(Threads)
      BY <2>1, RoomToBegin
    <2>3. /\ tasks # <<>> /\ tasks' = Tail(tasks)
          /\ UNCHANGED <<finished, owner>>
      BY <1>5 DEF Take, Pop
    <2>4. Abstract!Cardinality(Active) < Cardinality(Threads)
      BY <2>2, Zenon DEF Cardinality, Abstract!Cardinality
    <2>5. Abstract!Begin
      BY <2>1, <2>3, <2>4 DEF Abstract!Begin
    <2> QED
      BY <2>5 DEF Abstract!WQNext
  <1>6. ASSUME NEW t \in Threads, Run(t) PROVE Abstract!WQNext
    <2>1. Abstract!Finish(running[t])
      BY <1>6, RunTQInv DEF Run, Abstract!Finish
    <2> QED
      BY <1>6, <2>1, RunTQInv DEF Abstract!WQNext
  <1>7. ASSUME NEW t \in Threads,
               \/ Loop(t) \/ NothingLeft(t) \/ DecideToWait(t) \/ Block(t)
               \/ Leave(t) \/ WakeUp(t)
        PROVE  UNCHANGED Abstract!wqVars
    BY <1>7 DEF Loop, NothingLeft, DecideToWait, Block, Leave, WakeUp, Active
  <1> QED
    BY <1>1, <1>2, <1>3, <1>4, <1>5, <1>6, <1>7 DEF TQNext, ThreadStep

(***************************************************************************)
(* ThreadSafeQueue implements the safety of WorkQueue for every number of  *)
(* threads and tasks: responses begin to be written in the order of the    *)
(* pushes, each of them once.                                              *)
(***************************************************************************)
THEOREM QueueImplementsWorkQueue == TQSpec => Abstract!WQSafety
  BY InitRefines, NextRefines, AlwaysTQInv, PTL DEF TQSpec, Abstract!WQSafety

==============================================================================
