-------------------------- MODULE WorkersPoolProofs --------------------------
(***************************************************************************)
(* The counter and the shutdown of the WorkersPool, for any tasks and any  *)
(* finite set of threads.                                                  *)
(***************************************************************************)
EXTENDS WorkersPool, FiniteSetTheorems, TLAPS

(* A task is in one place: it waits once, or runs on one thread, or is over. *)
TaskPlaces ==
    /\ ended \cup thrown \subseteq posted
    /\ \A i \in DOMAIN handlers : handlers[i] \in posted \ (ended \cup thrown)
    /\ \A i, j \in DOMAIN handlers : handlers[i] = handlers[j] => i = j
    /\ \A t \in InTask :
         /\ exec[t] \in posted \ (ended \cup thrown)
         /\ \A u \in InTask : exec[t] = exec[u] => t = u
         /\ \A i \in DOMAIN handlers : handlers[i] # exec[t]

(* Who destroys the pool holds the last reference, and threads end first. *)
PoolLife ==
    /\ destroyer # Nobody => ~owning /\ Holders = {}
    /\ pool \in {"stopped", "gone"} => destroyer # Nobody
    /\ pool \in {"gone", "aborted"} => JoinedAll

(* A task that threw is counted for ever. *)
Counting ==
    /\ IsFiniteSet(posted)
    /\ counter = Cardinality(posted \ ended)

PoolInv == PoolTypeOK /\ TaskPlaces /\ PoolLife /\ Counting /\ CounterCountsThrown

(* The steps of the pool; Session lets it be aborted also by a dead session. *)
PoolStep == PoolNext \/ Abort

------------------------------------------------------------------------------
LEMMA InTaskFinite == IsFiniteSet(InTask) /\ Cardinality(InTask) \in Nat
  <1>1. IsFiniteSet(InTask)
    BY PoolAssumption, FS_Subset DEF InTask
  <1> QED
    BY <1>1, FS_CardinalityType

(* What has to be known of the finite sets to count. *)
LEMMA FiniteSets ==
    ASSUME PoolInv
    PROVE  /\ IsFiniteSet(posted \ ended) /\ Cardinality(posted \ ended) \in Nat
           /\ IsFiniteSet(thrown) /\ Cardinality(thrown) \in Nat
  <1>1. IsFiniteSet(posted \ ended) /\ IsFiniteSet(thrown)
    BY FS_Subset DEF PoolInv, Counting, TaskPlaces
  <1> QED
    BY <1>1, FS_CardinalityType

LEMMA InitPoolInv == PoolInit => PoolInv
  <1> SUFFICES ASSUME PoolInit PROVE PoolInv
    OBVIOUS
  <1> USE DEF PoolInit
  <1>1. InTask = {} /\ Holders = {}
    BY DEF InTask, Holders
  <1>2. owning \in BOOLEAN
    BY Zenon
  <1>3. PoolTypeOK
    BY <1>2, PoolAssumption DEF PoolTypeOK, Places
  <1>4. TaskPlaces /\ PoolLife
    BY <1>1 DEF TaskPlaces, PoolLife
  <1>5. Counting /\ CounterCountsThrown
    BY <1>1, FS_EmptySet DEF Counting, CounterCountsThrown
  <1> QED
    BY <1>3, <1>4, <1>5 DEF PoolInv

------------------------------------------------------------------------------
(* A task is posted, by the owner or, from place p to place q, by a thread. *)
LEMMA PostPoolInv ==
    ASSUME PoolInv, NEW x \in Tasks, PostTask(x),
           UNCHANGED <<exec, owning, destroyer, pool, ended, thrown>>,
           InTask' = InTask, at' \in [PoolThreads -> Places],
           \A t \in PoolThreads : (exec[t] = NoTask) <=> (at'[t] \in {"ready", "done"}),
           PoolLife'
    PROVE  PoolInv'
  <1> USE DEF PoolInv, PostTask, Queued
  <1>1. /\ handlers' \in Seq(Tasks) /\ Len(handlers') = Len(handlers) + 1
        /\ handlers'[Len(handlers) + 1] = x
        /\ \A i \in DOMAIN handlers : handlers'[i] = handlers[i]
        /\ DOMAIN handlers' = DOMAIN handlers \cup {Len(handlers) + 1}
        /\ DOMAIN handlers = 1..Len(handlers) /\ Len(handlers) \in Nat
    BY DEF PoolTypeOK
  <1>2. PoolTypeOK'
    BY <1>1 DEF PoolTypeOK
  <1>3. TaskPlaces'
    BY <1>1 DEF TaskPlaces, InTask
  <1>4. /\ IsFiniteSet(posted')
        /\ x \notin posted \ ended
        /\ (posted \ ended)' = (posted \ ended) \cup {x}
    BY FS_AddElement DEF Counting, TaskPlaces
  <1>5. Counting'
    BY <1>4, FiniteSets, FS_AddElement DEF Counting
  <1>6. CounterCountsThrown'
    BY <1>1, FiniteSets, InTaskFinite DEF CounterCountsThrown, PoolTypeOK
  <1> QED
    BY <1>2, <1>3, <1>5, <1>6

LEMMA OwnerPostsInv ==
    ASSUME PoolInv, NEW x \in Tasks, OwnerPosts(x)
    PROVE  PoolInv'
  <1>1. PostTask(x) /\ UNCHANGED <<exec, at, owning, destroyer, pool, ended, thrown>>
    BY DEF OwnerPosts
  <1>2. InTask' = InTask /\ PoolLife'
    BY <1>1 DEF InTask, PoolInv, PoolLife, Holders, JoinedAll
  <1> QED
    BY <1>1, <1>2, PostPoolInv DEF PoolInv, PoolTypeOK

LEMMA PostFromTaskInv ==
    ASSUME PoolInv, NEW t \in PoolThreads, NEW x \in Tasks, PostFromTask(t, x)
    PROVE  PoolInv'
  <1>1. /\ PostTask(x) /\ UNCHANGED <<exec, owning, destroyer, pool, ended, thrown>>
        /\ at[t] = "locked" /\ at' = [at EXCEPT ![t] = "posted"]
    BY DEF PostFromTask
  <1>2. at' \in [PoolThreads -> Places] /\ InTask' = InTask /\ Holders' = Holders
    BY <1>1 DEF PoolInv, PoolTypeOK, Places, InTask, Holders
  <1>3. /\ PoolLife'
        /\ \A u \in PoolThreads : (exec[u] = NoTask) <=> (at'[u] \in {"ready", "done"})
    BY <1>1, <1>2 DEF PoolInv, PoolTypeOK, PoolLife, JoinedAll
  <1> QED
    BY <1>1, <1>2, <1>3, PostPoolInv

------------------------------------------------------------------------------
(* runThread *)
LEMMA TakeInv ==
    ASSUME PoolInv, NEW t \in PoolThreads, Take(t)
    PROVE  PoolInv'
  <1> USE DEF PoolInv, Take
  <1>1. /\ handlers' \in Seq(Tasks) /\ Len(handlers') = Len(handlers) - 1
        /\ Head(handlers) = handlers[1] /\ handlers[1] \in Tasks /\ 1 \in DOMAIN handlers
        /\ \A i \in DOMAIN handlers' : i + 1 \in DOMAIN handlers /\ handlers'[i] = handlers[i + 1]
        /\ DOMAIN handlers' \subseteq Nat \ {0} /\ Len(handlers) \in Nat
    BY DEF PoolTypeOK
  <1>2. t \notin InTask /\ InTask' = InTask \cup {t} /\ handlers[1] # NoTask
    BY <1>1, PoolAssumption DEF InTask, PoolTypeOK
  <1>3. PoolTypeOK'
    BY <1>1, <1>2 DEF PoolTypeOK, Places
  <1>4. TaskPlaces'
    <2>1. exec'[t] = handlers[1] /\ \A u \in InTask' \ {t} : u \in InTask /\ exec'[u] = exec[u]
      BY <1>1, <1>2 DEF PoolTypeOK
    <2>2. \A i, j \in DOMAIN handlers' : handlers'[i] = handlers'[j] => i = j
      BY <1>1 DEF TaskPlaces
    <2>3. \A i \in DOMAIN handlers' : handlers'[i] # handlers[1]
      BY <1>1 DEF TaskPlaces
    <2> QED
      BY <1>1, <2>1, <2>2, <2>3 DEF TaskPlaces
  <1>5. PoolLife'
    BY DEF PoolLife, Holders, JoinedAll, PoolTypeOK
  <1>6. Counting'
    BY DEF Counting
  <1>7. Cardinality(InTask') = Cardinality(InTask) + 1
    BY <1>2, InTaskFinite, FS_AddElement
  <1>8. CounterCountsThrown'
    <2>1. /\ Len(handlers') = Len(handlers) - 1 /\ Len(handlers) \in Nat
          /\ UNCHANGED <<counter, pool, thrown>>
      BY <1>1
    <2> HIDE DEF Take
    <2> QED
      BY <1>7, <2>1, InTaskFinite, FiniteSets DEF CounterCountsThrown
  <1> QED
    BY <1>3, <1>4, <1>5, <1>6, <1>8

(* A task is over, normally or not: thread t leaves it and is ready. *)
LEMMA LeaveTask ==
    ASSUME PoolInv, NEW t \in PoolThreads, at[t] = "body", LeavesTask(t),
           at' = [at EXCEPT ![t] = "ready"],
           UNCHANGED <<handlers, owning, destroyer, pool, posted>>
    PROVE  /\ t \in InTask /\ InTask' = InTask \ {t}
           /\ exec[t] \in Tasks /\ exec[t] \in posted \ (ended \cup thrown)
           /\ Cardinality(InTask') = Cardinality(InTask) - 1
           /\ exec' \in [PoolThreads -> Tasks \cup {NoTask}] /\ at' \in [PoolThreads -> Places]
           /\ \A u \in PoolThreads : (exec'[u] = NoTask) <=> (at'[u] \in {"ready", "done"})
           /\ \A u \in InTask' : exec'[u] = exec[u] /\ exec[u] # exec[t]
           /\ PoolLife'
  <1> USE DEF PoolInv, LeavesTask
  <1>1. t \in InTask /\ InTask' = InTask \ {t}
    BY DEF InTask, PoolTypeOK
  <1>2. exec[t] \in Tasks /\ exec[t] \in posted \ (ended \cup thrown)
    BY <1>1 DEF InTask, PoolTypeOK, TaskPlaces
  <1>3. Cardinality(InTask') = Cardinality(InTask) - 1
    BY <1>1, InTaskFinite, FS_RemoveElement
  <1>4. /\ exec' \in [PoolThreads -> Tasks \cup {NoTask}] /\ at' \in [PoolThreads -> Places]
        /\ \A u \in PoolThreads : (exec'[u] = NoTask) <=> (at'[u] \in {"ready", "done"})
    BY DEF PoolTypeOK, Places
  <1>5. \A u \in InTask' : exec'[u] = exec[u] /\ exec[u] # exec[t]
    BY <1>1 DEF TaskPlaces, PoolTypeOK, InTask
  <1>6. PoolLife'
    BY DEF PoolLife, Holders, JoinedAll, PoolTypeOK
  <1> QED
    BY <1>1, <1>2, <1>3, <1>4, <1>5, <1>6

LEMMA FinishInv ==
    ASSUME PoolInv, NEW t \in PoolThreads, Finish(t)
    PROVE  PoolInv'
  <1> USE DEF PoolInv
  <1>1. /\ at[t] = "body" /\ counter' = counter - 1 /\ ended' = ended \cup {exec[t]}
        /\ LeavesTask(t) /\ at' = [at EXCEPT ![t] = "ready"]
        /\ UNCHANGED <<handlers, owning, destroyer, pool, posted, thrown>>
    BY DEF Finish
  <1>2. /\ t \in InTask /\ InTask' = InTask \ {t}
        /\ exec[t] \in Tasks /\ exec[t] \in posted \ (ended \cup thrown)
        /\ Cardinality(InTask') = Cardinality(InTask) - 1
        /\ exec' \in [PoolThreads -> Tasks \cup {NoTask}] /\ at' \in [PoolThreads -> Places]
        /\ \A u \in PoolThreads : (exec'[u] = NoTask) <=> (at'[u] \in {"ready", "done"})
        /\ \A u \in InTask' : exec'[u] = exec[u] /\ exec[u] # exec[t]
        /\ PoolLife'
    BY <1>1, LeaveTask
  <1>3. TaskPlaces'
    BY <1>1, <1>2 DEF TaskPlaces
  <1>4. exec[t] \in posted \ ended /\ (posted \ ended)' = (posted \ ended) \ {exec[t]}
    BY <1>1, <1>2
  <1>5. Counting'
    BY <1>1, <1>4, FiniteSets, FS_RemoveElement DEF Counting
  <1>6. IsFiniteSet((posted \ ended)') /\ Cardinality((posted \ ended)') \in Nat
    BY <1>4, FiniteSets, FS_RemoveElement, FS_CardinalityType
  <1>7. PoolTypeOK'
    BY <1>1, <1>2, <1>5, <1>6 DEF PoolTypeOK, Counting
  <1>8. CounterCountsThrown'
    <2>1. /\ Cardinality(thrown) \in Nat /\ Cardinality(InTask) \in Nat
          /\ Cardinality(InTask') = Cardinality(InTask) - 1
      BY <1>2, FiniteSets, InTaskFinite
    <2>2. counter' = counter - 1 /\ UNCHANGED <<handlers, thrown, pool>> /\ counter \in Int
      BY <1>1 DEF PoolTypeOK
    <2>3. Len(handlers) \in Nat
      BY DEF PoolTypeOK
    <2> QED
      BY <2>1, <2>2, <2>3 DEF CounterCountsThrown
  <1> QED
    BY <1>2, <1>3, <1>5, <1>7, <1>8

LEMMA ThrowInv ==
    ASSUME PoolInv, NEW t \in PoolThreads, Throw(t)
    PROVE  PoolInv'
  <1> USE DEF PoolInv
  <1>1. /\ at[t] = "body" /\ counter' = counter /\ thrown' = thrown \cup {exec[t]}
        /\ LeavesTask(t) /\ at' = [at EXCEPT ![t] = "ready"]
        /\ UNCHANGED <<handlers, owning, destroyer, pool, posted, ended>>
    BY DEF Throw, CountOfThrown, AfterThrow
  <1>2. /\ t \in InTask /\ InTask' = InTask \ {t}
        /\ exec[t] \in Tasks /\ exec[t] \in posted \ (ended \cup thrown)
        /\ Cardinality(InTask') = Cardinality(InTask) - 1
        /\ exec' \in [PoolThreads -> Tasks \cup {NoTask}] /\ at' \in [PoolThreads -> Places]
        /\ \A u \in PoolThreads : (exec'[u] = NoTask) <=> (at'[u] \in {"ready", "done"})
        /\ \A u \in InTask' : exec'[u] = exec[u] /\ exec[u] # exec[t]
        /\ PoolLife'
    BY <1>1, LeaveTask
  <1>3. TaskPlaces'
    BY <1>1, <1>2 DEF TaskPlaces
  <1>4. Counting'
    BY <1>1 DEF Counting
  <1>5. PoolTypeOK'
    BY <1>1, <1>2 DEF PoolTypeOK
  <1>6. Cardinality(thrown') = Cardinality(thrown) + 1
    BY <1>1, <1>2, FiniteSets, FS_AddElement
  <1>7. CounterCountsThrown'
    BY <1>1, <1>2, <1>6, FiniteSets, InTaskFinite DEF CounterCountsThrown, PoolTypeOK
  <1> QED
    BY <1>2, <1>3, <1>4, <1>5, <1>7

------------------------------------------------------------------------------
(* The steps that move no task, or drop those that wait. *)
LEMMA QuietInv ==
    ASSUME PoolInv,
           UNCHANGED <<handlers, exec, counter, posted, ended, thrown>>,
           PoolLife', at' \in [PoolThreads -> Places], owning' \in BOOLEAN,
           destroyer' \in PoolThreads \cup {Owner, Nobody},
           pool' \in {"running", "stopped"} \/ pool' = pool,
           pool' = "stopped" => pool \in {"running", "stopped"},
           pool' = "running" => pool = "running",
           \A u \in PoolThreads : (exec[u] = NoTask) <=> (at'[u] \in {"ready", "done"})
    PROVE  PoolInv'
  <1> USE DEF PoolInv
  <1>1. PoolTypeOK'
    BY DEF PoolTypeOK
  <1>2. InTask' = InTask
    BY DEF InTask
  <1>3. TaskPlaces' /\ Counting' /\ CounterCountsThrown'
    BY <1>2 DEF TaskPlaces, Counting, CounterCountsThrown
  <1> QED
    BY <1>1, <1>3

LEMMA ContextInv ==
    ASSUME PoolInv, NEW t \in PoolThreads, LockContext(t) \/ DropContext(t) \/ Exit(t)
    PROVE  PoolInv'
  <1> USE DEF PoolInv, PoolTypeOK, Places, PoolLife, Holders, JoinedAll
  <1>0. owning' = owning /\ owning \in BOOLEAN
    BY DEF LockContext, DropContext, Exit
  <1>1. CASE LockContext(t)
    <2>1. PoolLife' /\ at' \in [PoolThreads -> Places]
      BY <1>1 DEF LockContext
    <2> QED
      BY <1>0, <1>1, <2>1, QuietInv DEF LockContext
  <1>2. CASE DropContext(t)
    <2>1. PoolLife' /\ at' \in [PoolThreads -> Places]
      BY <1>2, PoolAssumption DEF DropContext
    <2> QED
      BY <1>0, <1>2, <2>1, QuietInv DEF DropContext
  <1>3. CASE Exit(t)
    <2>1. PoolLife' /\ at' \in [PoolThreads -> Places]
      BY <1>3 DEF Exit
    <2> QED
      BY <1>0, <1>3, <2>1, QuietInv DEF Exit
  <1> QED
    BY <1>1, <1>2, <1>3

LEMMA ReleaseInv ==
    ASSUME PoolInv, OwnerReleases \/ Stop
    PROVE  PoolInv'
  <1> USE DEF PoolInv, PoolTypeOK, PoolLife, Holders, JoinedAll
  <1>1. CASE OwnerReleases
    <2>1. PoolLife' /\ owning' = FALSE
      BY <1>1, PoolAssumption DEF OwnerReleases
    <2>2. owning' \in BOOLEAN
      BY <2>1, Zenon
    <2> QED
      BY <1>1, <2>1, <2>2, QuietInv DEF OwnerReleases
  <1>2. CASE Stop
    <2>1. PoolLife' /\ owning' = owning
      BY <1>2 DEF Stop
    <2> QED
      BY <1>2, <2>1, QuietInv DEF Stop
  <1> QED
    BY <1>1, <1>2

LEMMA EndInv ==
    ASSUME PoolInv, Join \/ Abort
    PROVE  PoolInv'
  <1> USE DEF PoolInv, Join, Abort
  <1>1. /\ handlers' = <<>> /\ pool' \in {"gone", "aborted"}
        /\ UNCHANGED <<counter, owning, destroyer, posted, ended, thrown>>
        /\ pool' = "gone" => destroyer # Nobody
    BY PoolAssumption
  <1>2. /\ \A t \in PoolThreads : at'[t] = "done" /\ exec'[t] = NoTask
        /\ at' \in [PoolThreads -> Places] /\ exec' \in [PoolThreads -> Tasks \cup {NoTask}]
    BY DEF PoolTypeOK, JoinedAll, Places
  <1>3. InTask' = {} /\ Holders' = {} /\ JoinedAll'
    BY <1>2 DEF InTask, Holders, JoinedAll
  <1>4. PoolTypeOK'
    BY <1>1, <1>2 DEF PoolTypeOK
  <1>5. TaskPlaces' /\ PoolLife' /\ Counting' /\ CounterCountsThrown'
    BY <1>1, <1>3 DEF TaskPlaces, PoolLife, Counting, CounterCountsThrown
  <1> QED
    BY <1>4, <1>5

LEMMA StutterInv ==
    ASSUME PoolInv, UNCHANGED poolVars
    PROVE  PoolInv'
  BY DEF PoolInv, poolVars, PoolTypeOK, TaskPlaces, PoolLife, Counting, CounterCountsThrown,
         InTask, Holders, JoinedAll

LEMMA NextPoolInv == PoolInv /\ (PoolStep \/ UNCHANGED poolVars) => PoolInv'
  <1> SUFFICES ASSUME PoolInv, PoolStep \/ UNCHANGED poolVars PROVE PoolInv'
    OBVIOUS
  <1>1. CASE UNCHANGED poolVars
    BY <1>1, StutterInv
  <1>2. CASE Abort
    BY <1>2, EndInv
  <1>3. CASE PoolNext
    BY <1>3, OwnerPostsInv, PostFromTaskInv, TakeInv, FinishInv, ThrowInv, ContextInv,
       ReleaseInv, EndInv
       DEF PoolNext, Reposting, JoinSelf
  <1> QED
    BY <1>1, <1>2, <1>3 DEF PoolStep

LEMMA JoinedIsQuiet == PoolInv => NothingRunsAfterJoin
  BY DEF PoolInv, PoolTypeOK, PoolLife, Counting, NothingRunsAfterJoin, InTask, JoinedAll

------------------------------------------------------------------------------
LEMMA PoolInvariance == PoolSpec => []PoolInv
  <1>1. PoolInv /\ [PoolNext]_poolVars => PoolInv'
    BY NextPoolInv DEF PoolStep
  <1> QED
    BY InitPoolInv, <1>1, PTL DEF PoolSpec

(* The types of WorkersPool, also when tasks post tasks and threads throw. *)
THEOREM PoolTypeCorrect == PoolSpec => []PoolTypeOK
  BY PoolInvariance, PTL DEF PoolInv

(* endTask, which an exception skips, is all that counter_ misses. *)
THEOREM CounterIsExact == PoolSpec => []CounterCountsThrown
  BY PoolInvariance, PTL DEF PoolInv

(* ~WorkersPool returns only when no thread is inside a task. *)
THEOREM NothingAfterJoin == PoolSpec => []NothingRunsAfterJoin
  BY PoolInvariance, JoinedIsQuiet, PTL

==============================================================================
