---------------------------- MODULE MCWorkersPool ----------------------------
(***************************************************************************)
(* The WorkersPool as the test simpleTwoTaskFromPrev uses it: it posts     *)
(* outer, outer posts inner, inner fulfils a promise, and when the promise *)
(* is fulfilled the test ends and drops the context.  No task throws.      *)
(***************************************************************************)
EXTENDS WorkersPool

CONSTANTS outer, inner

TwoTasks ==
    \/ OwnerPosts(outer)
    \/ \E t \in PoolThreads :
         \/ Take(t) \/ Exit(t)
         \/ exec[t] = outer /\ inner \notin posted /\ LockContext(t)
         \/ exec[t] = outer /\ PostFromTask(t, inner)
         \/ DropContext(t)
         \/ Finish(t) /\ (exec[t] = outer => inner \in posted)
    \/ OwnerReleases /\ inner \in ended
    \/ Stop \/ Join \/ JoinSelf

TwoTasksSpec == PoolInit /\ [][TwoTasks]_poolVars

==============================================================================
