------------------------------ MODULE WorkQueue ------------------------------
(***************************************************************************)
(* What a queue of tasks promises to the session writers that push into    *)
(* it: tasks begin in the order they were submitted, each of them once, no *)
(* more at a time than there are threads; and until the queue is closed    *)
(* every task that was submitted is executed in the end.                   *)
(***************************************************************************)
EXTENDS Naturals, Sequences, FiniteSets

CONSTANTS Tasks, Limit

VARIABLES pending, active, finished, closed

wqVars == <<pending, active, finished, closed>>

Known == {pending[i] : i \in DOMAIN pending} \cup active \cup finished

WQInit == pending = <<>> /\ active = {} /\ finished = {} /\ closed = FALSE

Sooner(q, x) == <<x>> \o q
Later(q, x) == Append(q, x)

Submit(x) ==
    /\ ~closed /\ x \notin Known
    /\ pending' = Later(pending, x)
    /\ UNCHANGED <<active, finished, closed>>

(* A thread that is past its check of the flag may begin one more task. *)
Begin ==
    /\ pending # <<>> /\ Cardinality(active) < Limit
    /\ active' = active \cup {Head(pending)}
    /\ pending' = Tail(pending)
    /\ UNCHANGED <<finished, closed>>

Finish(x) ==
    /\ x \in active
    /\ active' = active \ {x}
    /\ finished' = finished \cup {x}
    /\ UNCHANGED <<pending, closed>>

Close ==
    /\ ~closed /\ closed' = TRUE
    /\ UNCHANGED <<pending, active, finished>>

WQNext == Begin \/ Close \/ \E x \in Tasks : Submit(x) \/ Finish(x)

WQSafety == WQInit /\ [][WQNext]_wqVars

WQSpec ==
    /\ WQSafety
    /\ WF_wqVars(~closed /\ Begin)
    /\ \A x \in Tasks : WF_wqVars(Finish(x))

==============================================================================
