---------------------------- MODULE SocketWriter ----------------------------
(***************************************************************************)
(* The way of a response: SocketWriter::write pushes writeImpl_ into the   *)
(* ThreadSafeQueue, taken here as WorkQueue promises it; a thread of the   *)
(* queue locks mutexSocket_, starts an async_write and leaves the mutex to *)
(* the completion handler, which runs on the thread of the network.        *)
(*                                                                         *)
(* Responses are numbered in the order in which they are pushed.           *)
(* async_write writes in a loop: what the socket takes at once leaves on   *)
(* the calling thread, all of the response, a part of it or nothing; the   *)
(* rest waits in the reactor and leaves, perhaps in parts again, on the    *)
(* thread of the network, from a buffer that belongs to the task.          *)
(***************************************************************************)
EXTENDS WorkQueue

CONSTANTS
    Clients,
    NoTask,
    Long,       \* bound: the responses of which a socket may take a part
    MaxFaults   \* bound: how often clients stop to read or leave

ASSUME WriterAssumption ==
    /\ IsFiniteSet(Tasks) /\ Tasks = 1..Cardinality(Tasks) /\ Clients # {}
    /\ NoTask \notin Tasks /\ Long \subseteq Tasks
    /\ Limit \in Nat \ {0} /\ MaxFaults \in Nat

VARIABLES
    to,         \* to[x]: the client of response x
    mutexSocket,\* mutexSocket_ of each client: the response that holds it
    write,      \* write[c]: the async_write of client c
    started,    \* the tasks that have started their async_write
    room,       \* room[c]: does the socket take bytes
    gone,       \* the clients whose connection is closed
    faults,     \* how often a client stopped to read or left
    part,       \* part[c]: the response of which a part has left, and no more
    out,        \* out[c]: what was sent, and if its buffer was alive to the end
    together,   \* history: pairs of responses that two threads had at once
    rested      \* history: responses of which the first attempt left a rest

clientVars == <<room, gone, faults>>
socketVars == <<mutexSocket, write, part, out, rested>>
wvars == <<wqVars, to, started, together, clientVars, socketVars>>

Writes == {"idle", "waiting", "done"}

(* How much of response x the socket of its client takes at once. *)
Takes(x) ==
    IF room[to[x]] THEN {"all"} \cup {p \in {"part"} : x \in Long} ELSE {"none"}

------------------------------------------------------------------------------
(* SocketWriter::write, on a thread of the pool *)
Write(c) ==
    LET x == Cardinality(Known) + 1
    IN  /\ x \in Tasks /\ Submit(x)
        /\ to' = [to EXCEPT ![x] = c]
        /\ UNCHANGED <<started, together, clientVars, socketVars>>

(* A thread of the queue takes a task. *)
BeginTask ==
    /\ Begin
    /\ together' = together \cup {{Head(pending), y} : y \in active}
    /\ UNCHANGED <<to, started, clientVars, socketVars>>

------------------------------------------------------------------------------
(* writeImpl_ *)

Send(c, x, alive) == out' = [out EXCEPT ![c] = Append(@, [x |-> x, intact |-> alive])]

MutexIgnored(c) == TRUE
MutexFree(c) == mutexSocket[c] = NoTask

FirstAttemptLater(bytes) == FALSE
FirstAttempt(bytes) == bytes = "all"

(* The thread blocks until the mutex of the socket is free. *)
StartWrite(x) ==
    LET c == to[x]
    IN  /\ x \in active \ started /\ MutexFree(c)
        /\ mutexSocket' = [mutexSocket EXCEPT ![c] = x]
        /\ started' = started \cup {x}
        /\ \/ /\ c \in gone
              /\ write' = [write EXCEPT ![c] = "done"] /\ UNCHANGED <<part, out, rested>>
           \/ \E bytes \in Takes(x) :
              /\ c \notin gone
              /\ \/ /\ FirstAttempt(bytes)
                    /\ write' = [write EXCEPT ![c] = "done"] /\ Send(c, x, TRUE)
                 \/ /\ ~FirstAttempt(bytes)
                    /\ write' = [write EXCEPT ![c] = "waiting"] /\ UNCHANGED out
              /\ part' = IF bytes = "part" THEN [part EXCEPT ![c] = x] ELSE part
              /\ rested' = IF bytes = "all" THEN rested ELSE rested \cup {x}
        /\ UNCHANGED <<wqVars, to, together, clientVars>>

(* writeImpl_ returns: the task and its message are destroyed. *)
EndTask(x) ==
    /\ x \in started /\ Finish(x)
    /\ started' = started \ {x}
    /\ UNCHANGED <<to, together, clientVars, socketVars>>

------------------------------------------------------------------------------
(* The thread of the network *)

(* The reactor goes on with a write that waits: a part leaves ... *)
ProceedInPart(c) ==
    /\ write[c] = "waiting" /\ part[c] = NoTask
    /\ c \notin gone /\ room[c] /\ mutexSocket[c] \in Long
    /\ part' = [part EXCEPT ![c] = mutexSocket[c]]
    /\ UNCHANGED <<wqVars, to, started, together, clientVars, mutexSocket, write, out, rested>>

(* ... or all that is left, or the write fails. *)
Proceed(c) ==
    /\ write[c] = "waiting"
    /\ \/ c \in gone /\ UNCHANGED <<part, out>>
       \/ /\ c \notin gone /\ room[c]
          /\ Send(c, mutexSocket[c], mutexSocket[c] \in active)
          /\ part' = [part EXCEPT ![c] = NoTask]
    /\ write' = [write EXCEPT ![c] = "done"]
    /\ UNCHANGED <<wqVars, to, started, together, clientVars, mutexSocket, rested>>

KeepSocket(c) == UNCHANGED mutexSocket
UnlockSocket(c) == mutexSocket' = [mutexSocket EXCEPT ![c] = NoTask]

(* The completion handler unlocks the mutex and logs, error or not. *)
Complete(c) ==
    /\ write[c] = "done"
    /\ UnlockSocket(c)
    /\ write' = [write EXCEPT ![c] = "idle"]
    /\ UNCHANGED <<wqVars, to, started, together, clientVars, part, out, rested>>

------------------------------------------------------------------------------
(* The clients *)

StopReading(c) ==
    /\ room[c] /\ faults < MaxFaults
    /\ room' = [room EXCEPT ![c] = FALSE] /\ faults' = faults + 1
    /\ UNCHANGED <<wqVars, to, started, together, gone, socketVars>>

ReadOn(c) ==
    /\ ~room[c] /\ room' = [room EXCEPT ![c] = TRUE]
    /\ UNCHANGED <<wqVars, to, started, together, gone, faults, socketVars>>

CloseConnection(c) ==
    /\ c \notin gone /\ faults < MaxFaults
    /\ gone' = gone \cup {c} /\ faults' = faults + 1
    /\ UNCHANGED <<wqVars, to, started, together, room, socketVars>>

------------------------------------------------------------------------------
WInit ==
    /\ WQInit
    /\ to = [x \in Tasks |-> CHOOSE c \in Clients : TRUE]
    /\ mutexSocket = [c \in Clients |-> NoTask]
    /\ write = [c \in Clients |-> "idle"]
    /\ started = {} /\ together = {} /\ rested = {}
    /\ room = [c \in Clients |-> TRUE] /\ gone = {} /\ faults = 0
    /\ part = [c \in Clients |-> NoTask]
    /\ out = [c \in Clients |-> <<>>]

ClientStep(c) == StopReading(c) \/ ReadOn(c) \/ CloseConnection(c)

NetworkStep(c) == ProceedInPart(c) \/ Proceed(c) \/ Complete(c)

QueueStep(x) == StartWrite(x) \/ EndTask(x)

WNext ==
    \/ BeginTask
    \/ \E c \in Clients : Write(c) \/ ClientStep(c) \/ NetworkStep(c)
    \/ \E x \in Tasks : QueueStep(x)

(***************************************************************************)
(* WorkQueue begins what is pending, its threads run, and so does the      *)
(* thread of the network; clients owe nothing.                             *)
(***************************************************************************)
WSpec ==
    /\ WInit /\ [][WNext]_wvars
    /\ WF_wvars(BeginTask)
    /\ \A x \in Tasks : WF_wvars(QueueStep(x))
    /\ \A c \in Clients : WF_wvars(NetworkStep(c))

------------------------------------------------------------------------------
(* Properties *)

WTypeOK ==
    /\ to \in [Tasks -> Clients]
    /\ mutexSocket \in [Clients -> Tasks \cup {NoTask}]
    /\ write \in [Clients -> Writes]
    /\ part \in [Clients -> Tasks \cup {NoTask}]
    /\ \A c \in Clients : (mutexSocket[c] = NoTask) <=> (write[c] = "idle")
    /\ Cardinality(active) <= Limit /\ started \subseteq active
    /\ \A c \in Clients : \A i \in DOMAIN out[c] : to[out[c][i].x] = c

(***************************************************************************)
(* Two responses to a client go out in another order than they were pushed *)
(* only if two threads of the queue had them at the same time: the mutex   *)
(* of the socket does not keep an order.                                   *)
(***************************************************************************)
ReorderNeedsTwoThreads ==
    \A c \in Clients : \A i, j \in DOMAIN out[c] :
        i < j /\ out[c][i].x > out[c][j].x => {out[c][i].x, out[c][j].x} \in together

(***************************************************************************)
(* When a part of a response has left, what leaves next for that client is *)
(* the rest of it, whoever else has a response for the client: the mutex   *)
(* is not free before the completion, which comes after the last byte.     *)
(***************************************************************************)
ResponsesStayWhole ==
    [][\A c \in Clients :
          part[c] # NoTask =>
             \/ UNCHANGED <<part[c], out[c]>>
             \/ /\ part'[c] = NoTask /\ Len(out'[c]) = Len(out[c]) + 1
                /\ out'[c][Len(out'[c])].x = part[c]]_wvars

(***************************************************************************)
(* A response is sent from a buffer whose task is gone only if the first   *)
(* attempt of its write left a rest, for lack of room in the socket or     *)
(* because the response is long, though the client reads: async_write does *)
(* not keep the message alive, its first attempt just comes in time.       *)
(***************************************************************************)
StaleBufferNeedsRest ==
    \A c \in Clients : \A i \in DOMAIN out[c] :
        out[c][i].intact \/ out[c][i].x \in rested

(* All the threads of the queue have responses to clients that do not read. *)
AllThreadsTaken == Cardinality({y \in active : ~room[to[y]]}) = Limit

(***************************************************************************)
(* A response leaves in the end unless its client is gone or does not      *)
(* read, or all the threads of the queue are taken by responses to clients *)
(* that do not read: fewer of them hold nobody else up.                    *)
(***************************************************************************)
ResponsesLeave ==
    \A x \in Tasks :
        x \in Known
        ~> \/ \E i \in DOMAIN out[to[x]] : out[to[x]][i].x = x
           \/ to[x] \in gone \/ ~room[to[x]] \/ AllThreadsTaken

==============================================================================
