-------------------------- MODULE SocketWriterProofs --------------------------
(***************************************************************************)
(* The order of responses and the life of their buffers, for any clients,  *)
(* responses, threads of the queue and faults.                             *)
(***************************************************************************)
EXTENDS SocketWriter, FiniteSetTheorems, TLAPS

Waiting == {pending[i] : i \in DOMAIN pending}
Begun == active \cup finished

(* Responses wait in the order of their numbers, behind those that began. *)
QueueInv ==
    /\ pending \in Seq(Tasks) /\ active \subseteq Tasks /\ finished \subseteq Tasks
    /\ active \cap finished = {} /\ IsFiniteSet(active) /\ Cardinality(active) <= Limit
    /\ Cardinality(Known) \in Nat /\ Known = 1..Cardinality(Known)
    /\ \A i, j \in DOMAIN pending : i < j => pending[i] < pending[j]
    /\ \A x \in Begun, i \in DOMAIN pending : x < pending[i]

Sendings == [x : Tasks, intact : BOOLEAN]

(* A response that holds a socket, or was sent, is one of that client. *)
SocketInv ==
    /\ to \in [Tasks -> Clients]
    /\ mutexSocket \in [Clients -> Tasks \cup {NoTask}]
    /\ write \in [Clients -> Writes]
    /\ out \in [Clients -> Seq(Sendings)]
    /\ part \in [Clients -> Tasks \cup {NoTask}]
    /\ started \subseteq active
    /\ \A c \in Clients :
         /\ (mutexSocket[c] = NoTask) <=> (write[c] = "idle")
         /\ mutexSocket[c] # NoTask =>
              mutexSocket[c] \in started \cup finished /\ to[mutexSocket[c]] = c
         /\ \A i \in DOMAIN out[c] :
              out[c][i].x \in started \cup finished /\ to[out[c][i].x] = c

(* A response that began after another had finished cannot overtake it. *)
BeganInOrder ==
    \A x \in Tasks, y \in Begun : x < y => x \in finished \/ {x, y} \in together

Behind(ts, x, y) == y < x \/ {x, y} \in ts

(* What goes out behind a response is younger or was in hand with it. *)
SentInOrder ==
    \A c \in Clients :
        /\ \A i, j \in DOMAIN out[c] : i < j => Behind(together, out[c][j].x, out[c][i].x)
        /\ write[c] = "waiting" => \A i \in DOMAIN out[c] : Behind(together, mutexSocket[c], out[c][i].x)

(* What has left in part is what waits for the rest, if its client is there. *)
PartWaits ==
    \A c \in Clients : part[c] # NoTask =>
        c \in gone \/ (write[c] = "waiting" /\ mutexSocket[c] = part[c])

(* A write waits only with a rest that its first attempt has left. *)
RestWaits ==
    \A c \in Clients :
        /\ write[c] = "waiting" => mutexSocket[c] \in rested
        /\ \A i \in DOMAIN out[c] : out[c][i].intact \/ out[c][i].x \in rested

OrderInv == QueueInv /\ SocketInv /\ BeganInOrder /\ SentInOrder
WInv == OrderInv /\ PartWaits /\ RestWaits

------------------------------------------------------------------------------
LEMMA TasksAreNumbers == Tasks \subseteq Nat \ {0} /\ NoTask \notin Tasks
  <1>1. Cardinality(Tasks) \in Nat
    BY WriterAssumption, FS_CardinalityType
  <1> QED
    BY <1>1, WriterAssumption

LEMMA InitWInv == WInit => WInv
  <1> SUFFICES ASSUME WInit PROVE WInv
    OBVIOUS
  <1> USE DEF WInit, WQInit
  <1>1. Known = {} /\ Begun = {} /\ Cardinality({}) = 0 /\ IsFiniteSet({})
    BY FS_EmptySet DEF Known, Begun
  <1>2. QueueInv
    BY <1>1, WriterAssumption DEF QueueInv
  <1>3. SocketInv
    BY WriterAssumption DEF SocketInv, Writes
  <1>4. BeganInOrder /\ SentInOrder /\ PartWaits /\ RestWaits
    BY <1>1 DEF BeganInOrder, SentInOrder, PartWaits, RestWaits
  <1> QED
    BY <1>2, <1>3, <1>4 DEF WInv, OrderInv

------------------------------------------------------------------------------
(* The queue *)

(* Nothing but the queue has changed, and nothing that began is forgotten. *)
LEMMA KeepSockets ==
    ASSUME WInv, QueueInv', BeganInOrder', to' \in [Tasks -> Clients],
           \A x \in Begun : to'[x] = to[x],
           started' \cup finished' = started \cup finished, started' \subseteq active',
           together \subseteq together', gone \subseteq gone', UNCHANGED socketVars
    PROVE  WInv'
  <1> USE DEF WInv, OrderInv, socketVars
  <1>1. SocketInv'
    <2>1. ASSUME NEW x \in started \cup finished
          PROVE  x \in started' \cup finished' /\ to'[x] = to[x]
      BY <2>1 DEF SocketInv, Begun
    <2> QED
      BY <2>1 DEF SocketInv
  <1>2. SentInOrder'
    BY DEF SentInOrder, Behind
  <1>3. PartWaits' /\ RestWaits'
    BY DEF PartWaits, RestWaits
  <1> QED
    BY <1>1, <1>2, <1>3

LEMMA WriteInv ==
    ASSUME WInv, NEW c \in Clients, Write(c)
    PROVE  WInv'
  <1>0. PICK x : x = Cardinality(Known) + 1
    OBVIOUS
  <1>1. /\ x \in Tasks /\ x \notin Known /\ pending' = Append(pending, x)
        /\ to' = [to EXCEPT ![x] = c]
        /\ UNCHANGED <<active, finished, started, together, gone, socketVars>>
    BY <1>0 DEF Write, Submit, Later, clientVars
  <1>2. QueueInv /\ BeganInOrder /\ to \in [Tasks -> Clients] /\ started \subseteq active
    BY DEF WInv, OrderInv, SocketInv
  <1>3. \A y \in Known : y < x
    BY <1>0, <1>2 DEF QueueInv
  <1>4. /\ pending' \in Seq(Tasks) /\ Len(pending) \in Nat
        /\ DOMAIN pending = 1..Len(pending) /\ DOMAIN pending' = 1..(Len(pending) + 1)
        /\ \A i \in DOMAIN pending : pending'[i] = pending[i]
        /\ pending'[Len(pending) + 1] = x
    BY <1>1, <1>2 DEF QueueInv
  <1>5. Known' = Known \cup {x}
    BY <1>1, <1>4 DEF Known
  <1>6. Cardinality(Known') = Cardinality(Known) + 1 /\ Known' = 1..Cardinality(Known')
    <2>1. IsFiniteSet(Known)
      <3>1. \A n \in Nat : IsFiniteSet(1..n)
        BY FS_Interval
      <3> QED
        BY <1>2, <3>1 DEF QueueInv
    <2>2. Cardinality(Known') = Cardinality(Known) + 1
      BY <1>1, <1>5, <2>1, FS_AddElement
    <2>3. PICK n \in Nat : n = Cardinality(Known) /\ Known = 1..n /\ x = n + 1
      BY <1>0, <1>2 DEF QueueInv
    <2>4. (1..n) \cup {n + 1} = 1..(n + 1)
      OBVIOUS
    <2> QED
      BY <1>5, <2>2, <2>3, <2>4
  <1>7. \A y \in Begun : y \in Known
    BY DEF Begun, Known
  <1>8. \A i \in DOMAIN pending : pending[i] \in Known
    BY DEF Known
  <1>9. Begun' = Begun
    BY <1>1 DEF Begun
  <1>10. \A i, j \in DOMAIN pending' : i < j => pending'[i] < pending'[j]
    <2> SUFFICES ASSUME NEW i \in DOMAIN pending', NEW j \in DOMAIN pending', i < j
                 PROVE  pending'[i] < pending'[j]
      OBVIOUS
    <2>1. i \in DOMAIN pending
      BY <1>4
    <2>2. CASE j \in DOMAIN pending
      BY <1>2, <1>4, <2>1, <2>2 DEF QueueInv
    <2>3. CASE j = Len(pending) + 1
      BY <1>3, <1>4, <1>8, <2>1, <2>3
    <2> QED
      BY <1>4, <2>2, <2>3
  <1>11. \A y \in Begun, i \in DOMAIN pending' : y < pending'[i]
    BY <1>2, <1>3, <1>4, <1>7 DEF QueueInv
  <1>12. QueueInv'
    BY <1>1, <1>2, <1>4, <1>6, <1>9, <1>10, <1>11 DEF QueueInv
  <1>13. BeganInOrder'
    BY <1>1, <1>2, <1>9 DEF BeganInOrder
  <1>14. to' \in [Tasks -> Clients] /\ \A y \in Begun : to'[y] = to[y]
    BY <1>1, <1>2, <1>7
  <1> QED
    BY <1>1, <1>2, <1>12, <1>13, <1>14, KeepSockets

LEMMA BeginInv ==
    ASSUME WInv, BeginTask
    PROVE  WInv'
  <1>0. PICK x : x = Head(pending)
    OBVIOUS
  <1>1. /\ pending # <<>> /\ Cardinality(active) < Limit
        /\ active' = active \cup {x} /\ pending' = Tail(pending)
        /\ together' = together \cup {{x, y} : y \in active}
        /\ UNCHANGED <<finished, to, started, gone, socketVars>>
    BY <1>0 DEF BeginTask, Begin, clientVars
  <1>2. QueueInv /\ BeganInOrder /\ SocketInv
    BY DEF WInv, OrderInv
  <1>3. /\ x = pending[1] /\ 1 \in DOMAIN pending /\ x \in Tasks
        /\ pending' \in Seq(Tasks)
        /\ \A i \in DOMAIN pending' : i \in Nat /\ i + 1 \in DOMAIN pending
                                      /\ pending'[i] = pending[i + 1]
        /\ \A i \in DOMAIN pending : i = 1 \/ (i - 1 \in DOMAIN pending' /\ pending'[i - 1] = pending[i])
    <2>1. pending \in Seq(Tasks) /\ pending # <<>>
      BY <1>1, <1>2 DEF QueueInv
    <2>2. /\ Len(pending) \in Nat \ {0} /\ DOMAIN pending = 1..Len(pending)
          /\ pending' \in Seq(Tasks) /\ Len(pending') = Len(pending) - 1
          /\ \A i \in 1..(Len(pending) - 1) : pending'[i] = pending[i + 1]
          /\ x = pending[1] /\ x \in Tasks
      BY <1>0, <1>1, <2>1
    <2>3. DOMAIN pending' = 1..(Len(pending) - 1)
      BY <2>2
    <2>4. \A i \in DOMAIN pending : i = 1 \/ (i - 1 \in DOMAIN pending' /\ pending'[i - 1] = pending[i])
      <3> SUFFICES ASSUME NEW i \in DOMAIN pending, i # 1
                   PROVE  i - 1 \in DOMAIN pending' /\ pending'[i - 1] = pending[i]
        OBVIOUS
      <3>0. i \in 2..Len(pending)
        BY <2>2
      <3>1. PICK k : k = i - 1 /\ k \in 1..(Len(pending) - 1) /\ i = k + 1
        BY <2>2, <3>0
      <3> QED
        BY <2>2, <2>3, <3>1
    <2> QED
      BY <2>2, <2>3, <2>4
  <1>n. \A i \in DOMAIN pending : pending[i] \in Nat \ {0}
    <2>1. \A i \in DOMAIN pending : pending[i] \in Tasks
      BY <1>2 DEF QueueInv
    <2> QED
      BY <2>1, TasksAreNumbers
  <1>4. x \notin active /\ x \notin finished
    BY <1>2, <1>3, TasksAreNumbers DEF QueueInv, Begun
  <1>5. Known' = Known
    <2>1. Waiting = Waiting' \cup {x}
      BY <1>3 DEF Waiting
    <2> QED
      BY <1>1, <2>1 DEF Known, Waiting
  <1>6. IsFiniteSet(active') /\ Cardinality(active') <= Limit
    <2>1. Cardinality(active') = Cardinality(active) + 1 /\ IsFiniteSet(active')
          /\ Cardinality(active) \in Nat
      BY <1>1, <1>2, <1>4, FS_AddElement, FS_CardinalityType DEF QueueInv
    <2> QED
      BY <1>1, <2>1, WriterAssumption
  <1>7. Begun' = Begun \cup {x}
    BY <1>1 DEF Begun
  <1>8. \A i, j \in DOMAIN pending' : i < j => pending'[i] < pending'[j]
    BY <1>2, <1>3 DEF QueueInv
  <1>9. \A y \in Begun', i \in DOMAIN pending' : y < pending'[i]
    <2>1. \A i \in DOMAIN pending' : i + 1 > 1 /\ pending'[i] > x
      <3> SUFFICES ASSUME NEW i \in DOMAIN pending' PROVE i + 1 > 1 /\ pending'[i] > x
        OBVIOUS
      <3>1. i > 0 /\ i \in Nat
        BY <1>3
      <3>2. pending[1] < pending[i + 1]
        BY <1>2, <1>3, <3>1 DEF QueueInv
      <3>3. pending[1] \in Nat /\ pending[i + 1] \in Nat
        BY <1>3, <1>n
      <3> QED
        BY <1>3, <3>1, <3>2, <3>3
    <2> QED
      BY <1>2, <1>3, <1>7, <2>1, TasksAreNumbers DEF QueueInv
  <1>10. QueueInv'
    BY <1>1, <1>2, <1>3, <1>4, <1>5, <1>6, <1>8, <1>9 DEF QueueInv
  <1>11. BeganInOrder'
    <2> SUFFICES ASSUME NEW z \in Tasks, NEW y \in Begun', z < y
                 PROVE  z \in finished \/ {z, y} \in together'
      BY <1>1 DEF BeganInOrder
    <2>1. CASE y \in Begun
      BY <1>1, <1>2, <2>1 DEF BeganInOrder
    <2>2. CASE y = x
      <3>1. z \in Known
        <4>1. x \in Known /\ z \in Nat \ {0}
          BY <1>3, TasksAreNumbers DEF Known
        <4> QED
          BY <1>2, <2>2, <4>1 DEF QueueInv
      <3>2. z \notin Waiting
        <4>1. \A i \in DOMAIN pending : pending[i] >= x
          <5> SUFFICES ASSUME NEW i \in DOMAIN pending, i # 1 PROVE pending[i] >= x
            BY <1>3, <1>n
          <5>1. i > 1
            BY <1>2 DEF QueueInv
          <5> QED
            BY <1>2, <1>3, <1>n, <5>1 DEF QueueInv
        <4> QED
          BY <1>3, <1>n, <2>2, <4>1, TasksAreNumbers DEF Waiting
      <3>3. z \in active \/ z \in finished
        BY <3>1, <3>2 DEF Known, Waiting
      <3> QED
        BY <1>1, <2>2, <3>3
    <2> QED
      BY <1>7, <2>1, <2>2
  <1> QED
    BY <1>1, <1>2, <1>10, <1>11, KeepSockets DEF SocketInv

LEMMA EndTaskInv ==
    ASSUME WInv, NEW x \in Tasks, EndTask(x)
    PROVE  WInv'
  <1>1. /\ x \in started /\ x \in active /\ started' = started \ {x}
        /\ active' = active \ {x} /\ finished' = finished \cup {x}
        /\ UNCHANGED <<pending, to, together, gone, socketVars>>
    BY DEF EndTask, Finish, clientVars
  <1>2. QueueInv /\ BeganInOrder /\ SocketInv
    BY DEF WInv, OrderInv
  <1>3. Known' = Known /\ Begun' = Begun
    BY <1>1 DEF Known, Begun
  <1>4. IsFiniteSet(active') /\ Cardinality(active') <= Limit
    <2>1. Cardinality(active') = Cardinality(active) - 1 /\ IsFiniteSet(active')
          /\ Cardinality(active) \in Nat
      BY <1>1, <1>2, FS_RemoveElement, FS_CardinalityType DEF QueueInv
    <2> QED
      BY <1>2, <2>1, WriterAssumption DEF QueueInv
  <1>5. QueueInv'
    BY <1>1, <1>2, <1>3, <1>4 DEF QueueInv
  <1>6. BeganInOrder'
    BY <1>1, <1>2, <1>3 DEF BeganInOrder
  <1> QED
    BY <1>1, <1>2, <1>5, <1>6, KeepSockets DEF SocketInv

------------------------------------------------------------------------------
(* The sockets *)

LEMMA KeepQueue ==
    ASSUME QueueInv, BeganInOrder, UNCHANGED <<pending, active, finished, together>>
    PROVE  QueueInv' /\ BeganInOrder'
  BY DEF QueueInv, BeganInOrder, Known, Begun

(* Nothing but response x is sent, to client c, behind what was sent before. *)
SentBehind(c, x) ==
    /\ out' \in [Clients -> Seq(Sendings)]
    /\ \A d \in Clients : \A i \in DOMAIN out'[d] :
         \/ i \in DOMAIN out[d] /\ out'[d][i] = out[d][i]
         \/ d = c /\ out'[d][i].x = x
    /\ \A d \in Clients : d # c => out'[d] = out[d]
    /\ \A d \in Clients : \A i, j \in DOMAIN out'[d] :
         i < j => Behind(together', out'[d][j].x, out'[d][i].x)

LEMMA SendIsBehind ==
    ASSUME SocketInv, SentInOrder, NEW c \in Clients, NEW x \in Tasks, NEW alive \in BOOLEAN,
           Send(c, x, alive), UNCHANGED together,
           \A i \in DOMAIN out[c] : Behind(together, x, out[c][i].x)
    PROVE  /\ SentBehind(c, x)
           /\ \A d \in Clients : \A i \in DOMAIN out'[d] :
                \/ i \in DOMAIN out[d] /\ out'[d][i] = out[d][i]
                \/ out'[d][i].intact = alive
  <1>e. PICK e : e = [x |-> x, intact |-> alive]
    OBVIOUS
  <1>1. /\ e \in Sendings /\ e.x = x /\ e.intact = alive
        /\ out \in [Clients -> Seq(Sendings)] /\ out' = [out EXCEPT ![c] = Append(@, e)]
    BY <1>e DEF Send, Sendings, SocketInv
  <1>2. /\ Len(out[c]) \in Nat /\ DOMAIN out[c] = 1..Len(out[c])
        /\ out'[c] = Append(out[c], e) /\ DOMAIN out'[c] = 1..(Len(out[c]) + 1)
        /\ \A i \in 1..Len(out[c]) : out'[c][i] = out[c][i]
        /\ out'[c][Len(out[c]) + 1] = e /\ out'[c] \in Seq(Sendings)
    BY <1>1
  <1>3. \A d \in Clients : d # c => out'[d] = out[d]
    BY <1>1
  <1>4. out' \in [Clients -> Seq(Sendings)]
    BY <1>1, <1>2
  <1>5. ASSUME NEW d \in Clients, NEW i \in DOMAIN out'[d], NEW j \in DOMAIN out'[d], i < j
        PROVE  Behind(together', out'[d][j].x, out'[d][i].x)
    <2>1. CASE d # c
      BY <1>3, <1>5, <2>1 DEF SentInOrder, Behind
    <2>2. CASE d = c /\ j \in DOMAIN out[c]
      <3>1. i \in DOMAIN out[c] /\ out'[d][i] = out[c][i] /\ out'[d][j] = out[c][j]
        BY <1>2, <1>5, <2>2
      <3>2. Behind(together, out[c][j].x, out[c][i].x)
        BY <1>5, <2>2, <3>1 DEF SentInOrder
      <3> QED
        BY <3>1, <3>2
    <2>3. CASE d = c /\ j = Len(out[c]) + 1
      <3>1. i \in 1..Len(out[c]) /\ out'[d][i] = out[c][i] /\ out'[d][j].x = x
        BY <1>1, <1>2, <1>5, <2>3
      <3>2. Behind(together, x, out[c][i].x)
        BY <1>2, <3>1
      <3> QED
        BY <3>1, <3>2
    <2> QED
      BY <1>2, <2>1, <2>2, <2>3
  <1>6. \A d \in Clients : \A i \in DOMAIN out'[d] :
          \/ i \in DOMAIN out[d] /\ out'[d][i] = out[d][i]
          \/ d = c /\ out'[d][i].x = x /\ out'[d][i].intact = alive
    BY <1>1, <1>2, <1>3
  <1> QED
    BY <1>3, <1>4, <1>5, <1>6 DEF SentBehind

LEMMA SentAreTasks ==
    ASSUME SocketInv, NEW c \in Clients, NEW i \in DOMAIN out[c]
    PROVE  out[c][i].x \in Tasks
  <1>1. out[c] \in Seq(Sendings)
    BY DEF SocketInv
  <1>2. out[c][i] \in Sendings
    BY <1>1
  <1> QED
    BY <1>2 DEF Sendings

LEMMA StartWriteInv ==
    ASSUME WInv, NEW x \in Tasks, StartWrite(x)
    PROVE  WInv'
  <1>0. PICK c : c = to[x]
    OBVIOUS
  <1>1. /\ x \in active \ started /\ mutexSocket[c] = NoTask
        /\ mutexSocket' = [mutexSocket EXCEPT ![c] = x] /\ started' = started \cup {x}
        /\ rested \subseteq rested'
        /\ \/ write' = [write EXCEPT ![c] = "done"] /\ UNCHANGED <<part, out>>
           \/ write' = [write EXCEPT ![c] = "done"] /\ Send(c, x, TRUE) /\ UNCHANGED part
           \/ /\ x \in rested' /\ UNCHANGED out
              /\ write' = [write EXCEPT ![c] = "waiting"]
              /\ UNCHANGED part \/ part' = [part EXCEPT ![c] = x]
        /\ UNCHANGED <<pending, active, finished, to, together, gone>>
    <2>1. /\ x \in active \ started /\ mutexSocket[c] = NoTask
          /\ mutexSocket' = [mutexSocket EXCEPT ![c] = x] /\ started' = started \cup {x}
          /\ UNCHANGED <<pending, active, finished, to, together, gone>>
      BY <1>0 DEF StartWrite, MutexFree, wqVars, clientVars
    <2>2. \/ write' = [write EXCEPT ![c] = "done"] /\ UNCHANGED <<part, out, rested>>
          \/ \E bytes \in Takes(x) :
             /\ \/ /\ FirstAttempt(bytes)
                   /\ write' = [write EXCEPT ![c] = "done"] /\ Send(c, x, TRUE)
                \/ /\ ~FirstAttempt(bytes)
                   /\ write' = [write EXCEPT ![c] = "waiting"] /\ UNCHANGED out
             /\ part' = IF bytes = "part" THEN [part EXCEPT ![c] = x] ELSE part
             /\ rested' = IF bytes = "all" THEN rested ELSE rested \cup {x}
      BY <1>0 DEF StartWrite
    <2> QED
      BY <2>1, <2>2 DEF FirstAttempt
  <1>2. QueueInv /\ BeganInOrder /\ SocketInv /\ SentInOrder /\ PartWaits /\ RestWaits
    BY DEF WInv, OrderInv
  <1>3. c \in Clients /\ x # NoTask /\ write[c] = "idle"
    BY <1>0, <1>1, <1>2, TasksAreNumbers DEF SocketInv
  <1>4. \A i \in DOMAIN out[c] : Behind(together, x, out[c][i].x)
    <2> SUFFICES ASSUME NEW i \in DOMAIN out[c] PROVE Behind(together, x, out[c][i].x)
      OBVIOUS
    <2>1. PICK y \in Tasks : y = out[c][i].x
      BY <1>2, <1>3, SentAreTasks
    <2>2. y \in Begun /\ y # x /\ x \notin finished
      BY <1>1, <1>2, <1>3, <2>1 DEF SocketInv, QueueInv, Begun
    <2>3. y < x \/ x < y
      BY <2>2, TasksAreNumbers
    <2> QED
      BY <1>2, <2>1, <2>2, <2>3 DEF BeganInOrder, Behind
  <1>5. /\ SentBehind(c, x)
        /\ \A d \in Clients : \A i \in DOMAIN out'[d] :
             \/ i \in DOMAIN out[d] /\ out'[d][i] = out[d][i]
             \/ out'[d][i].intact = TRUE
    <2>1. CASE UNCHANGED out
      BY <1>1, <1>2, <2>1 DEF SocketInv, SentInOrder, Behind, SentBehind
    <2>2. CASE Send(c, x, TRUE)
      BY <1>1, <1>2, <1>3, <1>4, <2>2, SendIsBehind
    <2> QED
      BY <1>1, <2>1, <2>2
  <1>6. /\ write' \in [Clients -> Writes] /\ mutexSocket' \in [Clients -> Tasks \cup {NoTask}]
        /\ \A d \in Clients : d # c => write'[d] = write[d] /\ mutexSocket'[d] = mutexSocket[d]
        /\ mutexSocket'[c] = x /\ write'[c] # "idle"
        /\ write'[c] = "waiting" => x \in rested' /\ UNCHANGED out
        /\ part' \in [Clients -> Tasks \cup {NoTask}]
        /\ \A d \in Clients : d # c => part'[d] = part[d]
        /\ part'[c] # NoTask => c \in gone \/ (part'[c] = x /\ write'[c] = "waiting")
    <2>1. /\ mutexSocket' \in [Clients -> Tasks \cup {NoTask}] /\ mutexSocket'[c] = x
          /\ \A d \in Clients : d # c => mutexSocket'[d] = mutexSocket[d]
      BY <1>1, <1>2, <1>3 DEF SocketInv
    <2>2. /\ write' \in [Clients -> Writes] /\ write'[c] # "idle"
          /\ \A d \in Clients : d # c => write'[d] = write[d]
          /\ write'[c] = "waiting" => x \in rested' /\ UNCHANGED out
      <3>1. write \in [Clients -> Writes] /\ {"done", "waiting"} \subseteq Writes
        BY <1>2 DEF SocketInv, Writes
      <3>2. CASE write' = [write EXCEPT ![c] = "done"]
        BY <1>3, <3>1, <3>2
      <3>3. CASE x \in rested' /\ write' = [write EXCEPT ![c] = "waiting"] /\ UNCHANGED out
        BY <1>3, <3>1, <3>3
      <3> QED
        BY <1>1, <3>2, <3>3
    <2>3. /\ part' \in [Clients -> Tasks \cup {NoTask}]
          /\ \A d \in Clients : d # c => part'[d] = part[d]
          /\ part'[c] # NoTask => c \in gone \/ (part'[c] = x /\ write'[c] = "waiting")
      <3>1. part \in [Clients -> Tasks \cup {NoTask}] /\ write \in [Clients -> Writes]
        BY <1>2 DEF SocketInv
      <3>2. part[c] # NoTask => c \in gone
        BY <1>1, <1>2, <1>3 DEF PartWaits
      <3>3. CASE UNCHANGED part
        BY <3>1, <3>2, <3>3
      <3>4. CASE write' = [write EXCEPT ![c] = "waiting"] /\ part' = [part EXCEPT ![c] = x]
        BY <1>3, <3>1, <3>4
      <3> QED
        BY <1>1, <3>3, <3>4
    <2> QED
      BY <2>1, <2>2, <2>3
  <1>7. SocketInv'
    <2>1. started' \subseteq active'
      BY <1>1, <1>2 DEF SocketInv
    <2>2. ASSUME NEW d \in Clients
          PROVE  (mutexSocket'[d] = NoTask) <=> (write'[d] = "idle")
      <3>1. CASE d = c
        BY <1>3, <1>6, <3>1
      <3>2. CASE d # c
        BY <1>2, <1>6, <3>2 DEF SocketInv
      <3> QED
        BY <3>1, <3>2
    <2>3. \A d \in Clients : mutexSocket'[d] # NoTask =>
            mutexSocket'[d] \in started' \cup finished' /\ to'[mutexSocket'[d]] = d
      BY <1>0, <1>1, <1>2, <1>6 DEF SocketInv
    <2>4. \A d \in Clients : \A i \in DOMAIN out'[d] :
            out'[d][i].x \in started' \cup finished' /\ to'[out'[d][i].x] = d
      BY <1>0, <1>1, <1>2, <1>5 DEF SocketInv, SentBehind
    <2> QED
      BY <1>1, <1>2, <1>5, <1>6, <2>1, <2>2, <2>3, <2>4 DEF SocketInv, SentBehind
  <1>8. SentInOrder'
    <2>1. ASSUME NEW d \in Clients, write'[d] = "waiting", NEW i \in DOMAIN out'[d]
          PROVE  Behind(together', mutexSocket'[d], out'[d][i].x)
      <3>1. CASE d = c
        BY <1>1, <1>4, <1>6, <2>1, <3>1 DEF Behind
      <3>2. CASE d # c
        <4>1. write[d] = "waiting" /\ i \in DOMAIN out[d]
          BY <1>5, <1>6, <2>1, <3>2 DEF SentBehind
        <4>2. Behind(together, mutexSocket[d], out[d][i].x)
          BY <1>2, <4>1 DEF SentInOrder
        <4>3. mutexSocket'[d] = mutexSocket[d] /\ out'[d] = out[d] /\ together' = together
          BY <1>1, <1>5, <1>6, <3>2 DEF SentBehind
        <4> QED
          BY <4>2, <4>3
      <3> QED
        BY <3>1, <3>2
    <2> QED
      BY <1>5, <2>1 DEF SentInOrder, SentBehind
  <1>9. RestWaits'
    BY <1>1, <1>2, <1>5, <1>6 DEF RestWaits, SentBehind
  <1>10. PartWaits'
    <2> SUFFICES ASSUME NEW d \in Clients, part'[d] # NoTask
                 PROVE  d \in gone \/ (write'[d] = "waiting" /\ mutexSocket'[d] = part'[d])
      BY <1>1 DEF PartWaits
    <2>1. CASE d = c
      BY <1>6, <2>1
    <2>2. CASE d # c
      BY <1>2, <1>6, <2>2 DEF PartWaits
    <2> QED
      BY <2>1, <2>2
  <1> QED
    BY <1>1, <1>2, <1>7, <1>8, <1>9, <1>10, KeepQueue DEF WInv, OrderInv

(* A part that leaves is one of the response that holds the mutex. *)
LEMMA ProceedInPartInv ==
    ASSUME WInv, NEW c \in Clients, ProceedInPart(c)
    PROVE  WInv'
  <1>1. /\ write[c] = "waiting" /\ part' = [part EXCEPT ![c] = mutexSocket[c]]
        /\ UNCHANGED <<pending, active, finished, to, started, together, gone, mutexSocket,
                       write, out, rested>>
    BY DEF ProceedInPart, wqVars, clientVars
  <1>2. QueueInv /\ BeganInOrder /\ SocketInv /\ SentInOrder /\ PartWaits /\ RestWaits
    BY DEF WInv, OrderInv
  <1>3. /\ part' \in [Clients -> Tasks \cup {NoTask}] /\ part'[c] = mutexSocket[c]
        /\ \A d \in Clients : d # c => part'[d] = part[d]
    BY <1>1, <1>2 DEF SocketInv
  <1>4. SocketInv' /\ SentInOrder' /\ RestWaits'
    BY <1>1, <1>2, <1>3 DEF SocketInv, SentInOrder, RestWaits
  <1>5. PartWaits'
    BY <1>1, <1>2, <1>3 DEF PartWaits
  <1> QED
    BY <1>1, <1>2, <1>4, <1>5, KeepQueue DEF WInv, OrderInv

LEMMA ProceedInv ==
    ASSUME WInv, NEW c \in Clients, Proceed(c)
    PROVE  WInv'
  <1>0. PICK x : x = mutexSocket[c]
    OBVIOUS
  <1>1. /\ write[c] = "waiting" /\ write' = [write EXCEPT ![c] = "done"]
        /\ \/ c \in gone /\ UNCHANGED <<part, out>>
           \/ Send(c, x, x \in active) /\ part' = [part EXCEPT ![c] = NoTask]
        /\ UNCHANGED <<pending, active, finished, to, started, together, gone, mutexSocket, rested>>
    BY <1>0 DEF Proceed, wqVars, clientVars
  <1>2. QueueInv /\ BeganInOrder /\ SocketInv /\ SentInOrder /\ PartWaits /\ RestWaits
    BY DEF WInv, OrderInv
  <1>3. /\ x \in Tasks /\ x \in started \cup finished /\ to[x] = c /\ x \in rested
        /\ \A i \in DOMAIN out[c] : Behind(together, x, out[c][i].x)
    BY <1>0, <1>1, <1>2 DEF SocketInv, SentInOrder, RestWaits
  <1>4. SentBehind(c, x)
    <2>1. CASE UNCHANGED out
      BY <1>1, <1>2, <2>1 DEF SocketInv, SentInOrder, Behind, SentBehind
    <2>2. together' = together
      BY <1>1
    <2>3. CASE Send(c, x, x \in active)
      <3>1. CASE x \in active
        <4>1. (x \in active) = TRUE
          BY <3>1, Zenon
        <4>2. Send(c, x, TRUE)
          BY <2>3, <4>1, Zenon
        <4> QED
          BY <1>2, <1>3, <2>2, <4>2, SendIsBehind
      <3>2. CASE x \notin active
        <4>1. (x \in active) = FALSE
          BY <3>2, SMT
        <4>2. Send(c, x, FALSE)
          BY <2>3, <4>1, Zenon
        <4> QED
          BY <1>2, <1>3, <2>2, <4>2, SendIsBehind
      <3> QED
        BY <3>1, <3>2
    <2> QED
      BY <1>1, <2>1, <2>3
  <1>5. /\ write' \in [Clients -> Writes] /\ write'[c] = "done"
        /\ \A d \in Clients : d # c => write'[d] = write[d]
    BY <1>1, <1>2 DEF SocketInv, Writes
  <1>10. /\ part' \in [Clients -> Tasks \cup {NoTask}]
         /\ \A d \in Clients : d # c => part'[d] = part[d]
         /\ part'[c] # NoTask => c \in gone
    <2>1. part \in [Clients -> Tasks \cup {NoTask}]
      BY <1>2 DEF SocketInv
    <2> QED
      BY <1>1, <2>1
  <1>6. SocketInv'
    <2>1. \A d \in Clients : (mutexSocket'[d] = NoTask) <=> (write'[d] = "idle")
      BY <1>1, <1>2, <1>5 DEF SocketInv
    <2>2. \A d \in Clients : \A i \in DOMAIN out'[d] :
            out'[d][i].x \in started' \cup finished' /\ to'[out'[d][i].x] = d
      BY <1>1, <1>2, <1>3, <1>4 DEF SocketInv, SentBehind
    <2> QED
      BY <1>1, <1>2, <1>4, <1>5, <1>10, <2>1, <2>2 DEF SocketInv, SentBehind
  <1>7. SentInOrder'
    BY <1>1, <1>2, <1>4, <1>5 DEF SentInOrder, Behind, SentBehind
  <1>8. RestWaits'
    BY <1>1, <1>2, <1>3, <1>4, <1>5 DEF RestWaits, SentBehind
  <1>9. PartWaits'
    BY <1>1, <1>2, <1>5, <1>10 DEF PartWaits
  <1> QED
    BY <1>1, <1>2, <1>6, <1>7, <1>8, <1>9, KeepQueue DEF WInv, OrderInv

LEMMA CompleteInv ==
    ASSUME WInv, NEW c \in Clients, Complete(c)
    PROVE  WInv'
  <1>1. /\ write' = [write EXCEPT ![c] = "idle"]
        /\ mutexSocket' = [mutexSocket EXCEPT ![c] = NoTask]
        /\ write[c] = "done"
        /\ UNCHANGED <<pending, active, finished, to, started, together, gone, part, out, rested>>
    BY DEF Complete, UnlockSocket, wqVars, clientVars
  <1>2. QueueInv /\ BeganInOrder /\ SocketInv /\ SentInOrder /\ PartWaits /\ RestWaits
    BY DEF WInv, OrderInv
  <1>3. /\ write' \in [Clients -> Writes] /\ mutexSocket' \in [Clients -> Tasks \cup {NoTask}]
        /\ write'[c] = "idle" /\ mutexSocket'[c] = NoTask
        /\ \A d \in Clients : d # c => write'[d] = write[d] /\ mutexSocket'[d] = mutexSocket[d]
    BY <1>1, <1>2 DEF SocketInv, Writes
  <1>4. SocketInv'
    BY <1>1, <1>2, <1>3 DEF SocketInv
  <1>5. SentInOrder' /\ RestWaits' /\ PartWaits'
    BY <1>1, <1>2, <1>3 DEF SentInOrder, RestWaits, PartWaits, Behind
  <1> QED
    BY <1>1, <1>2, <1>4, <1>5, KeepQueue DEF WInv, OrderInv

(* What clients do changes neither the queue nor what is sent. *)
LEMMA ClientInv ==
    ASSUME WInv, gone \subseteq gone', UNCHANGED <<wqVars, to, started, together, socketVars>>
    PROVE  WInv'
  <1>1. QueueInv' /\ BeganInOrder'
    BY KeepQueue DEF WInv, OrderInv, wqVars
  <1> QED
    BY <1>1, KeepSockets DEF WInv, OrderInv, SocketInv, wqVars

LEMMA NextWInv == WInv /\ [WNext]_wvars => WInv'
  <1> SUFFICES ASSUME WInv, [WNext]_wvars PROVE WInv'
    OBVIOUS
  <1>1. CASE UNCHANGED wvars
    BY <1>1, ClientInv DEF wvars, clientVars
  <1>2. CASE \E c \in Clients : ClientStep(c)
    BY <1>2, ClientInv DEF ClientStep, StopReading, ReadOn, CloseConnection
  <1> QED
    BY <1>1, <1>2, BeginInv, WriteInv, ProceedInPartInv, ProceedInv, CompleteInv, StartWriteInv, EndTaskInv
       DEF WNext, NetworkStep, QueueStep

LEMMA WInvariance == WSpec => []WInv
  BY InitWInv, NextWInv, PTL DEF WSpec

------------------------------------------------------------------------------
(* The types of SocketWriter: a held socket has a write, and the other way. *)
THEOREM WriterTypeCorrect == WSpec => []WTypeOK
  <1>1. WInv => WTypeOK
    BY DEF WInv, OrderInv, QueueInv, SocketInv, WTypeOK
  <1> QED
    BY <1>1, WInvariance, PTL

(***************************************************************************)
(* mutexSocket_ keeps no order, but the queue does: responses overtake     *)
(* each other only if two of its threads had them at the same time.        *)
(***************************************************************************)
THEOREM ReorderedWereTogether == WSpec => []ReorderNeedsTwoThreads
  <1>1. ASSUME WInv PROVE ReorderNeedsTwoThreads
    <2> SUFFICES ASSUME NEW c \in Clients, NEW i \in DOMAIN out[c], NEW j \in DOMAIN out[c],
                        i < j, out[c][i].x > out[c][j].x
                 PROVE  {out[c][i].x, out[c][j].x} \in together
      BY DEF ReorderNeedsTwoThreads
    <2>1. out[c][i].x \in Nat /\ out[c][j].x \in Nat
      BY <1>1, TasksAreNumbers, SentAreTasks DEF WInv, OrderInv
    <2>2. Behind(together, out[c][j].x, out[c][i].x)
      BY <1>1 DEF WInv, OrderInv, SentInOrder
    <2>3. {out[c][j].x, out[c][i].x} = {out[c][i].x, out[c][j].x}
      OBVIOUS
    <2> QED
      BY <2>1, <2>2, <2>3 DEF Behind
  <1> QED
    BY <1>1, WInvariance, PTL

(***************************************************************************)
(* async_write outlives its buffer only if its first attempt left a rest;  *)
(* the client may well be reading.                                         *)
(***************************************************************************)
THEOREM StaleBuffersAreRests == WSpec => []StaleBufferNeedsRest
  <1>1. WInv => StaleBufferNeedsRest
    BY DEF WInv, RestWaits, StaleBufferNeedsRest
  <1> QED
    BY <1>1, WInvariance, PTL

(* The rest of x leaves for c, or nothing happens to what left for c. *)
RestLeaves(c) ==
    \/ UNCHANGED <<part[c], out[c]>>
    \/ /\ part'[c] = NoTask /\ Len(out'[c]) = Len(out[c]) + 1
       /\ out'[c][Len(out'[c])].x = part[c]

LEMMA PartIsContinued ==
    ASSUME WInv, [WNext]_wvars, NEW c \in Clients, part[c] # NoTask
    PROVE  RestLeaves(c)
  <1>0. /\ out \in [Clients -> Seq(Sendings)] /\ part \in [Clients -> Tasks \cup {NoTask}]
        /\ mutexSocket \in [Clients -> Tasks \cup {NoTask}]
        /\ c \in gone \/ (write[c] = "waiting" /\ mutexSocket[c] = part[c])
    BY DEF WInv, OrderInv, SocketInv, PartWaits
  <1>1. CASE UNCHANGED <<part, out>>
    BY <1>1 DEF RestLeaves
  <1>2. ASSUME NEW x \in Tasks, StartWrite(x) PROVE RestLeaves(c)
    <2>1. CASE to[x] # c
      <3>1. out'[c] = out[c]
        BY <1>0, <1>2, <2>1 DEF StartWrite, Send
      <3>2. part'[c] = part[c]
        BY <1>0, <1>2, <2>1 DEF StartWrite
      <3> QED
        BY <3>1, <3>2 DEF RestLeaves
    <2>2. CASE to[x] = c
      <3>1. c \in gone
        BY <1>0, <1>2, <2>2 DEF StartWrite, MutexFree
      <3>2. UNCHANGED <<part, out>>
        BY <1>2, <2>2, <3>1 DEF StartWrite
      <3> QED
        BY <1>1, <3>2
    <2> QED
      BY <2>1, <2>2
  <1>3. ASSUME NEW d \in Clients, ProceedInPart(d) PROVE RestLeaves(c)
    BY <1>0, <1>3 DEF ProceedInPart, RestLeaves
  <1>4. ASSUME NEW d \in Clients, Proceed(d) PROVE RestLeaves(c)
    <2>0. PICK e : e = [x |-> mutexSocket[d], intact |-> mutexSocket[d] \in active]
      OBVIOUS
    <2>1. \/ UNCHANGED <<part, out>>
          \/ /\ d \notin gone /\ out' = [out EXCEPT ![d] = Append(@, e)]
             /\ part' = [part EXCEPT ![d] = NoTask]
      BY <1>4, <2>0 DEF Proceed, Send
    <2>2. CASE d # c
      BY <1>0, <2>1, <2>2 DEF RestLeaves
    <2>3. CASE d = c /\ d \notin gone /\ out' = [out EXCEPT ![d] = Append(@, e)]
               /\ part' = [part EXCEPT ![d] = NoTask]
      <3>1. e.x = part[c] /\ part'[c] = NoTask /\ out'[c] = Append(out[c], e)
        BY <1>0, <2>0, <2>3
      <3>2. Len(out'[c]) = Len(out[c]) + 1 /\ out'[c][Len(out[c]) + 1] = e
        <4>1. out[c] \in Seq(Sendings \cup {e}) /\ e \in Sendings \cup {e}
          BY <1>0
        <4> QED
          BY <3>1, <4>1
      <3> QED
        BY <3>1, <3>2 DEF RestLeaves
    <2> QED
      BY <1>1, <2>1, <2>2, <2>3
  <1>5. CASE BeginTask \/ \E d \in Clients : Write(d) \/ Complete(d) \/ ClientStep(d)
    BY <1>1, <1>5 DEF BeginTask, Write, Complete, ClientStep, StopReading, ReadOn,
         CloseConnection, socketVars
  <1>6. CASE \E x \in Tasks : EndTask(x)
    BY <1>1, <1>6 DEF EndTask, socketVars
  <1>7. CASE UNCHANGED wvars
    BY <1>1, <1>7 DEF wvars, socketVars
  <1> QED
    BY <1>2, <1>3, <1>4, <1>5, <1>6, <1>7 DEF WNext, NetworkStep, QueueStep

(***************************************************************************)
(* Responses do not mix on a connection: writeImpl_ gives mutexSocket_ to  *)
(* the completion handler, and async_write completes after the last byte.  *)
(***************************************************************************)
THEOREM ResponsesAreWhole == WSpec => ResponsesStayWhole
  <1>1. WInv /\ [WNext]_wvars
        => [\A c \in Clients :
               part[c] # NoTask =>
                  \/ UNCHANGED <<part[c], out[c]>>
                  \/ /\ part'[c] = NoTask /\ Len(out'[c]) = Len(out[c]) + 1
                     /\ out'[c][Len(out'[c])].x = part[c]]_wvars
    BY PartIsContinued DEF RestLeaves
  <1> QED
    BY <1>1, WInvariance, PTL DEF WSpec, ResponsesStayWhole

==============================================================================
