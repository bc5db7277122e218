------------------------------- MODULE Gateway -------------------------------
(***************************************************************************)
(* The way of a request and of its answer through the whole server: the    *)
(* coroutine of a Session reads it, a thread of the WorkersPool executes   *)
(* QueryEngine::reg or ::auth of Users, and the SocketWriter sends the     *)
(* answer.  The modules of the parts are joined here: thread t of the pool *)
(* is worker t of Users, and the writer of a session serves its client.    *)
(*                                                                         *)
(* The server is up throughout; its end is left to Session.                *)
(***************************************************************************)
EXTENDS Session

CONSTANTS
    Logins, Passwords,
    Limit,      \* threads of the ThreadSafeQueue
    Mismatched, \* bound: the headers that clients send with a body of another kind
    Long,       \* bound: the responses of which a socket may take a part
    MaxFaults   \* bound: queries that fail, clients that stop to read or leave

ASSUME GatewayAssumption ==
    /\ Kinds \subseteq {"reg", "auth"} /\ Mismatched \subseteq Headers /\ Sessions # {}
    /\ Long \subseteq Tasks /\ Limit \in Nat \ {0} /\ MaxFaults \in Nat

VARIABLES
    clients, idClients, uc, server, started, errors, crashes,  \* of Users
    told, overlapped, racedIds,
    pending, active, finished, closed,                         \* of SocketWriter
    to, mutexSocket, write, begun, room, gone, faults, part, out, together, rested,
    wanted,     \* wanted[i]: the login and password in the body of request i
    answers,    \* answers[x]: the task that gave response x, and the id in it
    heard,      \* history: heard[i]: the requests answered when i was sent
    contended,  \* history: the tasks whose push met that of another thread
    failed      \* history: the tasks a query of which failed

U == INSTANCE Users WITH
    Workers <- PoolThreads, MaxCalls <- Cardinality(Tasks),
    MaxErrors <- MaxFaults, MaxCrashes <- 0

W == INSTANCE SocketWriter WITH Clients <- Sessions, started <- begun

userVars == <<clients, idClients, uc, server, started, errors, crashes,
              told, overlapped, racedIds, contended, failed>>
writerVars == <<pending, active, finished, closed, to, mutexSocket, write, begun,
                room, gone, faults, part, out, together, rested>>
linkVars == <<wanted, answers, heard>>
gvars == <<svars, userVars, writerVars, linkVars>>

(* The request that response x answers. *)
RequestOf(x) == jobs[answers[x].task].b.i
AnsweredOn(s) == {RequestOf(out[s][j].x) : j \in DOMAIN out[s]}

------------------------------------------------------------------------------
(* The clients *)

SendRequest(s, c, k, l, p) ==
    /\ Send(s, c, k)
    /\ wanted' = Append(wanted, [l |-> l, p |-> p])
    /\ heard' = Append(heard, UNION {AnsweredOn(r) : r \in Sessions})
    /\ UNCHANGED <<answers, userVars, writerVars>>

AwaitsAnswer(s) == \E m \in sent : m[1] = s /\ m[3].i \notin AnsweredOn(s)
MayFail == faults + errors < MaxFaults

(* The connection of a client that has asked closes, in both directions. *)
Leave(s) ==
    /\ AwaitsAnswer(s) /\ MayFail
    /\ Break(s) /\ W!CloseConnection(s)
    /\ UNCHANGED <<userVars, linkVars>>

(* A client stops to read what it is sent, and goes on. *)
Pause(s) == AwaitsAnswer(s) /\ MayFail /\ W!StopReading(s) /\ UNCHANGED <<svars, userVars, linkVars>>
ReadOn(s) == W!ReadOn(s) /\ UNCHANGED <<svars, userVars, linkVars>>

------------------------------------------------------------------------------
(* The thread of the network *)

Connect(s) == Accept(s) /\ UNCHANGED <<userVars, writerVars, linkVars>>

Read(s) == ReadStep(s) /\ UNCHANGED <<userVars, writerVars, linkVars>>

Transmit(s) == W!NetworkStep(s) /\ UNCHANGED <<svars, userVars, linkVars>>

------------------------------------------------------------------------------
(* The threads of the pool *)

(* processRequest calls the engine, or goes on to answer a mismatch. *)
Serve(t) ==
    LET x == Head(handlers)
        r == wanted[jobs[x].b.i]
    IN  /\ Handle(t)
        /\ IF x \in called'
           THEN IF jobs[x].c = "reg" THEN U!Reg(t, jobs[x].s, r.l, r.p)
                                     ELSE U!Auth(t, jobs[x].s, r.l, r.p)
           ELSE UNCHANGED userVars
        /\ UNCHANGED <<contended, failed, writerVars, linkVars>>

(* The steps of reg and auth up to the answer. *)
Work(t) ==
    /\ U!UserStep(t) /\ ~U!At(t, "answer") /\ (errors' = errors \/ MayFail)
    /\ contended' = IF U!At(t, "push") /\ U!PushContended(t)
                    THEN contended \cup {exec[t]} ELSE contended
    /\ failed' = IF errors' # errors THEN failed \cup {exec[t]} ELSE failed
    /\ UNCHANGED <<svars, writerVars, linkVars>>

LastReadFrom(x) == jobs[Len(jobs)].s
Addressee(x) == jobs[x].s

(* The answer goes to the session that the request came from. *)
Push(t, id) ==
    /\ answers' = Append(answers, [task |-> exec[t], id |-> id])
    /\ W!Write(Addressee(exec[t]))
    /\ UNCHANGED <<svars, wanted, heard>>

Give(t) == U!Answer(t) /\ Push(t, uc[t].id) /\ UNCHANGED <<contended, failed>>

Replied(x) == \E j \in DOMAIN answers : answers[j].task = x

Refuse(t) ==
    /\ exec[t] \in refused /\ ~Replied(exec[t])
    /\ Push(t, U!NoId)
    /\ UNCHANGED userVars

EndRequest(t) ==
    /\ exec[t] \in called \cup refused => Replied(exec[t])
    /\ FinishRequest(t)
    /\ UNCHANGED <<userVars, writerVars, linkVars>>

EngineStep(t) == Serve(t) \/ Work(t) \/ Give(t) \/ Refuse(t) \/ EndRequest(t)

------------------------------------------------------------------------------
(* The threads of the queue *)

TakeResponse == W!BeginTask /\ UNCHANGED <<svars, userVars, linkVars>>

WriteResponse(x) == W!QueueStep(x) /\ UNCHANGED <<svars, userVars, linkVars>>

------------------------------------------------------------------------------
(* main has connected to the store and built the managers, pool and queue. *)
GInit ==
    /\ SInit /\ W!WInit
    /\ clients = <<>> /\ idClients = [i \in {} |-> 0]
    /\ uc = [t \in PoolThreads |-> U!Idle] /\ server = "up"
    /\ started = 0 /\ errors = 0 /\ crashes = 0
    /\ told = {} /\ overlapped = {} /\ racedIds = {}
    /\ wanted = <<>> /\ answers = <<>> /\ heard = <<>>
    /\ contended = {} /\ failed = {}

Clientele(s) ==
    \/ \E c, k \in Kinds, l \in Logins, p \in Passwords :
         c \in Mismatched \cup {k} /\ SendRequest(s, c, k, l, p)
    \/ Leave(s) \/ Pause(s) \/ ReadOn(s)

ServerStep ==
    \/ TakeResponse \/ \E x \in Tasks : WriteResponse(x)
    \/ \E s \in Sessions : Transmit(s) \/ Read(s)
    \/ \E t \in PoolThreads : EngineStep(t)

GNext == ServerStep \/ \E s \in Sessions : Clientele(s) \/ Connect(s)

(***************************************************************************)
(* The server does not rest while one of its threads can run.  A behaviour *)
(* has finitely many steps of it, so that they need no fairness each.      *)
(* Clients owe nothing.                                                    *)
(***************************************************************************)
GSpec == GInit /\ [][GNext]_gvars /\ WF_gvars(ServerStep)

------------------------------------------------------------------------------
(* Properties *)

RR == INSTANCE RequestReply WITH
    Clients <- Sessions,
    Requests <- 1..MaxSends,
    asked <- [s \in Sessions |-> {m[3].i : m \in {m \in sent : m[1] = s}}],
    replies <- [s \in Sessions |-> [j \in DOMAIN out[s] |-> RequestOf(out[s][j].x)]],
    cut <- gone

(***************************************************************************)
(* Requests are answered as RequestReply says: an answer leaves on the     *)
(* connection of its request and once, whatever threads, tasks and         *)
(* responses overtake one another.                                         *)
(***************************************************************************)
OneAnswerEach == RR!RRSafety

(***************************************************************************)
(* Every request is answered in the end; clients send a bounded number of  *)
(* them.  Only a client that leaves or reads no more may wait for ever, or *)
(* one for which no thread of the queue is left, as responses to clients   *)
(* that read no more have them all.                                        *)
(***************************************************************************)
RequestsAreAnswered ==
    <>[](\A m \in sent :
            \/ m[3].i \in AnsweredOn(m[1])
            \/ m[1] \in gone \/ ~room[m[1]] \/ W!AllThreadsTaken)

(***************************************************************************)
(* Who logs in after all other logins of the name were answered receives   *)
(* for the user from then on, whatever connections those were on; only if  *)
(* its push met that of another user can the binding be lost.              *)
(***************************************************************************)
LatestLoginIsBound ==
    \A y \in DOMAIN answers :
        LET b == RequestOf(y)
            id == answers[y].id
        IN  /\ id # U!NoId /\ answers[y].task \notin contended
            /\ \A a \in DOMAIN wanted \ {b} : wanted[a].l = wanted[b].l => a \in heard[b]
            => idClients[id] = jobs[answers[y].task].s

(***************************************************************************)
(* Who registers, waits for the id and then authorises, over whatever      *)
(* connections, is accepted: no thread still works on what was answered.   *)
(* Only a query of the authorisation that fails, or registrations of the   *)
(* name that overlapped or had a query fail, can have it refused.          *)
(***************************************************************************)
RegisteredIsAccepted ==
    \A x, y \in DOMAIN answers :
        LET a == RequestOf(x)
            b == RequestOf(y)
        IN  /\ jobs[answers[x].task].c = "reg" /\ answers[x].id # U!NoId
            /\ jobs[answers[y].task].c = "auth" /\ answers[y].task \notin refused
            /\ answers[y].task \notin failed /\ a \in heard[b]
            /\ wanted[a] = wanted[b] /\ wanted[a].l \notin overlapped
            => answers[y].id # U!NoId

==============================================================================
