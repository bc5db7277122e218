---------------------------- MODULE GatewayProofs ----------------------------
(***************************************************************************)
(* Requests and their answers on their way through the whole server, for   *)
(* any connections, requests, threads and bounds.                          *)
(*                                                                         *)
(* Every step of Gateway is a step of each part or leaves it alone, so     *)
(* that the invariants proved of the parts hold here too (PartsInv).  The  *)
(* rest says how the parts fit: whose request a thread works on, and which *)
(* response answers it.                                                    *)
(***************************************************************************)
EXTENDS Gateway, SessionProofs

UP == INSTANCE UsersProofs WITH
    Workers <- PoolThreads, MaxCalls <- Cardinality(Tasks),
    MaxErrors <- MaxFaults, MaxCrashes <- 0

WP == INSTANCE SocketWriterProofs WITH Clients <- Sessions, started <- begun

PartsInv == SessionInv /\ OrderInv /\ WP!WInv /\ UP!Inv1

(* The number of the request that task x executes. *)
Req(x) == jobs[x].b.i

(* A request has one number; who left did so between two requests. *)
ClientsFit ==
    /\ torn = {}
    /\ gone = {s \in Sessions : client[s] = "broken"}
    /\ \A m, n \in sent : m[3].i = n[3].i => m = n
    /\ \A m \in sent : m[3].i <= Cardinality(sent)

Wants == [l : Logins, p : Passwords]
Given == [task : Tasks, id : Nat]

LinkTypes ==
    /\ wanted \in Seq(Wants) /\ Len(wanted) = Cardinality(sent)
    /\ heard \in Seq(SUBSET Nat) /\ Len(heard) = Len(wanted)
    /\ answers \in Seq(Given) /\ WP!Known = DOMAIN answers

(* A task is called or refused once it is taken, and not both. *)
TasksFit ==
    /\ called \cap refused = {}
    /\ \A i \in DOMAIN handlers : handlers[i] \notin called \cup refused

(* A response goes to where its request came from, and is the only one. *)
AnswersFit ==
    /\ \A x \in DOMAIN answers :
         /\ answers[x].task \in called \cup refused
         /\ to[x] = jobs[answers[x].task].s
    /\ \A x, y \in DOMAIN answers : answers[x].task = answers[y].task => x = y

(* A thread inside reg or auth works for the task it executes. *)
WorkFits(t) ==
    uc[t] # U!Idle =>
        /\ exec[t] \in called /\ ~Replied(exec[t])
        /\ uc[t].op = jobs[exec[t]].c /\ uc[t].s = jobs[exec[t]].s
        /\ uc[t].l = wanted[Req(exec[t])].l /\ uc[t].p = wanted[Req(exec[t])].p

(* A response is sent once, also one that waits for room. *)
SentOnce ==
    \A s \in Sessions :
        /\ \A i, j \in DOMAIN out[s] : out[s][i].x = out[s][j].x => i = j
        /\ write[s] = "waiting" => \A i \in DOMAIN out[s] : out[s][i].x # mutexSocket[s]

LinkInv ==
    /\ ClientsFit /\ LinkTypes /\ TasksFit /\ AnswersFit
    /\ \A t \in PoolThreads : WorkFits(t)
    /\ SentOnce

WayInv == PartsInv /\ LinkInv

------------------------------------------------------------------------------
(* The parts *)

LEMMA SameSets ==
    /\ \A S : WP!IsFiniteSet(S) <=> IsFiniteSet(S)
    /\ \A S : WP!Cardinality(S) = Cardinality(S)
  BY DEF WP!IsFiniteSet, IsFiniteSet, WP!Cardinality, Cardinality

LEMMA SameCards == \A S : WP!Cardinality(S) = W!Cardinality(S)
  BY DEF WP!IsFiniteSet, W!IsFiniteSet, WP!Cardinality, W!Cardinality

LEMMA Assumed ==
    /\ WP!WriterAssumption /\ UP!BoundsAssumption
    /\ Tasks \subseteq Nat \ {0} /\ Cardinality(Tasks) \in Nat
  <1>1. Cardinality(Sessions) \in Nat
    BY SessionAssumption, FS_CardinalityType
  <1>2. PICK n \in Nat : n = MaxSends + Cardinality(Sessions)
    BY <1>1, SessionAssumption
  <1>3. Tasks = 1..n
    BY <1>2, SessionAssumption
  <1>4. IsFiniteSet(Tasks) /\ Cardinality(Tasks) = n
    BY <1>2, <1>3, FS_Interval
  <1>5. UP!BoundsAssumption
    BY <1>2, <1>4, GatewayAssumption DEF UP!BoundsAssumption
  <1> QED
    BY <1>2, <1>3, <1>4, <1>5, SameSets, GatewayAssumption, PoolAssumption DEF WP!WriterAssumption

LEMMA SendIsStep ==
    ASSUME NEW s \in Sessions, NEW c, NEW k \in Kinds, c \in Mismatched \cup {k}, Send(s, c, k)
    PROVE  SNext
  BY GatewayAssumption DEF SNext, ClientStep, Headers

(* Every step of Gateway is a step of Session, or none. *)
LEMMA SessionSteps ==
    ASSUME GNext
    PROVE  SNext \/ UNCHANGED svars
  <1>1. CASE \E s \in Sessions : Clientele(s)
    BY <1>1, SendIsStep DEF Clientele, SendRequest, Leave, Pause, ReadOn, SNext, ClientStep
  <1>2. CASE \E s \in Sessions : Connect(s) \/ Read(s)
    BY <1>2 DEF Connect, Read, SNext
  <1>3. CASE \E t \in PoolThreads : Serve(t) \/ EndRequest(t)
    BY <1>3 DEF Serve, EndRequest, SNext, RequestStep
  <1>4. CASE \E t \in PoolThreads : Work(t) \/ Give(t) \/ Refuse(t)
    BY <1>4 DEF Work, Give, Refuse, Push
  <1>5. CASE \/ \E s \in Sessions : Transmit(s)
             \/ TakeResponse \/ \E x \in Tasks : WriteResponse(x)
    BY <1>5 DEF Transmit, TakeResponse, WriteResponse
  <1> QED
    BY <1>1, <1>2, <1>3, <1>4, <1>5 DEF GNext, ServerStep, EngineStep

(* Users is used by Gateway as the theorems about it use it. *)
LEMMA SameUsers ==
    ASSUME NEW t
    PROVE  /\ U!UserStep(t) <=> UP!UserStep(t)
           /\ \A pc : U!At(t, pc) <=> UP!At(t, pc)
           /\ \A s, l, p : U!Reg(t, s, l, p) => UP!Reg(t, s, l, p)
           /\ \A s, l, p : U!Auth(t, s, l, p) => UP!Auth(t, s, l, p)
           /\ U!Idle = UP!Idle /\ U!NoId = UP!NoId
  <1> USE DEF U!At, UP!At, U!IdsOf, UP!IdsOf, U!Advance, UP!Advance, U!NoId, UP!NoId, U!Idle, UP!Idle,
          U!boundVars, UP!boundVars, U!historyVars, UP!historyVars, U!SelectId, UP!SelectId
  <1>1. U!RegLookup(t) <=> UP!RegLookup(t)
    BY DEF U!RegLookup, UP!RegLookup, U!AfterLookup, UP!AfterLookup, U!Overlap, UP!Overlap
  <1>2. U!RegInsert(t) <=> UP!RegInsert(t)
    BY DEF U!RegInsert, UP!RegInsert
  <1>3. U!RegReread(t) <=> UP!RegReread(t)
    BY DEF U!RegReread, UP!RegReread, U!RegisteredIds, UP!RegisteredIds, U!AfterId, UP!AfterId
  <1>4. U!AuthCheck(t) <=> UP!AuthCheck(t)
    BY DEF U!AuthCheck, UP!AuthCheck, U!Accepted, UP!Accepted, U!AfterId, UP!AfterId
  <1>5. U!Push(t) <=> UP!Push(t)
    BY DEF U!Push, UP!Push, U!Bind, UP!Bind, U!PushContended, UP!PushContended
  <1>6. U!Answer(t) <=> UP!Answer(t)
    BY DEF U!Answer, UP!Answer
  <1>7. \A s, l, p : U!Reg(t, s, l, p) => UP!Reg(t, s, l, p)
    BY DEF U!Reg, UP!Reg, U!StartCall, UP!StartCall
  <1>8. \A s, l, p : U!Auth(t, s, l, p) => UP!Auth(t, s, l, p)
    BY DEF U!Auth, UP!Auth, U!StartCall, UP!StartCall
  <1> QED
    BY <1>1, <1>2, <1>3, <1>4, <1>5, <1>6, <1>7, <1>8 DEF U!UserStep, UP!UserStep

(* So is SocketWriter. *)
LEMMA SameWriter ==
    ASSUME NEW s
    PROVE  /\ W!Write(s) => WP!Write(s)
           /\ W!BeginTask => WP!BeginTask
           /\ W!QueueStep(s) => WP!QueueStep(s)
           /\ W!NetworkStep(s) => WP!NetworkStep(s)
           /\ W!ClientStep(s) => WP!ClientStep(s)
           /\ W!Known = WP!Known
  <1> USE DEF W!wqVars, WP!wqVars, W!clientVars, WP!clientVars, W!socketVars, WP!socketVars,
          W!Known, WP!Known, W!Send, WP!Send
  <1>1. W!Write(s) => WP!Write(s)
    BY SameCards DEF W!Write, WP!Write, W!Submit, WP!Submit, W!Later, WP!Later
  <1>2. W!BeginTask => WP!BeginTask
    BY SameCards DEF W!BeginTask, WP!BeginTask, W!Begin, WP!Begin
  <1>3. W!StartWrite(s) => WP!StartWrite(s)
    BY DEF W!StartWrite, WP!StartWrite, W!FirstAttempt, WP!FirstAttempt, W!MutexFree, WP!MutexFree,
           W!Takes, WP!Takes
  <1>4. W!EndTask(s) => WP!EndTask(s)
    BY DEF W!EndTask, WP!EndTask, W!Finish, WP!Finish
  <1>5. W!Proceed(s) => WP!Proceed(s)
    BY DEF W!Proceed, WP!Proceed
  <1>6. W!Complete(s) => WP!Complete(s)
    BY DEF W!Complete, WP!Complete, W!UnlockSocket, WP!UnlockSocket
  <1>7. W!ProceedInPart(s) => WP!ProceedInPart(s)
    BY DEF W!ProceedInPart, WP!ProceedInPart
  <1>8. W!ClientStep(s) => WP!ClientStep(s)
    BY DEF W!ClientStep, WP!ClientStep, W!CloseConnection, WP!CloseConnection,
           W!StopReading, WP!StopReading, W!ReadOn, WP!ReadOn
  <1> QED
    BY <1>1, <1>2, <1>3, <1>4, <1>5, <1>6, <1>7, <1>8 DEF W!QueueStep, WP!QueueStep,
       W!NetworkStep, WP!NetworkStep

(***************************************************************************)
(* Without a connection that breaks inside a body, every task is a request *)
(* that its session has sent, and no request is two tasks.                 *)
(***************************************************************************)
LEMMA Requests ==
    ASSUME NetInv, OrderInv, ClientsFit, LinkTypes
    PROVE  /\ posted = DOMAIN jobs
           /\ \A x \in posted : /\ jobs[x] \in Jobs /\ jobs[x].b \in Bodies
                                /\ WasSent(jobs[x].s, jobs[x].b)
                                /\ Req(x) \in Nat /\ Req(x) \in DOMAIN wanted
           /\ \A x, y \in posted : Req(x) = Req(y) => x = y
  <1>1. posted = DOMAIN jobs /\ \A x \in posted : jobs[x] \in Jobs
    BY DEF NetInv, NetTypes
  <1>2. \A x \in posted : jobs[x].s \in Sessions
    BY <1>1 DEF Jobs
  <1>3. \A s \in Sessions : Reading(s)
    BY DEF OrderInv, InOrder, Done, ClientsFit
  <1>4. \A x \in posted : x \in Of(jobs[x].s)
    BY DEF Of
  <1>5. \A x \in posted : jobs[x].b # NoBody
    BY <1>2, <1>3, <1>4 DEF Reading
  <1>6. \A x \in posted : WasSent(jobs[x].s, jobs[x].b) /\ jobs[x].b \in Bodies
    <2> TAKE x \in posted
    <2>1. ~Torn(x)
      BY DEF ClientsFit, Torn, Done
    <2>2. WasSent(jobs[x].s, jobs[x].b)
      BY <1>5, <2>1 DEF NetInv, JobsOK
    <2>3. PICK c \in Headers : <<jobs[x].s, c, jobs[x].b>> \in sent
      BY <2>2 DEF WasSent
    <2> QED
      BY <2>2, <2>3 DEF NetInv, NetTypes
  <1>7. Cardinality(sent) \in Nat
    BY FS_CardinalityType DEF NetInv, NetTypes
  <1>8. \A x \in posted : Req(x) \in 1..Cardinality(sent)
    <2> TAKE x \in posted
    <2>1. PICK c \in Headers : <<jobs[x].s, c, jobs[x].b>> \in sent
      BY <1>6 DEF WasSent
    <2>2. jobs[x].b.i <= Cardinality(sent)
      BY <2>1 DEF ClientsFit
    <2>3. jobs[x].b.i \in 1..MaxSends
      BY <1>6 DEF Bodies
    <2> QED
      BY <1>7, <2>2, <2>3, SessionAssumption DEF Req
  <1>9. DOMAIN wanted = 1..Cardinality(sent)
    BY <1>7 DEF LinkTypes
  <1>10. ASSUME NEW x \in posted, NEW y \in posted, Req(x) = Req(y) PROVE x = y
    <2>1. PICK c \in Headers, d \in Headers :
            <<jobs[x].s, c, jobs[x].b>> \in sent /\ <<jobs[y].s, d, jobs[y].b>> \in sent
      BY <1>6 DEF WasSent
    <2>2. jobs[x].s = jobs[y].s /\ jobs[x].b = jobs[y].b
      BY <1>10, <2>1 DEF ClientsFit, Req
    <2> QED
      BY <1>2, <1>3, <1>4, <2>2 DEF Reading
  <1> QED
    BY <1>1, <1>6, <1>8, <1>9, <1>10

(* ... of Users, ... *)
LEMMA UserSteps ==
    ASSUME PartsInv, LinkInv, GNext
    PROVE  UP!Next \/ UNCHANGED UP!vars
  <1>1. CASE UNCHANGED userVars
    BY <1>1 DEF userVars, UP!vars
  <1>2. ASSUME NEW t \in PoolThreads, Serve(t) PROVE UP!Next \/ UNCHANGED userVars
    <2>1. Head(handlers) \in posted
      <3>1. handlers # <<>>
        BY <1>2 DEF Serve, Handle, Take
      <3>2. handlers \in Seq(posted)
        BY DEF PartsInv, SessionInv, PoolInv, PoolTypeOK, TaskPlaces
      <3> QED
        BY <3>1, <3>2
    <2>2. PICK x \in posted : x = Head(handlers)
      BY <2>1
    <2>3. jobs[x].s \in Sessions /\ Req(x) \in DOMAIN wanted
      BY Requests DEF PartsInv, SessionInv, LinkInv, Jobs
    <2>4. PICK l, p : l = wanted[Req(x)].l /\ p = wanted[Req(x)].p
      OBVIOUS
    <2>5. l \in Logins /\ p \in Passwords
      <3>1. wanted[Req(x)] \in Wants
        BY <2>3 DEF LinkInv, LinkTypes
      <3> QED
        BY <2>4, <3>1 DEF Wants
    <2>6. U!Reg(t, jobs[x].s, l, p) \/ U!Auth(t, jobs[x].s, l, p) \/ UNCHANGED userVars
      BY <1>2, <2>2, <2>4 DEF Serve, Req
    <2> QED
      BY <2>3, <2>5, <2>6, SameUsers DEF UP!Next, UP!UserRequest
  <1>3. ASSUME NEW t \in PoolThreads, Work(t) \/ Give(t) PROVE UP!Next
    BY <1>3, SameUsers DEF Work, Give, U!UserStep, UP!Next
  <1> QED
    BY <1>1, <1>2, <1>3 DEF GNext, ServerStep, EngineStep, Clientele, SendRequest, Leave, Pause,
       ReadOn, Connect, Read, Transmit, Refuse, EndRequest, TakeResponse, WriteResponse

(* ... and of SocketWriter. *)
LEMMA WriterSteps ==
    ASSUME PartsInv, LinkInv, GNext
    PROVE  WP!WNext \/ UNCHANGED WP!wvars
  <1>1. CASE UNCHANGED writerVars
    BY <1>1 DEF writerVars, WP!wvars, WP!wqVars, WP!clientVars, WP!socketVars
  <1>2. ASSUME NEW t \in PoolThreads, Give(t) \/ Refuse(t) PROVE WP!WNext
    <2>1. exec[t] \in posted
      <3>1. CASE Give(t)
        <4>1. exec[t] \in called
          BY <3>1 DEF Give, U!Answer, U!At, U!Idle, LinkInv, WorkFits
        <4> QED
          BY <4>1 DEF PartsInv, SessionInv, NetInv, NetTypes
      <3>2. CASE Refuse(t)
        BY <3>2 DEF Refuse, PartsInv, SessionInv, NetInv, NetTypes
      <3> QED
        BY <1>2, <3>1, <3>2
    <2>2. jobs[exec[t]].s \in Sessions
      BY <2>1, Requests DEF PartsInv, SessionInv, LinkInv, Jobs
    <2>3. W!Write(jobs[exec[t]].s)
      BY <1>2 DEF Give, Refuse, Push, Addressee
    <2> QED
      BY <2>2, <2>3, SameWriter DEF WP!WNext
  <1>3. ASSUME NEW s \in Sessions, Leave(s) \/ Pause(s) \/ ReadOn(s) \/ Transmit(s) PROVE WP!WNext
    <2>1. W!ClientStep(s) \/ W!NetworkStep(s)
      BY <1>3 DEF Leave, Pause, ReadOn, Transmit, W!ClientStep
    <2> QED
      BY <2>1, SameWriter DEF WP!WNext
  <1>4. ASSUME NEW x \in Tasks, WriteResponse(x) PROVE WP!WNext
    BY <1>4, SameWriter DEF WriteResponse, WP!WNext
  <1>5. CASE TakeResponse
    BY <1>5, SameWriter DEF TakeResponse, WP!WNext
  <1> QED
    BY <1>1, <1>2, <1>3, <1>4, <1>5 DEF GNext, ServerStep, EngineStep, Clientele, SendRequest,
       Connect, Read, Serve, Work, EndRequest

LEMMA InitPartsInv == GInit => PartsInv
  <1> SUFFICES ASSUME GInit PROVE PartsInv
    OBVIOUS
  <1>1. SessionInv /\ OrderInv
    BY InitPoolInv, InitNetInv, InitOrderInv DEF GInit, SInit, SessionInv
  <1>2. WP!WInit
    BY DEF GInit, W!WInit, WP!WInit, W!WQInit, WP!WQInit
  <1>3. WP!WInv
    BY <1>2, Assumed, WP!InitWInv
  <1>4. UP!Inv1
    BY Assumed, SameUsers DEF GInit, UP!BoundsAssumption, UP!Inv1, UP!TypeOK, UP!CallOK, UP!Idle,
       UP!RegPcs, UP!NoId
  <1> QED
    BY <1>1, <1>3, <1>4 DEF PartsInv

LEMMA NextPartsInv == PartsInv /\ LinkInv /\ [GNext]_gvars => PartsInv'
  <1> SUFFICES ASSUME PartsInv, LinkInv, [GNext]_gvars PROVE PartsInv'
    OBVIOUS
  <1>1. SNext \/ UNCHANGED svars
    BY SessionSteps DEF gvars
  <1>2. UP!Next \/ UNCHANGED UP!vars
    BY UserSteps DEF gvars, userVars, UP!vars
  <1>3. WP!WNext \/ UNCHANGED WP!wvars
    BY WriterSteps DEF gvars, writerVars, WP!wvars, WP!wqVars, WP!clientVars, WP!socketVars
  <1>4. SessionInv' /\ OrderInv'
    BY <1>1, PoolSteps, NextPoolInv, NextNetInv, NextOrderInv DEF PartsInv, SessionInv
  <1>5. UP!Inv1'
    BY <1>2, Assumed, UP!NextInv1 DEF PartsInv
  <1>6. WP!WInv'
    BY <1>3, Assumed, WP!NextWInv DEF PartsInv
  <1> QED
    BY <1>4, <1>5, <1>6 DEF PartsInv

------------------------------------------------------------------------------
(* What the steps leave alone. *)

workVars == <<called, refused, handlers, exec>>
askVars == <<sent, wanted, heard>>
tellVars == <<answers, to>>
sendVars == <<out, write, mutexSocket>>

LEMMA ClientsKeep ==
    ASSUME NEW s \in Sessions
    PROVE  /\ Leave(s) \/ Connect(s) =>
                UNCHANGED <<workVars, askVars, tellVars, sendVars, userVars, jobs, posted, torn>>
           /\ Connect(s) => UNCHANGED gone
           /\ Pause(s) \/ ReadOn(s) =>
                UNCHANGED <<workVars, askVars, tellVars, sendVars, userVars, jobs, posted, torn, client, gone>>
           /\ \A c, k, l, p : SendRequest(s, c, k, l, p) =>
                UNCHANGED <<workVars, tellVars, sendVars, userVars, jobs, posted, torn, client, gone>>
  <1> USE DEF workVars, askVars, tellVars, sendVars, linkVars, writerVars, poolVars, callVars
  <1>1. Leave(s) => UNCHANGED <<workVars, askVars, tellVars, sendVars, userVars, jobs, posted, torn>>
    BY DEF Leave, Break, W!CloseConnection, W!wqVars, W!socketVars
  <1>2. Connect(s) =>
           UNCHANGED <<workVars, askVars, tellVars, sendVars, userVars, jobs, posted, torn, gone>>
    BY DEF Connect, Accept
  <1>3. \A c, k, l, p : SendRequest(s, c, k, l, p) =>
           UNCHANGED <<workVars, tellVars, sendVars, userVars, jobs, posted, torn, client, gone>>
    BY DEF SendRequest, Send
  <1>4. Pause(s) \/ ReadOn(s) =>
           UNCHANGED <<workVars, askVars, tellVars, sendVars, userVars, jobs, posted, torn, client, gone>>
    BY DEF Pause, ReadOn, W!StopReading, W!ReadOn, W!wqVars, W!socketVars, svars, netVars
  <1> QED
    BY <1>1, <1>2, <1>3, <1>4

LEMMA NetworkKeeps ==
    ASSUME NEW s \in Sessions
    PROVE  /\ Read(s) => UNCHANGED <<called, refused, exec, askVars, tellVars, sendVars, userVars, torn, client, gone>>
           /\ Transmit(s) =>
                UNCHANGED <<workVars, askVars, tellVars, userVars, jobs, posted, torn, client, gone>>
  <1> USE DEF workVars, askVars, tellVars, sendVars, linkVars, writerVars, poolVars, callVars
  <1>1. Read(s) => UNCHANGED <<called, refused, exec, askVars, tellVars, sendVars, userVars, torn, client, gone>>
    BY DEF Read, ReadStep, ReadHeader, ReadBody, ReadBodyError, PostRequest, OwnerPosts
  <1>2. Transmit(s) =>
           UNCHANGED <<workVars, askVars, tellVars, userVars, jobs, posted, torn, client, gone>>
    BY DEF Transmit, W!NetworkStep, W!ProceedInPart, W!Proceed, W!Complete, W!clientVars, svars, netVars
  <1> QED
    BY <1>1, <1>2

LEMMA ThreadsKeep ==
    ASSUME NEW t \in PoolThreads
    PROVE  /\ Serve(t) =>
                UNCHANGED <<askVars, tellVars, sendVars, jobs, posted, torn, client, gone>>
           /\ Work(t) =>
                UNCHANGED <<workVars, askVars, tellVars, sendVars, jobs, posted, torn, client, gone>>
           /\ Give(t) \/ Refuse(t) =>
                UNCHANGED <<workVars, askVars, sendVars, jobs, posted, torn, client, gone>>
           /\ Refuse(t) => UNCHANGED userVars
           /\ EndRequest(t) =>
                UNCHANGED <<called, refused, handlers, askVars, tellVars, sendVars, userVars,
                            jobs, posted, torn, client, gone>>
  <1> USE DEF workVars, askVars, tellVars, sendVars, linkVars, writerVars, poolVars, netVars, callVars, svars
  <1>1. Serve(t) => UNCHANGED <<askVars, tellVars, sendVars, jobs, posted, torn, client, gone>>
    BY DEF Serve, Handle, Take
  <1>2. Work(t) => UNCHANGED <<workVars, askVars, tellVars, sendVars, jobs, posted, torn, client, gone>>
    BY DEF Work
  <1>3. Give(t) \/ Refuse(t) => UNCHANGED <<workVars, askVars, sendVars, jobs, posted, torn, client, gone>>
    BY DEF Give, Refuse, Push, W!Write, W!clientVars, W!socketVars
  <1>4. Refuse(t) => UNCHANGED userVars
    BY DEF Refuse
  <1>5. EndRequest(t) => UNCHANGED <<called, refused, handlers, askVars, tellVars, sendVars, userVars,
                                     jobs, posted, torn, client, gone>>
    BY DEF EndRequest, FinishRequest, Finish
  <1> QED
    BY <1>1, <1>2, <1>3, <1>4, <1>5

LEMMA QueueKeeps ==
    /\ TakeResponse =>
         UNCHANGED <<workVars, askVars, tellVars, sendVars, userVars, jobs, posted, torn, client, gone>>
    /\ \A x \in Tasks : WriteResponse(x) =>
         UNCHANGED <<workVars, askVars, tellVars, userVars, jobs, posted, torn, client, gone>>
  <1> USE DEF workVars, askVars, tellVars, sendVars, linkVars, poolVars, netVars, callVars, svars
  <1>1. TakeResponse =>
          UNCHANGED <<workVars, askVars, tellVars, sendVars, userVars, jobs, posted, torn, client, gone>>
    BY DEF TakeResponse, W!BeginTask, W!clientVars, W!socketVars
  <1>2. ASSUME NEW x \in Tasks, WriteResponse(x)
        PROVE UNCHANGED <<workVars, askVars, tellVars, userVars, jobs, posted, torn, client, gone>>
    BY <1>2 DEF WriteResponse, W!QueueStep, W!StartWrite, W!EndTask, W!clientVars, W!wqVars
  <1> QED
    BY <1>1, <1>2

------------------------------------------------------------------------------
(* How the parts fit: each conjunct of LinkInv in turn. *)

LEMMA Sending ==
    ASSUME PartsInv, LinkInv, NEW s \in Sessions, NEW c, NEW k \in Kinds, NEW l, NEW p,
           SendRequest(s, c, k, l, p)
    PROVE  /\ Cardinality(sent) \in Nat /\ Cardinality(sent') = Cardinality(sent) + 1
           /\ \E b : b.i = Cardinality(sent) + 1 /\ sent' = sent \cup {<<s, c, b>>}
  <1>1. IsFiniteSet(sent) /\ Cardinality(sent) \in Nat
    BY FS_CardinalityType DEF PartsInv, SessionInv, NetInv, NetTypes
  <1>2. PICK b : b = [k |-> k, i |-> Cardinality(sent) + 1]
    OBVIOUS
  <1>3. sent' = sent \cup {<<s, c, b>>}
    BY <1>2 DEF SendRequest, Send
  <1>4. b.i = Cardinality(sent) + 1
    BY <1>2
  <1>5. <<s, c, b>> \notin sent
    BY <1>1, <1>4 DEF LinkInv, ClientsFit
  <1>6. Cardinality(sent') = Cardinality(sent) + 1
    BY <1>1, <1>3, <1>5, FS_AddElement
  <1> QED
    BY <1>1, <1>3, <1>4, <1>6

(* An answer is that of one request, which a client has sent. *)
LEMMA AnswersAreRequests ==
    ASSUME PartsInv, LinkInv
    PROVE  /\ \A x \in DOMAIN answers :
                /\ answers[x].task \in posted /\ RequestOf(x) = Req(answers[x].task)
                /\ RequestOf(x) \in Nat /\ RequestOf(x) \in DOMAIN wanted
           /\ \A x, y \in DOMAIN answers : RequestOf(x) = RequestOf(y) => x = y
  <1>1. \A x \in DOMAIN answers : answers[x].task \in posted
    BY DEF LinkInv, AnswersFit, PartsInv, SessionInv, NetInv, NetTypes
  <1>2. \A x \in DOMAIN answers : RequestOf(x) = Req(answers[x].task)
    BY DEF RequestOf, Req
  <1>3. \A x, y \in DOMAIN answers : answers[x].task = answers[y].task => x = y
    BY DEF LinkInv, AnswersFit
  <1> QED
    BY <1>1, <1>2, <1>3, Requests DEF PartsInv, SessionInv, LinkInv

(* What was sent is an answer, on the connection it is for. *)
LEMMA SentAreAnswers ==
    ASSUME PartsInv, LinkInv, NEW s \in Sessions, NEW j \in DOMAIN out[s]
    PROVE  out[s][j].x \in DOMAIN answers /\ to[out[s][j].x] = s
  <1>1. out[s][j].x \in begun \cup finished /\ to[out[s][j].x] = s /\ begun \subseteq active
    BY DEF PartsInv, WP!WInv, WP!OrderInv, WP!SocketInv
  <1>2. WP!Known = DOMAIN answers
    BY DEF LinkInv, LinkTypes
  <1> QED
    BY <1>1, <1>2 DEF WP!Known

LEMMA NextClientsFit ==
    ASSUME PartsInv, LinkInv, GNext
    PROVE  ClientsFit'
  <1>0. ClientsFit
    BY DEF LinkInv
  <1>1. ASSUME NEW s \in Sessions, Leave(s) PROVE ClientsFit'
    <2>1. UNCHANGED <<sent, torn>>
      BY <1>1, ClientsKeep DEF askVars
    <2>2. client' = [client EXCEPT ![s] = "broken"] /\ gone' = gone \cup {s}
      BY <1>1 DEF Leave, Break, W!CloseConnection
    <2>3. client \in [Sessions -> {"away", "open", "broken"}]
      BY DEF PartsInv, SessionInv, NetInv, NetTypes
    <2>4. gone' = {r \in Sessions : client'[r] = "broken"}
      BY <1>0, <2>2, <2>3 DEF ClientsFit
    <2> QED
      BY <1>0, <2>1, <2>4 DEF ClientsFit
  <1>2. ASSUME NEW s \in Sessions, Connect(s) PROVE ClientsFit'
    <2>1. UNCHANGED <<sent, torn, gone>>
      BY <1>2, ClientsKeep DEF askVars
    <2>2. client[s] = "away" /\ client' = [client EXCEPT ![s] = "open"]
      BY <1>2 DEF Connect, Accept
    <2>3. client \in [Sessions -> {"away", "open", "broken"}]
      BY DEF PartsInv, SessionInv, NetInv, NetTypes
    <2>4. \A r \in Sessions : client'[r] = "broken" <=> client[r] = "broken"
      BY <2>2, <2>3
    <2> QED
      BY <1>0, <2>1, <2>4 DEF ClientsFit
  <1>3. ASSUME NEW s \in Sessions, NEW c, NEW k \in Kinds, NEW l, NEW p, SendRequest(s, c, k, l, p)
        PROVE  ClientsFit'
    <2>1. UNCHANGED <<client, torn, gone>>
      BY <1>3, ClientsKeep
    <2>2. /\ Cardinality(sent) \in Nat /\ Cardinality(sent') = Cardinality(sent) + 1
          /\ \E b : b.i = Cardinality(sent) + 1 /\ sent' = sent \cup {<<s, c, b>>}
      BY <1>3, Sending
    <2>3. PICK b : b.i = Cardinality(sent) + 1 /\ sent' = sent \cup {<<s, c, b>>}
      BY <2>2
    <2>4. \A m \in sent : m[3].i \in Nat /\ m[3].i <= Cardinality(sent)
      BY <1>0 DEF ClientsFit, PartsInv, SessionInv, NetInv, NetTypes, Bodies
    <2>5. \A m \in sent' : m \in sent \/ (m = <<s, c, b>> /\ m[3].i = Cardinality(sent) + 1)
      BY <2>3
    <2>6. \A m, n \in sent' : m[3].i = n[3].i => m = n
      BY <1>0, <2>2, <2>4, <2>5 DEF ClientsFit
    <2>7. \A m \in sent' : m[3].i <= Cardinality(sent')
      BY <2>2, <2>4, <2>5
    <2> QED
      BY <1>0, <2>1, <2>6, <2>7 DEF ClientsFit
  <1>4. CASE UNCHANGED <<sent, torn, client, gone>>
    BY <1>0, <1>4 DEF ClientsFit
  <1>5. CASE \E s \in Sessions : Clientele(s) \/ Connect(s)
    BY <1>1, <1>2, <1>3, <1>4, <1>5, ClientsKeep DEF Clientele, askVars
  <1> QED
    BY <1>4, <1>5, NetworkKeeps, ThreadsKeep, QueueKeeps
       DEF GNext, ServerStep, EngineStep, askVars

LEMMA NextLinkTypes ==
    ASSUME PartsInv, LinkInv, GNext
    PROVE  LinkTypes'
  <1>0. LinkTypes
    BY DEF LinkInv
  <1>1. ASSUME NEW s \in Sessions, NEW c, NEW k \in Kinds, NEW l \in Logins, NEW p \in Passwords,
               SendRequest(s, c, k, l, p)
        PROVE  LinkTypes'
    <2>1. UNCHANGED answers /\ WP!Known' = WP!Known
      BY <1>1, ClientsKeep DEF SendRequest, tellVars, WP!Known, writerVars
    <2>2. Cardinality(sent) \in Nat /\ Cardinality(sent') = Cardinality(sent) + 1
      BY <1>1, Sending
    <2>3. PICK q, h : /\ q = [l |-> l, p |-> p] /\ h = UNION {AnsweredOn(r) : r \in Sessions}
                      /\ wanted' = Append(wanted, q) /\ heard' = Append(heard, h)
      BY <1>1 DEF SendRequest
    <2>4. q \in Wants
      BY <2>3 DEF Wants
    <2>5. h \in SUBSET Nat
      BY <2>3, AnswersAreRequests, SentAreAnswers DEF AnsweredOn
    <2>6. /\ wanted' \in Seq(Wants) /\ Len(wanted') = Len(wanted) + 1
          /\ heard' \in Seq(SUBSET Nat) /\ Len(heard') = Len(heard) + 1
      BY <1>0, <2>3, <2>4, <2>5 DEF LinkTypes
    <2> QED
      BY <1>0, <2>1, <2>2, <2>6 DEF LinkTypes
  <1>2. ASSUME NEW t \in PoolThreads, NEW id \in Nat, Push(t, id), exec[t] \in posted PROVE LinkTypes'
    <2>1. PICK x : x = WP!Cardinality(WP!Known) + 1
      OBVIOUS
    <2>2. x \notin WP!Known /\ pending' = Append(pending, x) /\ UNCHANGED <<active, finished>>
      BY <1>2, <2>1, SameWriter DEF Push, WP!Write, WP!Submit, WP!Later
    <2>3. pending \in Seq(Tasks) /\ WP!Cardinality(WP!Known) \in Nat
          /\ WP!Known = 1..WP!Cardinality(WP!Known)
      BY DEF PartsInv, WP!WInv, WP!OrderInv, WP!QueueInv
    <2>4. WP!Known' = WP!Known \cup {x}
      BY <2>2, <2>3 DEF WP!Known
    <2>5. answers \in Seq(Given) /\ Len(answers) = WP!Cardinality(WP!Known)
      BY <1>0, <2>3 DEF LinkTypes
    <2>6. PICK a : a = [task |-> exec[t], id |-> id]
      OBVIOUS
    <2>7. a \in Given
      BY <1>2, <2>6 DEF Given, PartsInv, SessionInv, PoolInv, PoolTypeOK
    <2>8. answers' = Append(answers, a)
      BY <1>2, <2>6 DEF Push
    <2>9. answers' \in Seq(Given) /\ DOMAIN answers' = 1..(Len(answers) + 1)
      BY <2>5, <2>7, <2>8
    <2>10. DOMAIN answers' = WP!Known'
      BY <2>1, <2>3, <2>4, <2>5, <2>9
    <2>11. UNCHANGED <<wanted, heard, sent>>
      BY <1>2 DEF Push, svars, netVars
    <2> QED
      BY <1>0, <2>9, <2>10, <2>11 DEF LinkTypes
  <1>3. CASE UNCHANGED <<wanted, heard, sent, answers>> /\ WP!Known' = WP!Known
    BY <1>0, <1>3 DEF LinkTypes
  <1>4. ASSUME NEW t \in PoolThreads, Give(t) \/ Refuse(t) PROVE LinkTypes'
    <2>1. CASE Give(t)
      <3>1. Push(t, uc[t].id) /\ uc[t] # U!Idle
        BY <2>1 DEF Give, U!Answer, U!At, U!Idle
      <3>2. uc[t].id \in Nat
        BY <3>1, SameUsers DEF PartsInv, UP!Inv1, UP!TypeOK, UP!Calls
      <3>3. exec[t] \in posted
        BY <3>1 DEF LinkInv, WorkFits, PartsInv, SessionInv, NetInv, NetTypes
      <3> QED
        BY <1>2, <3>1, <3>2, <3>3
    <2>2. CASE Refuse(t)
      <3>1. Push(t, U!NoId) /\ exec[t] \in posted /\ U!NoId \in Nat
        BY <2>2 DEF Refuse, U!NoId, PartsInv, SessionInv, NetInv, NetTypes
      <3> QED
        BY <1>2, <3>1
    <2> QED
      BY <1>4, <2>1, <2>2
  <1>5. CASE TakeResponse
    <2>1. UNCHANGED <<wanted, heard, sent, answers>>
      BY <1>5, QueueKeeps DEF askVars, tellVars
    <2>2. /\ pending # <<>> /\ pending' = Tail(pending)
          /\ active' = active \cup {Head(pending)} /\ UNCHANGED finished
      BY <1>5 DEF TakeResponse, W!BeginTask, W!Begin
    <2>3. pending \in Seq(Tasks)
      BY DEF PartsInv, WP!WInv, WP!OrderInv, WP!QueueInv
    <2>4. {pending[i] : i \in DOMAIN pending} = {pending'[i] : i \in DOMAIN pending'} \cup {Head(pending)}
      <3>1. Len(pending) \in Nat \ {0} /\ Head(pending) = pending[1] /\ DOMAIN pending = 1..Len(pending)
        BY <2>2, <2>3
      <3>2. DOMAIN pending' = 1..(Len(pending) - 1)
        BY <2>2, <2>3, <3>1
      <3>3. \A i \in DOMAIN pending' : i + 1 \in DOMAIN pending /\ pending'[i] = pending[i + 1]
        BY <2>2, <2>3, <3>1, <3>2
      <3>4. \A i \in DOMAIN pending : i = 1 \/ (i - 1 \in DOMAIN pending' /\ pending'[i - 1] = pending[i])
        BY <3>1, <3>2, <3>3
      <3> QED
        BY <3>1, <3>3, <3>4
    <2>5. WP!Known' = WP!Known
      BY <2>2, <2>4 DEF WP!Known
    <2> QED
      BY <1>3, <2>1, <2>5
  <1>6. ASSUME NEW x \in Tasks, WriteResponse(x) PROVE LinkTypes'
    <2>1. UNCHANGED <<wanted, heard, sent, answers>>
      BY <1>6, QueueKeeps DEF askVars, tellVars
    <2>2. WP!Known' = WP!Known
      BY <1>6 DEF WriteResponse, W!QueueStep, W!StartWrite, W!EndTask, W!Finish, W!wqVars, WP!Known
    <2> QED
      BY <1>3, <2>1, <2>2
  <1>7. ASSUME NEW s \in Sessions,
               Leave(s) \/ Pause(s) \/ ReadOn(s) \/ Connect(s) \/ Read(s) \/ Transmit(s)
        PROVE  LinkTypes'
    <2>1. UNCHANGED <<wanted, heard, sent, answers>>
      BY <1>7, ClientsKeep, NetworkKeeps DEF askVars, tellVars
    <2>2. WP!Known' = WP!Known
      BY <1>7 DEF Leave, Pause, ReadOn, Connect, Read, Transmit, W!CloseConnection, W!StopReading,
         W!ReadOn, W!NetworkStep, W!ProceedInPart, W!Proceed, W!Complete, W!wqVars, WP!Known, writerVars
    <2> QED
      BY <1>3, <2>1, <2>2
  <1>8. ASSUME NEW t \in PoolThreads, Serve(t) \/ Work(t) \/ EndRequest(t) PROVE LinkTypes'
    <2>1. UNCHANGED <<wanted, heard, sent, answers>>
      BY <1>8, ThreadsKeep DEF askVars, tellVars
    <2>2. WP!Known' = WP!Known
      BY <1>8 DEF Serve, Work, EndRequest, WP!Known, writerVars
    <2> QED
      BY <1>3, <2>1, <2>2
  <1> QED
    BY <1>1, <1>4, <1>5, <1>6, <1>7, <1>8 DEF GNext, ServerStep, EngineStep, Clientele

(* A task and its request stay what they are. *)
LEMMA Kept ==
    ASSUME PartsInv, LinkInv, GNext
    PROVE  /\ \A x \in posted : x \in posted' /\ jobs'[x] = jobs[x]
           /\ \A i \in DOMAIN wanted : i \in DOMAIN wanted' /\ wanted'[i] = wanted[i]
           /\ \A i \in DOMAIN heard : i \in DOMAIN heard' /\ heard'[i] = heard[i]
  <1>1. ASSUME UNCHANGED <<jobs, posted>>
        PROVE  \A x \in posted : x \in posted' /\ jobs'[x] = jobs[x]
    BY <1>1
  <1>2. ASSUME NEW s \in Sessions, Read(s)
        PROVE  \A x \in posted : x \in posted' /\ jobs'[x] = jobs[x]
    <2>1. CASE UNCHANGED <<jobs, posted>>
      BY <2>1
    <2>2. CASE \E b : PostRequest(s, b)
      <3>1. PICK x, j : jobs' = Append(jobs, j) /\ posted' = posted \cup {x}
        BY <2>2 DEF PostRequest, OwnerPosts, PostTask
      <3>2. jobs \in Seq(Jobs) /\ posted = 1..Len(jobs)
        BY DEF PartsInv, SessionInv, NetInv, NetTypes
      <3> QED
        BY <3>1, <3>2
    <2> QED
      BY <1>2, <2>1, <2>2 DEF Read, ReadStep, ReadHeader, ReadBody, ReadBodyError, poolVars
  <1>3. \A x \in posted : x \in posted' /\ jobs'[x] = jobs[x]
    BY <1>1, <1>2, ClientsKeep, NetworkKeeps, ThreadsKeep, QueueKeeps
       DEF GNext, ServerStep, EngineStep, Clientele
  <1>4. CASE UNCHANGED <<wanted, heard>>
    BY <1>3, <1>4
  <1>5. CASE \E q, h : wanted' = Append(wanted, q) /\ heard' = Append(heard, h)
    <2>1. PICK q, h : wanted' = Append(wanted, q) /\ heard' = Append(heard, h)
      BY <1>5
    <2>2. wanted \in Seq(Wants) /\ heard \in Seq(SUBSET Nat)
      BY DEF LinkInv, LinkTypes
    <2>3. \A i \in DOMAIN wanted : i \in DOMAIN wanted' /\ wanted'[i] = wanted[i]
      BY <2>1, <2>2
    <2>4. \A i \in DOMAIN heard : i \in DOMAIN heard' /\ heard'[i] = heard[i]
      BY <2>1, <2>2
    <2> QED
      BY <1>3, <2>3, <2>4
  <1>6. (\E q, h : wanted' = Append(wanted, q) /\ heard' = Append(heard, h)) \/ UNCHANGED <<wanted, heard>>
    BY ClientsKeep, NetworkKeeps, ThreadsKeep, QueueKeeps
       DEF GNext, ServerStep, EngineStep, Clientele, SendRequest, askVars
  <1> QED
    BY <1>4, <1>5, <1>6

(* A thread answers the task it executes, which has no answer yet. *)
Pushes(t, n, id) ==
    /\ id \in Nat /\ n = Len(answers) + 1 /\ n \notin DOMAIN answers
    /\ exec[t] \in posted /\ ~Replied(exec[t])
    /\ DOMAIN answers' = DOMAIN answers \cup {n}
    /\ \A x \in DOMAIN answers : answers'[x] = answers[x] /\ to'[x] = to[x]
    /\ answers'[n].task = exec[t] /\ answers'[n].id = id /\ to'[n] = jobs[exec[t]].s

LEMMA Pushing ==
    ASSUME PartsInv, LinkInv, NEW t \in PoolThreads
    PROVE  /\ Give(t) => exec[t] \in called /\ \E n : Pushes(t, n, uc[t].id)
           /\ Refuse(t) => exec[t] \in refused /\ \E n : Pushes(t, n, U!NoId)
  <1>0. called \cup refused \subseteq posted
    BY DEF PartsInv, SessionInv, NetInv, NetTypes
  <1>1. ASSUME NEW id \in Nat, Push(t, id), exec[t] \in posted, ~Replied(exec[t])
        PROVE  \E n : Pushes(t, n, id)
    <2>1. PICK n : n = Len(answers) + 1
      OBVIOUS
    <2>2. answers \in Seq(Given) /\ WP!Known = DOMAIN answers
      BY DEF LinkInv, LinkTypes
    <2>3. Len(answers) \in Nat /\ DOMAIN answers = 1..Len(answers) /\ n \notin DOMAIN answers
      BY <2>1, <2>2
    <2>4. WP!Cardinality(WP!Known) \in Nat /\ WP!Known = 1..WP!Cardinality(WP!Known)
      BY DEF PartsInv, WP!WInv, WP!OrderInv, WP!QueueInv
    <2>5. WP!Cardinality(WP!Known) + 1 = n
      BY <2>1, <2>2, <2>3, <2>4
    <2>6. to' = [to EXCEPT ![n] = jobs[exec[t]].s] /\ n \in Tasks
      BY <1>1, <2>5, SameWriter DEF Push, WP!Write, Addressee
    <2>7. to \in [Tasks -> Sessions] /\ WP!Known \subseteq Tasks
      BY DEF PartsInv, WP!WInv, WP!OrderInv, WP!QueueInv, WP!SocketInv, WP!Known
    <2>8. PICK a : a = [task |-> exec[t], id |-> id]
      OBVIOUS
    <2>9. answers' = Append(answers, a)
      BY <1>1, <2>8 DEF Push
    <2>10. DOMAIN answers' = DOMAIN answers \cup {n}
      BY <2>1, <2>2, <2>3, <2>9
    <2>11. \A x \in DOMAIN answers : answers'[x] = answers[x]
      BY <2>2, <2>3, <2>9
    <2>12. answers'[n] = a
      BY <2>1, <2>2, <2>3, <2>9
    <2>13. to'[n] = jobs[exec[t]].s /\ \A x \in DOMAIN answers : to'[x] = to[x]
      BY <2>2, <2>3, <2>6, <2>7
    <2> QED
      BY <1>1, <2>1, <2>3, <2>8, <2>10, <2>11, <2>12, <2>13 DEF Pushes
  <1>2. CASE Give(t)
    <2>1. Push(t, uc[t].id) /\ uc[t] # U!Idle
      BY <1>2 DEF Give, U!Answer, U!At, U!Idle
    <2>2. uc[t].id \in Nat
      BY <2>1, SameUsers DEF PartsInv, UP!Inv1, UP!TypeOK, UP!Calls
    <2>3. exec[t] \in called /\ ~Replied(exec[t])
      BY <2>1 DEF LinkInv, WorkFits
    <2>4. \E n : Pushes(t, n, uc[t].id)
      BY <1>0, <1>1, <2>1, <2>2, <2>3
    <2> QED
      BY <1>2, <2>3, <2>4 DEF Refuse, LinkInv, TasksFit
  <1>3. CASE Refuse(t)
    <2>1. Push(t, U!NoId) /\ exec[t] \in refused /\ ~Replied(exec[t]) /\ U!NoId \in Nat
      BY <1>3 DEF Refuse, U!NoId
    <2>2. \E n : Pushes(t, n, U!NoId)
      BY <1>0, <1>1, <2>1
    <2>3. ~Give(t)
      BY <2>1 DEF Give, U!Answer, U!At, U!Idle, LinkInv, WorkFits, TasksFit
    <2> QED
      BY <2>1, <2>2, <2>3
  <1> QED
    BY <1>2, <1>3

(* A thread takes a task and calls the engine for it, or does not. *)
Calls(t, x) ==
    /\ called' = called \cup {x} /\ UNCHANGED refused
    /\ \/ jobs[x].c = "reg" /\ U!Reg(t, jobs[x].s, wanted[Req(x)].l, wanted[Req(x)].p)
       \/ jobs[x].c = "auth" /\ U!Auth(t, jobs[x].s, wanted[Req(x)].l, wanted[Req(x)].p)
Refuses(x) ==
    /\ refused' \in {refused, refused \cup {x}}
    /\ UNCHANGED <<called, userVars>>

Serves(t, x) ==
    /\ x \in posted \ (called \cup refused) /\ uc[t] = U!Idle
    /\ exec' = [exec EXCEPT ![t] = x]
    /\ \A i \in DOMAIN handlers' :
         handlers'[i] # x /\ \E j \in DOMAIN handlers : handlers'[i] = handlers[j]
    /\ Calls(t, x) \/ Refuses(x)

LEMMA Serving ==
    ASSUME PartsInv, LinkInv, NEW t \in PoolThreads, Serve(t)
    PROVE  \E x : Serves(t, x)
  <1>1. /\ handlers \in Seq(Tasks) /\ handlers # <<>> /\ handlers' = Tail(handlers)
        /\ exec' = [exec EXCEPT ![t] = Head(handlers)] /\ at[t] = "ready"
    BY DEF Serve, Handle, Take, PartsInv, SessionInv, PoolInv, PoolTypeOK
  <1>2. Len(handlers) \in Nat \ {0} /\ Head(handlers) = handlers[1] /\ 1 \in DOMAIN handlers
    BY <1>1
  <1>3. PICK x : x = Head(handlers)
    OBVIOUS
  <1>4. x \in posted \ (called \cup refused)
    BY <1>2, <1>3 DEF PartsInv, SessionInv, PoolInv, TaskPlaces, LinkInv, TasksFit
  <1>5. uc[t] = U!Idle
    <2>1. exec[t] = NoTask
      BY <1>1 DEF PartsInv, SessionInv, PoolInv, PoolTypeOK
    <2>2. NoTask \notin called
      BY PoolAssumption DEF PartsInv, SessionInv, PoolInv, PoolTypeOK, NetInv, NetTypes
    <2> QED
      BY <2>1, <2>2 DEF LinkInv, WorkFits
  <1>6. \A i \in DOMAIN handlers' : i + 1 \in DOMAIN handlers /\ i + 1 # 1 /\ handlers'[i] = handlers[i + 1]
    BY <1>1, <1>2
  <1>7. \A i \in DOMAIN handlers' :
          handlers'[i] # x /\ \E j \in DOMAIN handlers : handlers'[i] = handlers[j]
    BY <1>2, <1>3, <1>6 DEF PartsInv, SessionInv, PoolInv, TaskPlaces
  <1>8. Calls(t, x) \/ Refuses(x)
    <2>1. CASE Matches(jobs[x])
      <3>1. called' = called \cup {x} /\ UNCHANGED refused
        BY <1>3, <2>1 DEF Serve, Handle
      <3>2. jobs[x].b \in Bodies
        BY <1>4, Requests DEF PartsInv, SessionInv, LinkInv
      <3>3. jobs[x].c \in {"reg", "auth"}
        BY <2>1, <3>2, GatewayAssumption DEF Matches, Bodies
      <3> QED
        BY <1>3, <3>1, <3>3 DEF Serve, Calls, Req
    <2>2. CASE ~Matches(jobs[x])
      <3>1. UNCHANGED called /\ refused' \in {refused, refused \cup {x}}
        BY <1>3, <2>2 DEF Serve, Handle
      <3> QED
        BY <1>3, <1>4, <3>1 DEF Serve, Refuses
    <2> QED
      BY <2>1, <2>2
  <1> QED
    BY <1>1, <1>3, <1>4, <1>5, <1>7, <1>8 DEF Serves

LEMMA NextTasksFit ==
    ASSUME PartsInv, LinkInv, GNext
    PROVE  TasksFit'
  <1>0. TasksFit /\ called \cup refused \subseteq posted
    BY DEF LinkInv, PartsInv, SessionInv, NetInv, NetTypes
  <1>1. CASE UNCHANGED <<called, refused, handlers>>
    BY <1>0, <1>1 DEF TasksFit
  <1>2. ASSUME NEW s \in Sessions, Read(s) PROVE TasksFit'
    <2>1. UNCHANGED <<called, refused>>
      BY <1>2, NetworkKeeps
    <2>2. CASE UNCHANGED handlers
      BY <1>1, <2>1, <2>2
    <2>3. CASE \E b : PostRequest(s, b)
      <3>1. PICK x \in Tasks \ posted : handlers' = Append(handlers, x)
        BY <2>3 DEF PostRequest, OwnerPosts, PostTask, Queued
      <3>2. handlers \in Seq(Tasks)
        BY DEF PartsInv, SessionInv, PoolInv, PoolTypeOK
      <3>3. \A i \in DOMAIN handlers' : handlers'[i] = x \/ (i \in DOMAIN handlers /\ handlers'[i] = handlers[i])
        BY <3>1, <3>2
      <3> QED
        BY <1>0, <2>1, <3>1, <3>3 DEF TasksFit
    <2> QED
      BY <1>2, <2>2, <2>3 DEF Read, ReadStep, ReadHeader, ReadBody, ReadBodyError, poolVars
  <1>3. ASSUME NEW t \in PoolThreads, Serve(t) PROVE TasksFit'
    <2>1. PICK x : Serves(t, x)
      BY <1>3, Serving
    <2> QED
      BY <1>0, <2>1 DEF TasksFit, Serves, Calls, Refuses
  <1> QED
    BY <1>1, <1>2, <1>3, ClientsKeep, NetworkKeeps, ThreadsKeep, QueueKeeps
       DEF GNext, ServerStep, EngineStep, Clientele, workVars

LEMMA NextAnswersFit ==
    ASSUME PartsInv, LinkInv, GNext
    PROVE  AnswersFit'
  <1>0. AnswersFit /\ called \cup refused \subseteq posted
    BY DEF LinkInv, PartsInv, SessionInv, NetInv, NetTypes
  <1>1. \A x \in posted : jobs'[x] = jobs[x]
    BY Kept
  <1>2. called \cup refused \subseteq called' \cup refused'
    <2>1. ASSUME NEW t \in PoolThreads, Serve(t) PROVE called \cup refused \subseteq called' \cup refused'
      BY <2>1, Serving DEF Serves, Calls, Refuses
    <2> QED
      BY <2>1, ClientsKeep, NetworkKeeps, ThreadsKeep, QueueKeeps
         DEF GNext, ServerStep, EngineStep, Clientele, workVars
  <1>3. CASE UNCHANGED <<answers, to>>
    BY <1>0, <1>1, <1>2, <1>3 DEF AnswersFit
  <1>4. ASSUME NEW t \in PoolThreads, Give(t) \/ Refuse(t) PROVE AnswersFit'
    <2>1. PICK n, id : Pushes(t, n, id) /\ exec[t] \in called \cup refused
      BY <1>4, Pushing
    <2> QED
      BY <1>0, <1>1, <1>2, <2>1 DEF AnswersFit, Pushes, Replied
  <1> QED
    BY <1>3, <1>4, ClientsKeep, NetworkKeeps, ThreadsKeep, QueueKeeps
       DEF GNext, ServerStep, EngineStep, Clientele, tellVars

(* The steps inside reg and auth keep what the call is for. *)
LEMMA Working ==
    ASSUME PartsInv, NEW t \in PoolThreads, Work(t)
    PROVE  /\ uc[t] # U!Idle /\ ~U!At(t, "answer")
           /\ \A v \in PoolThreads \ {t} : uc'[v] = uc[v]
           /\ uc'[t].op = uc[t].op /\ uc'[t].s = uc[t].s
           /\ uc'[t].l = uc[t].l /\ uc'[t].p = uc[t].p
  <1>1. uc \in [PoolThreads -> UP!Calls \cup {UP!Idle}]
    BY DEF PartsInv, UP!Inv1, UP!TypeOK
  <1>2. UP!UserStep(t) /\ ~UP!At(t, "answer") /\ ~U!At(t, "answer")
    BY SameUsers DEF Work
  <1>3. \E pc, id : UP!Advance(t, pc, id)
    BY <1>2 DEF UP!UserStep, UP!RegLookup, UP!RegInsert, UP!RegReread, UP!AuthCheck, UP!Push, UP!Answer
  <1>4. PICK pc, id : UP!Advance(t, pc, id)
    BY <1>3
  <1>5. uc[t] # UP!Idle
    BY <1>2 DEF UP!UserStep, UP!RegLookup, UP!RegInsert, UP!RegReread, UP!AuthCheck, UP!Push,
       UP!Answer, UP!At, UP!Idle
  <1>6. uc[t] # U!Idle
    BY <1>5, SameUsers
  <1> QED
    BY <1>1, <1>2, <1>4, <1>6 DEF UP!Advance

LEMMA NextWorkFits ==
    ASSUME PartsInv, LinkInv, GNext, NEW v \in PoolThreads
    PROVE  WorkFits(v)'
  <1>0. WorkFits(v)
    BY DEF LinkInv
  <1>00. called \cup refused \subseteq posted
    BY DEF PartsInv, SessionInv, NetInv, NetTypes
  <1>1. \A x \in posted : jobs'[x] = jobs[x] /\ Req(x)' = Req(x) /\ wanted'[Req(x)] = wanted[Req(x)]
    BY Kept, Requests DEF Req, PartsInv, SessionInv, LinkInv
  <1>2. ASSUME UNCHANGED <<uc, exec, called, answers>> PROVE WorkFits(v)'
    BY <1>0, <1>00, <1>1, <1>2 DEF WorkFits, Replied, U!Idle
  <1>3. ASSUME NEW t \in PoolThreads, Work(t) PROVE WorkFits(v)'
    <2>1. UNCHANGED <<exec, called, answers>>
      BY <1>3, ThreadsKeep DEF workVars, tellVars
    <2>2. CASE v # t
      BY <1>2, <1>0, <1>00, <1>1, <1>3, <2>1, <2>2, Working DEF WorkFits, Replied, U!Idle
    <2>3. CASE v = t
      BY <1>0, <1>00, <1>1, <1>3, <2>1, <2>3, Working DEF WorkFits, Replied, U!Idle
    <2> QED
      BY <2>2, <2>3
  <1>4. ASSUME NEW t \in PoolThreads, Give(t) \/ Refuse(t) PROVE WorkFits(v)'
    <2>1. PICK n, id : Pushes(t, n, id)
      BY <1>4, Pushing
    <2>2. UNCHANGED <<exec, called>>
      BY <1>4, ThreadsKeep DEF workVars
    <2>3. uc'[v] # U!Idle => uc'[v] = uc[v] /\ exec[v] # exec[t]
      <3>1. CASE Give(t)
        <4>1. uc' = [uc EXCEPT ![t] = U!Idle] /\ exec[t] \in called
          BY <3>1, Pushing DEF Give, U!Answer
        <4>2. DOMAIN uc = PoolThreads
          BY DEF PartsInv, UP!Inv1, UP!TypeOK
        <4>3. uc'[v] # U!Idle => v # t /\ uc'[v] = uc[v]
          BY <4>1, <4>2
        <4>4. ASSUME v # t, exec[v] \in called PROVE exec[v] # exec[t]
          BY <4>1, <4>4, <1>00, PoolAssumption
             DEF PartsInv, SessionInv, PoolInv, PoolTypeOK, TaskPlaces, InTask
        <4> QED
          BY <1>0, <4>3, <4>4 DEF WorkFits
      <3>2. CASE Refuse(t)
        <4>1. UNCHANGED userVars /\ exec[t] \in refused
          BY <3>2, Pushing, ThreadsKeep
        <4> QED
          BY <1>0, <4>1 DEF userVars, WorkFits, LinkInv, TasksFit
      <3> QED
        BY <1>4, <3>1, <3>2
    <2>4. \A x : (\E j \in DOMAIN answers' : answers'[j].task = x) => x = exec[t] \/ Replied(x)
      BY <2>1 DEF Pushes, Replied
    <2> QED
      BY <1>0, <1>00, <1>1, <2>2, <2>3, <2>4 DEF WorkFits, Replied, U!Idle
  <1>5. ASSUME NEW t \in PoolThreads, Serve(t) PROVE WorkFits(v)'
    <2>1. PICK x : Serves(t, x)
      BY <1>5, Serving
    <2>2. UNCHANGED answers
      BY <1>5, ThreadsKeep DEF tellVars
    <2>3. DOMAIN uc = PoolThreads /\ DOMAIN exec = PoolThreads
      BY DEF PartsInv, UP!Inv1, UP!TypeOK, SessionInv, PoolInv, PoolTypeOK
    <2>4. CASE v # t
      <3>1. exec'[v] = exec[v] /\ uc'[v] = uc[v] /\ called \subseteq called'
        BY <2>1, <2>3, <2>4 DEF Serves, Calls, Refuses, userVars, U!Reg, U!Auth, U!StartCall
      <3> QED
        BY <1>0, <1>00, <1>1, <2>2, <3>1 DEF WorkFits, Replied, U!Idle
    <2>5. CASE v = t
      <3>1. exec'[t] = x /\ x \in posted \ (called \cup refused)
        BY <2>1, <2>3 DEF Serves
      <3>2. CASE Refuses(x)
        BY <2>1, <2>5, <3>2 DEF Serves, Refuses, userVars, WorkFits, U!Idle
      <3>3. CASE Calls(t, x)
        <4>1. ~Replied(x)
          BY <3>1 DEF Replied, LinkInv, AnswersFit
        <4>2. /\ uc'[t].op = jobs[x].c /\ uc'[t].s = jobs[x].s
              /\ uc'[t].l = wanted[Req(x)].l /\ uc'[t].p = wanted[Req(x)].p
          BY <2>3, <3>3 DEF Calls, U!Reg, U!Auth, U!StartCall
        <4>3. x \in called'
          BY <3>3 DEF Calls
        <4> QED
          BY <1>1, <2>2, <2>5, <3>1, <4>1, <4>2, <4>3 DEF WorkFits, Replied
      <3> QED
        BY <2>1, <3>2, <3>3 DEF Serves
    <2> QED
      BY <2>4, <2>5
  <1>6. ASSUME NEW t \in PoolThreads, EndRequest(t) PROVE WorkFits(v)'
    <2>1. UNCHANGED <<uc, called, answers>>
      BY <1>6, ThreadsKeep DEF userVars, tellVars
    <2>2. exec' = [exec EXCEPT ![t] = NoTask] /\ (exec[t] \in called => Replied(exec[t]))
      BY <1>6 DEF EndRequest, FinishRequest, Finish, LeavesTask
    <2>3. DOMAIN exec = PoolThreads
      BY DEF PartsInv, SessionInv, PoolInv, PoolTypeOK
    <2>4. CASE v # t
      BY <1>2, <1>0, <1>00, <1>1, <2>1, <2>2, <2>3, <2>4 DEF WorkFits, Replied, U!Idle
    <2>5. CASE v = t
      BY <1>0, <2>1, <2>2, <2>5 DEF WorkFits, U!Idle
    <2> QED
      BY <2>4, <2>5
  <1> QED
    BY <1>2, <1>3, <1>4, <1>5, <1>6, ClientsKeep, NetworkKeeps, ThreadsKeep, QueueKeeps
       DEF GNext, ServerStep, EngineStep, Clientele, workVars, tellVars, userVars

(* An answer that was not sent yet goes to its client. *)
Transmits(c, x, alive) ==
    /\ c \in Sessions \ gone /\ x \in DOMAIN answers /\ to[x] = c
    /\ \A i \in DOMAIN out[c] : out[c][i].x # x
    /\ out' = [out EXCEPT ![c] = Append(@, [x |-> x, intact |-> alive])]

Transmitted == UNCHANGED out \/ \E c, x, alive : Transmits(c, x, alive)

(* A write that waits has the answer that it had, or one not sent yet. *)
Waits(s) ==
    write'[s] = "waiting" =>
        /\ out'[s] = out[s]
        /\ \/ write[s] = "waiting" /\ mutexSocket'[s] = mutexSocket[s]
           \/ \A i \in DOMAIN out[s] : out[s][i].x # mutexSocket'[s]

LEMMA Starting ==
    ASSUME PartsInv, LinkInv, NEW x \in Tasks, WP!StartWrite(x)
    PROVE  Transmitted /\ \A s \in Sessions : Waits(s)
  <1>0. WP!SocketInv /\ active \cap finished = {} /\ WP!Known = DOMAIN answers
    BY DEF PartsInv, WP!WInv, WP!OrderInv, WP!QueueInv, LinkInv, LinkTypes
  <1>1. PICK c \in Sessions : c = to[x]
    BY <1>0 DEF WP!SocketInv
  <1>2. x \in active \ begun /\ x \in DOMAIN answers
    BY <1>0 DEF WP!StartWrite, WP!Known
  <1>3. \A i \in DOMAIN out[c] : out[c][i].x # x
    BY <1>0, <1>2 DEF WP!SocketInv
  <1>4. /\ mutexSocket' = [mutexSocket EXCEPT ![c] = x]
        /\ DOMAIN mutexSocket = Sessions /\ DOMAIN write = Sessions
    BY <1>0, <1>1 DEF WP!StartWrite, WP!SocketInv
  <1>5. CASE UNCHANGED out /\ \E v : write' = [write EXCEPT ![c] = v]
    <2>1. \A s \in Sessions : s # c => write'[s] = write[s] /\ mutexSocket'[s] = mutexSocket[s]
      BY <1>4, <1>5
    <2>2. mutexSocket'[c] = x
      BY <1>4
    <2> QED
      BY <1>3, <1>5, <2>1, <2>2 DEF Transmitted, Waits
  <1>6. CASE c \notin gone /\ write' = [write EXCEPT ![c] = "done"] /\ WP!Send(c, x, TRUE)
    <2>1. Transmits(c, x, TRUE)
      BY <1>1, <1>2, <1>3, <1>6 DEF Transmits, WP!Send
    <2>2. \A s \in Sessions : s # c => /\ write'[s] = write[s] /\ mutexSocket'[s] = mutexSocket[s]
                                      /\ out'[s] = out[s]
      BY <1>0, <1>4, <1>6 DEF WP!Send, WP!SocketInv
    <2>3. write'[c] = "done"
      BY <1>4, <1>6
    <2> QED
      BY <2>1, <2>2, <2>3 DEF Transmitted, Waits
  <1> QED
    BY <1>1, <1>5, <1>6 DEF WP!StartWrite

LEMMA Proceeding ==
    ASSUME PartsInv, LinkInv, NEW c \in Sessions, WP!Proceed(c)
    PROVE  Transmitted /\ \A s \in Sessions : Waits(s)
  <1>0. WP!SocketInv /\ WP!Known = DOMAIN answers
    BY DEF PartsInv, WP!WInv, WP!OrderInv, LinkInv, LinkTypes
  <1>1. PICK x : x = mutexSocket[c]
    OBVIOUS
  <1>2. write[c] = "waiting" /\ write' = [write EXCEPT ![c] = "done"] /\ UNCHANGED mutexSocket
    BY DEF WP!Proceed
  <1>3. x \in DOMAIN answers /\ to[x] = c
    BY <1>0, <1>1, <1>2 DEF WP!SocketInv, WP!Known
  <1>4. \A i \in DOMAIN out[c] : out[c][i].x # x
    BY <1>1, <1>2 DEF LinkInv, SentOnce
  <1>5. write'[c] = "done" /\ \A s \in Sessions : s # c => write'[s] = write[s]
    BY <1>0, <1>2 DEF WP!SocketInv
  <1>6. CASE UNCHANGED out
    BY <1>2, <1>5, <1>6 DEF Transmitted, Waits
  <1>7. CASE c \notin gone /\ \E alive : WP!Send(c, x, alive)
    <2>1. \E alive : Transmits(c, x, alive)
      BY <1>3, <1>4, <1>7 DEF Transmits, WP!Send
    <2>2. \A s \in Sessions : s # c => out'[s] = out[s]
      BY <1>0, <1>7 DEF WP!Send, WP!SocketInv
    <2> QED
      BY <1>2, <1>5, <2>1, <2>2 DEF Transmitted, Waits
  <1> QED
    BY <1>1, <1>6, <1>7 DEF WP!Proceed

LEMMA Transmitting ==
    ASSUME PartsInv, LinkInv, GNext
    PROVE  Transmitted /\ \A s \in Sessions : Waits(s)
  <1>1. CASE UNCHANGED sendVars
    BY <1>1 DEF sendVars, Transmitted, Waits
  <1>2. ASSUME NEW c \in Sessions, WP!Complete(c)
        PROVE  Transmitted /\ \A s \in Sessions : Waits(s)
    <2>1. /\ UNCHANGED out /\ mutexSocket' = [mutexSocket EXCEPT ![c] = NoTask]
          /\ write' = [write EXCEPT ![c] = "idle"]
      BY <1>2 DEF WP!Complete, WP!UnlockSocket
    <2>2. DOMAIN mutexSocket = Sessions /\ DOMAIN write = Sessions
      BY DEF PartsInv, WP!WInv, WP!OrderInv, WP!SocketInv
    <2>3. \A s \in Sessions : s # c => write'[s] = write[s] /\ mutexSocket'[s] = mutexSocket[s]
      BY <2>1, <2>2
    <2>4. write'[c] = "idle"
      BY <2>1, <2>2
    <2> QED
      BY <2>1, <2>3, <2>4 DEF Transmitted, Waits
  <1>3. ASSUME NEW x \in Tasks, WriteResponse(x)
        PROVE  Transmitted /\ \A s \in Sessions : Waits(s)
    <2>1. WP!StartWrite(x) \/ WP!EndTask(x)
      BY <1>3, SameWriter DEF WriteResponse, WP!QueueStep
    <2>2. CASE WP!EndTask(x)
      BY <1>1, <2>2 DEF WP!EndTask, WP!socketVars, sendVars
    <2> QED
      BY <2>1, <2>2, Starting
  <1>4. ASSUME NEW c \in Sessions, Transmit(c)
        PROVE  Transmitted /\ \A s \in Sessions : Waits(s)
    <2>1. WP!ProceedInPart(c) \/ WP!Proceed(c) \/ WP!Complete(c)
      BY <1>4, SameWriter DEF Transmit, WP!NetworkStep
    <2>2. CASE WP!ProceedInPart(c)
      BY <1>1, <2>2 DEF WP!ProceedInPart, sendVars
    <2> QED
      BY <1>2, <2>1, <2>2, Proceeding
  <1> QED
    BY <1>1, <1>3, <1>4, ClientsKeep, NetworkKeeps, ThreadsKeep, QueueKeeps
       DEF GNext, ServerStep, EngineStep, Clientele

LEMMA NextSentOnce ==
    ASSUME PartsInv, LinkInv, GNext
    PROVE  SentOnce'
  <1>1. SentOnce /\ WP!SocketInv
    BY DEF LinkInv, PartsInv, WP!WInv, WP!OrderInv
  <1>2. ASSUME NEW s \in Sessions
        PROVE  \A i, j \in DOMAIN out'[s] : out'[s][i].x = out'[s][j].x => i = j
    <2>1. CASE out'[s] = out[s]
      BY <1>1, <2>1 DEF SentOnce
    <2>2. ASSUME NEW x, NEW alive, Transmits(s, x, alive)
          PROVE  \A i, j \in DOMAIN out'[s] : out'[s][i].x = out'[s][j].x => i = j
      <3>1. PICK q : q = out[s]
        OBVIOUS
      <3>2. q \in Seq(WP!Sendings)
        BY <1>1, <3>1 DEF WP!SocketInv
      <3>3. PICK e : e = [x |-> x, intact |-> alive]
        OBVIOUS
      <3>4. out'[s] = Append(q, e) /\ e.x = x
        BY <1>1, <2>2, <3>1, <3>3 DEF Transmits, WP!SocketInv
      <3>5. \A i \in DOMAIN out'[s] : \/ i \in DOMAIN q /\ out'[s][i] = q[i]
                                      \/ i = Len(q) + 1 /\ out'[s][i] = e
        BY <3>2, <3>4
      <3>6. \A i \in DOMAIN q : q[i].x # x
        BY <2>2, <3>1 DEF Transmits
      <3>7. \A i, j \in DOMAIN q : q[i].x = q[j].x => i = j
        BY <1>1, <3>1 DEF SentOnce
      <3> QED
        BY <3>4, <3>5, <3>6, <3>7
    <2>3. ASSUME NEW c, NEW x, NEW alive, Transmits(c, x, alive), c # s PROVE out'[s] = out[s]
      BY <1>1, <2>3 DEF Transmits, WP!SocketInv
    <2>4. Transmitted
      BY Transmitting
    <2> QED
      BY <2>1, <2>2, <2>3, <2>4 DEF Transmitted
  <1>3. ASSUME NEW s \in Sessions, write'[s] = "waiting"
        PROVE  \A i \in DOMAIN out'[s] : out'[s][i].x # mutexSocket'[s]
    <2>1. Waits(s)
      BY Transmitting
    <2> QED
      BY <1>1, <1>3, <2>1 DEF Waits, SentOnce
  <1> QED
    BY <1>2, <1>3 DEF SentOnce

------------------------------------------------------------------------------
LEMMA InitLinkInv == GInit => LinkInv
  <1> SUFFICES ASSUME GInit PROVE LinkInv
    OBVIOUS
  <1> USE DEF GInit, SInit, PoolInit
  <1>1. ClientsFit /\ TasksFit /\ AnswersFit
    BY DEF ClientsFit, TasksFit, AnswersFit, W!WInit
  <1>2. LinkTypes
    BY FS_EmptySet DEF LinkTypes, W!WInit, W!WQInit, WP!Known
  <1>3. \A t \in PoolThreads : WorkFits(t)
    BY DEF WorkFits
  <1>4. SentOnce
    BY DEF SentOnce, W!WInit
  <1> QED
    BY <1>1, <1>2, <1>3, <1>4 DEF LinkInv

LEMMA KeepLinkInv ==
    ASSUME LinkInv, UNCHANGED gvars
    PROVE  LinkInv'
  <1> USE DEF gvars, svars, poolVars, netVars, callVars, userVars, writerVars, linkVars, LinkInv
  <1>1. ClientsFit' /\ TasksFit' /\ AnswersFit'
    BY DEF ClientsFit, TasksFit, AnswersFit
  <1>2. LinkTypes' /\ SentOnce'
    BY DEF LinkTypes, SentOnce, WP!Known
  <1>3. \A t \in PoolThreads : WorkFits(t)'
    BY DEF WorkFits, Replied, Req, U!Idle
  <1> QED
    BY <1>1, <1>2, <1>3

LEMMA NextLinkInv == PartsInv /\ LinkInv /\ [GNext]_gvars => LinkInv'
  <1> SUFFICES ASSUME PartsInv, LinkInv, [GNext]_gvars PROVE LinkInv'
    OBVIOUS
  <1>1. CASE UNCHANGED gvars
    BY <1>1, KeepLinkInv
  <1>2. CASE GNext
    BY <1>2, NextClientsFit, NextLinkTypes, NextTasksFit, NextAnswersFit, NextWorkFits, NextSentOnce
       DEF LinkInv
  <1> QED
    BY <1>1, <1>2

LEMMA WayInvariance == GSpec => []WayInv
  <1>1. GInit => WayInv
    BY InitPartsInv, InitLinkInv DEF WayInv
  <1>2. WayInv /\ [GNext]_gvars => WayInv'
    BY NextPartsInv, NextLinkInv DEF WayInv
  <1> QED
    BY <1>1, <1>2, PTL DEF GSpec

------------------------------------------------------------------------------
(* Gateway implements RequestReply. *)

AskedBy(s) == {m[3].i : m \in {m \in sent : m[1] = s}}
RepliesTo(s) == [j \in DOMAIN out[s] |-> RequestOf(out[s][j].x)]

LEMMA AnswersKept ==
    ASSUME PartsInv, LinkInv, GNext
    PROVE  \A x \in DOMAIN answers :
             x \in DOMAIN answers' /\ answers'[x] = answers[x] /\ RequestOf(x)' = RequestOf(x)
  <1>1. CASE UNCHANGED answers
    BY <1>1, Kept, AnswersAreRequests DEF RequestOf
  <1>2. ASSUME NEW t \in PoolThreads, NEW n, NEW id, Pushes(t, n, id)
        PROVE  \A x \in DOMAIN answers :
                 x \in DOMAIN answers' /\ answers'[x] = answers[x] /\ RequestOf(x)' = RequestOf(x)
    BY <1>2, Kept, AnswersAreRequests DEF RequestOf, Pushes
  <1> QED
    BY <1>1, <1>2, Pushing, ClientsKeep, NetworkKeeps, ThreadsKeep, QueueKeeps
       DEF GNext, ServerStep, EngineStep, Clientele, tellVars

LEMMA SameReplies ==
    ASSUME PartsInv, LinkInv, GNext, NEW s \in Sessions, out'[s] = out[s]
    PROVE  RepliesTo(s)' = RepliesTo(s)
  <1>1. \A j \in DOMAIN out[s] : out[s][j].x \in DOMAIN answers
    BY SentAreAnswers
  <1>2. \A x \in DOMAIN answers : jobs'[answers'[x].task].b.i = jobs[answers[x].task].b.i
    BY AnswersKept DEF RequestOf
  <1> QED
    BY <1>1, <1>2 DEF RepliesTo, RequestOf

(* What is sent answers a request of the client that was not answered. *)
LEMMA MoreReplies ==
    ASSUME PartsInv, LinkInv, GNext, NEW c, NEW x, NEW alive, Transmits(c, x, alive)
    PROVE  /\ RequestOf(x) \in 1..MaxSends /\ RequestOf(x) \in AskedBy(c)
           /\ \A j \in DOMAIN RepliesTo(c) : RepliesTo(c)[j] # RequestOf(x)
           /\ RepliesTo(c)' = Append(RepliesTo(c), RequestOf(x))
           /\ \A s \in Sessions \ {c} : RepliesTo(s)' = RepliesTo(s)
  <1>1. c \in Sessions /\ x \in DOMAIN answers /\ to[x] = c
    BY DEF Transmits
  <1>2. answers[x].task \in posted /\ RequestOf(x) = Req(answers[x].task)
    BY <1>1, AnswersAreRequests
  <1>3. jobs[answers[x].task].s = c
    BY <1>1 DEF LinkInv, AnswersFit
  <1>4. jobs[answers[x].task].b \in Bodies /\ WasSent(c, jobs[answers[x].task].b)
    BY <1>2, <1>3, Requests DEF PartsInv, SessionInv, LinkInv
  <1>5. RequestOf(x) \in 1..MaxSends
    BY <1>2, <1>4 DEF Bodies, Req
  <1>6. RequestOf(x) \in AskedBy(c)
    BY <1>2, <1>4 DEF WasSent, AskedBy, Req
  <1>7. \A j \in DOMAIN out[c] : out[c][j].x \in DOMAIN answers
    BY <1>1, SentAreAnswers
  <1>8. \A j \in DOMAIN RepliesTo(c) : RepliesTo(c)[j] # RequestOf(x)
    BY <1>1, <1>7, AnswersAreRequests DEF RepliesTo, Transmits
  <1>9. \A y \in DOMAIN answers : jobs'[answers'[y].task].b.i = RequestOf(y)
    BY AnswersKept DEF RequestOf
  <1>10. out \in [Sessions -> Seq(WP!Sendings)]
    BY DEF PartsInv, WP!WInv, WP!OrderInv, WP!SocketInv
  <1>11. RepliesTo(c)' = Append(RepliesTo(c), RequestOf(x))
    <2>1. PICK q : q = out[c]
      OBVIOUS
    <2>2. PICK e : e = [x |-> x, intact |-> alive]
      OBVIOUS
    <2>3. q \in Seq(WP!Sendings) /\ out'[c] = Append(q, e) /\ e.x = x
      BY <1>1, <1>10, <2>1, <2>2 DEF Transmits
    <2>4. PICK r : r = RepliesTo(c)
      OBVIOUS
    <2>5. DOMAIN r = 1..Len(q) /\ Len(q) \in Nat /\ \A j \in 1..Len(q) : r[j] = RequestOf(q[j].x)
      BY <2>1, <2>3, <2>4 DEF RepliesTo
    <2>6. r \in Seq(Nat) /\ Len(r) = Len(q)
      <3>1. r = [j \in 1..Len(q) |-> r[j]]
        BY <2>1, <2>4, <2>5 DEF RepliesTo
      <3>2. \A j \in 1..Len(q) : r[j] \in Nat
        BY <1>7, <2>1, <2>3, <2>5, AnswersAreRequests
      <3>3. r \in [1..Len(q) -> Nat]
        BY <3>1, <3>2
      <3> QED
        BY <2>5, <3>3
    <2>7. DOMAIN out'[c] = 1..(Len(q) + 1)
      BY <2>3
    <2>8. \A j \in 1..Len(q) : out'[c][j] = q[j] /\ q[j].x \in DOMAIN answers
      BY <1>7, <2>1, <2>3
    <2>9. out'[c][Len(q) + 1].x = x
      BY <2>3
    <2> DEFINE Later(y) == jobs'[answers'[y].task].b.i
    <2>10. PICK D, k : D = 1..(Len(q) + 1) /\ k = Len(q) + 1
      OBVIOUS
    <2>11. PICK f : f = RepliesTo(c)'
      OBVIOUS
    <2>12. f = [j \in D |-> f[j]] /\ \A j \in D : f[j] = Later(out'[c][j].x)
      BY <2>7, <2>10, <2>11 DEF RepliesTo, RequestOf
    <2>13. \A y \in DOMAIN answers : Later(y) = RequestOf(y)
      BY <1>9
    <2> HIDE DEF Later
    <2>14. k \in D /\ 1..Len(q) \subseteq D /\ \A j \in D : j = k \/ j \in 1..Len(q)
      BY <2>5, <2>10
    <2>15. \A j \in 1..Len(q) : f[j] = r[j]
      <3> SUFFICES ASSUME NEW j \in 1..Len(q) PROVE f[j] = r[j]
        OBVIOUS
      <3>1. f[j] = Later(q[j].x)
        BY <2>8, <2>12, <2>14
      <3> QED
        BY <2>5, <2>8, <2>13, <3>1
    <2>16. f[k] = RequestOf(x)
      <3>1. f[k] = Later(x)
        BY <2>9, <2>10, <2>12, <2>14
      <3> QED
        BY <1>1, <2>13, <3>1
    <2>17. PICK a : a = Append(r, RequestOf(x))
      OBVIOUS
    <2>18. a \in [D -> Nat] /\ (\A j \in 1..Len(q) : a[j] = r[j]) /\ a[k] = RequestOf(x)
      <3>1. RequestOf(x) \in Nat
        BY <1>1, AnswersAreRequests
      <3>2. a \in Seq(Nat) /\ Len(a) = Len(q) + 1
        BY <2>6, <2>17, <3>1
      <3>3. a \in [D -> Nat]
        BY <2>5, <2>10, <3>2
      <3>4. \A j \in 1..Len(q) : a[j] = r[j]
        BY <2>5, <2>6, <2>17, <3>1
      <3>5. a[k] = RequestOf(x)
        BY <2>5, <2>6, <2>10, <2>17, <3>1
      <3> QED
        BY <3>3, <3>4, <3>5
    <2>19. \A j \in D : f[j] = a[j]
      BY <2>14, <2>15, <2>16, <2>18
    <2>20. a = [j \in D |-> a[j]]
      BY <2>18
    <2>21. f = a
      BY <2>12, <2>19, <2>20
    <2> QED
      BY <2>4, <2>11, <2>17, <2>21
  <1>12. ASSUME NEW s \in Sessions \ {c} PROVE RepliesTo(s)' = RepliesTo(s)
    BY <1>1, <1>10, <1>12, SameReplies DEF Transmits
  <1> QED
    BY <1>5, <1>6, <1>8, <1>11, <1>12

LEMMA NextOneAnswer ==
    ASSUME PartsInv, LinkInv, GNext
    PROVE  [RR!RRNext]_(RR!rrVars)
  <1> DEFINE asked == [s \in Sessions |-> AskedBy(s)]
             replies == [s \in Sessions |-> RepliesTo(s)]
  <1>1. ASSUME NEW s \in Sessions, NEW c, NEW k \in Kinds, NEW l, NEW p, SendRequest(s, c, k, l, p)
        PROVE  \E r \in 1..MaxSends : RR!Ask(s, r)
    <2>1. PICK r : r = Cardinality(sent) + 1
      OBVIOUS
    <2>2. /\ client[s] = "open" /\ Cardinality(sent) < MaxSends
          /\ UNCHANGED <<gone, out>>
      BY <1>1, ClientsKeep DEF SendRequest, Send, sendVars
    <2>3. Cardinality(sent) \in Nat /\ \E b : b.i = r /\ sent' = sent \cup {<<s, c, b>>}
      BY <1>1, <2>1, Sending
    <2>4. r \in 1..MaxSends
      BY <2>1, <2>2, <2>3, SessionAssumption
    <2>5. s \notin gone
      BY <2>2 DEF LinkInv, ClientsFit
    <2>6. \A d \in Sessions : r \notin AskedBy(d)
      BY <2>1, <2>3 DEF AskedBy, LinkInv, ClientsFit
    <2>7. AskedBy(s)' = AskedBy(s) \cup {r} /\ \A d \in Sessions \ {s} : AskedBy(d)' = AskedBy(d)
      <3>1. PICK b : b.i = r /\ sent' = sent \cup {<<s, c, b>>}
        BY <2>3
      <3>2. PICK m : m = <<s, c, b>>
        OBVIOUS
      <3>3. m[1] = s /\ m[3].i = r /\ sent' = sent \cup {m}
        BY <3>1, <3>2
      <3>4. AskedBy(s)' = AskedBy(s) \cup {r}
        BY <3>3 DEF AskedBy
      <3>5. \A d \in Sessions \ {s} : AskedBy(d)' = AskedBy(d)
        BY <3>3 DEF AskedBy
      <3> QED
        BY <3>4, <3>5
    <2>8. asked' = [asked EXCEPT ![s] = @ \cup {r}]
      BY <2>7
    <2>9. replies' = replies
      BY <2>2, SameReplies
    <2> QED
      BY <2>2, <2>4, <2>5, <2>6, <2>8, <2>9 DEF RR!Ask, AskedBy, RepliesTo
  <1>2. ASSUME NEW s \in Sessions, Leave(s) PROVE RR!CutOff(s)
    <2>1. UNCHANGED <<sent, out>> /\ gone' = gone \cup {s}
      BY <1>2, ClientsKeep DEF askVars, sendVars, Leave, W!CloseConnection
    <2>2. asked' = asked
      BY <2>1 DEF AskedBy
    <2>3. replies' = replies
      BY <2>1, SameReplies
    <2> QED
      BY <2>1, <2>2, <2>3 DEF RR!CutOff, AskedBy, RepliesTo
  <1>3. ASSUME NEW c, NEW x, NEW alive, Transmits(c, x, alive), UNCHANGED <<sent, gone>>
        PROVE  c \in Sessions /\ \E r \in 1..MaxSends : RR!Reply(c, r)
    <2>1. PICK r : r = RequestOf(x)
      OBVIOUS
    <2>2. /\ r \in 1..MaxSends /\ r \in AskedBy(c)
          /\ \A j \in DOMAIN RepliesTo(c) : RepliesTo(c)[j] # r
          /\ RepliesTo(c)' = Append(RepliesTo(c), r)
          /\ \A s \in Sessions \ {c} : RepliesTo(s)' = RepliesTo(s)
      BY <1>3, <2>1, MoreReplies
    <2>3. c \in Sessions \ gone
      BY <1>3 DEF Transmits
    <2>4. replies' = [replies EXCEPT ![c] = Append(@, r)]
      BY <2>2, <2>3
    <2>5. asked' = asked
      BY <1>3 DEF AskedBy
    <2>6. r \in asked[c] \ {replies[c][j] : j \in DOMAIN replies[c]}
      BY <2>2, <2>3
    <2>7. RR!Reply(c, r)
      BY <1>3, <2>3, <2>4, <2>5, <2>6 DEF RR!Reply, RR!Replied, AskedBy, RepliesTo
    <2> QED
      BY <2>1, <2>2, <2>3, <2>7
  <1>4. ASSUME UNCHANGED <<sent, gone, out>> PROVE UNCHANGED RR!rrVars
    <2>1. asked' = asked
      BY <1>4 DEF AskedBy
    <2>2. replies' = replies
      BY <1>4, SameReplies
    <2> QED
      BY <1>4, <2>1, <2>2 DEF RR!rrVars, AskedBy, RepliesTo
  <1>5. (\E s \in Sessions : Clientele(s)) \/ UNCHANGED <<sent, gone>>
    BY ClientsKeep, NetworkKeeps, ThreadsKeep, QueueKeeps
       DEF GNext, ServerStep, EngineStep, askVars
  <1>6. CASE \E s \in Sessions : Clientele(s)
    <2>1. ASSUME NEW s \in Sessions, Pause(s) \/ ReadOn(s) PROVE UNCHANGED RR!rrVars
      BY <1>4, <2>1, ClientsKeep DEF askVars, sendVars
    <2> QED
      BY <1>1, <1>2, <1>6, <2>1 DEF Clientele, RR!RRNext
  <1>7. CASE UNCHANGED <<sent, gone>>
    <2>1. Transmitted
      BY Transmitting
    <2>2. ASSUME NEW c, NEW x, NEW alive, Transmits(c, x, alive) PROVE RR!RRNext
      BY <1>3, <1>7, <2>2 DEF RR!RRNext
    <2> QED
      BY <1>4, <1>7, <2>1, <2>2 DEF Transmitted
  <1> QED
    BY <1>5, <1>6, <1>7

(***************************************************************************)
(* Requests and answers of the whole server are those of RequestReply: an  *)
(* answer leaves on the connection of its request and no request has two,  *)
(* whatever threads, tasks and responses overtake one another.             *)
(***************************************************************************)
THEOREM AnsweredOnce == GSpec => OneAnswerEach
  <1>1. GInit => RR!RRInit
    BY DEF GInit, SInit, W!WInit, RR!RRInit
  <1>2. PartsInv /\ LinkInv /\ [GNext]_gvars => [RR!RRNext]_(RR!rrVars)
    <2>1. ASSUME UNCHANGED gvars PROVE UNCHANGED RR!rrVars
      BY <2>1 DEF gvars, svars, netVars, writerVars, linkVars, RR!rrVars, RequestOf
    <2> QED
      BY <2>1, NextOneAnswer
  <1> QED
    BY <1>1, <1>2, WayInvariance, PTL DEF GSpec, WayInv, OneAnswerEach, RR!RRSafety

------------------------------------------------------------------------------
(* What a client has heard was answered. *)
HeardWasAnswered ==
    \A b \in DOMAIN heard : \A a \in heard[b] : \E x \in DOMAIN answers : RequestOf(x) = a

(* An account that an answer names is that of the login asked for. *)
AnswersAreAccounts ==
    \A x \in DOMAIN answers : answers[x].id # U!NoId =>
        /\ answers[x].id \in DOMAIN clients
        /\ clients[answers[x].id].login = wanted[RequestOf(x)].l
        /\ wanted[RequestOf(x)].l \notin overlapped =>
              clients[answers[x].id].pw = wanted[RequestOf(x)].p

(* No registration of the account was answered before b was sent. *)
NoAccountBefore(b) ==
    \A x \in DOMAIN answers :
        ~ /\ jobs[answers[x].task].c = "reg" /\ answers[x].id # U!NoId
          /\ RequestOf(x) \in heard[b]
          /\ wanted[RequestOf(x)] = wanted[b] /\ wanted[b].l \notin overlapped

(* Who is about to be refused had no account when it asked, or its query failed. *)
RefusedRightly ==
    \A t \in PoolThreads :
        /\ U!At(t, "answer") /\ uc[t].op = "auth" /\ uc[t].id = U!NoId
        /\ exec[t] \notin failed
        => NoAccountBefore(Req(exec[t]))

(* So had who was refused, unless it was a mismatch. *)
AnsweredRightly ==
    \A y \in DOMAIN answers :
        /\ jobs[answers[y].task].c = "auth" /\ answers[y].task \notin refused \cup failed
        /\ answers[y].id = U!NoId
        => NoAccountBefore(RequestOf(y))

AccountsInv ==
    /\ UP!ToldIdIsStored /\ UP!Inv3
    /\ HeardWasAnswered /\ AnswersAreAccounts /\ RefusedRightly /\ AnsweredRightly

(* Every other request for the user of b was answered before b was sent. *)
Latest(b) == \A a \in DOMAIN wanted \ {b} : wanted[a].l = wanted[b].l => a \in heard[b]

Bound(id, s) == id \in DOMAIN idClients /\ idClients[id] = s

(* Who is about to be told the id of the user is bound to it, ... *)
LatestIsBound ==
    \A t \in PoolThreads :
        /\ U!At(t, "answer") /\ uc[t].id # U!NoId /\ exec[t] \notin contended
        /\ Latest(Req(exec[t]))
        => Bound(uc[t].id, uc[t].s)

(* ... and stays so. *)
ToldIsBound ==
    \A y \in DOMAIN answers :
        /\ answers[y].id # U!NoId /\ answers[y].task \notin contended
        /\ Latest(RequestOf(y))
        => Bound(answers[y].id, jobs[answers[y].task].s)

BindingInv == LatestIsBound /\ ToldIsBound

LEMMA UserNext ==
    ASSUME PartsInv, LinkInv, [GNext]_gvars
    PROVE  [UP!Next]_(UP!vars)
  BY UserSteps DEF gvars, userVars, UP!vars

(* Accounts, and what was overlapped, contended or failed, stay. *)
LEMMA UsersGrow ==
    ASSUME PartsInv, LinkInv, GNext
    PROVE  /\ \A i \in DOMAIN clients : i \in DOMAIN clients' /\ clients'[i] = clients[i]
           /\ overlapped \subseteq overlapped' /\ contended \subseteq contended'
           /\ failed \subseteq failed'
  <1>1. \A i \in DOMAIN clients : i \in DOMAIN clients' /\ clients'[i] = clients[i]
    BY Assumed, UserNext, UP!TableGrows DEF PartsInv, UP!Inv1
  <1>2. ASSUME NEW t \in PoolThreads, Work(t)
        PROVE  /\ overlapped \subseteq overlapped' /\ contended \subseteq contended'
               /\ failed \subseteq failed'
    <2>1. UP!UserStep(t) /\ contended \subseteq contended' /\ failed \subseteq failed'
      BY <1>2, SameUsers DEF Work
    <2> QED
      BY <2>1 DEF UP!UserStep, UP!RegLookup, UP!RegInsert, UP!RegReread, UP!AuthCheck, UP!Push,
         UP!Answer, UP!historyVars
  <1>3. ASSUME NEW t \in PoolThreads, Give(t) PROVE UNCHANGED <<overlapped, contended, failed>>
    BY <1>3 DEF Give, U!Answer
  <1>4. ASSUME NEW t \in PoolThreads, Serve(t) PROVE UNCHANGED <<overlapped, contended, failed>>
    BY <1>4 DEF Serve, U!Reg, U!Auth, U!StartCall, U!historyVars, userVars
  <1>5. overlapped \subseteq overlapped' /\ contended \subseteq contended' /\ failed \subseteq failed'
    BY <1>2, <1>3, <1>4, ClientsKeep, NetworkKeeps, ThreadsKeep, QueueKeeps
       DEF GNext, ServerStep, EngineStep, Clientele, userVars
  <1> QED
    BY <1>1, <1>5

(* The request that a thread answers was not answered, nor heard of. *)
LEMMA NewAnswer ==
    ASSUME PartsInv, LinkInv, HeardWasAnswered, GNext, NEW t \in PoolThreads, NEW n, NEW id,
           Pushes(t, n, id)
    PROVE  /\ RequestOf(n)' = Req(exec[t])
           /\ \A b \in DOMAIN heard : Req(exec[t]) \notin heard[b]
  <1>1. exec[t] \in posted /\ ~Replied(exec[t]) /\ answers'[n].task = exec[t]
    BY DEF Pushes
  <1>2. jobs'[exec[t]] = jobs[exec[t]]
    BY <1>1, Kept
  <1>3. RequestOf(n)' = Req(exec[t])
    BY <1>1, <1>2 DEF RequestOf, Req
  <1>4. \A x \in DOMAIN answers : RequestOf(x) # Req(exec[t])
    BY <1>1, AnswersAreRequests, Requests DEF Replied, PartsInv, SessionInv, LinkInv
  <1> QED
    BY <1>3, <1>4 DEF HeardWasAnswered

LEMMA NextHeard ==
    ASSUME PartsInv, LinkInv, HeardWasAnswered, GNext
    PROVE  HeardWasAnswered'
  <1>1. \A x \in DOMAIN answers : x \in DOMAIN answers' /\ RequestOf(x)' = RequestOf(x)
    BY AnswersKept
  <1>2. CASE UNCHANGED heard
    BY <1>1, <1>2 DEF HeardWasAnswered
  <1>3. ASSUME NEW h, heard' = Append(heard, h), \A a \in h : \E x \in DOMAIN answers : RequestOf(x) = a
        PROVE  HeardWasAnswered'
    <2>1. heard \in Seq(SUBSET Nat)
      BY DEF LinkInv, LinkTypes
    <2>2. \A b \in DOMAIN heard' : heard'[b] = h \/ (b \in DOMAIN heard /\ heard'[b] = heard[b])
      BY <1>3, <2>1
    <2>3. \A b \in DOMAIN heard' : \A a \in heard'[b] : \E x \in DOMAIN answers : RequestOf(x) = a
      BY <1>3, <2>2 DEF HeardWasAnswered
    <2> QED
      BY <1>1, <2>3 DEF HeardWasAnswered
  <1>4. ASSUME NEW s \in Sessions, NEW c, NEW k, NEW l, NEW p, SendRequest(s, c, k, l, p)
        PROVE  HeardWasAnswered'
    <2>1. PICK h : h = UNION {AnsweredOn(r) : r \in Sessions}
      OBVIOUS
    <2>2. \A a \in h : \E x \in DOMAIN answers : RequestOf(x) = a
      BY <2>1, SentAreAnswers DEF AnsweredOn
    <2> QED
      BY <1>3, <1>4, <2>1, <2>2 DEF SendRequest
  <1> QED
    BY <1>2, <1>4, ClientsKeep, NetworkKeeps, ThreadsKeep, QueueKeeps
       DEF GNext, ServerStep, EngineStep, Clientele, askVars

LEMMA NextAccounts ==
    ASSUME PartsInv, LinkInv, AccountsInv, GNext
    PROVE  AnswersAreAccounts'
  <1>0. AnswersAreAccounts
    BY DEF AccountsInv
  <1>1. \A x \in DOMAIN answers :
          /\ x \in DOMAIN answers' /\ answers'[x] = answers[x] /\ RequestOf(x)' = RequestOf(x)
          /\ wanted'[RequestOf(x)] = wanted[RequestOf(x)]
    BY AnswersKept, AnswersAreRequests, Kept
  <1>2. \A x \in DOMAIN answers : answers'[x].id # U!NoId =>
          /\ answers'[x].id \in DOMAIN clients'
          /\ clients'[answers'[x].id].login = wanted'[RequestOf(x)'].l
          /\ wanted'[RequestOf(x)'].l \notin overlapped' =>
                clients'[answers'[x].id].pw = wanted'[RequestOf(x)'].p
    BY <1>0, <1>1, UsersGrow DEF AnswersAreAccounts
  <1>3. CASE UNCHANGED answers
    BY <1>2, <1>3 DEF AnswersAreAccounts, U!NoId
  <1>4. ASSUME NEW t \in PoolThreads, NEW n, NEW id, Pushes(t, n, id),
               id # U!NoId => /\ id \in DOMAIN clients
                              /\ clients[id].login = wanted[Req(exec[t])].l
                              /\ wanted[Req(exec[t])].l \notin overlapped =>
                                    clients[id].pw = wanted[Req(exec[t])].p
        PROVE  AnswersAreAccounts'
    <2>1. RequestOf(n)' = Req(exec[t]) /\ wanted'[Req(exec[t])] = wanted[Req(exec[t])]
      BY <1>4, NewAnswer, Kept, Requests DEF AccountsInv, Pushes, PartsInv, SessionInv, LinkInv
    <2>2. answers'[n].id # U!NoId =>
          /\ answers'[n].id \in DOMAIN clients'
          /\ clients'[answers'[n].id].login = wanted'[RequestOf(n)'].l
          /\ wanted'[RequestOf(n)'].l \notin overlapped' =>
                clients'[answers'[n].id].pw = wanted'[RequestOf(n)'].p
      BY <1>4, <2>1, UsersGrow DEF Pushes
    <2> QED
      BY <1>2, <1>4, <2>2 DEF AnswersAreAccounts, Pushes, U!NoId
  <1>5. ASSUME NEW t \in PoolThreads, Refuse(t) PROVE AnswersAreAccounts'
    BY <1>4, <1>5, Pushing
  <1>6. ASSUME NEW t \in PoolThreads, Give(t) PROVE AnswersAreAccounts'
    <2>1. PICK n : Pushes(t, n, uc[t].id)
      BY <1>6, Pushing
    <2>2. /\ UP!At(t, "answer") /\ uc[t] # U!Idle
          /\ uc[t].l = wanted[Req(exec[t])].l /\ uc[t].p = wanted[Req(exec[t])].p
      BY <1>6, SameUsers DEF Give, U!Answer, U!At, U!Idle, UP!At, LinkInv, WorkFits
    <2>3. uc[t].id # U!NoId => uc[t].id \in DOMAIN clients /\ clients[uc[t].id].login = uc[t].l
      BY <2>2, SameUsers DEF UP!At, PartsInv, UP!Inv1, UP!CallOK
    <2>4. uc[t].l \in Logins
      BY <2>2, SameUsers DEF PartsInv, UP!Inv1, UP!TypeOK, UP!Calls
    <2>5. uc[t].id # U!NoId /\ uc[t].l \notin overlapped => clients[uc[t].id].pw = uc[t].p
      BY <2>2, <2>4, SameUsers DEF AccountsInv, UP!Inv3, UP!RowPassword, UP!Handles, UP!At
    <2> QED
      BY <1>4, <2>1, <2>2, <2>3, <2>5
  <1> QED
    BY <1>3, <1>5, <1>6, ClientsKeep, NetworkKeeps, ThreadsKeep, QueueKeeps
       DEF GNext, ServerStep, EngineStep, Clientele, tellVars

(* What had no account answered before it was sent will not have one. *)
LEMMA NoAccountStays ==
    ASSUME PartsInv, LinkInv, AccountsInv, GNext, NEW b \in DOMAIN heard, NoAccountBefore(b)
    PROVE  NoAccountBefore(b)'
  <1>1. \A x \in DOMAIN answers :
          /\ x \in DOMAIN answers' /\ answers'[x] = answers[x] /\ RequestOf(x)' = RequestOf(x)
          /\ wanted'[RequestOf(x)] = wanted[RequestOf(x)]
          /\ jobs'[answers[x].task] = jobs[answers[x].task]
    BY AnswersKept, AnswersAreRequests, Kept
  <1>2. b \in DOMAIN wanted /\ wanted'[b] = wanted[b] /\ heard'[b] = heard[b]
    BY Kept DEF LinkInv, LinkTypes
  <1>3. \A x \in DOMAIN answers :
          ~ /\ jobs'[answers'[x].task].c = "reg" /\ answers'[x].id # U!NoId
            /\ RequestOf(x)' \in heard'[b]
            /\ wanted'[RequestOf(x)'] = wanted'[b] /\ wanted'[b].l \notin overlapped'
    BY <1>1, <1>2, UsersGrow DEF NoAccountBefore
  <1>4. \A x \in DOMAIN answers' \ DOMAIN answers : RequestOf(x)' \notin heard'[b]
    <2>1. ASSUME NEW t \in PoolThreads, NEW n, NEW id, Pushes(t, n, id)
          PROVE  \A x \in DOMAIN answers' \ DOMAIN answers : RequestOf(x)' \notin heard'[b]
      <3>1. RequestOf(n)' \notin heard'[b]
        BY <1>2, <2>1, NewAnswer DEF AccountsInv
      <3>2. \A x \in DOMAIN answers' \ DOMAIN answers : x = n
        BY <2>1 DEF Pushes
      <3> QED
        BY <3>1, <3>2
    <2> QED
      BY <2>1, Pushing, ClientsKeep, NetworkKeeps, ThreadsKeep, QueueKeeps
         DEF GNext, ServerStep, EngineStep, Clientele, tellVars
  <1> QED
    BY <1>3, <1>4 DEF NoAccountBefore, U!NoId

(* The password of the one account of a login decides, without an error. *)
LEMMA Refusing ==
    ASSUME PartsInv, LinkInv, AccountsInv, NEW t \in PoolThreads, Work(t),
           UP!At(t, "answer")', uc'[t].op = "auth", uc'[t].id = U!NoId, exec[t] \notin failed'
    PROVE  NoAccountBefore(Req(exec[t]))
  <1>1. UP!UserStep(t) /\ uc[t] # U!Idle /\ uc[t].op = "auth" /\ ~UP!At(t, "answer")
    BY Working, SameUsers DEF Work
  <1>2. DOMAIN uc = PoolThreads /\ UP!CallOK(t)
    BY DEF PartsInv, UP!Inv1, UP!TypeOK
  <1>3. UP!AuthCheck(t)
    <2>1. ~UP!At(t, "push")
      <3>1. ASSUME UP!Push(t) PROVE FALSE
        BY <1>2, <3>1, SameUsers DEF UP!Push, UP!Advance, UP!At, UP!CallOK
      <3> QED
        BY <1>1, <3>1 DEF UP!UserStep, UP!RegLookup, UP!RegInsert, UP!RegReread, UP!AuthCheck,
           UP!Answer, UP!At
    <2>2. uc[t].pc \notin UP!RegPcs
      BY <1>1, <1>2 DEF UP!CallOK
    <2> QED
      BY <1>1, <2>1, <2>2 DEF UP!UserStep, UP!RegLookup, UP!RegInsert, UP!RegReread, UP!Push,
         UP!Answer, UP!At, UP!RegPcs
  <1>4. /\ uc[t].l = wanted[Req(exec[t])].l /\ uc[t].p = wanted[Req(exec[t])].p
        /\ uc[t].l \in Logins
    BY <1>1, SameUsers DEF LinkInv, WorkFits, PartsInv, UP!Inv1, UP!TypeOK, UP!Calls
  <1>5. PICK r : /\ UP!SelectId(UP!IdsOf(uc[t].l), r)
                 /\ LET id == IF UP!Accepted(r, uc[t].p) THEN r ELSE UP!NoId
                    IN  UP!Advance(t, UP!AfterId(id), id)
    BY <1>3 DEF UP!AuthCheck
  <1>6. ~UP!Accepted(r, uc[t].p)
    BY <1>2, <1>5, SameUsers DEF UP!Advance, UP!Accepted
  <1>7. r \in UP!IdsOf(uc[t].l) \/ UP!IdsOf(uc[t].l) = {}
    <2>1. errors' = errors /\ errors \in Nat
      BY DEF Work, PartsInv, UP!Inv1, UP!TypeOK
    <2> QED
      BY <1>5, <2>1 DEF UP!SelectId
  <1>8. ASSUME NEW x \in DOMAIN answers,
               jobs[answers[x].task].c = "reg", answers[x].id # U!NoId,
               wanted[RequestOf(x)] = wanted[Req(exec[t])], uc[t].l \notin overlapped
        PROVE  FALSE
    <2>1. PICK i : i = answers[x].id
      OBVIOUS
    <2>2. i \in DOMAIN clients /\ clients[i].login = uc[t].l /\ clients[i].pw = uc[t].p
      BY <1>4, <1>8, <2>1 DEF AccountsInv, AnswersAreAccounts
    <2>3. i \in UP!IdsOf(uc[t].l)
      BY <2>2 DEF UP!IdsOf
    <2>4. \A j, k \in UP!IdsOf(uc[t].l) : j = k
      BY <1>4, <1>8 DEF AccountsInv, UP!Inv3, UP!OneRow
    <2>5. r = i
      BY <1>7, <2>3, <2>4
    <2> QED
      BY <1>6, <1>8, <2>1, <2>2, <2>5, SameUsers DEF UP!Accepted
  <1> QED
    BY <1>4, <1>8 DEF NoAccountBefore

(* Who is about to answer was so before, or is now by a step of its own. *)
LEMMA Answering ==
    ASSUME PartsInv, LinkInv, GNext, NEW v \in PoolThreads, uc'[v].pc = "answer"
    PROVE  /\ uc'[v] = uc[v] \/ Work(v)
           /\ uc[v] # U!Idle /\ exec[v] \in posted /\ exec'[v] = exec[v]
           /\ Req(exec[v])' = Req(exec[v]) /\ Req(exec[v]) \in DOMAIN heard
           /\ uc'[v].s = uc[v].s /\ uc'[v].l = uc[v].l
           /\ jobs'[exec[v]] = jobs[exec[v]]
  <1>1. DOMAIN uc = PoolThreads /\ DOMAIN exec = PoolThreads
    BY DEF PartsInv, UP!Inv1, UP!TypeOK, SessionInv, PoolInv, PoolTypeOK
  <1>2. ASSUME NEW t \in PoolThreads, Serve(t), t # v
        PROVE  uc'[v] = uc[v] /\ exec'[v] = exec[v]
    BY <1>1, <1>2, Serving DEF Serves, Calls, Refuses, userVars, U!Reg, U!Auth, U!StartCall
  <1>3. ~Serve(v)
    <2>1. ASSUME NEW x, Serves(v, x) PROVE uc'[v].pc # "answer"
      BY <1>1, <2>1 DEF Serves, Calls, Refuses, userVars, U!Reg, U!Auth, U!StartCall, U!Idle
    <2> QED
      BY <2>1, Serving
  <1>4. ASSUME NEW t \in PoolThreads, Give(t) PROVE uc'[v] = uc[v] /\ exec'[v] = exec[v]
    BY <1>1, <1>4, ThreadsKeep DEF Give, U!Answer, U!Idle, workVars
  <1>5. ASSUME NEW t \in PoolThreads, EndRequest(t) PROVE uc'[v] = uc[v] /\ exec'[v] = exec[v]
    <2>1. UNCHANGED uc /\ exec' = [exec EXCEPT ![t] = NoTask]
      BY <1>5, ThreadsKeep DEF userVars, EndRequest, FinishRequest, Finish, LeavesTask
    <2>2. v # t
      BY <1>5, <2>1 DEF EndRequest, LinkInv, WorkFits, U!Idle
    <2> QED
      BY <1>1, <2>1, <2>2
  <1>6. ASSUME NEW t \in PoolThreads, Work(t)
        PROVE  (uc'[v] = uc[v] \/ t = v) /\ exec'[v] = exec[v]
    BY <1>6, Working, ThreadsKeep DEF workVars
  <1>7. (uc'[v] = uc[v] \/ Work(v)) /\ exec'[v] = exec[v]
    BY <1>2, <1>3, <1>4, <1>5, <1>6, ClientsKeep, NetworkKeeps, ThreadsKeep, QueueKeeps
       DEF GNext, ServerStep, EngineStep, Clientele, workVars, userVars
  <1>8. uc[v] # U!Idle /\ uc'[v].s = uc[v].s /\ uc'[v].l = uc[v].l
    BY <1>7, Working DEF U!Idle
  <1>9. exec[v] \in posted
    BY <1>8 DEF LinkInv, WorkFits, PartsInv, SessionInv, NetInv, NetTypes
  <1>10. jobs'[exec[v]] = jobs[exec[v]] /\ Req(exec[v])' = Req(exec[v])
    BY <1>7, <1>9, Kept DEF Req
  <1>11. Req(exec[v]) \in DOMAIN heard
    BY <1>9, Requests DEF PartsInv, SessionInv, LinkInv, LinkTypes
  <1> QED
    BY <1>7, <1>8, <1>9, <1>10, <1>11

LEMMA NextRefused ==
    ASSUME PartsInv, LinkInv, AccountsInv, GNext
    PROVE  RefusedRightly'
  <1> SUFFICES ASSUME NEW v \in PoolThreads,
                      uc'[v].pc = "answer", uc'[v].op = "auth", uc'[v].id = U!NoId,
                      exec'[v] \notin failed'
               PROVE  NoAccountBefore(Req(exec[v]))'
    BY DEF RefusedRightly, U!At, U!NoId
  <1>1. PICK b \in DOMAIN heard : b = Req(exec[v]) /\ Req(exec[v])' = b
    BY Answering
  <1>2. NoAccountBefore(b)
    <2>1. exec[v] \notin failed' /\ exec[v] \notin failed
      BY Answering, UsersGrow
    <2>2. CASE uc'[v] = uc[v]
      BY <1>1, <2>1, <2>2 DEF AccountsInv, RefusedRightly, U!At
    <2>3. CASE Work(v)
      BY <1>1, <2>1, <2>3, Refusing DEF UP!At
    <2> QED
      BY <2>2, <2>3, Answering
  <1>3. NoAccountBefore(b)'
    BY <1>2, NoAccountStays
  <1> QED
    BY <1>1, <1>3 DEF NoAccountBefore

LEMMA NextAnswered ==
    ASSUME PartsInv, LinkInv, AccountsInv, GNext
    PROVE  AnsweredRightly'
  <1>1. ASSUME NEW y \in DOMAIN answers,
               jobs'[answers'[y].task].c = "auth", answers'[y].task \notin refused' \cup failed',
               answers'[y].id = U!NoId
        PROVE  NoAccountBefore(RequestOf(y))'
    <2>1. /\ answers'[y] = answers[y] /\ RequestOf(y)' = RequestOf(y)
          /\ jobs'[answers[y].task] = jobs[answers[y].task] /\ RequestOf(y) \in DOMAIN heard
      BY AnswersKept, AnswersAreRequests, Kept DEF LinkInv, LinkTypes
    <2>2. refused \subseteq refused'
      <3>1. ASSUME NEW t \in PoolThreads, Serve(t) PROVE refused \subseteq refused'
        BY <3>1, Serving DEF Serves, Calls, Refuses
      <3> QED
        BY <3>1, ClientsKeep, NetworkKeeps, ThreadsKeep, QueueKeeps
           DEF GNext, ServerStep, EngineStep, Clientele, workVars
    <2>3. NoAccountBefore(RequestOf(y))
      BY <1>1, <2>1, <2>2, UsersGrow DEF AccountsInv, AnsweredRightly
    <2>4. PICK b \in DOMAIN heard : b = RequestOf(y) /\ RequestOf(y)' = b
      BY <2>1
    <2>5. NoAccountBefore(b)'
      BY <2>3, <2>4, NoAccountStays
    <2> QED
      BY <2>4, <2>5 DEF NoAccountBefore
  <1>2. CASE UNCHANGED answers
    BY <1>1, <1>2 DEF AnsweredRightly, U!NoId
  <1>3. ASSUME NEW t \in PoolThreads, NEW n, NEW id, Pushes(t, n, id),
               jobs[exec[t]].c = "auth" /\ exec[t] \notin refused \cup failed /\ id = U!NoId
               => NoAccountBefore(Req(exec[t])),
               UNCHANGED <<refused, failed>>
        PROVE  AnsweredRightly'
    <2>1. /\ exec[t] \in posted /\ jobs'[exec[t]] = jobs[exec[t]]
          /\ answers'[n].task = exec[t] /\ answers'[n].id = id
          /\ DOMAIN answers' = DOMAIN answers \cup {n}
      BY <1>3, Kept DEF Pushes
    <2>2. PICK b \in DOMAIN heard : b = Req(exec[t])
      BY <2>1, Requests DEF PartsInv, SessionInv, LinkInv, LinkTypes
    <2>3. RequestOf(n)' = b
      BY <1>3, <2>2, NewAnswer DEF AccountsInv
    <2>4. ASSUME jobs'[answers'[n].task].c = "auth",
                 answers'[n].task \notin refused' \cup failed', answers'[n].id = U!NoId
          PROVE  NoAccountBefore(RequestOf(n))'
      <3>1. NoAccountBefore(b)'
        BY <1>3, <2>1, <2>2, <2>4, NoAccountStays
      <3> QED
        BY <2>3, <3>1 DEF NoAccountBefore
    <2> QED
      BY <1>1, <2>1, <2>4 DEF AnsweredRightly, U!NoId
  <1>4. ASSUME NEW t \in PoolThreads, Give(t) PROVE AnsweredRightly'
    <2>1. PICK n : Pushes(t, n, uc[t].id)
      BY <1>4, Pushing
    <2>2. U!At(t, "answer") /\ uc[t].op = jobs[exec[t]].c
      BY <1>4 DEF Give, U!Answer, U!At, U!Idle, LinkInv, WorkFits
    <2>3. UNCHANGED <<refused, failed>>
      BY <1>4, ThreadsKeep DEF workVars, Give
    <2> QED
      BY <1>3, <2>1, <2>2, <2>3 DEF AccountsInv, RefusedRightly
  <1>5. ASSUME NEW t \in PoolThreads, Refuse(t) PROVE AnsweredRightly'
    BY <1>3, <1>5, Pushing, ThreadsKeep DEF workVars, userVars
  <1> QED
    BY <1>2, <1>4, <1>5, ClientsKeep, NetworkKeeps, ThreadsKeep, QueueKeeps
       DEF GNext, ServerStep, EngineStep, Clientele, tellVars

LEMMA InitAccountsInv == GInit => AccountsInv
  <1> SUFFICES ASSUME GInit PROVE AccountsInv
    OBVIOUS
  <1> USE DEF GInit
  <1>1. UP!ToldIdIsStored
    BY DEF UP!ToldIdIsStored
  <1>2. UP!Inv3
    BY SameUsers DEF UP!Inv3, UP!OneRow, UP!RowPassword, UP!Handles, UP!IdsOf, UP!Idle
  <1>3. RefusedRightly
    BY DEF RefusedRightly, U!At, U!Idle
  <1> QED
    BY <1>1, <1>2, <1>3 DEF AccountsInv, HeardWasAnswered, AnswersAreAccounts, AnsweredRightly

LEMMA KeepAccountsInv ==
    ASSUME AccountsInv, UNCHANGED gvars
    PROVE  HeardWasAnswered' /\ AnswersAreAccounts' /\ RefusedRightly' /\ AnsweredRightly'
  <1>1. UNCHANGED <<answers, wanted, heard, jobs, refused, failed, clients, overlapped, uc, exec>>
    BY DEF gvars, svars, poolVars, netVars, callVars, userVars, linkVars
  <1>2. HeardWasAnswered'
    BY <1>1 DEF AccountsInv, HeardWasAnswered, RequestOf
  <1>3. AnswersAreAccounts'
    BY <1>1 DEF AccountsInv, AnswersAreAccounts, RequestOf, U!NoId
  <1>4. RefusedRightly'
    BY <1>1 DEF AccountsInv, RefusedRightly, NoAccountBefore, RequestOf, Req, U!NoId, U!At
  <1>5. AnsweredRightly'
    BY <1>1 DEF AccountsInv, AnsweredRightly, NoAccountBefore, RequestOf, U!NoId
  <1> QED
    BY <1>2, <1>3, <1>4, <1>5

LEMMA NextAccountsInv == PartsInv /\ LinkInv /\ AccountsInv /\ [GNext]_gvars => AccountsInv'
  <1> SUFFICES ASSUME PartsInv, LinkInv, AccountsInv, [GNext]_gvars PROVE AccountsInv'
    OBVIOUS
  <1>1. UP!ToldIdIsStored'
    BY UserNext, Assumed, UP!NextTold DEF PartsInv, AccountsInv
  <1>2. UP!Inv3'
    BY UserNext, Assumed, UP!NextInv3 DEF PartsInv, AccountsInv
  <1>3. HeardWasAnswered' /\ AnswersAreAccounts' /\ RefusedRightly' /\ AnsweredRightly'
    BY KeepAccountsInv, NextHeard, NextAccounts, NextRefused, NextAnswered DEF AccountsInv
  <1> QED
    BY <1>1, <1>2, <1>3 DEF AccountsInv

LEMMA AccountsInvariance == GSpec => []AccountsInv
  <1>1. WayInv /\ AccountsInv /\ [GNext]_gvars => AccountsInv'
    BY NextAccountsInv DEF WayInv
  <1> QED
    BY InitAccountsInv, <1>1, WayInvariance, PTL DEF GSpec

(***************************************************************************)
(* Over whatever connections and threads: who registers, waits for the id  *)
(* and then authorises, is accepted, but for an authorisation whose own    *)
(* query failed and a login whose registrations overlapped or had a query  *)
(* fail.                                                                   *)
(***************************************************************************)
THEOREM RegisteredAreAccepted == GSpec => []RegisteredIsAccepted
  <1>1. AnsweredRightly => RegisteredIsAccepted
    BY DEF AnsweredRightly, NoAccountBefore, RegisteredIsAccepted
  <1> QED
    BY <1>1, AccountsInvariance, PTL DEF AccountsInv

------------------------------------------------------------------------------
(* Only a call for the same user binds its id, and the latest is alone. *)

LEMMA OnlyCall ==
    ASSUME PartsInv, LinkInv, HeardWasAnswered, NEW w \in PoolThreads, uc[w] # U!Idle,
           NEW b \in DOMAIN heard, Latest(b), uc[w].l = wanted[b].l
    PROVE  Req(exec[w]) = b
  <1>1. exec[w] \in posted /\ ~Replied(exec[w]) /\ uc[w].l = wanted[Req(exec[w])].l
    BY DEF LinkInv, WorkFits, PartsInv, SessionInv, NetInv, NetTypes
  <1>2. Req(exec[w]) \in DOMAIN wanted
    BY <1>1, Requests DEF PartsInv, SessionInv, LinkInv
  <1>3. \A x \in DOMAIN answers : RequestOf(x) # Req(exec[w])
    BY <1>1, AnswersAreRequests, Requests DEF Replied, PartsInv, SessionInv, LinkInv
  <1> QED
    BY <1>1, <1>2, <1>3 DEF Latest, HeardWasAnswered

LEMMA LatestBefore ==
    ASSUME PartsInv, LinkInv, GNext, NEW b \in DOMAIN heard, Latest(b)'
    PROVE  Latest(b)
  BY Kept DEF Latest, LinkInv, LinkTypes

(* A binding that another call does not overwrite stays. *)
LEMMA BindingStays ==
    ASSUME PartsInv, LinkInv, GNext, NEW id, NEW s, Bound(id, s),
           \A w \in PoolThreads : U!At(w, "push") /\ Work(w) => uc[w].id # id
    PROVE  Bound(id, s)'
  <1>1. CASE UNCHANGED idClients
    BY <1>1 DEF Bound
  <1>2. ASSUME NEW w \in PoolThreads, Work(w) PROVE Bound(id, s)'
    <2>1. UP!UserStep(w)
      BY <1>2, SameUsers DEF Work
    <2>2. CASE UP!Push(w)
      <3>1. uc[w].id # id
        BY <1>2, <2>2, SameUsers DEF UP!Push
      <3>2. CASE UP!Bind(uc[w].id, uc[w].s)
        BY <3>1, <3>2 DEF UP!Bind, Bound
      <3> QED
        BY <1>1, <2>2, <3>2 DEF UP!Push
    <2> QED
      BY <1>1, <2>1, <2>2 DEF UP!UserStep, UP!RegLookup, UP!RegInsert, UP!RegReread, UP!AuthCheck,
         UP!Answer
  <1>3. ASSUME NEW t \in PoolThreads, Serve(t) PROVE UNCHANGED idClients
    BY <1>3 DEF Serve, U!Reg, U!Auth, U!StartCall, userVars
  <1>4. ASSUME NEW t \in PoolThreads, Give(t) PROVE UNCHANGED idClients
    BY <1>4 DEF Give, U!Answer
  <1> QED
    BY <1>1, <1>2, <1>3, <1>4, ClientsKeep, NetworkKeeps, ThreadsKeep, QueueKeeps
       DEF GNext, ServerStep, EngineStep, Clientele, userVars

(* What a thread pushes or answers with is the id of an account of its login. *)
LEMMA HeldIds ==
    ASSUME PartsInv, NEW w \in PoolThreads, U!At(w, "push") \/ U!At(w, "answer"), uc[w].id # U!NoId
    PROVE  uc[w].id \in DOMAIN clients /\ clients[uc[w].id].login = uc[w].l
  BY SameUsers DEF PartsInv, UP!Inv1, UP!CallOK, U!At

LEMMA NextLatestIsBound ==
    ASSUME PartsInv, LinkInv, AccountsInv, BindingInv, GNext
    PROVE  LatestIsBound'
  <1> SUFFICES ASSUME NEW v \in PoolThreads, uc'[v].pc = "answer", uc'[v].id # U!NoId,
                      exec'[v] \notin contended', Latest(Req(exec[v]))'
               PROVE  Bound(uc[v].id, uc[v].s)'
    BY DEF LatestIsBound, U!At, U!NoId
  <1>1. PICK b \in DOMAIN heard : b = Req(exec[v]) /\ Req(exec[v])' = b
    BY Answering
  <1>2. Latest(b)
    <2>1. Latest(b)'
      BY <1>1 DEF Latest
    <2> QED
      BY <2>1, LatestBefore
  <1>3. exec[v] \notin contended'
    BY Answering
  <1>4. CASE uc'[v] = uc[v]
    <2>1. U!At(v, "answer") /\ uc[v] # U!Idle /\ uc[v].id # U!NoId /\ exec[v] \notin contended
      BY <1>3, <1>4, UsersGrow DEF U!At, U!Idle
    <2>2. Bound(uc[v].id, uc[v].s)
      BY <1>1, <1>2, <2>1 DEF BindingInv, LatestIsBound
    <2>3. \A w \in PoolThreads : U!At(w, "push") /\ Work(w) => uc[w].id # uc[v].id
      <3> SUFFICES ASSUME NEW w \in PoolThreads, U!At(w, "push"), uc[w].id = uc[v].id PROVE FALSE
        OBVIOUS
      <3>1. uc[w].l = uc[v].l
        BY <2>1, HeldIds
      <3>2. uc[v].l = wanted[b].l
        BY <1>1, <2>1 DEF LinkInv, WorkFits
      <3>3. uc[w] # U!Idle
        BY DEF U!At, U!Idle
      <3>4. Req(exec[w]) = Req(exec[v])
        BY <1>1, <1>2, <3>1, <3>2, <3>3, OnlyCall DEF AccountsInv
      <3>5. exec[w] \in called /\ exec[v] \in called
        BY <2>1, <3>3 DEF LinkInv, WorkFits
      <3>6. exec[w] \in posted /\ exec[v] \in posted
        BY <3>5 DEF PartsInv, SessionInv, NetInv, NetTypes
      <3>7. exec[w] = exec[v]
        BY <3>4, <3>6, Requests DEF PartsInv, SessionInv, LinkInv
      <3>8. w = v
        BY <3>6, <3>7, PoolAssumption
           DEF PartsInv, SessionInv, PoolInv, PoolTypeOK, TaskPlaces, InTask
      <3> QED
        BY <2>1, <3>8 DEF U!At
    <2>4. PICK id, s : id = uc[v].id /\ s = uc[v].s
      OBVIOUS
    <2>5. Bound(id, s)'
      BY <2>2, <2>3, <2>4, BindingStays
    <2> QED
      BY <1>4, <2>4, <2>5 DEF Bound
  <1>5. CASE Work(v)
    <2>1. UP!UserStep(v) /\ ~UP!At(v, "answer") /\ DOMAIN uc = PoolThreads
      BY <1>5, SameUsers DEF Work, PartsInv, UP!Inv1, UP!TypeOK
    <2>2. UP!Push(v)
      <3>1. \A pc, id : UP!Advance(v, pc, id) => pc = "answer" /\ id # U!NoId
        BY <2>1 DEF UP!Advance
      <3>2. ~UP!RegLookup(v)
        BY <3>1, SameUsers DEF UP!RegLookup, UP!NoId
      <3>3. ~UP!RegInsert(v)
        BY <3>1, SameUsers DEF UP!RegInsert
      <3>4. ~UP!RegReread(v)
        BY <3>1, SameUsers DEF UP!RegReread, UP!AfterId
      <3>5. ~UP!AuthCheck(v)
        <4>1. ASSUME NEW id, UP!Advance(v, UP!AfterId(id), id) PROVE FALSE
          BY <3>1, <4>1, SameUsers DEF UP!AfterId
        <4> QED
          BY <4>1 DEF UP!AuthCheck
      <3> QED
        BY <2>1, <3>2, <3>3, <3>4, <3>5 DEF UP!UserStep, UP!Answer
    <2>3. uc'[v].id = uc[v].id /\ uc'[v].s = uc[v].s
      BY <2>1, <2>2 DEF UP!Push, UP!Advance
    <2>4. ~UP!PushContended(v)
      <3>1. U!At(v, "push")
        BY <2>2, SameUsers DEF UP!Push
      <3>2. ~U!PushContended(v)
        BY <1>3, <1>5, <3>1 DEF Work
      <3> QED
        BY <3>2 DEF U!PushContended, UP!PushContended
    <2> QED
      BY <2>2, <2>3, <2>4 DEF UP!Push, UP!Bind, Bound
  <1> QED
    BY <1>4, <1>5, Answering

(* A call that pushes the id of the latest request is the call for it. *)
LEMMA OnlyCallPushes ==
    ASSUME PartsInv, LinkInv, AccountsInv, NEW b \in DOMAIN heard, Latest(b),
           NEW id, id # U!NoId, id \in DOMAIN clients, clients[id].login = wanted[b].l,
           NEW w \in PoolThreads, U!At(w, "push"), uc[w].id = id
    PROVE  Req(exec[w]) = b /\ ~Replied(exec[w]) /\ exec[w] \in posted
  <1>1. uc[w] # U!Idle
    BY DEF U!At, U!Idle
  <1>2. uc[w].l = wanted[b].l
    BY HeldIds
  <1>3. exec[w] \in called /\ ~Replied(exec[w])
    BY <1>1 DEF LinkInv, WorkFits
  <1>4. exec[w] \in posted
    BY <1>3 DEF PartsInv, SessionInv, NetInv, NetTypes
  <1> QED
    BY <1>1, <1>2, <1>3, <1>4, OnlyCall DEF AccountsInv

LEMMA NextToldIsBound ==
    ASSUME PartsInv, LinkInv, AccountsInv, BindingInv, GNext
    PROVE  ToldIsBound'
  <1>1. ASSUME NEW y \in DOMAIN answers, answers'[y].id # U!NoId,
               answers'[y].task \notin contended', Latest(RequestOf(y))'
        PROVE  Bound(answers[y].id, jobs[answers[y].task].s)'
    <2>1. /\ answers'[y] = answers[y] /\ RequestOf(y)' = RequestOf(y)
          /\ RequestOf(y) \in DOMAIN heard /\ answers[y].task \in posted
          /\ jobs'[answers[y].task] = jobs[answers[y].task]
          /\ RequestOf(y) = Req(answers[y].task)
      BY AnswersKept, AnswersAreRequests, Kept DEF LinkInv, LinkTypes
    <2>2. PICK b, id, s : /\ b = RequestOf(y) /\ RequestOf(y)' = b /\ b \in DOMAIN heard
                          /\ id = answers[y].id /\ s = jobs[answers[y].task].s
      BY <2>1
    <2>3. Latest(b)
      <3>1. Latest(b)'
        BY <1>1, <2>2 DEF Latest
      <3> QED
        BY <2>2, <3>1, LatestBefore
    <2>4. id # U!NoId /\ answers[y].task \notin contended
      BY <1>1, <2>1, <2>2, UsersGrow
    <2>5. Bound(id, s)
      BY <2>2, <2>3, <2>4 DEF BindingInv, ToldIsBound
    <2>6. id \in DOMAIN clients /\ clients[id].login = wanted[b].l
      BY <2>2, <2>4 DEF AccountsInv, AnswersAreAccounts
    <2>7. \A w \in PoolThreads : U!At(w, "push") /\ Work(w) => uc[w].id # id
      <3> SUFFICES ASSUME NEW w \in PoolThreads, U!At(w, "push"), uc[w].id = id PROVE FALSE
        OBVIOUS
      <3>1. Req(exec[w]) = b /\ ~Replied(exec[w]) /\ exec[w] \in posted
        BY <2>2, <2>3, <2>4, <2>6, OnlyCallPushes
      <3>2. exec[w] = answers[y].task
        BY <2>1, <2>2, <3>1, Requests DEF PartsInv, SessionInv, LinkInv
      <3> QED
        BY <3>1, <3>2 DEF Replied
    <2>8. Bound(id, s)'
      BY <2>5, <2>7, BindingStays
    <2> QED
      BY <2>1, <2>2, <2>8 DEF Bound
  <1>2. CASE UNCHANGED answers
    BY <1>1, <1>2 DEF ToldIsBound, U!NoId
  <1>3. ASSUME NEW t \in PoolThreads, NEW n, NEW id, Pushes(t, n, id),
               id # U!NoId /\ exec[t] \notin contended' /\ Latest(Req(exec[t]))
               => id \in DOMAIN idClients' /\ idClients'[id] = jobs[exec[t]].s,
               Req(exec[t]) \in DOMAIN heard
        PROVE  ToldIsBound'
    <2>1. /\ exec[t] \in posted /\ jobs'[exec[t]] = jobs[exec[t]]
          /\ answers'[n].task = exec[t] /\ answers'[n].id = id
          /\ DOMAIN answers' = DOMAIN answers \cup {n}
      BY <1>3, Kept DEF Pushes
    <2>2. PICK b : b = Req(exec[t]) /\ b \in DOMAIN heard /\ RequestOf(n)' = b
      BY <1>3, NewAnswer DEF AccountsInv
    <2>3. ASSUME answers'[n].id # U!NoId, answers'[n].task \notin contended', Latest(RequestOf(n))'
          PROVE  Bound(answers[n].id, jobs[answers[n].task].s)'
      <3>1. Latest(b)'
        BY <2>2, <2>3 DEF Latest
      <3>2. Latest(b)
        BY <2>2, <3>1, LatestBefore
      <3>3. id \in DOMAIN idClients' /\ idClients'[id] = jobs[exec[t]].s
        BY <1>3, <2>1, <2>2, <2>3, <3>2
      <3> QED
        BY <2>1, <3>3 DEF Bound
    <2> QED
      BY <1>1, <2>1, <2>3 DEF ToldIsBound, U!NoId
  <1>4. ASSUME NEW t \in PoolThreads, Give(t) PROVE ToldIsBound'
    <2>1. PICK n : Pushes(t, n, uc[t].id)
      BY <1>4, Pushing
    <2>2. U!At(t, "answer") /\ uc[t].s = jobs[exec[t]].s /\ exec[t] \in posted
      BY <1>4, <2>1 DEF Give, U!Answer, U!At, U!Idle, LinkInv, WorkFits, Pushes
    <2>3. UNCHANGED <<idClients, contended, jobs, exec>>
      BY <1>4 DEF Give, U!Answer, Push, svars, netVars, poolVars
    <2>4. Req(exec[t]) \in DOMAIN heard
      BY <2>2, Requests DEF PartsInv, SessionInv, LinkInv, LinkTypes
    <2>5. ASSUME uc[t].id # U!NoId, exec[t] \notin contended', Latest(Req(exec[t]))
          PROVE  uc[t].id \in DOMAIN idClients /\ idClients[uc[t].id] = jobs[exec[t]].s
      BY <2>2, <2>3, <2>5 DEF BindingInv, LatestIsBound, Bound
    <2> QED
      BY <1>3, <2>1, <2>3, <2>4, <2>5
  <1>5. ASSUME NEW t \in PoolThreads, Refuse(t) PROVE ToldIsBound'
    <2>1. PICK n : Pushes(t, n, U!NoId)
      BY <1>5, Pushing
    <2>2. Req(exec[t]) \in DOMAIN heard
      BY <2>1, Requests DEF Pushes, PartsInv, SessionInv, LinkInv, LinkTypes
    <2> QED
      BY <1>3, <2>1, <2>2
  <1> QED
    BY <1>2, <1>4, <1>5, ClientsKeep, NetworkKeeps, ThreadsKeep, QueueKeeps
       DEF GNext, ServerStep, EngineStep, Clientele, tellVars

LEMMA KeepBindingInv ==
    ASSUME BindingInv, UNCHANGED gvars
    PROVE  BindingInv'
  <1>1. UNCHANGED <<answers, wanted, heard, jobs, contended, idClients, uc, exec>>
    BY DEF gvars, svars, poolVars, netVars, callVars, userVars, linkVars
  <1>2. LatestIsBound'
    BY <1>1 DEF BindingInv, LatestIsBound, U!At, U!NoId, Latest, Req, Bound
  <1>3. ToldIsBound'
    BY <1>1 DEF BindingInv, ToldIsBound, U!NoId, Latest, RequestOf, Bound
  <1> QED
    BY <1>2, <1>3 DEF BindingInv

LEMMA BindingInvariance == GSpec => []BindingInv
  <1>1. GInit => BindingInv
    BY DEF GInit, BindingInv, LatestIsBound, ToldIsBound, U!At, U!Idle
  <1>2. WayInv /\ AccountsInv /\ BindingInv /\ [GNext]_gvars => BindingInv'
    <2> SUFFICES ASSUME WayInv, AccountsInv, BindingInv, [GNext]_gvars PROVE BindingInv'
      OBVIOUS
    <2>1. CASE GNext
      BY <2>1, NextLatestIsBound, NextToldIsBound DEF WayInv, BindingInv
    <2> QED
      BY <2>1, KeepBindingInv
  <1> QED
    BY <1>1, <1>2, WayInvariance, AccountsInvariance, PTL DEF GSpec

(***************************************************************************)
(* UserManager::push of the login that comes after the answers to all      *)
(* others of its user decides where the user is reached, whatever the      *)
(* connections and threads; a push at the same time is the only exception. *)
(***************************************************************************)
THEOREM LatestLoginsAreBound == GSpec => []LatestLoginIsBound
  <1>1. ToldIsBound => LatestLoginIsBound
    BY DEF ToldIsBound, Latest, Bound, LatestLoginIsBound
  <1> QED
    BY <1>1, BindingInvariance, PTL DEF BindingInv

==============================================================================
