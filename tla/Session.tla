------------------------------- MODULE Session -------------------------------
(***************************************************************************)
(* The way of a request: AcceptProcess accepts a connection and keeps its  *)
(* ClientSession; the coroutine runRead reads a header and a body at a     *)
(* time and posts processRequest to the WorkersPool; processRequest calls  *)
(* the QueryEngine when header and body agree.                             *)
(*                                                                         *)
(* The coroutines run on the thread of main, the owner of the pool.  A     *)
(* task of the pool is the processRequest of one request, numbered in the  *)
(* order in which they are posted.                                         *)
(***************************************************************************)
EXTENDS WorkersPool

CONSTANTS
    Sessions,
    Kinds,      \* the kinds of request that clients send
    NoBody,     \* a buffer that no request parses from
    MaxSends    \* bound: requests sent in one behaviour

RequestKinds == {"reg", "auth", "text", "join", "history", "channels"}

ASSUME SessionAssumption ==
    /\ Kinds \subseteq RequestKinds /\ MaxSends \in Nat
    /\ IsFiniteSet(Sessions) /\ Tasks = 1..(MaxSends + Cardinality(Sessions))
    /\ NoBody \notin [k : RequestKinds, i : 0..MaxSends]

VARIABLES
    client,     \* client[s]: "away", "open" or "broken"
    line,       \* line[s]: what the client has sent and runRead has not read
    reader,     \* reader[s]: what the coroutine waits for
    buffer,     \* buffer[s]: what bufferBody_ holds
    jobs,       \* jobs[x]: the header, the body and the session of task x
    serving,    \* does networkContext_.run() run
    sent,       \* history: <<session, header, body>> sent whole
    torn,       \* history: sessions whose connection broke inside a body
    called,     \* history: the tasks that called the engine
    refused     \* history: the tasks that answered a mismatch

netVars == <<client, line, reader, buffer, jobs, serving, sent, torn>>
callVars == <<called, refused>>
svars == <<poolVars, netVars, callVars>>

Headers == Kinds \cup {"other"}
Bodies == [k : Kinds, i : 1..MaxSends]
(* What the buffer parses to when a new body has overwritten a part of it. *)
Mixtures == [k : Kinds, i : {0}]
Messages == [c : Headers, b : Bodies \cup {NoBody}, whole : BOOLEAN]

------------------------------------------------------------------------------
(* The clients *)

(* A request whose header names the command c and whose body is of kind k. *)
Send(s, c, k) ==
    LET b == [k |-> k, i |-> Cardinality(sent) + 1]
    IN  /\ serving /\ client[s] = "open" /\ Cardinality(sent) < MaxSends
        /\ line' = [line EXCEPT ![s] = Append(@, [c |-> c, b |-> b, whole |-> TRUE])]
        /\ sent' = sent \cup {<<s, c, b>>}
        /\ UNCHANGED <<client, reader, buffer, jobs, serving, torn, poolVars, callVars>>

(* The connection breaks between two requests, or after the header of one. *)
Break(s) ==
    /\ serving /\ client[s] = "open"
    /\ client' = [client EXCEPT ![s] = "broken"]
    /\ UNCHANGED <<line, torn, reader, buffer, jobs, serving, sent, poolVars, callVars>>

BreakInBody(s, c) ==
    /\ serving /\ client[s] = "open"
    /\ client' = [client EXCEPT ![s] = "broken"]
    /\ line' = [line EXCEPT ![s] = Append(@, [c |-> c, b |-> NoBody, whole |-> FALSE])]
    /\ torn' = torn \cup {s}
    /\ UNCHANGED <<reader, buffer, jobs, serving, sent, poolVars, callVars>>

------------------------------------------------------------------------------
(* The thread of the network *)

(* doAccept: the session starts to read, and sessions_ keeps it. *)
Accept(s) ==
    /\ serving /\ client[s] = "away"
    /\ client' = [client EXCEPT ![s] = "open"]
    /\ reader' = [reader EXCEPT ![s] = "header"]
    /\ UNCHANGED <<line, buffer, jobs, serving, sent, torn, poolVars, callVars>>

(***************************************************************************)
(* A header arrives.  When the read fails instead, because the connection  *)
(* is broken, the coroutine only tries again, which changes nothing.       *)
(***************************************************************************)
ReadHeader(s) ==
    /\ serving /\ reader[s] = "header" /\ line[s] # <<>>
    /\ reader' = [reader EXCEPT ![s] = "body"]
    /\ UNCHANGED <<client, line, buffer, jobs, serving, sent, torn, poolVars, callVars>>

(* processRequest is posted with the header read and the request in body. *)
PostRequest(s, body) ==
    LET x == Cardinality(posted) + 1
    IN  /\ OwnerPosts(x)
        /\ jobs' = Append(jobs, [s |-> s, c |-> Head(line[s]).c, b |-> body])
        /\ buffer' = [buffer EXCEPT ![s] = body]

KeepLine(s) == UNCHANGED line
ConsumeLine(s) == line' = [line EXCEPT ![s] = Tail(@)]

ReadBody(s) ==
    /\ serving /\ reader[s] = "body" /\ Head(line[s]).whole
    /\ PostRequest(s, Head(line[s]).b)
    /\ ConsumeLine(s)
    /\ reader' = [reader EXCEPT ![s] = "header"]
    /\ UNCHANGED <<client, serving, sent, torn, callVars>>

(***************************************************************************)
(* A body read that fails is not noticed.  The resized buffer holds what   *)
(* came of the new body and behind it the rest of the previous one, or     *)
(* zeros; that the parser refuses it is not noticed either, and the fields *)
(* that it has set until then stay: the request is the previous one again, *)
(* none, or one that no client has sent.                                   *)
(***************************************************************************)
ReadBodyError(s) ==
    /\ serving /\ reader[s] = "body" /\ ~Head(line[s]).whole
    /\ \E body \in {buffer[s], NoBody} \cup Mixtures : PostRequest(s, body)
    /\ ConsumeLine(s)
    /\ reader' = [reader EXCEPT ![s] = "header"]
    /\ UNCHANGED <<client, serving, sent, torn, callVars>>

(* An exception of a handler ends run(): main destroys the sessions first. *)
NetworkEnds ==
    /\ serving /\ serving' = FALSE
    /\ reader' = [s \in Sessions |-> "none"]
    /\ UNCHANGED <<client, line, buffer, jobs, sent, torn, poolVars, callVars>>

(* ... then the context. *)
MainReleases ==
    /\ ~serving /\ OwnerReleases
    /\ UNCHANGED <<netVars, callVars>>

------------------------------------------------------------------------------
(* The threads of the pool: processRequest *)

MatchesAlways(job) == job.b # NoBody
Matches(job) == job.b # NoBody /\ job.c = job.b.k

(* Only these requests get an answer when the header and the body disagree. *)
AnswersRegAndJoin == {"reg", "join"}
AnswersMismatch == {"reg", "auth", "join"}

Handle(t) ==
    LET x == Head(handlers)
        job == jobs[x]
    IN  /\ Take(t)
        /\ called' = IF Matches(job) THEN called \cup {x} ELSE called
        /\ refused' = IF ~Matches(job) /\ job.c \in AnswersMismatch
                      THEN refused \cup {x} ELSE refused
        /\ UNCHANGED netVars

(* A task holds a plain pointer to its session, which may be gone by then. *)
HandleDangling(t) ==
    /\ ~serving /\ pool = "running" /\ at[t] = "ready" /\ handlers # <<>>
    /\ Abort
    /\ UNCHANGED <<netVars, callVars>>

FinishRequest(t) ==
    /\ Finish(t)
    /\ UNCHANGED <<netVars, callVars>>

(* Only a handler of the engine throws. *)
ThrowRequest(t) ==
    /\ exec[t] \in called /\ Throw(t)
    /\ UNCHANGED <<netVars, callVars>>

------------------------------------------------------------------------------
SInit ==
    /\ PoolInit
    /\ client = [s \in Sessions |-> "away"]
    /\ line = [s \in Sessions |-> <<>>]
    /\ reader = [s \in Sessions |-> "none"]
    /\ buffer = [s \in Sessions |-> NoBody]
    /\ jobs = <<>> /\ serving = TRUE
    /\ called = {} /\ refused = {}
    /\ sent = {} /\ torn = {}

ClientStep(s) ==
    \/ \E c \in Headers, k \in Kinds : Send(s, c, k)
    \/ Break(s) \/ \E c \in Headers : BreakInBody(s, c)

ReadStep(s) == ReadHeader(s) \/ ReadBody(s) \/ ReadBodyError(s)

RequestStep(t) ==
    \/ Handle(t) \/ HandleDangling(t)
    \/ FinishRequest(t) \/ ThrowRequest(t)
    \/ Exit(t) /\ UNCHANGED <<netVars, callVars>>

SNext ==
    \/ \E s \in Sessions : ClientStep(s) \/ Accept(s) \/ ReadStep(s)
    \/ \E t \in PoolThreads : RequestStep(t)
    \/ NetworkEnds \/ MainReleases
    \/ (Stop \/ Join) /\ UNCHANGED <<netVars, callVars>>

(***************************************************************************)
(* The network thread completes the reads that can be completed, a thread  *)
(* of the pool runs what there is to run.                                  *)
(***************************************************************************)
SSpec ==
    /\ SInit /\ [][SNext]_svars
    /\ \A s \in Sessions : WF_svars(ReadStep(s))
    /\ \A t \in PoolThreads : WF_svars(RequestStep(t))

------------------------------------------------------------------------------
(* Properties *)

STypeOK ==
    /\ PoolTypeOK
    /\ client \in [Sessions -> {"away", "open", "broken"}]
    /\ reader \in [Sessions -> {"none", "header", "body"}]
    /\ \A s \in Sessions :
         /\ \A i \in DOMAIN line[s] : line[s][i].whole \/ i = Len(line[s])
         /\ reader[s] = "body" => line[s] # <<>>
         /\ buffer[s] \in Bodies \cup Mixtures \cup {NoBody}
    /\ posted = DOMAIN jobs
    /\ \A x \in posted :
         jobs[x].s \in Sessions /\ jobs[x].b \in Bodies \cup Mixtures \cup {NoBody}
    /\ called \cup refused \subseteq posted

(***************************************************************************)
(* The engine is called by the command that the body is for, and with a    *)
(* body that the client of the session has sent; one that nobody has sent  *)
(* comes only from a connection that broke inside a body, as the last      *)
(* request read from it.                                                   *)
(***************************************************************************)
CallsWereSent ==
    \A x \in called :
        LET s == jobs[x].s
        IN  /\ jobs[x].c = jobs[x].b.k
            /\ \/ \E c \in Headers : <<s, c, jobs[x].b>> \in sent
               \/ s \in torn /\ \A y \in posted : jobs[y].s = s => y <= x

(***************************************************************************)
(* A request reaches the engine once; a connection that broke inside a     *)
(* body may repeat one request, its last, and that once.                   *)
(***************************************************************************)
OneRepeatAtMost ==
    \A m \in sent :
        LET runs == {x \in called : jobs[x].s = m[1] /\ jobs[x].b = m[3]}
        IN  \/ Cardinality(runs) <= 1
            \/ /\ m[1] \in torn /\ Cardinality(runs) = 2
               /\ \A n \in sent : n[1] = m[1] => n[3].i <= m[3].i

(***************************************************************************)
(* A request that was sent whole is run in the end, whatever the other     *)
(* sessions and the other requests do, while the network lives.  Nothing   *)
(* that was sent, or run, is ever taken back.                              *)
(***************************************************************************)
EverySentIsRun ==
    <>[](\A m \in sent :
            \/ \E x \in ended \cup thrown : jobs[x].b # NoBody /\ jobs[x].b.i = m[3].i
            \/ ~serving)

==============================================================================
