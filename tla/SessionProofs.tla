---------------------------- MODULE SessionProofs ----------------------------
(***************************************************************************)
(* What the engine is called with, for any sessions, kinds of requests,    *)
(* threads of the pool and bound on the requests.  The pool keeps the      *)
(* invariant of WorkersPoolProofs: its steps are those of PoolStep.        *)
(***************************************************************************)
EXTENDS Session, WorkersPoolProofs

Jobs == [s : Sessions, c : Headers, b : Bodies \cup Mixtures \cup {NoBody}]

NetTypes ==
    /\ client \in [Sessions -> {"away", "open", "broken"}]
    /\ reader \in [Sessions -> {"none", "header", "body"}]
    /\ line \in [Sessions -> Seq(Messages)]
    /\ buffer \in [Sessions -> Bodies \cup Mixtures \cup {NoBody}]
    /\ jobs \in Seq(Jobs) /\ posted = 1..Len(jobs)
    /\ sent \subseteq Sessions \X Headers \X Bodies /\ IsFiniteSet(sent)
    /\ torn \subseteq Sessions
    /\ called \cup refused \subseteq posted

(* Body b was sent whole by the client of session s. *)
WasSent(s, b) == \E c \in Headers : <<s, c, b>> \in sent

(* The broken body at the end of the line has been read. *)
Done(s) == s \in torn /\ line[s] = <<>>

(* A line holds what was sent, and perhaps, at its end, what never came whole. *)
LineOK(s) ==
    /\ \A i \in DOMAIN line[s] :
         \/ line[s][i].whole /\ line[s][i].b # NoBody /\ WasSent(s, line[s][i].b)
         \/ ~line[s][i].whole /\ i = Len(line[s]) /\ s \in torn
    /\ s \in torn => client[s] = "broken"
    /\ reader[s] = "body" => line[s] # <<>>
    /\ buffer[s] # NoBody => WasSent(s, buffer[s]) \/ (Done(s) /\ buffer[s] \in Mixtures)

(* The task whose body broke off, the last of its session. *)
Torn(x) == Done(jobs[x].s) /\ \A y \in posted : jobs[y].s = jobs[x].s => y <= x

JobsOK ==
    /\ \A x \in posted :
         jobs[x].b # NoBody => WasSent(jobs[x].s, jobs[x].b) \/ Torn(x)
    /\ \A x \in called : jobs[x].b # NoBody /\ jobs[x].c = jobs[x].b.k

NetInv == NetTypes /\ (\A s \in Sessions : LineOK(s)) /\ JobsOK

SessionInv == PoolInv /\ NetInv

------------------------------------------------------------------------------
(* The pool *)

LEMMA PoolSteps ==
    ASSUME SNext \/ UNCHANGED svars
    PROVE  PoolStep \/ UNCHANGED poolVars
  <1>1. CASE UNCHANGED svars
    BY <1>1 DEF svars
  <1>2. CASE \E s \in Sessions : ClientStep(s) \/ Accept(s) \/ ReadHeader(s)
    BY <1>2 DEF ClientStep, Send, Break, BreakInBody, Accept, ReadHeader
  <1>3. CASE \E s \in Sessions : ReadBody(s) \/ ReadBodyError(s)
    <2>1. \E x : OwnerPosts(x)
      BY <1>3 DEF ReadBody, ReadBodyError, PostRequest
    <2>2. \E x \in Tasks : OwnerPosts(x)
      BY <2>1 DEF OwnerPosts, PostTask
    <2> QED
      BY <2>2 DEF PoolStep, PoolNext
  <1>4. CASE \E t \in PoolThreads : RequestStep(t)
    BY <1>4 DEF RequestStep, Handle, HandleDangling, FinishRequest, ThrowRequest,
         PoolStep, PoolNext
  <1>5. CASE NetworkEnds \/ MainReleases \/ Stop \/ Join
    BY <1>5 DEF NetworkEnds, MainReleases, PoolStep, PoolNext
  <1> QED
    BY <1>1, <1>2, <1>3, <1>4, <1>5 DEF SNext, ReadStep

------------------------------------------------------------------------------
(* The network and the calls *)

LEMMA InitNetInv == SInit => NetInv
  <1> SUFFICES ASSUME SInit PROVE NetInv
    OBVIOUS
  <1> USE DEF SInit, PoolInit
  <1>1. NetTypes
    BY FS_EmptySet DEF NetTypes
  <1>2. \A s \in Sessions : LineOK(s)
    BY DEF LineOK
  <1>3. JobsOK
    BY DEF JobsOK
  <1> QED
    BY <1>1, <1>2, <1>3 DEF NetInv

(* A task goes on to be what was sent, or the last of a broken connection. *)
LEMMA JobsStay ==
    ASSUME NetInv, UNCHANGED <<jobs, posted, called>>,
           \A s \in Sessions : Done(s) => Done(s)',
           \A s, b : WasSent(s, b) => WasSent(s, b)'
    PROVE  JobsOK'
  <1>1. ASSUME NEW x \in posted PROVE jobs[x].s \in Sessions
    <2>1. jobs[x] \in Jobs
      BY DEF NetInv, NetTypes
    <2> QED
      BY <2>1 DEF Jobs
  <1>2. \A x \in posted : Torn(x) => Torn(x)'
    BY <1>1 DEF Torn
  <1> QED
    BY <1>2 DEF NetInv, JobsOK

LEMMA SendInv ==
    ASSUME NetInv, NEW s \in Sessions, NEW c \in Headers, NEW k \in Kinds, Send(s, c, k)
    PROVE  NetInv'
  <1>a. PICK b : b = [k |-> k, i |-> Cardinality(sent) + 1]
    OBVIOUS
  <1>b. PICK e : e = [c |-> c, b |-> b, whole |-> TRUE]
    OBVIOUS
  <1>1. /\ line' = [line EXCEPT ![s] = Append(@, e)] /\ sent' = sent \cup {<<s, c, b>>}
        /\ client[s] = "open" /\ Cardinality(sent) < MaxSends
        /\ UNCHANGED <<client, reader, buffer, jobs, torn, posted, called, refused>>
    BY <1>a, <1>b DEF Send, poolVars, callVars
  <1>2. b \in Bodies /\ b # NoBody /\ IsFiniteSet(sent')
    <2>1. Cardinality(sent) + 1 \in 1..MaxSends
      BY <1>1, FS_CardinalityType, SessionAssumption DEF NetInv, NetTypes
    <2>2. b \in Bodies /\ Bodies \subseteq [k : RequestKinds, i : 0..MaxSends]
      BY <1>a, <2>1, SessionAssumption DEF Bodies
    <2> QED
      BY <1>1, <2>2, FS_AddElement, SessionAssumption DEF NetInv, NetTypes
  <1>3. e \in Messages /\ e.whole /\ e.b = b
    BY <1>b, <1>2 DEF Messages
  <1>4. NetTypes'
    BY <1>1, <1>2, <1>3 DEF NetInv, NetTypes
  <1>5. \A r \in Sessions : \A d : WasSent(r, d) => WasSent(r, d)'
    BY <1>1 DEF WasSent
  <1>6. WasSent(s, b)'
    BY <1>1 DEF WasSent
  <1>7. \A r \in Sessions : LineOK(r)'
    <2> SUFFICES ASSUME NEW r \in Sessions PROVE LineOK(r)'
      OBVIOUS
    <2>1. CASE r # s
      BY <1>1, <1>5, <2>1 DEF NetInv, NetTypes, LineOK, Done
    <2>2. CASE r = s
      <3>1. /\ line'[s] = Append(line[s], e) /\ line[s] \in Seq(Messages)
            /\ s \notin torn
        BY <1>1 DEF NetInv, NetTypes, LineOK
      <3>2. \A i \in DOMAIN line'[s] :
               \/ i \in DOMAIN line[s] /\ line'[s][i] = line[s][i]
               \/ line'[s][i] = e
        BY <1>3, <3>1
      <3>3. line'[s] # <<>>
        BY <1>3, <3>1
      <3> QED
        BY <1>1, <1>2, <1>3, <1>5, <1>6, <2>2, <3>1, <3>2, <3>3 DEF NetInv, LineOK, Done
    <2> QED
      BY <2>1, <2>2
  <1>8. JobsOK'
    <2>1. ASSUME NEW r \in Sessions, Done(r) PROVE Done(r)'
      BY <1>1, <2>1 DEF NetInv, NetTypes, LineOK, Done
    <2>2. \A r, d : WasSent(r, d) => WasSent(r, d)'
      BY <1>1 DEF WasSent
    <2> QED
      BY <1>1, <2>1, <2>2, JobsStay
  <1> QED
    BY <1>4, <1>7, <1>8 DEF NetInv

LEMMA BreakInv ==
    ASSUME NetInv, NEW s \in Sessions, Break(s) \/ \E c \in Headers : BreakInBody(s, c)
    PROVE  NetInv'
  <1>1. CASE Break(s)
    <2>1. /\ client' = [client EXCEPT ![s] = "broken"]
          /\ UNCHANGED <<line, torn, reader, buffer, jobs, sent, posted, called, refused>>
      BY <1>1 DEF Break, poolVars, callVars
    <2> QED
      BY <2>1 DEF NetInv, NetTypes, LineOK, JobsOK, WasSent, Done, Torn
  <1>2. ASSUME NEW c \in Headers, BreakInBody(s, c) PROVE NetInv'
    <2> DEFINE e == [c |-> c, b |-> NoBody, whole |-> FALSE]
    <2>1. /\ client' = [client EXCEPT ![s] = "broken"]
          /\ line' = [line EXCEPT ![s] = Append(@, e)]
          /\ torn' = torn \cup {s} /\ client[s] = "open"
          /\ UNCHANGED <<reader, buffer, jobs, sent, posted, called, refused>>
      BY <1>2 DEF BreakInBody, poolVars, callVars
    <2>2. e \in Messages /\ ~e.whole
      BY DEF Messages
    <2> HIDE DEF e
    <2>3. NetTypes'
      BY <2>1, <2>2 DEF NetInv, NetTypes
    <2>4. ASSUME NEW r \in Sessions PROVE LineOK(r)'
      <3>1. CASE r # s
        BY <2>1, <3>1 DEF NetInv, NetTypes, LineOK, WasSent, Done
      <3>2. CASE r = s
        <4>1. /\ line'[s] = Append(line[s], e) /\ line[s] \in Seq(Messages)
              /\ s \notin torn /\ client'[s] = "broken"
          BY <2>1 DEF NetInv, NetTypes, LineOK
        <4>2. /\ \A i \in DOMAIN line'[s] :
                    \/ i \in DOMAIN line[s] /\ line'[s][i] = line[s][i]
                    \/ line'[s][i] = e /\ i = Len(line'[s])
              /\ line'[s] # <<>>
          BY <2>2, <4>1
        <4>3. \A d : WasSent(s, d) => WasSent(s, d)'
          BY <2>1 DEF WasSent
        <4> QED
          BY <2>1, <2>2, <3>2, <4>1, <4>2, <4>3 DEF NetInv, LineOK, Done
      <3> QED
        BY <3>1, <3>2
    <2>5. JobsOK'
      <3>1. ASSUME NEW r \in Sessions, Done(r) PROVE Done(r)'
        BY <2>1, <3>1 DEF NetInv, NetTypes, LineOK, Done
      <3>2. \A r, d : WasSent(r, d) => WasSent(r, d)'
        BY <2>1 DEF WasSent
      <3> QED
        BY <2>1, <3>1, <3>2, JobsStay
    <2> QED
      BY <2>3, <2>4, <2>5 DEF NetInv
  <1> QED
    BY <1>1, <1>2

LEMMA ReaderInv ==
    ASSUME NetInv, NetworkEnds \/ \E s \in Sessions : Accept(s) \/ ReadHeader(s)
    PROVE  NetInv'
  <1>1. CASE NetworkEnds
    <2>1. /\ reader' = [s \in Sessions |-> "none"]
          /\ UNCHANGED <<client, line, buffer, jobs, sent, torn, posted, called, refused>>
      BY <1>1 DEF NetworkEnds, poolVars, callVars
    <2> QED
      BY <2>1 DEF NetInv, NetTypes, LineOK, JobsOK, WasSent, Done, Torn
  <1>2. ASSUME NEW s \in Sessions, Accept(s) PROVE NetInv'
    <2>1. /\ client' = [client EXCEPT ![s] = "open"] /\ client[s] = "away"
          /\ reader' = [reader EXCEPT ![s] = "header"]
          /\ UNCHANGED <<line, buffer, jobs, sent, torn, posted, called, refused>>
      BY <1>2 DEF Accept, poolVars, callVars
    <2> QED
      BY <2>1 DEF NetInv, NetTypes, LineOK, JobsOK, WasSent, Done, Torn
  <1>3. ASSUME NEW s \in Sessions, ReadHeader(s) PROVE NetInv'
    <2>1. /\ reader' = [reader EXCEPT ![s] = "body"] /\ line[s] # <<>>
          /\ UNCHANGED <<client, line, buffer, jobs, sent, torn, posted, called, refused>>
      BY <1>3 DEF ReadHeader, poolVars, callVars
    <2> QED
      BY <2>1 DEF NetInv, NetTypes, LineOK, JobsOK, WasSent, Done, Torn
  <1> QED
    BY <1>1, <1>2, <1>3

(* A request is posted with what was read or with what the buffer held. *)
LEMMA ReadBodyInv ==
    ASSUME NetInv, NEW s \in Sessions, ReadBody(s) \/ ReadBodyError(s)
    PROVE  NetInv'
  <1> USE DEF NetInv
  <1>0. PICK body : /\ PostRequest(s, body) /\ ConsumeLine(s)
                    /\ reader' = [reader EXCEPT ![s] = "header"] /\ reader[s] = "body"
                    /\ UNCHANGED <<client, serving, sent, torn, callVars>>
                    /\ \/ Head(line[s]).whole /\ body = Head(line[s]).b
                       \/ ~Head(line[s]).whole /\ body \in {buffer[s], NoBody} \cup Mixtures
    BY DEF ReadBody, ReadBodyError
  <1>j. PICK j : j = [s |-> s, c |-> Head(line[s]).c, b |-> body]
    OBVIOUS
  <1>1. /\ jobs' = Append(jobs, j) /\ buffer' = [buffer EXCEPT ![s] = body]
        /\ posted' = posted \cup {Cardinality(posted) + 1}
        /\ line' = [line EXCEPT ![s] = Tail(@)]
        /\ UNCHANGED <<client, sent, torn, called, refused>>
    BY <1>0, <1>j DEF PostRequest, OwnerPosts, PostTask, ConsumeLine, callVars
  <1>2. /\ line[s] \in Seq(Messages) /\ line[s] # <<>> /\ Head(line[s]) = line[s][1]
        /\ 1 \in DOMAIN line[s] /\ line[s][1] \in Messages
        /\ Tail(line[s]) \in Seq(Messages) /\ Len(Tail(line[s])) = Len(line[s]) - 1
        /\ \A i \in DOMAIN Tail(line[s]) :
              i + 1 \in DOMAIN line[s] /\ Tail(line[s])[i] = line[s][i + 1]
    BY <1>0 DEF NetTypes, LineOK
  <1>3. /\ body \in Bodies \cup Mixtures \cup {NoBody}
        /\ body # NoBody =>
             \/ WasSent(s, body)
             \/ body \in Mixtures /\ s \in torn /\ Tail(line[s]) = <<>>
    <2>1. CASE Head(line[s]).whole
      BY <1>0, <1>2, <2>1 DEF LineOK, Messages
    <2>2. CASE ~Head(line[s]).whole
      <3>1. s \in torn /\ Len(line[s]) = 1
        BY <1>2, <2>2 DEF LineOK
      <3>2. Tail(line[s]) = <<>>
        BY <1>2, <3>1
      <3>3. ~Done(s)
        BY <1>2 DEF Done
      <3> QED
        BY <1>0, <2>2, <3>1, <3>2, <3>3 DEF NetTypes, LineOK
    <2> QED
      BY <2>1, <2>2
  <1>4. j \in Jobs /\ j.s = s /\ j.b = body
    <2>1. Head(line[s]).c \in Headers
      BY <1>2 DEF Messages
    <2> QED
      BY <1>j, <1>3, <2>1 DEF Jobs
  <1>5. /\ jobs' \in Seq(Jobs) /\ posted' = 1..Len(jobs') /\ Len(jobs') = Len(jobs) + 1
        /\ jobs'[Len(jobs) + 1] = j /\ posted = 1..Len(jobs) /\ Len(jobs) \in Nat
        /\ \A x \in posted : jobs'[x] = jobs[x]
    <2>1. posted = 1..Len(jobs) /\ Len(jobs) \in Nat /\ Cardinality(posted) = Len(jobs)
      <3>1. posted = 1..Len(jobs) /\ Len(jobs) \in Nat
        BY DEF NetTypes
      <3>2. \A n \in Nat : Cardinality(1..n) = n
        BY FS_Interval
      <3> QED
        BY <3>1, <3>2
    <2> QED
      BY <1>1, <1>4, <2>1 DEF NetTypes
  <1>6. NetTypes'
    <2>1. /\ line' \in [Sessions -> Seq(Messages)]
          /\ buffer' \in [Sessions -> Bodies \cup Mixtures \cup {NoBody}]
          /\ reader' \in [Sessions -> {"none", "header", "body"}]
      BY <1>0, <1>1, <1>2, <1>3 DEF NetTypes
    <2> QED
      BY <1>1, <1>5, <2>1 DEF NetTypes
  <1>7. ASSUME NEW r \in Sessions PROVE LineOK(r)'
    <2>1. CASE r # s
      BY <1>0, <1>1, <2>1 DEF NetTypes, LineOK, WasSent, Done
    <2>2. CASE r = s
      <3>1. line'[s] = Tail(line[s]) /\ buffer'[s] = body /\ reader'[s] = "header"
        BY <1>0, <1>1 DEF NetTypes
      <3>2. LineOK(s) /\ Len(line[s]) \in Nat /\ \A i \in DOMAIN Tail(line[s]) : i \in Nat
        BY <1>2
      <3>3. buffer'[s] # NoBody => WasSent(s, buffer[s])' \/ (Done(s)' /\ buffer'[s] \in Mixtures)
        <4>1. CASE WasSent(s, body)
          BY <1>1, <3>1, <4>1 DEF WasSent
        <4>2. CASE body \in Mixtures /\ s \in torn /\ Tail(line[s]) = <<>>
          BY <1>1, <3>1, <4>2 DEF Done
        <4> QED
          BY <1>3, <3>1, <4>1, <4>2
      <3>4. ASSUME NEW i \in DOMAIN line'[s]
            PROVE  (\/ line[s][i].whole /\ line[s][i].b # NoBody /\ WasSent(s, line[s][i].b)
                    \/ ~line[s][i].whole /\ i = Len(line[s]) /\ s \in torn)'
        <4>1. i + 1 \in DOMAIN line[s] /\ line'[s][i] = line[s][i + 1] /\ i \in Nat
          BY <1>2, <3>1, <3>2
        <4>2. CASE line[s][i + 1].whole
          <5>1. line[s][i + 1].b # NoBody /\ WasSent(s, line[s][i + 1].b)
            BY <3>2, <4>1, <4>2 DEF LineOK
          <5>2. PICK m : m = line[s][i + 1]
            OBVIOUS
          <5>3. WasSent(s, m.b)' /\ line'[s][i] = m
            BY <1>1, <4>1, <5>1, <5>2 DEF WasSent
          <5> QED
            BY <4>2, <5>1, <5>2, <5>3 DEF WasSent
        <4>3. CASE ~line[s][i + 1].whole
          <5>1. i + 1 = Len(line[s]) /\ s \in torn
            BY <3>2, <4>1, <4>3 DEF LineOK
          <5>2. i = Len(line'[s]) /\ s \in torn'
            <6>1. PICK n \in Nat : n = Len(line[s])
              BY <3>2
            <6>2. i = n - 1 /\ Len(line'[s]) = n - 1
              BY <1>2, <3>1, <4>1, <5>1, <6>1
            <6> QED
              BY <1>1, <5>1, <6>2
          <5>3. ~line'[s][i].whole
            BY <4>1, <4>3
          <5> QED
            BY <5>2, <5>3
        <4> QED
          BY <4>2, <4>3
      <3> QED
        BY <1>1, <2>2, <3>1, <3>2, <3>3, <3>4 DEF LineOK
    <2> QED
      BY <2>1, <2>2
  <1>8. JobsOK'
    <2>1. \A x \in posted' : x \in posted \/ x = Len(jobs) + 1
      BY <1>5
    <2>2. \A r, d : WasSent(r, d) => WasSent(r, d)'
      BY <1>1 DEF WasSent
    <2>3. called \subseteq posted /\ called' = called
      BY <1>1 DEF NetTypes
    <2>4. ASSUME NEW x \in posted, Torn(x) PROVE Torn(x)'
      <3>1. jobs[x].s # s
        BY <1>2, <2>4 DEF Torn, Done
      <3>2. jobs'[x] = jobs[x] /\ jobs'[Len(jobs) + 1].s = s
        BY <1>4, <1>5
      <3>3. Done(jobs[x].s)'
        <4>1. jobs[x] \in Jobs
          BY <1>5 DEF NetTypes
        <4> QED
          BY <1>1, <2>4, <3>1, <4>1 DEF Torn, Done, Jobs, NetTypes
      <3>4. \A y \in posted' : jobs'[y].s = jobs[x].s => y <= x
        BY <1>5, <2>1, <2>4, <3>1, <3>2 DEF Torn
      <3>5. Done(jobs[x].s)' /\ jobs'[x].s = jobs[x].s
        BY <3>2, <3>3
      <3> QED
        BY <3>4, <3>5 DEF Torn, Done
    <2>y. PICK n : n = Len(jobs) + 1
      OBVIOUS
    <2>5. ASSUME body # NoBody, ~WasSent(s, body) PROVE Torn(n)'
      <3>1. jobs'[n].s = s /\ \A y \in posted' : y <= n
        BY <1>4, <1>5, <2>y
      <3>2. s \in torn' /\ line'[s] = <<>>
        BY <1>1, <1>3, <2>5 DEF NetTypes
      <3> QED
        BY <3>1, <3>2 DEF Torn, Done
    <2>6. ASSUME NEW x \in posted', jobs'[x].b # NoBody
          PROVE  (WasSent(jobs[x].s, jobs[x].b) \/ Torn(x))'
      <3>1. CASE x \in posted
        BY <1>5, <2>2, <2>4, <2>6, <3>1 DEF JobsOK
      <3>2. CASE x = Len(jobs) + 1
        <4>1. jobs'[x].s = s /\ jobs'[x].b = body
          BY <1>4, <1>5, <3>2
        <4> QED
          BY <2>2, <2>5, <2>6, <2>y, <3>2, <4>1
      <3> QED
        BY <2>1, <3>1, <3>2
    <2>7. \A x \in called' : jobs'[x].b # NoBody /\ jobs'[x].c = jobs'[x].b.k
      BY <1>5, <2>3 DEF JobsOK
    <2> QED
      BY <2>6, <2>7 DEF JobsOK
  <1> QED
    BY <1>6, <1>7, <1>8

(* The steps of the pool that post nothing change none of it but the calls. *)
LEMMA QuietNetInv ==
    ASSUME NetInv, UNCHANGED <<netVars, posted>>,
           called' \cup refused' \subseteq posted,
           \A x \in called' \ called : Matches(jobs[x])
    PROVE  NetInv'
  <1> USE DEF NetInv, netVars
  <1>1. NetTypes'
    BY DEF NetTypes
  <1>2. \A s \in Sessions : LineOK(s)'
    BY DEF LineOK, WasSent, Done
  <1>3. JobsOK'
    BY DEF JobsOK, WasSent, Matches, Done, Torn
  <1> QED
    BY <1>1, <1>2, <1>3

LEMMA RequestInv ==
    ASSUME PoolInv, NetInv, NEW t \in PoolThreads, RequestStep(t)
    PROVE  NetInv'
  <1>1. CASE Handle(t)
    <2> DEFINE x == Head(handlers)
    <2>1. /\ called' = (IF Matches(jobs[x]) THEN called \cup {x} ELSE called)
          /\ refused' = IF ~Matches(jobs[x]) /\ jobs[x].c \in AnswersMismatch
                        THEN refused \cup {x} ELSE refused
          /\ UNCHANGED <<netVars, posted>> /\ handlers # <<>>
      BY <1>1 DEF Handle, Take
    <2>2. handlers \in Seq(Tasks) /\ \A i \in DOMAIN handlers : handlers[i] \in posted
      BY DEF PoolInv, PoolTypeOK, TaskPlaces
    <2>3. x \in posted
      BY <2>1, <2>2
    <2> HIDE DEF x
    <2> QED
      BY <2>1, <2>3, QuietNetInv DEF NetInv, NetTypes
  <1>2. CASE ~Handle(t)
    <2>1. UNCHANGED <<netVars, posted, called, refused>>
      BY <1>2 DEF RequestStep, HandleDangling, Abort, FinishRequest, Finish, ThrowRequest, Throw,
           Exit, callVars
    <2> QED
      BY <2>1, QuietNetInv DEF NetInv, NetTypes
  <1> QED
    BY <1>1, <1>2

LEMMA NextNetInv ==
    ASSUME PoolInv, NetInv, SNext \/ UNCHANGED svars
    PROVE  NetInv'
  <1>1. CASE MainReleases \/ ((Stop \/ Join) /\ UNCHANGED <<netVars, callVars>>) \/ UNCHANGED svars
    <2>1. UNCHANGED <<netVars, posted, called, refused>>
      BY <1>1 DEF MainReleases, OwnerReleases, Stop, Join, svars, poolVars, callVars
    <2> QED
      BY <2>1, QuietNetInv DEF NetInv, NetTypes
  <1> QED
    BY <1>1, SendInv, BreakInv, ReaderInv, ReadBodyInv, RequestInv DEF SNext, ClientStep, ReadStep

LEMMA SessionInvariance == SSpec => []SessionInv
  <1>1. SInit => SessionInv
    BY InitPoolInv, InitNetInv DEF SInit, SessionInv
  <1>2. SessionInv /\ [SNext]_svars => SessionInv'
    BY NextPoolInv, PoolSteps, NextNetInv DEF SessionInv
  <1> QED
    BY <1>1, <1>2, PTL DEF SSpec

------------------------------------------------------------------------------
(* The types of Session; the tasks of the pool are the requests read. *)
THEOREM SessionTypeCorrect == SSpec => []STypeOK
  <1>1. ASSUME SessionInv PROVE STypeOK
    <2>1. PoolTypeOK /\ NetTypes /\ \A s \in Sessions : LineOK(s)
      BY <1>1 DEF SessionInv, PoolInv, NetInv
    <2>2. posted = DOMAIN jobs /\ \A x \in posted : jobs[x] \in Jobs
      BY <2>1 DEF NetTypes
    <2>3. \A x \in posted :
            jobs[x].s \in Sessions /\ jobs[x].b \in Bodies \cup Mixtures \cup {NoBody}
      BY <2>2 DEF Jobs
    <2> QED
      BY <2>1, <2>2, <2>3 DEF NetTypes, LineOK, STypeOK
  <1> QED
    BY <1>1, SessionInvariance, PTL

(***************************************************************************)
(* processRequest calls the engine by the command that the body is for,    *)
(* and with a body that the client of the session has sent, or with what a *)
(* body that broke off has left of the buffer, as the last request of its  *)
(* session: a body read that fails is posted all the same.                 *)
(***************************************************************************)
THEOREM OnlySentIsCalled == SSpec => []CallsWereSent
  <1>1. SessionInv => CallsWereSent
    BY DEF SessionInv, NetInv, NetTypes, JobsOK, WasSent, Torn, Done, CallsWereSent
  <1> QED
    BY <1>1, SessionInvariance, PTL

(* The requests of a server that shut down its pool run nowhere. *)
THEOREM NoRequestAfterJoin == SSpec => []NothingRunsAfterJoin
  BY SessionInvariance, JoinedIsQuiet, PTL DEF SessionInv

------------------------------------------------------------------------------
(***************************************************************************)
(* The order of the requests.  The requests of the clients are numbered as *)
(* they are sent; what a session has read comes before what it has not.    *)
(***************************************************************************)
Numbered == \A m \in sent : m[3].i <= Cardinality(sent)

Whole(s) == {j \in DOMAIN line[s] : line[s][j].whole}
Of(s) == {x \in posted : jobs[x].s = s}

(* Until the broken body is read every request read is a task, once, and the buffer the last. *)
Reading(s) ==
    /\ \A i, j \in Whole(s) : i < j => line[s][i].b.i < line[s][j].b.i
    /\ \A x \in Of(s) :
         jobs[x].b # NoBody /\ buffer[s] # NoBody /\ jobs[x].b.i <= buffer[s].i
    /\ buffer[s] # NoBody => \A j \in Whole(s) : buffer[s].i < line[s][j].b.i
    /\ \A x, y \in Of(s) : jobs[x].b = jobs[y].b => x = y
    /\ \A n \in sent : n[1] = s =>
         \/ buffer[s] # NoBody /\ n[3].i <= buffer[s].i
         \/ \E j \in Whole(s) : line[s][j].b = n[3]
    /\ s \in torn => line[s] # <<>> /\ ~line[s][Len(line[s])].whole

(* From then on one task may be a repeat, of the last request. *)
Repeated(s) ==
    \E y \in Of(s) :
        /\ \A x, z \in Of(s) \ {y} : jobs[x].b = jobs[z].b => x = z
        /\ jobs[y].b \in Bodies =>
             \A n \in sent : n[1] = s => n[3].i <= jobs[y].b.i

InOrder(s) == (Done(s) => Repeated(s)) /\ (~Done(s) => Reading(s))

OrderInv == Numbered /\ \A s \in Sessions : InOrder(s)

LEMMA InitOrderInv == SInit => OrderInv
  <1> SUFFICES ASSUME SInit PROVE OrderInv
    OBVIOUS
  <1> USE DEF SInit, PoolInit
  <1>1. Numbered
    BY DEF Numbered
  <1>2. ASSUME NEW s \in Sessions PROVE InOrder(s)
    <2>1. line[s] = <<>> /\ torn = {} /\ sent = {} /\ posted = {} /\ buffer[s] = NoBody
      OBVIOUS
    <2>2. Whole(s) = {} /\ Of(s) = {}
      BY <2>1 DEF Whole, Of
    <2> QED
      BY <2>1, <2>2 DEF InOrder, Done, Reading
  <1> QED
    BY <1>1, <1>2 DEF OrderInv

(* What a step changes only for other sessions keeps the order of this one. *)
LEMMA OtherInOrder ==
    ASSUME NEW r \in Sessions, InOrder(r),
           line'[r] = line[r], buffer'[r] = buffer[r], Of(r)' = Of(r),
           \A x \in Of(r) : jobs'[x] = jobs[x],
           (r \in torn') <=> (r \in torn),
           \A n : n[1] = r => (n \in sent' <=> n \in sent)
    PROVE  InOrder(r)'
  <1>1. Whole(r)' = Whole(r) /\ (Done(r)' <=> Done(r))
    BY DEF Whole, Done
  <1>2. ASSUME Repeated(r) PROVE Repeated(r)'
    BY <1>2 DEF Repeated
  <1>3. ASSUME Reading(r) PROVE Reading(r)'
    BY <1>1, <1>3 DEF Reading
  <1> QED
    BY <1>1, <1>2, <1>3 DEF InOrder

(* The numbers of what waits and of what was read last are those of requests. *)
LEMMA Numbers ==
    ASSUME NetInv, Numbered, NEW s \in Sessions
    PROVE  /\ Cardinality(sent) \in Nat
           /\ \A n \in sent : n[3] \in Bodies /\ n[3].i \in Nat
           /\ \A j \in Whole(s) : line[s][j].b.i \in Nat /\ line[s][j].b.i <= Cardinality(sent)
           /\ buffer[s] # NoBody => buffer[s].i \in Nat /\ buffer[s].i <= Cardinality(sent)
           /\ \A x \in Of(s) : jobs[x].b # NoBody => jobs[x].b.i \in Nat
  <1>1. Cardinality(sent) \in Nat
    BY FS_CardinalityType DEF NetInv, NetTypes
  <1>2. \A n \in sent : n[3] \in Bodies /\ n[3].i \in Nat
    BY DEF NetInv, NetTypes, Bodies
  <1>3. \A r, b : WasSent(r, b) => b.i \in Nat /\ b.i <= Cardinality(sent)
    BY <1>2 DEF WasSent, Numbered
  <1>6. \A b \in Mixtures : b.i \in Nat /\ b.i <= Cardinality(sent)
    <2>1. \A b \in Mixtures : b.i = 0
      BY DEF Mixtures
    <2> QED
      BY <1>1, <2>1
  <1>4. \A b \in Bodies : b.i \in Nat
    BY DEF Bodies
  <1>5. ASSUME NEW x \in Of(s), jobs[x].b # NoBody PROVE jobs[x].b.i \in Nat
    <2>1. jobs[x] \in Jobs
      BY DEF NetInv, NetTypes, Of
    <2> QED
      BY <1>4, <1>5, <1>6, <2>1 DEF Jobs
  <1> QED
    BY <1>1, <1>2, <1>3, <1>5, <1>6 DEF NetInv, LineOK, Whole

LEMMA SendOrder ==
    ASSUME NetInv, OrderInv, NEW s \in Sessions, NEW c \in Headers, NEW k \in Kinds, Send(s, c, k)
    PROVE  OrderInv'
  <1>a. PICK b : b = [k |-> k, i |-> Cardinality(sent) + 1]
    OBVIOUS
  <1>b. PICK e : e = [c |-> c, b |-> b, whole |-> TRUE]
    OBVIOUS
  <1>1. /\ line' = [line EXCEPT ![s] = Append(@, e)] /\ sent' = sent \cup {<<s, c, b>>}
        /\ client[s] = "open" /\ UNCHANGED <<buffer, jobs, torn, posted>>
    BY <1>a, <1>b DEF Send, poolVars, callVars
  <1>2. /\ b.i = Cardinality(sent) + 1 /\ e.b = b /\ e.whole
    BY <1>a, <1>b
  <1>3. Cardinality(sent') = Cardinality(sent) + 1
    <2>1. <<s, c, b>> \notin sent
      BY <1>2, Numbers DEF OrderInv, Numbered
    <2> QED
      BY <1>1, <2>1, FS_AddElement DEF NetInv, NetTypes
  <1>4. Numbered'
    BY <1>1, <1>2, <1>3, Numbers DEF OrderInv, Numbered
  <1>5. ASSUME NEW r \in Sessions, r # s PROVE InOrder(r)'
    <2>1. Of(r)' = Of(r) /\ line'[r] = line[r]
      BY <1>1, <1>5 DEF Of, NetInv, NetTypes
    <2> QED
      BY <1>1, <1>5, <2>1, OtherInOrder DEF OrderInv
  <1>6. InOrder(s)'
    <2>1. /\ line'[s] = Append(line[s], e) /\ line[s] \in Seq(Messages) /\ s \notin torn
      BY <1>1 DEF NetInv, NetTypes, LineOK
    <2>2. /\ Whole(s)' = Whole(s) \cup {Len(line[s]) + 1}
          /\ \A j \in Whole(s) : line'[s][j] = line[s][j] /\ j < Len(line[s]) + 1
          /\ line'[s][Len(line[s]) + 1] = e
      <3>1. e \in Messages \cup {e} /\ line[s] \in Seq(Messages \cup {e})
        BY <2>1
      <3>2. /\ Len(line'[s]) = Len(line[s]) + 1 /\ Len(line[s]) \in Nat
            /\ DOMAIN line[s] = 1..Len(line[s]) /\ DOMAIN line'[s] = 1..(Len(line[s]) + 1)
            /\ \A j \in 1..Len(line[s]) : line'[s][j] = line[s][j]
            /\ line'[s][Len(line[s]) + 1] = e
        BY <2>1, <3>1
      <3> QED
        BY <1>2, <3>2 DEF Whole
    <2>3. Reading(s) /\ Of(s)' = Of(s) /\ buffer' = buffer /\ jobs' = jobs /\ ~Done(s)'
      BY <1>1, <2>1 DEF OrderInv, InOrder, Done, Of
    <2>4. Whole(s) \subseteq Nat
      BY <2>1 DEF Whole
    <2>5. Reading(s)'
      <3>1. \A i, j \in Whole(s)' : i < j => line'[s][i].b.i < line'[s][j].b.i
        <4> SUFFICES ASSUME NEW i \in Whole(s)', NEW j \in Whole(s)', i < j
                     PROVE  line'[s][i].b.i < line'[s][j].b.i
          OBVIOUS
        <4>1. i \in Whole(s)
          BY <2>1, <2>2, <2>4
        <4>2. CASE j \in Whole(s)
          BY <2>2, <2>3, <4>1, <4>2 DEF Reading
        <4>3. CASE j = Len(line[s]) + 1
          <5>1. line'[s][i] = line[s][i] /\ line'[s][j] = e
            BY <2>2, <4>1, <4>3
          <5>2. line[s][i].b.i \in Nat /\ line[s][i].b.i <= Cardinality(sent)
                /\ Cardinality(sent) \in Nat
            BY <4>1, Numbers DEF OrderInv
          <5> QED
            BY <1>2, <5>1, <5>2
        <4> QED
          BY <2>2, <4>2, <4>3
      <3>2. buffer[s] # NoBody => \A j \in Whole(s)' : buffer[s].i < line'[s][j].b.i
        BY <1>2, <2>2, <2>3, Numbers DEF Reading, OrderInv
      <3>3. \A n \in sent' : n[1] = s =>
              \/ buffer[s] # NoBody /\ n[3].i <= buffer[s].i
              \/ \E j \in Whole(s)' : line'[s][j].b = n[3]
        <4> SUFFICES ASSUME NEW n \in sent', n[1] = s
                     PROVE  \/ buffer[s] # NoBody /\ n[3].i <= buffer[s].i
                            \/ \E j \in Whole(s)' : line'[s][j].b = n[3]
          OBVIOUS
        <4>1. CASE n \in sent
          <5>1. ASSUME NEW j \in Whole(s), line[s][j].b = n[3]
                PROVE  j \in Whole(s)' /\ line'[s][j].b = n[3]
            BY <2>2, <5>1
          <5> QED
            BY <2>3, <4>1, <5>1 DEF Reading
        <4>2. CASE n = <<s, c, b>>
          <5>1. n[3] = b /\ Len(line[s]) + 1 \in Whole(s)'
            BY <2>2, <4>2
          <5> QED
            BY <1>2, <2>2, <5>1
        <4> QED
          BY <1>1, <4>1, <4>2
      <3> QED
        BY <1>1, <2>1, <2>3, <3>1, <3>2, <3>3 DEF Reading
    <2> QED
      BY <2>3, <2>5 DEF InOrder
  <1> QED
    BY <1>4, <1>5, <1>6 DEF OrderInv

LEMMA BreakInBodyOrder ==
    ASSUME NetInv, OrderInv, NEW s \in Sessions, NEW c \in Headers, BreakInBody(s, c)
    PROVE  OrderInv'
  <1>b. PICK e : e = [c |-> c, b |-> NoBody, whole |-> FALSE]
    OBVIOUS
  <1>1. /\ line' = [line EXCEPT ![s] = Append(@, e)] /\ torn' = torn \cup {s} /\ ~e.whole
        /\ client[s] = "open" /\ UNCHANGED <<buffer, jobs, sent, posted>>
    BY <1>b DEF BreakInBody, poolVars, callVars
  <1>2. ASSUME NEW r \in Sessions, r # s PROVE InOrder(r)'
    <2>1. Of(r)' = Of(r) /\ line'[r] = line[r]
      BY <1>1, <1>2 DEF Of, NetInv, NetTypes
    <2> QED
      BY <1>1, <1>2, <2>1, OtherInOrder DEF OrderInv
  <1>3. InOrder(s)'
    <2>1. /\ line'[s] = Append(line[s], e) /\ line[s] \in Seq(Messages) /\ s \notin torn
      BY <1>1 DEF NetInv, NetTypes, LineOK
    <2>2. /\ Whole(s)' = Whole(s) /\ \A j \in Whole(s) : line'[s][j] = line[s][j]
          /\ line'[s] # <<>> /\ line'[s][Len(line'[s])] = e
      <3>1. e \in Messages \cup {e} /\ line[s] \in Seq(Messages \cup {e})
        BY <2>1
      <3>2. /\ Len(line'[s]) = Len(line[s]) + 1 /\ Len(line[s]) \in Nat
            /\ DOMAIN line[s] = 1..Len(line[s]) /\ DOMAIN line'[s] = 1..(Len(line[s]) + 1)
            /\ \A j \in 1..Len(line[s]) : line'[s][j] = line[s][j]
            /\ line'[s][Len(line[s]) + 1] = e /\ line'[s] # <<>>
        BY <2>1, <3>1
      <3>3. ~e.whole
        BY <1>1
      <3>4. DOMAIN line'[s] = DOMAIN line[s] \cup {Len(line[s]) + 1}
        BY <3>2
      <3> QED
        BY <3>2, <3>3, <3>4 DEF Whole
    <2>3. Reading(s) /\ Of(s)' = Of(s) /\ ~Done(s)'
      BY <1>1, <2>1, <2>2 DEF OrderInv, InOrder, Done, Of
    <2>4. \A j \in Whole(s)' : j \in Whole(s) /\ line'[s][j].b = line[s][j].b
      BY <2>2
    <2>5. ASSUME NEW n \in sent', n[1] = s
          PROVE  \/ buffer'[s] # NoBody /\ n[3].i <= buffer'[s].i
                 \/ \E j \in Whole(s)' : line'[s][j].b = n[3]
      <3>1. \/ buffer[s] # NoBody /\ n[3].i <= buffer[s].i
            \/ \E j \in Whole(s) : line[s][j].b = n[3]
        BY <1>1, <2>3, <2>5 DEF Reading
      <3>2. CASE \E j \in Whole(s) : line[s][j].b = n[3]
        <4>1. PICK j \in Whole(s) : line[s][j].b = n[3]
          BY <3>2
        <4>2. j \in Whole(s)' /\ line'[s][j].b = n[3]
          BY <2>2, <4>1
        <4> QED
          BY <4>2
      <3> QED
        BY <1>1, <3>1, <3>2
    <2>6. Reading(s)'
      BY <1>1, <2>2, <2>3, <2>4, <2>5 DEF Reading
    <2> QED
      BY <2>3, <2>6 DEF InOrder
  <1> QED
    BY <1>1, <1>2, <1>3 DEF OrderInv, Numbered

LEMMA ReadBodyOrder ==
    ASSUME NetInv, OrderInv, NEW s \in Sessions, ReadBody(s) \/ ReadBodyError(s)
    PROVE  OrderInv'
  <1>0. PICK body : /\ PostRequest(s, body) /\ ConsumeLine(s) /\ reader[s] = "body"
                    /\ UNCHANGED <<sent, torn>>
                    /\ \/ Head(line[s]).whole /\ body = Head(line[s]).b
                       \/ ~Head(line[s]).whole /\ body \in {buffer[s], NoBody} \cup Mixtures
    BY DEF ReadBody, ReadBodyError
  <1>j. PICK j : j = [s |-> s, c |-> Head(line[s]).c, b |-> body]
    OBVIOUS
  <1>y. PICK y : y = Len(jobs) + 1
    OBVIOUS
  <1>1. /\ jobs' = Append(jobs, j) /\ buffer' = [buffer EXCEPT ![s] = body]
        /\ posted' = posted \cup {Cardinality(posted) + 1}
        /\ line' = [line EXCEPT ![s] = Tail(@)] /\ j.s = s /\ j.b = body
    BY <1>0, <1>j DEF PostRequest, OwnerPosts, PostTask, ConsumeLine
  <1>2. posted' = posted \cup {y} /\ y \notin posted /\ \A x \in posted : jobs'[x] = jobs[x]
    <2>1. posted = 1..Len(jobs) /\ Len(jobs) \in Nat /\ jobs \in Seq(Jobs)
      BY DEF NetInv, NetTypes
    <2>2. \A n \in Nat : Cardinality(1..n) = n
      BY FS_Interval
    <2>3. jobs \in Seq(Jobs \cup {j}) /\ j \in Jobs \cup {j}
      BY <2>1
    <2> QED
      BY <1>1, <1>y, <2>1, <2>2, <2>3
  <1>3. jobs'[y] = j
    <2>1. jobs \in Seq(Jobs \cup {j}) /\ j \in Jobs \cup {j}
      BY DEF NetInv, NetTypes
    <2> QED
      BY <1>1, <1>y, <2>1
  <1>4. Numbered'
    BY <1>0 DEF OrderInv, Numbered
  <1>5. ASSUME NEW r \in Sessions, r # s PROVE InOrder(r)'
    <2>1. Of(r)' = Of(r) /\ line'[r] = line[r] /\ buffer'[r] = buffer[r]
      BY <1>1, <1>2, <1>3, <1>5 DEF Of, NetInv, NetTypes
    <2>2. \A x \in Of(r) : jobs'[x] = jobs[x]
      BY <1>2 DEF Of
    <2> QED
      BY <1>0, <1>5, <2>1, <2>2, OtherInOrder DEF OrderInv
  <1>6. InOrder(s)'
    <2>1. /\ line[s] \in Seq(Messages) /\ line[s] # <<>> /\ LineOK(s)
          /\ line'[s] = Tail(line[s]) /\ buffer'[s] = body
      BY <1>0, <1>1 DEF NetInv, NetTypes, LineOK
    <2>2. /\ Len(line[s]) \in Nat \ {0} /\ Len(line'[s]) = Len(line[s]) - 1
          /\ DOMAIN line[s] = 1..Len(line[s]) /\ DOMAIN line'[s] = 1..(Len(line[s]) - 1)
          /\ \A i \in 1..(Len(line[s]) - 1) : line'[s][i] = line[s][i + 1]
          /\ Head(line[s]) = line[s][1] /\ (Len(line[s]) = 1 <=> line'[s] = <<>>)
      <3> DEFINE q == line[s]
      <3>1. /\ q \in Seq(Messages) /\ q # <<>> /\ line'[s] = Tail(q)
        BY <2>1
      <3> HIDE DEF q
      <3>2. /\ Len(q) \in Nat \ {0} /\ DOMAIN q = 1..Len(q)
            /\ Tail(q) \in Seq(Messages) /\ Len(Tail(q)) = Len(q) - 1
            /\ Head(q) = q[1] /\ \A i \in 1..(Len(q) - 1) : Tail(q)[i] = q[i + 1]
        BY <3>1
      <3>3. DOMAIN Tail(q) = 1..(Len(q) - 1) /\ (Len(q) = 1 <=> Tail(q) = <<>>)
        <4>1. \A p \in Seq(Messages) : DOMAIN p = 1..Len(p) /\ (Len(p) = 0 <=> p = <<>>)
          OBVIOUS
        <4>2. PICK p \in Seq(Messages) : p = Tail(q)
          BY <3>2
        <4>3. DOMAIN p = 1..Len(p) /\ (Len(p) = 0 <=> p = <<>>) /\ Len(p) = Len(q) - 1
          BY <3>2, <4>1, <4>2
        <4>4. Len(p) = 0 <=> Len(q) = 1
          BY <3>2, <4>3
        <4> QED
          BY <4>2, <4>3, <4>4
      <3> QED
        BY <3>1, <3>2, <3>3 DEF q
    <2>3. Reading(s)
      BY <2>1 DEF OrderInv, InOrder, Done
    <2>4. /\ Of(s)' = Of(s) \cup {y} /\ y \notin Of(s) /\ jobs'[y].b = body
          /\ \A x \in Of(s) : jobs'[x] = jobs[x]
      BY <1>1, <1>2, <1>3 DEF Of
    <2>5. \A i \in Whole(s)' : i + 1 \in Whole(s) /\ i \in Nat \ {0} /\ line'[s][i] = line[s][i + 1]
      BY <2>2 DEF Whole
    <2>6. CASE Head(line[s]).whole
      <3>1. 1 \in Whole(s) /\ body = line[s][1].b /\ body # NoBody
        BY <1>0, <2>1, <2>2, <2>6 DEF Whole, LineOK
      <3>2. \A i \in Whole(s) : i = 1 \/ (i > 1 /\ i - 1 \in Whole(s)' /\ line'[s][i - 1] = line[s][i])
        <4> SUFFICES ASSUME NEW i \in Whole(s), i # 1
                     PROVE  i > 1 /\ i - 1 \in Whole(s)' /\ line'[s][i - 1] = line[s][i]
          OBVIOUS
        <4>1. i \in 2..Len(line[s]) /\ line[s][i].whole
          BY <2>2 DEF Whole
        <4>2. PICK n \in Nat : n = Len(line[s])
          BY <2>2
        <4>3. i \in 2..n
          BY <4>1, <4>2
        <4>4. i > 1 /\ i - 1 \in 1..(n - 1) /\ i = (i - 1) + 1
          BY <4>3
        <4>5. PICK k \in 1..(n - 1) : k = i - 1 /\ i = k + 1
          BY <4>4
        <4>6. line'[s][k] = line[s][i] /\ k \in DOMAIN line'[s]
          BY <2>2, <4>2, <4>5
        <4> QED
          BY <4>1, <4>4, <4>5, <4>6 DEF Whole
      <3>3. s \in torn' => line'[s] # <<>> /\ ~line'[s][Len(line'[s])].whole
        BY <1>0, <2>2, <2>3, <2>6 DEF Reading
      <3>4. ~Done(s)'
        BY <3>3 DEF Done
      <3>5. \A i, k \in Whole(s)' : i < k => line'[s][i].b.i < line'[s][k].b.i
        BY <2>3, <2>5 DEF Reading
      <3>6. body.i \in Nat /\ \A i \in Whole(s)' : body.i < line'[s][i].b.i
        BY <2>3, <2>5, <3>1, Numbers DEF Reading, OrderInv
      <3>7. \A x \in Of(s) : jobs[x].b # NoBody /\ jobs[x].b.i < body.i
        BY <2>3, <3>1, <3>6, Numbers DEF Reading, OrderInv
      <3>8. \A n \in sent' : n[1] = s =>
              n[3].i <= body.i \/ \E i \in Whole(s)' : line'[s][i].b = n[3]
        <4> SUFFICES ASSUME NEW n \in sent, n[1] = s
                     PROVE  n[3].i <= body.i \/ \E i \in Whole(s)' : line'[s][i].b = n[3]
          BY <1>0
        <4>1. CASE buffer[s] # NoBody /\ n[3].i <= buffer[s].i
          BY <2>3, <3>1, <3>6, <4>1, Numbers DEF Reading, OrderInv
        <4>2. CASE \E i \in Whole(s) : line[s][i].b = n[3]
          BY <3>1, <3>2, <3>6, <4>2
        <4> QED
          BY <2>3, <4>1, <4>2 DEF Reading
      <3>9. Reading(s)'
        <4>1. \A x \in Of(s)' :
                jobs'[x].b # NoBody /\ buffer'[s] # NoBody /\ jobs'[x].b.i <= buffer'[s].i
          BY <2>1, <2>4, <3>1, <3>6, <3>7, Numbers DEF OrderInv
        <4>2. \A x, z \in Of(s)' : jobs'[x].b = jobs'[z].b => x = z
          BY <2>3, <2>4, <3>6, <3>7 DEF Reading
        <4>3. buffer'[s] # NoBody => \A i \in Whole(s)' : buffer'[s].i < line'[s][i].b.i
          BY <2>1, <3>6
        <4>4. \A n \in sent' : n[1] = s =>
                \/ buffer'[s] # NoBody /\ n[3].i <= buffer'[s].i
                \/ \E i \in Whole(s)' : line'[s][i].b = n[3]
          BY <2>1, <3>1, <3>8
        <4> QED
          BY <3>3, <3>5, <4>1, <4>2, <4>3, <4>4 DEF Reading
      <3> QED
        BY <3>4, <3>9 DEF InOrder
    <2>7. CASE ~Head(line[s]).whole
      <3>1. Len(line[s]) = 1 /\ s \in torn /\ body \in {buffer[s], NoBody} \cup Mixtures
        BY <1>0, <2>1, <2>2, <2>7 DEF LineOK
      <3>2. Done(s)' /\ Whole(s) = {}
        BY <1>0, <2>2, <2>7, <3>1 DEF Done, Whole
      <3>3. \A x, z \in Of(s)' \ {y} : jobs'[x].b = jobs'[z].b => x = z
        BY <2>3, <2>4 DEF Reading
      <3>4. body \in Bodies => \A n \in sent' : n[1] = s => n[3].i <= body.i
        <4>1. body \in Bodies => body \notin Mixtures /\ body # NoBody
          BY SessionAssumption DEF Bodies, Mixtures
        <4> QED
          BY <1>0, <2>3, <3>1, <3>2, <4>1 DEF Reading
      <3>5. Repeated(s)'
        BY <2>4, <3>3, <3>4 DEF Repeated
      <3> QED
        BY <3>2, <3>5 DEF InOrder
    <2> QED
      BY <2>6, <2>7
  <1> QED
    BY <1>4, <1>5, <1>6 DEF OrderInv

(* No other step touches what the order is about. *)
LEMMA QuietOrder ==
    ASSUME OrderInv, UNCHANGED <<line, buffer, jobs, posted, sent, torn>>
    PROVE  OrderInv'
  <1>1. Numbered'
    BY DEF OrderInv, Numbered
  <1>2. ASSUME NEW s \in Sessions PROVE InOrder(s)'
    <2>1. Of(s)' = Of(s)
      BY DEF Of
    <2> QED
      BY <2>1, OtherInOrder DEF OrderInv
  <1> QED
    BY <1>1, <1>2 DEF OrderInv

LEMMA NextOrderInv ==
    ASSUME NetInv, OrderInv, SNext \/ UNCHANGED svars
    PROVE  OrderInv'
  <1>1. CASE \E s \in Sessions : Break(s) \/ Accept(s) \/ ReadHeader(s)
    BY <1>1, QuietOrder DEF Break, Accept, ReadHeader, poolVars
  <1>2. CASE \E t \in PoolThreads : RequestStep(t)
    BY <1>2, QuietOrder DEF RequestStep, Handle, Take, HandleDangling, Abort, FinishRequest, Finish,
       ThrowRequest, Throw, Exit, netVars
  <1>3. CASE \/ NetworkEnds \/ MainReleases \/ UNCHANGED svars
             \/ (Stop \/ Join) /\ UNCHANGED <<netVars, callVars>>
    BY <1>3, QuietOrder DEF NetworkEnds, MainReleases, OwnerReleases, Stop, Join, svars, netVars,
       poolVars
  <1> QED
    BY <1>1, <1>2, <1>3, SendOrder, BreakInBodyOrder, ReadBodyOrder DEF SNext, ClientStep, ReadStep

LEMMA AtMostOne ==
    ASSUME NEW S, \A x, y \in S : x = y
    PROVE  Cardinality(S) \in {0, 1}
  <1>1. CASE S = {}
    BY <1>1, FS_EmptySet
  <1>2. ASSUME NEW x \in S PROVE Cardinality(S) = 1
    <2>1. S = {x}
      OBVIOUS
    <2> QED
      BY <2>1, FS_Singleton
  <1> QED
    BY <1>1, <1>2

LEMMA OrderImpliesOneRepeat ==
    ASSUME NetInv, OrderInv
    PROVE  OneRepeatAtMost
  <1> SUFFICES ASSUME NEW m \in sent
               PROVE  LET runs == {x \in called : jobs[x].s = m[1] /\ jobs[x].b = m[3]}
                      IN  \/ Cardinality(runs) <= 1
                          \/ /\ m[1] \in torn /\ Cardinality(runs) = 2
                             /\ \A n \in sent : n[1] = m[1] => n[3].i <= m[3].i
    BY DEF OneRepeatAtMost
  <1> DEFINE runs == {x \in called : jobs[x].s = m[1] /\ jobs[x].b = m[3]}
  <1>1. m[1] \in Sessions /\ runs \subseteq Of(m[1]) /\ \A x \in runs : jobs[x].b = m[3]
    BY DEF NetInv, NetTypes, Of
  <1>2. CASE \A x, y \in runs : x = y
    BY <1>2, AtMostOne
  <1>3. CASE ~\A x, y \in runs : x = y
    <2> HIDE DEF runs
    <2>2. Done(m[1])
      BY <1>1, <1>3 DEF OrderInv, InOrder, Reading
    <2>3. PICK y \in Of(m[1]) :
            /\ \A x, z \in Of(m[1]) \ {y} : jobs[x].b = jobs[z].b => x = z
            /\ jobs[y].b \in Bodies => \A n \in sent : n[1] = m[1] => n[3].i <= jobs[y].b.i
      BY <1>1, <2>2 DEF OrderInv, InOrder, Repeated
    <2>4. y \in runs
      BY <1>1, <1>3, <2>3
    <2>5. PICK x \in runs : x # y
      BY <1>3, <2>4
    <2>6. runs = {x, y}
      BY <1>1, <2>3, <2>4, <2>5
    <2>1. jobs[y].b = m[3] /\ m[3] \in Bodies
      BY <1>1, <2>4 DEF NetInv, NetTypes
    <2>7. Cardinality(runs) = 2
      <3>1. IsFiniteSet({x}) /\ Cardinality({x}) = 1
        BY FS_Singleton
      <3>2. Cardinality({x} \cup {y}) = 2
        <4>1. y \notin {x}
          BY <2>5
        <4>2. Cardinality({x} \cup {y}) = Cardinality({x}) + 1
          BY <3>1, <4>1, FS_AddElement
        <4> QED
          BY <3>1, <4>2
      <3> QED
        BY <2>6, <3>2
    <2> QED
      BY <1>1, <2>2, <2>3, <2>4, <2>7, <2>1 DEF Done, runs
  <1> QED
    BY <1>2, <1>3

LEMMA OrderInvariance == SSpec => []OrderInv
  <1>1. NetInv /\ OrderInv /\ [SNext]_svars => OrderInv'
    BY NextOrderInv
  <1>2. SSpec => []NetInv
    BY SessionInvariance, PTL DEF SessionInv
  <1> QED
    BY InitOrderInv, <1>1, <1>2, PTL DEF SSpec

(***************************************************************************)
(* runRead posts each request once, except that a body which breaks off    *)
(* may post the last request of its session a second time.                 *)
(***************************************************************************)
THEOREM AtMostOneRepeat == SSpec => []OneRepeatAtMost
  <1>1. SSpec => []NetInv
    BY SessionInvariance, PTL DEF SessionInv
  <1>2. NetInv /\ OrderInv => OneRepeatAtMost
    BY OrderImpliesOneRepeat
  <1> QED
    BY <1>1, <1>2, OrderInvariance, PTL

==============================================================================
