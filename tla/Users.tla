-------------------------------- MODULE Users --------------------------------
(***************************************************************************)
(* Registration and authorisation: QueryEngine::reg and ::auth, the        *)
(* UserManager they fill and the clients table they reach through          *)
(* WrapperPg.  The handlers run on the threads of the WorkersPool, so a    *)
(* call is cut at every SQL query and at every access to shared memory;    *)
(* calls of different workers interleave between those points.             *)
(*                                                                         *)
(* The table survives a crash of the process, the UserManager does not.    *)
(***************************************************************************)
EXTENDS Naturals, Sequences

CONSTANTS
    Workers,    \* threads of the WorkersPool
    Sessions,   \* client connections
    Logins,
    Passwords,
    MaxCalls,   \* bound: requests served in one behaviour
    MaxErrors,  \* bound: SQL queries that fail
    MaxCrashes  \* bound: deaths of the process

ASSUME BoundsAssumption ==
    MaxCalls \in Nat /\ MaxErrors \in Nat /\ MaxCrashes \in Nat

VARIABLES
    clients,    \* table clients(id serial, login, password): row i has id i
    idClients,  \* UserManager::idClients_: id -> session of the User object
    uc,         \* uc[w]: the reg or auth call that worker w executes
    server,     \* is the process "up" or "down"
    started,    \* requests served so far
    errors,     \* queries failed so far
    crashes,    \* deaths of the process so far
    told,       \* history: the answers handed to the session writers
    overlapped, \* history: logins two registrations of which overlapped, or
                \* whose registration had a failed query
    racedIds    \* history: ids written to idClients_ by two threads at once

boundVars == <<started, errors, crashes>>
historyVars == <<told, overlapped, racedIds>>
vars == <<clients, idClients, uc, server, started, errors, crashes,
          told, overlapped, racedIds>>

\* LOGIN_IS_FREE, REG_LOGIN_IS_BUSY and AUTH_LOGIN_IS_NOT_AVAILABLE are all 0.
NoId == 0

Idle == [pc |-> "idle"]
RegPcs == {"lookup", "insert", "reread"}
CallPcs == RegPcs \cup {"check", "push", "answer"}
Calls == [pc : CallPcs, op : {"reg", "auth"}, s : Sessions, l : Logins,
          p : Passwords, id : Nat]
Answers == [op : {"reg", "auth"}, s : Sessions, l : Logins, p : Passwords,
            id : Nat, inc : Nat]

At(w, pc) == uc[w].pc = pc

------------------------------------------------------------------------------
(* The clients table *)

IdsOf(l) == {i \in DOMAIN clients : clients[i].login = l}

(***************************************************************************)
(* "SELECT id ... WHERE ...": row 0 of an unordered result, 0 of an empty  *)
(* one (PQntuples) and 0 when the query fails (PQresultStatus).            *)
(***************************************************************************)
SelectId(found, r) ==
    \/ /\ r \in found \/ (found = {} /\ r = NoId)
       /\ UNCHANGED errors
    \/ /\ r = NoId
       /\ errors < MaxErrors
       /\ errors' = errors + 1

(* Two registrations of l are past their lookup at once. *)
Overlap(w, l) ==
    \E v \in Workers \ {w} : uc[v].pc = "insert" /\ uc[v].l = l

------------------------------------------------------------------------------
(* The handlers *)

AfterLookupIgnoringBusy(r) == "insert"
AfterLookup(r) == IF r = NoId THEN "insert" ELSE "answer"

AcceptAnyPassword(r, p) == r # NoId
AcceptOtherPasswords(r, p) == r # NoId /\ clients[r].pw # p
Accepted(r, p) == r # NoId /\ clients[r].pw = p

AfterIdUnbound(id) == "answer"
AfterIdUnchecked(id) == "push"
AfterId(id) == IF id = NoId THEN "answer" ELSE "push"

(* The call goes on at pc, holding id. *)
Advance(w, pc, id) ==
    uc' = [uc EXCEPT ![w] = [pc |-> pc, op |-> @.op, s |-> @.s, l |-> @.l, p |-> @.p, id |-> id]]

StartCall(w, call) ==
    /\ server = "up" /\ uc[w] = Idle
    /\ started < MaxCalls
    /\ started' = started + 1
    /\ uc' = [uc EXCEPT ![w] = call]
    /\ UNCHANGED <<clients, idClients, server, errors, crashes, historyVars>>

Reg(w, s, l, p) ==
    StartCall(w, [pc |-> "lookup", op |-> "reg", s |-> s, l |-> l, p |-> p, id |-> NoId])

Auth(w, s, l, p) ==
    StartCall(w, [pc |-> "check", op |-> "auth", s |-> s, l |-> l, p |-> p, id |-> NoId])

(* checkRegUser: the login is looked up first ... *)
RegLookup(w) ==
    /\ At(w, "lookup")
    /\ \E r \in IdsOf(uc[w].l) \cup {NoId} :
         /\ SelectId(IdsOf(uc[w].l), r)
         /\ Advance(w, AfterLookup(r), NoId)
         /\ overlapped' = IF errors' # errors \/ (AfterLookup(r) = "insert" /\ Overlap(w, uc[w].l))
                          THEN overlapped \cup {uc[w].l} ELSE overlapped
    /\ UNCHANGED <<clients, idClients, server, started, crashes, told, racedIds>>

(* ... inserted if it was free; the status of the INSERT is only logged ... *)
RegInsert(w) ==
    /\ At(w, "insert")
    /\ \/ /\ clients' = Append(clients, [login |-> uc[w].l, pw |-> uc[w].p])
          /\ UNCHANGED <<errors, overlapped>>
       \/ /\ errors < MaxErrors
          /\ errors' = errors + 1
          /\ overlapped' = overlapped \cup {uc[w].l}
          /\ UNCHANGED clients
    /\ Advance(w, "reread", NoId)
    /\ UNCHANGED <<idClients, server, started, crashes, told, racedIds>>

(* ... and the id is read back by login. *)
LastInsertedIds(l) == {Len(clients)}
RegisteredIds(l) == IdsOf(l)

RegReread(w) ==
    /\ At(w, "reread")
    /\ \E r \in RegisteredIds(uc[w].l) \cup {NoId} :
         /\ SelectId(RegisteredIds(uc[w].l), r)
         /\ Advance(w, AfterId(r), r)
    /\ UNCHANGED <<clients, idClients, server, started, crashes, historyVars>>

(* checkAuthUser: the password of the row found decides. *)
AuthCheck(w) ==
    /\ At(w, "check")
    /\ \E r \in IdsOf(uc[w].l) \cup {NoId} :
         /\ SelectId(IdsOf(uc[w].l), r)
         /\ LET id == IF Accepted(r, uc[w].p) THEN r ELSE NoId
            IN  Advance(w, AfterId(id), id)
    /\ UNCHANGED <<clients, idClients, server, started, crashes, historyVars>>

(***************************************************************************)
(* UserManager::push: a new User or updateSession on the old one, either   *)
(* way the id is bound to the caller's session.  idClients_ has no mutex:  *)
(* when another worker is about to push too the two writes are a data      *)
(* race, and this one may be lost.                                         *)
(***************************************************************************)
PushContended(w) == \E v \in Workers \ {w} : uc[v].pc = "push"

BindEveryone(id, s) == idClients' = [i \in DOMAIN idClients \cup {id} |-> s]
BindOnce(id, s) ==
    idClients' = [i \in DOMAIN idClients \cup {id} |-> IF i \in DOMAIN idClients THEN idClients[i] ELSE s]
Bind(id, s) ==
    idClients' = [i \in DOMAIN idClients \cup {id} |-> IF i = id THEN s ELSE idClients[i]]

Push(w) ==
    /\ At(w, "push")
    /\ \/ Bind(uc[w].id, uc[w].s)
       \/ PushContended(w) /\ UNCHANGED idClients
    /\ racedIds' = IF PushContended(w)
                   THEN racedIds \cup {uc[w].id} ELSE racedIds
    /\ Advance(w, "answer", uc[w].id)
    /\ UNCHANGED <<clients, server, boundVars, told, overlapped>>

(***************************************************************************)
(* The response goes to the writer of the caller's session.  Sessions are  *)
(* kept by AcceptProcess::sessions_ for the life of the process, so        *)
(* sessionWeak.lock() succeeds.                                            *)
(***************************************************************************)
Answer(w) ==
    /\ At(w, "answer")
    /\ told' = told \cup {[op |-> uc[w].op, s |-> uc[w].s, l |-> uc[w].l,
                           p |-> uc[w].p, id |-> uc[w].id, inc |-> crashes]}
    /\ uc' = [uc EXCEPT ![w] = Idle]
    /\ UNCHANGED <<clients, idClients, server, boundVars, overlapped, racedIds>>

------------------------------------------------------------------------------
(* The process *)

(* The process dies: what it held in memory is gone, the table stays. *)
Crash ==
    /\ server = "up" /\ crashes < MaxCrashes
    /\ server' = "down" /\ crashes' = crashes + 1
    /\ uc' = [w \in Workers |-> Idle]
    /\ idClients' = [i \in {} |-> 0]
    /\ racedIds' = {}
    /\ UNCHANGED <<clients, started, errors, told, overlapped>>

(* A connect that fails ends main: the process stays down. *)
Connect == server = "down" /\ server' = "up"

(* main: WrapperPg::connect, then an empty UserManager. *)
BootUsers ==
    /\ Connect
    /\ UNCHANGED <<clients, idClients, uc, started, crashes, historyVars>>

Boot == BootUsers /\ UNCHANGED errors

------------------------------------------------------------------------------
Init ==
    /\ clients = <<>>
    /\ idClients = [i \in {} |-> 0]
    /\ uc = [w \in Workers |-> Idle]
    /\ server = "down"
    /\ started = 0 /\ errors = 0 /\ crashes = 0
    /\ told = {} /\ overlapped = {} /\ racedIds = {}

UserRequest(w) ==
    \E s \in Sessions, l \in Logins, p \in Passwords : Reg(w, s, l, p) \/ Auth(w, s, l, p)

UserStep(w) ==
    \/ RegLookup(w) \/ RegInsert(w) \/ RegReread(w)
    \/ AuthCheck(w)
    \/ Push(w) \/ Answer(w)

Next == Crash \/ Boot \/ \E w \in Workers : UserRequest(w) \/ UserStep(w)

(* A thread of the pool that is inside a handler keeps running. *)
Fairness == \A w \in Workers : WF_vars(UserStep(w))

Spec == Init /\ [][Next]_vars /\ Fairness

------------------------------------------------------------------------------
(* Properties *)

TypeOK ==
    /\ clients \in Seq([login : Logins, pw : Passwords])
    /\ DOMAIN idClients \subseteq DOMAIN clients
    /\ idClients \in [DOMAIN idClients -> Sessions]
    /\ uc \in [Workers -> Calls \cup {Idle}]
    /\ server \in {"up", "down"}
    /\ started \in 0..MaxCalls /\ errors \in 0..MaxErrors /\ crashes \in 0..MaxCrashes
    /\ told \subseteq Answers
    /\ overlapped \subseteq Logins
    /\ racedIds \subseteq Nat

(***************************************************************************)
(* An id that a client was told is a row of its login, and of its password *)
(* when it was told so by auth: no answer ever promises an account that    *)
(* the table does not hold, also after a crash or a failed query.          *)
(***************************************************************************)
ToldIdIsStored ==
    \A a \in told : a.id # NoId =>
        /\ a.id \in IdsOf(a.l)
        /\ a.op = "auth" => clients[a.id].pw = a.p

(***************************************************************************)
(* checkRegUser is a check-then-act over three queries and the table has   *)
(* no UNIQUE constraint: a login has two rows only if two registrations of *)
(* it overlapped or a query of one failed.                                 *)
(***************************************************************************)
DuplicateLoginNeedsOverlap ==
    \A i, j \in DOMAIN clients :
        i # j /\ clients[i].login = clients[j].login => clients[i].login \in overlapped

(***************************************************************************)
(* Two different passwords are both accepted for a login, by reg or by     *)
(* auth, only if registrations of it overlapped or a query of one failed.  *)
(***************************************************************************)
OnePasswordPerLogin ==
    \A a, b \in told :
        a.id # NoId /\ b.id # NoId /\ a.l = b.l /\ a.p # b.p => a.l \in overlapped

(***************************************************************************)
(* The session bound to an id is one that was told that id, or whose       *)
(* worker is about to tell it: nobody receives for a user it has not       *)
(* logged in as.                                                           *)
(***************************************************************************)
BoundSessionIsTold ==
    \A i \in DOMAIN idClients :
        \/ \E a \in told : a.s = idClients[i] /\ a.id = i
        \/ \E w \in Workers : uc[w].pc = "answer" /\ uc[w].s = idClients[i] /\ uc[w].id = i

(***************************************************************************)
(* A client told an id by this process is known to the UserManager, so     *)
(* that joinRoom, getHistory and getChannels find it; only a racing push   *)
(* can lose it.                                                            *)
(***************************************************************************)
ToldIdIsKnown ==
    \A a \in told : a.id # NoId /\ a.inc = crashes /\ server = "up" =>
        a.id \in DOMAIN idClients \cup racedIds

(***************************************************************************)
(* "registration failed. user=%1% contains yet." (QueryEngine::reg): once  *)
(* a registration of a login succeeded, one with another password is       *)
(* refused.                                                                *)
(***************************************************************************)
SecondRegistrationIsRefused ==
    \A a, b \in told :
        a.op = "reg" /\ b.op = "reg" /\ a.id # NoId /\ b.id # NoId /\ a.l = b.l => a.p = b.p

==============================================================================
