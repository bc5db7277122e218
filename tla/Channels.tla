------------------------------ MODULE Channels ------------------------------
(***************************************************************************)
(* Channels and their members: QueryEngine::joinRoom, the ChannelsManager, *)
(* the Channel objects and the channels and subscriptions tables they      *)
(* reach through WrapperPg.  It extends Users with a second kind of call;  *)
(* a worker executes one call at a time, of either kind.                   *)
(*                                                                         *)
(* createOrGetChannelByName takes three or more queries and locks the map  *)
(* of channels only while it looks into it or writes it, so two calls for  *)
(* one name may build two Channel objects.  A Channel has its own set of   *)
(* members, read from the subscriptions when it is built.                  *)
(***************************************************************************)
EXTENDS Users

CONSTANTS
    Names,      \* channel names a request may carry
    EmptyName,  \* the empty string, the default of a protobuf string field
    Ids,        \* client ids a request may carry, known to the server or not
    NoWorker

ASSUME RequestAssumption == Ids \subseteq Nat /\ NoWorker \notin Workers

VARIABLES
    channels,       \* table channels(id serial, channel_name): row k has id k
    subscriptions,  \* table subscriptions: rows <<client_id, channel_id>>
    objects,        \* the Channel objects built by this process
    idChannels,     \* ChannelsManager::idChannels_: id -> position in objects
    mutex,          \* ChannelsManager::mutex_: the worker that holds it
    cc,             \* cc[w]: the channel call that worker w executes
    asked,          \* history: <<client_id, name>> of the join requests
    acked,          \* history: the JoinRoomResponses handed to the writers
    overlappedNames,\* history: names whose creation overlapped another call
    missing         \* history: <<client_id, name>> whose entry into the set of
                    \* members raced another, or was not loaded from the table

channelVars == <<channels, subscriptions, objects, idChannels, mutex, cc,
                 asked, acked, overlappedNames, missing>>
userVars == <<clients, idClients, uc, server, told, overlapped, racedIds>>
cvars == <<vars, channelVars>>

CreatingPcs == {"create", "insert", "reread", "load", "register"}
GetPcs == {"has", "getid", "lock", "loadLocked"}
JoinPcs == {"add", "ack", "subid", "subhas", "subins"}
\* text and history are requests of Chat that look their channel up the same way.
ChannelOps == {"join", "text", "history", "list"}
CallsAt(pcs) == [pc : pcs, op : ChannelOps, u : Ids \cup {NoId},
                 n : Names \cup {EmptyName}, id : Nat, obj : Nat]
Objects == [name : Names, id : Nat, users : SUBSET Ids]
Acks == [s : Sessions, u : Ids, n : Names, inc : Nat]

CAt(w, pc) == cc[w].pc = pc

------------------------------------------------------------------------------
(* The tables *)

IdsOfName(n) == {k \in DOMAIN channels : channels[k] = n}

(* getChannelUsers *)
UsersOfNone(k) == {}
UsersOfAll(k) == {row[1] : row \in subscriptions}
UsersOf(k) == {row[1] : row \in {r \in subscriptions : r[2] = k}}

QueryFails == errors < MaxErrors /\ errors' = errors + 1

------------------------------------------------------------------------------
(* createOrGetChannelByName *)

(* Another call is creating a channel of this name. *)
Creating(w, n) ==
    \E v \in Workers \ {w} : cc[v].pc \in CreatingPcs /\ cc[v].n = n

(* What the constructor of Channel insists on, on pain of an exception. *)
ConstructibleNamed(id, n) == n # EmptyName
Constructible(id, n) == n # EmptyName /\ id # NoId

KnownChannelForgotten(id) == FALSE
KnownChannel(id) == id \in DOMAIN idChannels

AfterNoRereadRetrying == "insert"
AfterNoReread == "load"

StartChannelCall(w, pc, op, u, n) ==
    /\ server = "up" /\ uc[w] = Idle /\ cc[w] = Idle
    /\ started < MaxCalls
    /\ started' = started + 1
    /\ cc' = [cc EXCEPT ![w] = [pc |-> pc, op |-> op, u |-> u, n |-> n,
                                id |-> NoId, obj |-> 0]]
    /\ UNCHANGED <<userVars, errors, crashes, channels, subscriptions, objects,
                   idChannels, mutex, acked, overlappedNames, missing>>

(* The call ends, or an exception ends it in WorkersPool::runThread. *)
EndCall(w) == cc' = [cc EXCEPT ![w] = Idle]

Goto(w, pc) == cc' = [cc EXCEPT ![w].pc = pc]

(* hasChannel throws when its query fails. *)
HasChannel(w) ==
    /\ CAt(w, "has")
    /\ \/ /\ Goto(w, IF IdsOfName(cc[w].n) = {} THEN "create" ELSE "getid")
          /\ overlappedNames' = IF Creating(w, cc[w].n)
                                THEN overlappedNames \cup {cc[w].n} ELSE overlappedNames
          /\ UNCHANGED errors
       \/ QueryFails /\ EndCall(w) /\ UNCHANGED overlappedNames
    /\ UNCHANGED <<userVars, started, crashes, channels, subscriptions, objects,
                   idChannels, mutex, asked, acked, missing>>

(***************************************************************************)
(* getChannelId, in its four places: the known branch, createChannel       *)
(* before and after its INSERT, and joinClientChannel.                     *)
(***************************************************************************)
GetChannelId(w, pc, none, some) ==
    /\ CAt(w, pc)
    /\ \E r \in IdsOfName(cc[w].n) \cup {NoId} :
         /\ SelectId(IdsOfName(cc[w].n), r)
         /\ cc' = [cc EXCEPT ![w].pc = IF r = NoId THEN none ELSE some, ![w].id = r]
    /\ UNCHANGED <<userVars, started, crashes, channels, subscriptions, objects,
                   idChannels, mutex, asked, acked, overlappedNames, missing>>

GetKnownId(w)   == GetChannelId(w, "getid", "lock", "lock")
CreateLookup(w) == GetChannelId(w, "create", "insert", "load")
CreateReread(w) == GetChannelId(w, "reread", AfterNoReread, "load")
JoinGetId(w)    == GetChannelId(w, "subid", "subhas", "subhas")

CreateInsert(w) ==
    /\ CAt(w, "insert")
    /\ \/ channels' = Append(channels, cc[w].n) /\ UNCHANGED errors
       \/ QueryFails /\ UNCHANGED channels
    /\ Goto(w, "reread")
    /\ UNCHANGED <<userVars, started, crashes, subscriptions, objects, idChannels,
                   mutex, asked, acked, overlappedNames, missing>>

(***************************************************************************)
(* The constructor of Channel: the members come from getChannelUsers, none *)
(* of them when that query fails.                                          *)
(***************************************************************************)
Construct(w, pc) ==
    \E us \in {UsersOf(cc[w].id), {}} :
        /\ \/ us = UsersOf(cc[w].id) /\ UNCHANGED errors
           \/ us = {} /\ QueryFails
        /\ objects' = Append(objects, [name |-> cc[w].n, id |-> cc[w].id, users |-> us])
        /\ missing' = missing \cup ((UsersOf(cc[w].id) \ us) \X {cc[w].n})
        /\ cc' = [cc EXCEPT ![w].pc = pc, ![w].obj = Len(objects) + 1]

PutChannel(id, o) ==
    idChannels' = [k \in DOMAIN idChannels \cup {id} |-> IF k = id THEN o ELSE idChannels[k]]

(* Under the mutex: the Channel of the id, or the decision to build one. *)
LockRegistry(w) ==
    /\ CAt(w, "lock") /\ mutex = NoWorker
    /\ \/ /\ KnownChannel(cc[w].id)
          /\ cc' = [cc EXCEPT ![w].pc = "resume", ![w].obj = idChannels[cc[w].id]]
          /\ UNCHANGED mutex
       \/ /\ ~KnownChannel(cc[w].id) /\ Constructible(cc[w].id, cc[w].n)
          /\ Goto(w, "loadLocked")
          /\ mutex' = w
       \/ /\ ~KnownChannel(cc[w].id) /\ ~Constructible(cc[w].id, cc[w].n)
          /\ EndCall(w)
          /\ UNCHANGED mutex
    /\ UNCHANGED <<userVars, boundVars, channels, subscriptions, objects, idChannels,
                   asked, acked, overlappedNames, missing>>

LeaveLocked == UNCHANGED mutex
Release == mutex' = NoWorker

(* A channel that is only in the database is built with the mutex held. *)
BuildLocked(w) ==
    /\ CAt(w, "loadLocked")
    /\ Construct(w, "resume")
    /\ PutChannel(cc[w].id, Len(objects) + 1)
    /\ Release
    /\ UNCHANGED <<userVars, started, crashes, channels, subscriptions, asked,
                   acked, overlappedNames>>

(* A channel that was created is built without the mutex ... *)
Build(w) ==
    /\ CAt(w, "load")
    /\ \/ Constructible(cc[w].id, cc[w].n) /\ Construct(w, "register")
       \/ /\ ~Constructible(cc[w].id, cc[w].n)
          /\ EndCall(w)
          /\ UNCHANGED <<objects, missing, errors>>
    /\ UNCHANGED <<userVars, started, crashes, channels, subscriptions, idChannels,
                   mutex, asked, acked, overlappedNames>>

(* ... and takes the place of whatever Channel the id had by then. *)
Register(w) ==
    /\ CAt(w, "register") /\ mutex = NoWorker
    /\ PutChannel(cc[w].id, cc[w].obj)
    /\ Goto(w, "resume")
    /\ UNCHANGED <<userVars, boundVars, channels, subscriptions, objects, mutex,
                   asked, acked, overlappedNames, missing>>

------------------------------------------------------------------------------
(* joinRoom *)

JoinRoom(w, u, n) ==
    /\ StartChannelCall(w, "has", "join", u, n)
    /\ asked' = asked \cup {<<u, n>>}

KnownUserAlways(u) == TRUE
KnownUser(u) == u \in DOMAIN idClients

(* getUser may miss an entry while another thread writes idClients_. *)
WriterInUserMap == \E v \in Workers : uc[v].pc = "push"

JoinUser(w) ==
    /\ CAt(w, "resume") /\ cc[w].op = "join"
    /\ \/ KnownUser(cc[w].u) /\ Goto(w, "add")
       \/ (~KnownUser(cc[w].u) \/ WriterInUserMap) /\ EndCall(w)
    /\ UNCHANGED <<userVars, boundVars, channels, subscriptions, objects, idChannels,
                   mutex, asked, acked, overlappedNames, missing>>

(* Channel::idUsers_ has no mutex either: another worker in this addUser. *)
AddContended(w) ==
    \E v \in Workers \ {w} : cc[v].pc = "add" /\ cc[v].obj = cc[w].obj

(***************************************************************************)
(* addUser answers only a user it did not have.  Under contention the      *)
(* insertion may be lost, or a member may not be seen.                     *)
(***************************************************************************)
AddUser(w) ==
    LET o == cc[w].obj
        member == cc[w].u \in objects[o].users
    IN  /\ CAt(w, "add")
        /\ \/ member /\ Goto(w, "subid") /\ UNCHANGED objects
           \/ /\ ~member
              /\ Goto(w, "ack")
              /\ objects' = [objects EXCEPT ![o].users = @ \cup {cc[w].u}]
           \/ AddContended(w) /\ Goto(w, "ack") /\ UNCHANGED objects
        /\ missing' = IF AddContended(w)
                      THEN missing \cup {<<cc[w].u, cc[w].n>>} ELSE missing
        /\ UNCHANGED <<userVars, boundVars, channels, subscriptions, idChannels,
                       mutex, asked, acked, overlappedNames>>

JoinNotStored(w) == EndCall(w)
StoreJoin(w) == Goto(w, "subid")

(* JoinRoomResponse(name, true), before anything is stored. *)
JoinAck(w) ==
    /\ CAt(w, "ack")
    /\ \/ /\ cc[w].u \in DOMAIN idClients
          /\ acked' = acked \cup {[s |-> idClients[cc[w].u], u |-> cc[w].u,
                                   n |-> cc[w].n, inc |-> crashes]}
       \/ (cc[w].u \notin DOMAIN idClients \/ WriterInUserMap) /\ UNCHANGED acked
    /\ StoreJoin(w)
    /\ UNCHANGED <<userVars, boundVars, channels, subscriptions, objects, idChannels,
                   mutex, asked, overlappedNames, missing>>

(* joinClientChannel: hasChannelClient, then the INSERT. *)
JoinHas(w) ==
    /\ CAt(w, "subhas")
    /\ \/ <<cc[w].u, cc[w].id>> \in subscriptions /\ EndCall(w) /\ UNCHANGED errors
       \/ <<cc[w].u, cc[w].id>> \notin subscriptions /\ Goto(w, "subins") /\ UNCHANGED errors
       \/ QueryFails /\ Goto(w, "subins")
    /\ UNCHANGED <<userVars, started, crashes, channels, subscriptions, objects,
                   idChannels, mutex, asked, acked, overlappedNames, missing>>

JoinInsert(w) ==
    /\ CAt(w, "subins")
    /\ \/ subscriptions' = subscriptions \cup {<<cc[w].u, cc[w].id>>} /\ UNCHANGED errors
       \/ QueryFails /\ UNCHANGED subscriptions
    /\ EndCall(w)
    /\ UNCHANGED <<userVars, started, crashes, channels, objects, idChannels, mutex,
                   asked, acked, overlappedNames, missing>>

------------------------------------------------------------------------------
(* The process *)

CCrash ==
    /\ Crash
    /\ objects' = <<>> /\ idChannels' = [k \in {} |-> 0] /\ mutex' = NoWorker
    /\ cc' = [w \in Workers |-> Idle] /\ missing' = {}
    /\ UNCHANGED <<channels, subscriptions, asked, acked, overlappedNames>>

(* createChannelFromDb, with the members of the rows in failed not loaded. *)
LoadChannels(failed) ==
    /\ objects' = [k \in DOMAIN channels |->
                     [name |-> channels[k], id |-> k,
                      users |-> IF k \in failed THEN {} ELSE UsersOf(k)]]
    /\ idChannels' = [k \in DOMAIN channels |-> k]
    /\ missing' = UNION {UsersOf(k) \X {channels[k]} : k \in failed}

(***************************************************************************)
(* main builds the ChannelsManager before it serves.  A stored empty name  *)
(* makes the constructor of Channel throw, and the process ends: it stays  *)
(* down.                                                                   *)
(***************************************************************************)
CBoot ==
    /\ BootUsers
    /\ \/ /\ \A k \in DOMAIN channels : Constructible(k, channels[k])
          /\ \/ LoadChannels({}) /\ UNCHANGED errors
             \/ \E k \in DOMAIN channels : LoadChannels({k}) /\ QueryFails
       \/ QueryFails /\ UNCHANGED <<objects, idChannels, missing>>
    /\ UNCHANGED <<channels, subscriptions, mutex, cc, asked, acked, overlappedNames>>

------------------------------------------------------------------------------
CInit ==
    /\ Init
    /\ channels = <<>> /\ subscriptions = {}
    /\ objects = <<>> /\ idChannels = [k \in {} |-> 0] /\ mutex = NoWorker
    /\ cc = [w \in Workers |-> Idle]
    /\ asked = {} /\ acked = {} /\ overlappedNames = {} /\ missing = {}

CreateOrGetStep(w) ==
    \/ HasChannel(w) \/ GetKnownId(w) \/ LockRegistry(w) \/ BuildLocked(w)
    \/ CreateLookup(w) \/ CreateInsert(w) \/ CreateReread(w) \/ Build(w) \/ Register(w)

JoinStep(w) ==
    \/ JoinUser(w) \/ AddUser(w) \/ JoinAck(w)
    \/ JoinGetId(w) \/ JoinHas(w) \/ JoinInsert(w)

CStep(w) ==
    \/ UserStep(w) /\ UNCHANGED channelVars
    \/ CreateOrGetStep(w)
    \/ JoinStep(w)

CRequest(w) ==
    \/ cc[w] = Idle /\ UserRequest(w) /\ UNCHANGED channelVars
    \/ \E u \in Ids, n \in Names : JoinRoom(w, u, n)

CNext == CCrash \/ CBoot \/ \E w \in Workers : CRequest(w) \/ CStep(w)

CSpec == CInit /\ [][CNext]_cvars /\ \A w \in Workers : WF_cvars(CStep(w))

------------------------------------------------------------------------------
(* Properties *)

CTablesOK ==
    /\ TypeOK
    /\ channels \in Seq(Names)
    /\ subscriptions \subseteq Ids \X Nat
    /\ objects \in Seq(Objects)
    /\ DOMAIN idChannels \subseteq DOMAIN channels
    /\ idChannels \in [DOMAIN idChannels -> DOMAIN objects]
    /\ mutex \in Workers \cup {NoWorker}
    /\ asked \subseteq Ids \X Names
    /\ acked \subseteq Acks
    /\ overlappedNames \subseteq Names
    /\ missing \subseteq Ids \X Names

CTypeOK ==
    /\ CTablesOK
    /\ cc \in [Workers -> CallsAt(CreatingPcs \cup GetPcs \cup JoinPcs \cup {"resume"})
                         \cup {Idle}]

(***************************************************************************)
(* A name has two rows in channels, hence two ids and two Channels with    *)
(* separate members, only if a call found a creation of it in progress.    *)
(***************************************************************************)
DuplicateChannelNeedsOverlap ==
    \A j, k \in DOMAIN channels :
        j # k /\ channels[j] = channels[k] => channels[j] \in overlappedNames

(***************************************************************************)
(* Who is stored as a member of a channel is in the set of members of the  *)
(* Channel that the manager hands out, so that it receives what is sent:   *)
(* restarts included, unless the creation of the channel overlapped        *)
(* another call for it, or the entry itself raced or failed to load.       *)
(***************************************************************************)
StoredMembersHear ==
    \A row \in subscriptions : row[2] \in DOMAIN idChannels =>
        \/ row[1] \in objects[idChannels[row[2]]].users
        \/ channels[row[2]] \in overlappedNames
        \/ <<row[1], channels[row[2]]>> \in missing

(***************************************************************************)
(* Who was told by this process that it joined is in the set of members of *)
(* the Channel that the manager hands out for the name, with the same      *)
(* exceptions.                                                             *)
(***************************************************************************)
AckedMembersHear ==
    \A a \in acked : a.inc = crashes /\ server = "up" =>
        \A k \in DOMAIN idChannels : channels[k] = a.n =>
            \/ a.u \in objects[idChannels[k]].users
            \/ a.n \in overlappedNames
            \/ <<a.u, a.n>> \in missing

(***************************************************************************)
(* Nobody becomes a member of a channel it did not ask to join, not by a   *)
(* restart, a second row of the name or a failed query either.             *)
(***************************************************************************)
OnlyAskedAreMembers ==
    /\ \A o \in DOMAIN objects : objects[o].users \X {objects[o].name} \subseteq asked
    /\ \A row \in subscriptions : row[2] # NoId =>
         row[2] \in DOMAIN channels /\ <<row[1], channels[row[2]]>> \in asked

(***************************************************************************)
(* Every member of a channel, in memory or stored, is a row of clients,    *)
(* though a request names its client_id freely.                            *)
(***************************************************************************)
MembersAreClients ==
    /\ \A o \in DOMAIN objects : objects[o].users \subseteq DOMAIN clients
    /\ \A row \in subscriptions : row[1] \in DOMAIN clients

(* Every call finishes: no worker waits for the mutex of the manager for ever. *)
ChannelCallsFinish ==
    \A w \in Workers : (uc[w] # Idle \/ cc[w] # Idle) ~> (uc[w] = Idle /\ cc[w] = Idle)

(***************************************************************************)
(* A join is answered, if it is the first one of its user, unless the user *)
(* is not known, a login writes the map of users meanwhile, the entry into *)
(* the set of members raced, a query failed or the process died.           *)
(***************************************************************************)
JoinIsAnswered ==
    \A u \in Ids, n \in Names \ {EmptyName} :
        (\E w \in Workers : CAt(w, "has") /\ cc[w].op = "join" /\ cc[w].u = u /\ cc[w].n = n)
        ~> \/ \E a \in acked : a.u = u /\ a.n = n
           \/ ~KnownUser(u) \/ WriterInUserMap \/ <<u, n>> \in missing
           \/ errors > 0 \/ crashes > 0

(***************************************************************************)
(* A join that was answered is stored in the end, unless the process dies  *)
(* or a query fails in between.                                            *)
(***************************************************************************)
JoinIsStored ==
    <>[](\A a \in acked :
            \/ \E k \in IdsOfName(a.n) : <<a.u, k>> \in subscriptions
            \/ errors > 0 \/ crashes > 0)

(***************************************************************************)
(* "Channel: empty name" (the constructor of Channel): a channel has a     *)
(* name, so no empty one is ever stored.                                   *)
(***************************************************************************)
StoredNamesAreValid == \A k \in DOMAIN channels : channels[k] # EmptyName

==============================================================================
