-------------------------------- MODULE Chat --------------------------------
(***************************************************************************)
(* Texts: QueryEngine::sendText, ::getHistory and ::getChannels, the       *)
(* broadcast of Channel::write and the history table.  It extends Channels *)
(* with three more calls; sendText and getHistory look their channel up    *)
(* with createOrGetChannelByName and go on from its "resume".              *)
(*                                                                         *)
(* A message is its author's login, its channel and its datetime, all of   *)
(* them as the request gives them.                                         *)
(***************************************************************************)
EXTENDS Channels, FiniteSets

CONSTANTS
    Times,      \* datetimes, 0 being the default DateTime()
    NoLogin,    \* the empty string in the place of a login
    NoSession

ASSUME ChatAssumption == Times \subseteq Nat /\ NoLogin \notin Logins

VARIABLES
    history,    \* table history: rows [u, n, d] (client_id, channel_name, datetime)
    arg,        \* arg[w]: what else the call cc[w] carries
    sent,       \* history: the messages of the text requests
    echoed,     \* history: the EchoResponses handed to the session writers
    shown,      \* history: the HistoryResponses
    listed,     \* history: the ChannelsResponses
    clashed     \* history: messages whose INSERT, which does not take the mutex
                \* of the connection, ran while another query was running

textVars == <<history, arg, sent, echoed, shown, listed, clashed>>
hvars == <<cvars, textVars>>

Messages == [l : Logins, n : Names, d : Times]
NoArg == [l |-> NoLogin, d |-> 0, todo |-> {}, moved |-> FALSE, s |-> NoSession]
Args == [l : Logins \cup {NoLogin}, d : Times \cup {0}, todo : SUBSET Ids,
         moved : BOOLEAN, s : Sessions \cup {NoSession}]
ChatPcs == {"write", "author", "store", "name", "rows", "list", "names"}
QueryPcs == {"has", "getid", "create", "insert", "reread", "load", "loadLocked",
             "subid", "subhas", "subins", "author", "store", "name", "rows", "names"}

MessageOf(w) == [l |-> arg[w].l, n |-> cc[w].n, d |-> arg[w].d]

(* What every step of a call of this module leaves alone. *)
Unmoved == UNCHANGED <<userVars, started, crashes, channels, subscriptions, objects,
                       idChannels, mutex, asked, acked, overlappedNames, missing>>

EndChat(w) == EndCall(w) /\ arg' = [arg EXCEPT ![w] = NoArg]

------------------------------------------------------------------------------
(* sendText *)

SendText(w, l, n, d) ==
    /\ StartChannelCall(w, "has", "text", NoId, n)
    /\ arg' = [arg EXCEPT ![w] = [NoArg EXCEPT !.l = l, !.d = d]]
    /\ sent' = sent \cup {[l |-> l, n |-> n, d |-> d]}
    /\ UNCHANGED <<asked, history, echoed, shown, listed, clashed>>

(* Channel::write serialises the message and walks over idUsers_. *)
StartWrite(w) ==
    /\ CAt(w, "resume") /\ cc[w].op = "text"
    /\ Goto(w, "write")
    /\ arg' = [arg EXCEPT ![w].todo = objects[cc[w].obj].users]
    /\ UNCHANGED <<errors, history, sent, echoed, shown, listed, clashed>> /\ Unmoved

(***************************************************************************)
(* The buffer is moved into the first write, so that later recipients are  *)
(* written an empty one.  A user with no User object is skipped; the entry *)
(* of one may be missed while another thread writes idClients_.            *)
(***************************************************************************)
WriteNext(w) ==
    /\ CAt(w, "write")
    /\ \E u \in arg[w].todo :
         \/ /\ u \in DOMAIN idClients
            /\ echoed' = echoed \cup {[s |-> idClients[u], u |-> u, m |-> MessageOf(w),
                                       full |-> ~arg[w].moved]}
            /\ arg' = [arg EXCEPT ![w].todo = @ \ {u}, ![w].moved = TRUE]
         \/ /\ u \notin DOMAIN idClients \/ WriterInUserMap
            /\ arg' = [arg EXCEPT ![w].todo = @ \ {u}]
            /\ UNCHANGED echoed
    /\ UNCHANGED <<cc, errors, history, sent, shown, listed, clashed>> /\ Unmoved

StoreNothing(w) == cc' = [cc EXCEPT ![w].pc = "store", ![w].id = NoId]
StoreAuthor(w) == Goto(w, "author")

(* idUsers_ has no mutex: an addUser on the same Channel may cut the walk short. *)
WriteDone(w) ==
    /\ CAt(w, "write")
    /\ \/ arg[w].todo = {}
       \/ AddContended(w)
    /\ StoreAuthor(w)
    /\ arg' = [arg EXCEPT ![w].todo = {}]
    /\ UNCHANGED <<errors, history, sent, echoed, shown, listed, clashed>> /\ Unmoved

AuthorsAll(l) == DOMAIN clients
AuthorsOf(l) == IdsOf(l)

(* addMsgHistory: the id of the author's login ... *)
AuthorId(w) ==
    /\ CAt(w, "author")
    /\ \E r \in AuthorsOf(arg[w].l) \cup {NoId} :
         /\ SelectId(AuthorsOf(arg[w].l), r)
         /\ cc' = [cc EXCEPT ![w].pc = "store", ![w].id = r]
    /\ UNCHANGED textVars /\ Unmoved

(***************************************************************************)
(* ... and the INSERT, which "references clients(id)".  It is sent on the  *)
(* connection without its mutex; a query of another thread that is running *)
(* there may take its place.                                               *)
(***************************************************************************)
Clash(w) == \E v \in Workers \ {w} : cc[v].pc \in QueryPcs \/ uc[v].pc \in RegPcs \cup {"check"}

\* "client_id integer references clients(id)"
AnyClient(i) == {i}
Referenced(i) == {i} \cap DOMAIN clients

StoreText(w) ==
    /\ CAt(w, "store")
    /\ \/ /\ history' = history \cup {[u |-> i, n |-> cc[w].n, d |-> arg[w].d] :
                                       i \in Referenced(cc[w].id)}
          /\ UNCHANGED errors
       \/ Clash(w) /\ UNCHANGED <<history, errors>>
       \/ QueryFails /\ UNCHANGED history
    /\ clashed' = IF Clash(w) THEN clashed \cup {MessageOf(w)} ELSE clashed
    /\ EndChat(w)
    /\ UNCHANGED <<sent, echoed, shown, listed>> /\ Unmoved

------------------------------------------------------------------------------
(* getHistory *)

GetHistory(w, u, n, since) ==
    /\ StartChannelCall(w, "has", "history", u, n)
    /\ arg' = [arg EXCEPT ![w] = [NoArg EXCEPT !.d = since]]
    /\ UNCHANGED <<asked, history, sent, echoed, shown, listed, clashed>>

MayReadAnyone(w) == TRUE
MayRead(w) == cc[w].u \in objects[cc[w].obj].users

(* sendHistory: a member with a User object; the session is read here. *)
HistoryMember(w) ==
    /\ CAt(w, "resume") /\ cc[w].op = "history"
    /\ \/ /\ MayRead(w) /\ cc[w].u \in DOMAIN idClients
          /\ Goto(w, "name")
          /\ arg' = [arg EXCEPT ![w].s = idClients[cc[w].u]]
       \/ /\ \/ ~MayRead(w) \/ cc[w].u \notin DOMAIN idClients
             \/ WriterInUserMap \/ AddContended(w)
          /\ EndChat(w)
    /\ UNCHANGED <<errors, history, sent, echoed, shown, listed, clashed>> /\ Unmoved

(* getHistory(id): getChannelName, the empty string when its query fails ... *)
HistoryName(w) ==
    /\ CAt(w, "name")
    /\ LET id == objects[cc[w].obj].id
       IN  \/ cc' = [cc EXCEPT ![w].pc = "rows", ![w].n = channels[id]] /\ UNCHANGED errors
           \/ cc' = [cc EXCEPT ![w].pc = "rows", ![w].n = EmptyName] /\ QueryFails
    /\ UNCHANGED textVars /\ Unmoved

Newer(d, since) == since = 0 \/ since < d

(***************************************************************************)
(* ... the rows of that name, one getClientName per row, and the messages  *)
(* after since to the session read above, if there are any.                *)
(***************************************************************************)
RowsOf(n) == {r \in history : r.n = n}

AsMessage(r, nameless) ==
    [l |-> IF r \in nameless THEN NoLogin ELSE clients[r.u].login, n |-> r.n, d |-> r.d]

HistoryRows(w) ==
    /\ CAt(w, "rows")
    /\ \E rows \in {RowsOf(cc[w].n), {}}, nameless \in {{}} \cup {{r} : r \in RowsOf(cc[w].n)} :
         /\ IF rows = RowsOf(cc[w].n) /\ nameless = {} THEN UNCHANGED errors ELSE QueryFails
         /\ LET msgs == {AsMessage(r, nameless) : r \in {r \in rows : Newer(r.d, arg[w].d)}}
            IN  shown' = IF msgs = {} THEN shown
                         ELSE shown \cup {[s |-> arg[w].s, u |-> cc[w].u, msgs |-> msgs]}
    /\ EndChat(w)
    /\ UNCHANGED <<history, sent, echoed, listed, clashed>> /\ Unmoved

------------------------------------------------------------------------------
(* getChannels *)

GetChannels(w, u) ==
    /\ StartChannelCall(w, "list", "list", u, EmptyName)
    /\ UNCHANGED <<asked, textVars>>

ListUser(w) ==
    /\ CAt(w, "list")
    /\ \/ /\ cc[w].u \in DOMAIN idClients
          /\ Goto(w, "names")
          /\ arg' = [arg EXCEPT ![w].s = idClients[cc[w].u]]
       \/ /\ cc[w].u \notin DOMAIN idClients \/ WriterInUserMap
          /\ EndChat(w)
    /\ UNCHANGED <<errors, history, sent, echoed, shown, listed, clashed>> /\ Unmoved

(* getUserNameChannels: the channels the client has written to. *)
NamesOfAll(u) == {r.n : r \in history}
NamesOf(u) == {r.n : r \in {r \in history : r.u = u}}

ListNames(w) ==
    /\ CAt(w, "names")
    /\ \/ /\ listed' = listed \cup {[s |-> arg[w].s, u |-> cc[w].u, ns |-> NamesOf(cc[w].u)]}
          /\ UNCHANGED errors
       \/ /\ listed' = listed \cup {[s |-> arg[w].s, u |-> cc[w].u, ns |-> {}]}
          /\ QueryFails
    /\ EndChat(w)
    /\ UNCHANGED <<history, sent, echoed, shown, clashed>> /\ Unmoved

------------------------------------------------------------------------------
HCrash ==
    /\ CCrash
    /\ arg' = [w \in Workers |-> NoArg]
    /\ UNCHANGED <<history, sent, echoed, shown, listed, clashed>>

HInit ==
    /\ CInit
    /\ history = {}
    /\ arg = [w \in Workers |-> NoArg]
    /\ sent = {} /\ echoed = {} /\ shown = {} /\ listed = {} /\ clashed = {}

(* A call that createOrGetChannelByName ends with an exception drops its argument. *)
LookupStep(w) ==
    /\ CreateOrGetStep(w)
    /\ arg' = IF cc'[w] = Idle THEN [arg EXCEPT ![w] = NoArg] ELSE arg
    /\ UNCHANGED <<history, sent, echoed, shown, listed, clashed>>

TextStep(w) == StartWrite(w) \/ WriteNext(w) \/ WriteDone(w) \/ AuthorId(w) \/ StoreText(w)

ReadStep(w) ==
    \/ HistoryMember(w) \/ HistoryName(w) \/ HistoryRows(w)
    \/ ListUser(w) \/ ListNames(w)

HStep(w) ==
    \/ UserStep(w) /\ UNCHANGED <<channelVars, textVars>>
    \/ JoinStep(w) /\ UNCHANGED textVars
    \/ LookupStep(w)
    \/ TextStep(w)
    \/ ReadStep(w)

HRequest(w) ==
    \/ CRequest(w) /\ UNCHANGED textVars
    \/ \E l \in Logins, n \in Names, d \in Times : SendText(w, l, n, d)
    \/ \E u \in Ids, n \in Names, since \in Times \cup {0} : GetHistory(w, u, n, since)
    \/ \E u \in Ids : GetChannels(w, u)

HNext ==
    \/ HCrash
    \/ CBoot /\ UNCHANGED textVars
    \/ \E w \in Workers : HRequest(w) \/ HStep(w)

HSpec == HInit /\ [][HNext]_hvars /\ \A w \in Workers : WF_hvars(HStep(w))

------------------------------------------------------------------------------
(* Properties *)

HTypeOK ==
    /\ CTablesOK
    /\ cc \in [Workers -> CallsAt(CreatingPcs \cup GetPcs \cup JoinPcs \cup ChatPcs
                                   \cup {"resume"}) \cup {Idle}]
    /\ history \subseteq [u : DOMAIN clients, n : Names, d : Times]
    /\ arg \in [Workers -> Args]
    /\ \A w \in Workers : cc[w] = Idle => arg[w] = NoArg
    /\ sent \subseteq Messages /\ clashed \subseteq sent
    /\ \A e \in echoed : e.m \in sent /\ e.s \in Sessions

(***************************************************************************)
(* A text reaches only users who asked to join its channel, and the        *)
(* history of a channel only users who asked to join it, whatever rows of  *)
(* the name exist, and also after a restart.                               *)
(***************************************************************************)
OnlyMembersReceive ==
    /\ \A e \in echoed : <<e.u, e.m.n>> \in asked
    /\ \A h \in shown, n \in Names :
         (\E m \in h.msgs : m.n = n) => <<h.u, n>> \in asked

(***************************************************************************)
(* A message of a HistoryResponse was sent to that channel at that time    *)
(* under that login; the login is missing only when a query failed.        *)
(***************************************************************************)
HistoryIsAsSent ==
    \A h \in shown : \A m \in h.msgs :
        \/ m \in sent
        \/ m.l = NoLogin /\ errors > 0 /\ \E l \in Logins : [m EXCEPT !.l = l] \in sent

(***************************************************************************)
(* A ChannelsResponse names only channels that a text was sent to under    *)
(* the login of the client.                                                *)
(***************************************************************************)
ListedAreWritten ==
    \A x \in listed : \A n \in x.ns :
        \E m \in sent : m.n = n /\ x.u \in IdsOf(m.l)

(***************************************************************************)
(* A stored text belongs to a stored channel, also when the INSERT of the  *)
(* channel failed: no history is unreachable for want of a channel.        *)
(***************************************************************************)
TextsBelongToChannels == \A r \in history : IdsOfName(r.n) # {}

(***************************************************************************)
(* Until two calls of one login or one name overlap, the tables change as  *)
(* the maps of Storage would, one operation at a time, and what auth and   *)
(* getHistory answer is what Storage would: though an operation of         *)
(* WrapperPg takes several queries, some of which may fail, and the        *)
(* process may die between them.                                           *)
(***************************************************************************)
ChannelOf(r) == CHOOSE k \in IdsOfName(r.n) : TRUE

Memory == INSTANCE Storage WITH
    Keys <- 1..(MaxCalls + Cardinality(Logins)),
    users <- clients,
    clientChannels <- {<<row[1], channels[row[2]]>> : row \in {r \in subscriptions : r[2] # NoId}},
    history <- {<<ChannelOf(r), [l |-> clients[r.u].login, n |-> r.n, d |-> r.d]>> : r \in history}

ActsAsStorage ==
    [][overlapped' = {} /\ overlappedNames' = {} =>
         /\ Memory!StorageNext \/ UNCHANGED Memory!stVars
         /\ \A a \in told' \ told :
              a.op = "auth" /\ a.id # NoId => a.id = Memory!checkAuthUser(a.l, a.p)
         /\ \A h \in shown' \ shown :
              errors' > 0 \/ \E k \in DOMAIN channels : h.msgs \subseteq Memory!getHistory(k)
      ]_hvars

(***************************************************************************)
(* A text that was echoed to somebody is stored in the end, unless its     *)
(* author's login is not a client, its INSERT clashed with another query,  *)
(* a query failed or the process died.                                     *)
(***************************************************************************)
EchoedIsStored ==
    \A l \in Logins, n \in Names, d \in Times :
        (\E e \in echoed : e.m = [l |-> l, n |-> n, d |-> d])
        ~> \/ \E i \in IdsOf(l) : [u |-> i, n |-> n, d |-> d] \in history
           \/ IdsOf(l) = {}
           \/ [l |-> l, n |-> n, d |-> d] \in clashed
           \/ errors > 0 \/ crashes > 0

(***************************************************************************)
(* "send msg=%1% to user=%2%" (Channel::write): what is sent to a user in  *)
(* a broadcast is the message.                                             *)
(***************************************************************************)
RecipientsGetTheText == \A e \in echoed : e.full

==============================================================================
