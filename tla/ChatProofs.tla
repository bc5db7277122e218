------------------------------ MODULE ChatProofs ------------------------------
(***************************************************************************)
(* Theorems about texts, history and lists of channels, for any workers,   *)
(* names, ids, times and bounds.                                           *)
(*                                                                         *)
(* The steps of Chat keep CInv, what ChannelsProofs knows of calls, tables *)
(* and Channels.  ChatInv adds to it what a text carries from the lookup   *)
(* of its channel to its INSERT and what a read carries from the check of  *)
(* its member to its answer, which both outlive the mutexes they were      *)
(* looked up under; and, of each row and each answer, which request it     *)
(* goes back to.  The properties of Chat are of the latter kind.           *)
(***************************************************************************)
EXTENDS Chat, ChannelsProofs

(* What a call carries besides its channel: nothing when it is a join.       *)
TextFits(w) ==
    /\ cc[w] = Idle \/ cc[w].op = "join" => arg[w] = NoArg
    /\ cc[w] # Idle =>
         /\ cc[w].op = "text" => arg[w].l \in Logins /\ MessageOf(w) \in sent
         /\ cc[w].pc \in {"write", "author", "store"} =>
              cc[w].op = "text" /\ cc[w].n # EmptyName /\ IdsOfName(cc[w].n) # {}
         /\ cc[w].pc = "write" => \A u \in arg[w].todo : <<u, cc[w].n>> \in asked
         /\ cc[w].pc = "store" => cc[w].id \in IdsOf(arg[w].l) \cup {NoId}
         /\ cc[w].pc \in {"name", "rows"} => cc[w].op = "history"
         /\ cc[w].pc = "name" =>
              /\ cc[w].obj \in DOMAIN objects
              /\ <<cc[w].u, objects[cc[w].obj].name>> \in asked
         /\ cc[w].pc = "rows" => cc[w].n = EmptyName \/ <<cc[w].u, cc[w].n>> \in asked

SentAs(l, n, d) == [l |-> l, n |-> n, d |-> d] \in sent

RowFits(r) ==
    /\ r \in [u : DOMAIN clients, n : Names, d : Times]
    /\ SentAs(clients[r.u].login, r.n, r.d)
    /\ r.n # EmptyName /\ IdsOfName(r.n) # {}

EchoFits(e) == e.m \in sent /\ e.s \in Sessions /\ <<e.u, e.m.n>> \in asked

ShownFits(h) ==
    \A m \in h.msgs :
        /\ <<h.u, m.n>> \in asked
        /\ m \in sent \/ (m.l = NoLogin /\ errors > 0 /\ \E l \in Logins : [m EXCEPT !.l = l] \in sent)

ListedFits(x) == \A n \in x.ns : \E m \in sent : m.n = n /\ x.u \in IdsOf(m.l)

TextsFit ==
    /\ sent \subseteq Messages /\ clashed \subseteq sent
    /\ \A r \in history : RowFits(r)
    /\ \A e \in echoed : EchoFits(e)
    /\ \A h \in shown : ShownFits(h)
    /\ \A x \in listed : ListedFits(x)

ChatInv ==
    /\ CInv /\ TextsFit
    /\ arg \in [Workers -> Args]
    /\ \A w \in Workers : TextFits(w)

------------------------------------------------------------------------------
(* Frames *)

(* Rows, questions, texts and failures are only added, and while the process *)
(* lives its Channels.                                                       *)
TextsGrow ==
    /\ \A k \in DOMAIN channels : k \in DOMAIN channels' /\ channels'[k] = channels[k]
    /\ \A i \in DOMAIN clients : i \in DOMAIN clients' /\ clients'[i] = clients[i]
    /\ asked \subseteq asked' /\ sent \subseteq sent'
    /\ errors > 0 => errors' > 0
ChatGrows ==
    /\ TextsGrow
    /\ \A o \in DOMAIN objects : o \in DOMAIN objects' /\ objects'[o].name = objects[o].name

LEMMA NamesStay ==
    ASSUME TextsGrow
    PROVE  /\ \A n : IdsOfName(n) \subseteq IdsOfName(n)'
           /\ \A l : IdsOf(l) \subseteq IdsOf(l)'
  BY DEF TextsGrow, IdsOfName, IdsOf

LEMMA TextFitsStill ==
    ASSUME ChatGrows, NEW v \in Workers, cc'[v] = cc[v], arg'[v] = arg[v], TextFits(v)
    PROVE  TextFits(v)'
  <1>1. \A n : IdsOfName(n) # {} => IdsOfName(n)' # {}
    BY NamesStay DEF ChatGrows
  <1>2. \A l : IdsOf(l) \subseteq IdsOf(l)'
    BY NamesStay DEF ChatGrows
  <1>3. sent \subseteq sent' /\ asked \subseteq asked' /\ MessageOf(v)' = MessageOf(v)
    BY DEF ChatGrows, TextsGrow, MessageOf
  <1>4. \A o \in DOMAIN objects : o \in DOMAIN objects' /\ objects'[o].name = objects[o].name
    BY DEF ChatGrows
  <1> QED
    BY <1>1, <1>2, <1>3, <1>4 DEF TextFits

LEMMA RowStill ==
    ASSUME TextsGrow, NEW r, RowFits(r)
    PROVE  RowFits(r)'
  <1>1. r.u \in DOMAIN clients' /\ clients'[r.u] = clients[r.u]
    BY DEF RowFits, TextsGrow
  <1>2. IdsOfName(r.n)' # {} /\ sent \subseteq sent'
    BY NamesStay DEF RowFits, TextsGrow
  <1>3. r \in [u : DOMAIN clients', n : Names, d : Times]
    BY <1>1 DEF RowFits
  <1> QED
    BY <1>1, <1>2, <1>3 DEF RowFits, SentAs

LEMMA AnswersStill ==
    ASSUME TextsGrow
    PROVE  /\ \A e : EchoFits(e) => EchoFits(e)'
           /\ \A h : ShownFits(h) => ShownFits(h)'
           /\ \A x : ListedFits(x) => ListedFits(x)'
  <1>1. sent \subseteq sent' /\ asked \subseteq asked' /\ (errors > 0 => errors' > 0)
    BY DEF TextsGrow
  <1>2. \A l : IdsOf(l) \subseteq IdsOf(l)'
    BY NamesStay
  <1>3. ASSUME NEW e, EchoFits(e) PROVE EchoFits(e)'
    BY <1>1, <1>3 DEF EchoFits
  <1>4. ASSUME NEW h, ShownFits(h) PROVE ShownFits(h)'
    <2> SUFFICES ASSUME NEW m \in h.msgs
                 PROVE  /\ <<h.u, m.n>> \in asked'
                        /\ \/ m \in sent'
                           \/ /\ m.l = NoLogin /\ errors' > 0
                              /\ \E l \in Logins : [m EXCEPT !.l = l] \in sent'
      BY DEF ShownFits
    <2> QED
      BY <1>1, <1>4 DEF ShownFits
  <1>5. ASSUME NEW x, ListedFits(x) PROVE ListedFits(x)'
    BY <1>1, <1>2, <1>5 DEF ListedFits
  <1> QED
    BY <1>3, <1>4, <1>5

(* What is new fits, what was there still does. *)
LEMMA TextsStill ==
    ASSUME TextsFit, TextsGrow, sent' \subseteq Messages, clashed' \subseteq sent',
           \A r \in history' \ history : RowFits(r)',
           \A e \in echoed' \ echoed : EchoFits(e)',
           \A h \in shown' \ shown : ShownFits(h)',
           \A x \in listed' \ listed : ListedFits(x)'
    PROVE  TextsFit'
  <1>1. \A r \in history' : RowFits(r)'
    BY RowStill DEF TextsFit
  <1>2. \A e \in echoed' : EchoFits(e)'
    BY AnswersStill DEF TextsFit
  <1>3. \A h \in shown' : ShownFits(h)'
    BY AnswersStill DEF TextsFit
  <1>4. \A x \in listed' : ListedFits(x)'
    BY AnswersStill DEF TextsFit
  <1> QED
    BY <1>1, <1>2, <1>3, <1>4 DEF TextsFit

(* A step of worker w in its call. *)
LEMMA StepChatInv ==
    ASSUME ChatInv, NEW w \in Workers, CInv', ChatGrows, TextsFit',
           \A v \in Workers \ {w} : cc'[v] = cc[v] /\ arg'[v] = arg[v],
           arg' \in [Workers -> Args], TextFits(w)'
    PROVE  ChatInv'
  <1>1. \A v \in Workers : TextFits(v)'
    BY TextFitsStill DEF ChatInv
  <1> QED
    BY <1>1 DEF ChatInv

(* It answers and stores nothing. *)
LEMMA SilentChatInv ==
    ASSUME ChatInv, NEW w \in Workers, CInv', ChatGrows, sent' \subseteq Messages,
           UNCHANGED <<history, echoed, shown, listed, clashed>>,
           \A v \in Workers \ {w} : cc'[v] = cc[v] /\ arg'[v] = arg[v],
           arg' \in [Workers -> Args], TextFits(w)'
    PROVE  ChatInv'
  <1>1. TextsFit /\ clashed' \subseteq sent'
    BY DEF ChatInv, TextsFit, ChatGrows, TextsGrow
  <1>2. TextsFit'
    BY <1>1, TextsStill DEF ChatGrows
  <1> QED
    BY <1>2, StepChatInv

LEMMA NoArgFits == NoArg \in Args
  BY DEF NoArg, Args

(* A call that ends carries nothing. *)
LEMMA EndFits ==
    ASSUME ChatInv, NEW w \in Workers, EndChat(w)
    PROVE  /\ \A v \in Workers \ {w} : cc'[v] = cc[v] /\ arg'[v] = arg[v]
           /\ arg' \in [Workers -> Args] /\ TextFits(w)'
           /\ cc' \in [Workers -> CallsAt(AllPcs) \cup {Idle}] /\ CallFits(w)'
  <1>1. /\ cc' \in [Workers -> CallsAt(AllPcs) \cup {Idle}]
        /\ \A v \in Workers \ {w} : cc'[v] = cc[v]
        /\ CallFits(w)'
    BY Ends DEF ChatInv, EndChat
  <1>2. arg \in [Workers -> Args] /\ cc'[w] = Idle /\ arg'[w] = NoArg
    BY DEF ChatInv, CInv, CTypes, EndChat, EndCall
  <1>3. arg' \in [Workers -> Args] /\ \A v \in Workers \ {w} : arg'[v] = arg[v]
    BY <1>2, NoArgFits DEF EndChat
  <1>4. TextFits(w)'
    BY <1>2 DEF TextFits
  <1> QED
    BY <1>1, <1>3, <1>4

------------------------------------------------------------------------------
(* The calls of Users, and what a lookup and a join do to the rest *)

LEMMA MoreErrors ==
    ASSUME CInv, UNCHANGED errors \/ errors' = errors + 1
    PROVE  errors > 0 => errors' > 0
  BY DEF CInv, Inv1, TypeOK

LEMMA BuildGrows ==
    ASSUME CInv, NEW w \in Workers, BuildLocked(w) \/ Build(w)
    PROVE  Grows
  <1>1. /\ cc[w] \in CallsAt(AllPcs) /\ cc[w] # Idle /\ CallFits(w)
        /\ cc[w].pc \in {"load", "loadLocked"}
    BY CallIsRecord DEF BuildLocked, Build, CAt
  <1>2. UNCHANGED <<userVars, channels, asked>>
    BY DEF BuildLocked, Build
  <1>3. CASE BuildLocked(w)
    <2>1. Construct(w, "resume") /\ cc[w].id # NoId /\ cc[w].n # EmptyName
      BY <1>1, <1>3 DEF BuildLocked, CAt, CallFits, LaterPcs
    <2> QED
      BY <1>1, <1>2, <2>1, ConstructFits
  <1>4. CASE Constructible(cc[w].id, cc[w].n) /\ Construct(w, "register")
    <2>1. cc[w].id # NoId /\ cc[w].n # EmptyName
      BY <1>4 DEF Constructible
    <2> QED
      BY <1>1, <1>2, <1>4, <2>1, ConstructFits
  <1>5. CASE UNCHANGED objects
    BY <1>2, <1>5 DEF Grows, userVars
  <1> QED
    BY <1>3, <1>4, <1>5 DEF Build

LEMMA InsertGrows ==
    ASSUME CInv, NEW w \in Workers, CreateInsert(w)
    PROVE  Grows
  <1>1. cc[w].n \in Names /\ channels \in Seq(Names)
    <2>1. CallFits(w) /\ cc[w] # Idle /\ cc[w].pc = "insert"
      BY CallIsRecord DEF CreateInsert, CAt
    <2> QED
      BY <2>1 DEF CallFits, LaterPcs, CInv, CTypes
  <1>2. \A k \in DOMAIN channels : k \in DOMAIN channels' /\ channels'[k] = channels[k]
    BY <1>1 DEF CreateInsert
  <1> QED
    BY <1>2 DEF Grows, CreateInsert, userVars

LEMMA AddGrows ==
    ASSUME CInv, NEW w \in Workers, AddUser(w)
    PROVE  Grows
  <1>1. PICK o : o = cc[w].obj
    OBVIOUS
  <1>2. UNCHANGED objects \/ objects' = [objects EXCEPT ![o].users = @ \cup {cc[w].u}]
    BY <1>1 DEF AddUser
  <1>3. \A q \in DOMAIN objects : objects[q] \in Objects
    BY DEF CInv, CTypes
  <1>4. \A q \in DOMAIN objects : q \in DOMAIN objects' /\ objects'[q].name = objects[q].name
    BY <1>2, <1>3 DEF Objects
  <1> QED
    BY <1>4 DEF Grows, AddUser, userVars

LEMMA CallGrows ==
    ASSUME CInv, NEW w \in Workers, CreateOrGetStep(w) \/ JoinStep(w)
    PROVE  Grows /\ UNCHANGED userVars /\ (errors > 0 => errors' > 0)
  <1>1. CASE BuildLocked(w) \/ Build(w)
    <2>1. UNCHANGED userVars /\ (UNCHANGED errors \/ errors' = errors + 1)
      BY <1>1 DEF BuildLocked, Build, Construct, QueryFails
    <2> QED
      BY <1>1, <2>1, BuildGrows, MoreErrors
  <1>2. CASE CreateInsert(w)
    <2>1. UNCHANGED userVars /\ (UNCHANGED errors \/ errors' = errors + 1)
      BY <1>2 DEF CreateInsert, QueryFails
    <2> QED
      BY <1>2, <2>1, InsertGrows, MoreErrors
  <1>3. CASE AddUser(w)
    <2>1. UNCHANGED userVars /\ (UNCHANGED errors \/ errors' = errors + 1)
      BY <1>3 DEF AddUser, boundVars
    <2> QED
      BY <1>3, <2>1, AddGrows, MoreErrors
  <1>4. CASE \/ HasChannel(w) \/ GetKnownId(w) \/ LockRegistry(w) \/ CreateLookup(w)
             \/ CreateReread(w) \/ Register(w)
    <2>1. /\ UNCHANGED <<userVars, channels, objects, asked>>
          /\ UNCHANGED errors \/ errors' = errors + 1
      BY <1>4 DEF HasChannel, GetKnownId, LockRegistry, CreateLookup, CreateReread, Register,
         GetChannelId, SelectId, QueryFails, boundVars
    <2> QED
      BY <2>1, MoreErrors DEF Grows, userVars
  <1>5. CASE JoinUser(w) \/ JoinAck(w) \/ JoinGetId(w) \/ JoinHas(w) \/ JoinInsert(w)
    <2>1. /\ UNCHANGED <<userVars, channels, objects, asked>>
          /\ UNCHANGED errors \/ errors' = errors + 1
      BY <1>5 DEF JoinUser, JoinAck, JoinGetId, JoinHas, JoinInsert, GetChannelId, SelectId,
         QueryFails, boundVars
    <2> QED
      BY <2>1, MoreErrors DEF Grows, userVars
  <1> QED
    BY <1>1, <1>2, <1>3, <1>4, <1>5 DEF CreateOrGetStep, JoinStep

(* A call that goes on before it reached what is Chat's keeps what it carries. *)
LEMMA CallKeepsText ==
    ASSUME ChatInv, NEW w \in Workers, CreateOrGetStep(w) \/ JoinStep(w), cc'[w] # Idle,
           ChatGrows, UNCHANGED <<arg, sent>>
    PROVE  TextFits(w)'
  <1>1. cc[w] # Idle /\ KeepsCall(w)
    BY CallStays DEF ChatInv
  <1>2. cc'[w].pc \notin {"write", "author", "store", "name", "rows"}
    BY <1>1 DEF KeepsCall, EarlyPcs, CreatingPcs, GetPcs, JoinPcs
  <1>3. MessageOf(w)' = MessageOf(w)
    BY <1>1 DEF MessageOf, KeepsCall
  <1> QED
    BY <1>1, <1>2, <1>3 DEF TextFits, KeepsCall, ChatInv

LEMMA LookupChatInv ==
    ASSUME ChatInv, NEW w \in Workers, LookupStep(w)
    PROVE  ChatInv'
  <1>1. CInv /\ CreateOrGetStep(w) /\ UNCHANGED <<history, sent, echoed, shown, listed, clashed>>
    BY DEF ChatInv, LookupStep
  <1>2. CInv'
    BY <1>1, CreateOrGetInv
  <1>3. \A v \in Workers \ {w} : cc'[v] = cc[v]
    BY <1>1, CallStays
  <1>4. ChatGrows
    BY <1>1, CallGrows DEF ChatGrows, TextsGrow, Grows, userVars
  <1>5. arg \in [Workers -> Args] /\ sent' \subseteq Messages
    BY <1>1 DEF ChatInv, TextsFit
  <1>6. CASE cc'[w] = Idle
    <2>1. arg' = [arg EXCEPT ![w] = NoArg]
      BY <1>6 DEF LookupStep
    <2>2. arg' \in [Workers -> Args] /\ arg'[w] = NoArg /\ \A v \in Workers \ {w} : arg'[v] = arg[v]
      BY <1>5, <2>1, NoArgFits
    <2>3. TextFits(w)'
      BY <1>6, <2>2 DEF TextFits
    <2> QED
      BY <1>1, <1>2, <1>3, <1>4, <1>5, <2>2, <2>3, SilentChatInv
  <1>7. CASE cc'[w] # Idle
    <2>1. UNCHANGED arg
      BY <1>7 DEF LookupStep
    <2>2. TextFits(w)'
      BY <1>1, <1>4, <1>7, <2>1, CallKeepsText
    <2> QED
      BY <1>1, <1>2, <1>3, <1>4, <1>5, <2>1, <2>2, SilentChatInv
  <1> QED
    BY <1>6, <1>7

LEMMA JoinChatInv ==
    ASSUME ChatInv, NEW w \in Workers, JoinStep(w), UNCHANGED textVars
    PROVE  ChatInv'
  <1>1. CInv /\ UNCHANGED <<history, arg, sent, echoed, shown, listed, clashed>>
    BY DEF ChatInv, textVars
  <1>2. CInv'
    BY <1>1, JoinStepInv
  <1>3. cc[w] # Idle /\ \A v \in Workers \ {w} : cc'[v] = cc[v]
    BY <1>1, CallStays
  <1>4. ChatGrows
    BY <1>1, CallGrows DEF ChatGrows, TextsGrow, Grows, userVars
  <1>5. arg' \in [Workers -> Args] /\ sent' \subseteq Messages
    BY <1>1 DEF ChatInv, TextsFit
  <1>6. cc[w].op = "join"
    BY <1>1, <1>3 DEF JoinStep, JoinUser, AddUser, JoinAck, JoinGetId, JoinHas, JoinInsert,
       GetChannelId, CAt, CInv, CallFits, JoinPcs, LaterPcs
  <1>7. arg'[w] = NoArg
    BY <1>1, <1>6 DEF ChatInv, TextFits
  <1>8. CASE cc'[w] = Idle
    <2>1. TextFits(w)'
      BY <1>7, <1>8 DEF TextFits
    <2> QED
      BY <1>1, <1>2, <1>3, <1>4, <1>5, <2>1, SilentChatInv
  <1>9. CASE cc'[w] # Idle
    <2>1. TextFits(w)'
      BY <1>1, <1>4, <1>9, CallKeepsText
    <2> QED
      BY <1>1, <1>2, <1>3, <1>4, <1>5, <2>1, SilentChatInv
  <1> QED
    BY <1>8, <1>9

LEMMA UserChatInv ==
    ASSUME ChatInv, NEW w \in Workers, UserRequest(w) \/ UserStep(w),
           UNCHANGED <<channelVars, textVars>>
    PROVE  ChatInv'
  <1>1. /\ CInv /\ UNCHANGED channelVars
        /\ UNCHANGED <<history, arg, sent, echoed, shown, listed, clashed>>
    BY DEF ChatInv, textVars
  <1>2. CInv'
    BY <1>1, UsersInv
  <1>3. UNCHANGED errors \/ errors' = errors + 1
    BY DEF UserRequest, UserStep, Reg, Auth, StartCall, RegLookup, RegInsert, RegReread,
       AuthCheck, Push, Answer, SelectId, boundVars
  <1>4. \A i \in DOMAIN clients : i \in DOMAIN clients' /\ clients'[i] = clients[i]
    BY <1>1, TableGrows DEF CInv, Inv1, Next
  <1>5. ChatGrows
    BY <1>1, <1>3, <1>4, MoreErrors DEF ChatGrows, TextsGrow, channelVars
  <1>6. arg' \in [Workers -> Args] /\ sent' \subseteq Messages /\ UNCHANGED cc
    BY <1>1 DEF ChatInv, TextsFit, channelVars
  <1>7. TextFits(w)'
    BY <1>1, <1>5, <1>6, TextFitsStill DEF ChatInv
  <1> QED
    BY <1>1, <1>2, <1>5, <1>6, <1>7, SilentChatInv

(* A request starts a call with what it carries. *)
LEMMA StartChatInv ==
    ASSUME ChatInv, NEW w \in Workers, NEW pc \in {"has", "list"}, NEW op \in ChannelOps,
           NEW u \in Ids \cup {NoId}, NEW n \in Names \cup {EmptyName}, NEW a \in Args,
           StartChannelCall(w, pc, op, u, n), arg' = [arg EXCEPT ![w] = a],
           CInv', asked \subseteq asked', sent \subseteq sent', sent' \subseteq Messages,
           op = "join" => a = NoArg,
           op = "text" => a.l \in Logins /\ [l |-> a.l, n |-> n, d |-> a.d] \in sent',
           UNCHANGED <<history, echoed, shown, listed, clashed>>
    PROVE  ChatInv'
  <1>1. PICK c : c = [pc |-> pc, op |-> op, u |-> u, n |-> n, id |-> NoId, obj |-> 0]
    OBVIOUS
  <1>2. /\ cc' = [cc EXCEPT ![w] = c]
        /\ UNCHANGED <<userVars, errors, channels, objects>>
    BY <1>1 DEF StartChannelCall
  <1>3. ChatGrows
    BY <1>2 DEF ChatGrows, TextsGrow, userVars
  <1>4. /\ cc \in [Workers -> CallsAt(AllPcs) \cup {Idle}] /\ arg \in [Workers -> Args]
        /\ cc'[w] = c /\ arg'[w] = a /\ arg' \in [Workers -> Args]
        /\ \A v \in Workers \ {w} : cc'[v] = cc[v] /\ arg'[v] = arg[v]
    BY <1>2 DEF ChatInv, CInv, CTypes
  <1>5. c # Idle /\ c.op = op /\ c.n = n /\ c.pc \in {"has", "list"}
    BY <1>1 DEF Idle
  <1>6. TextFits(w)'
    BY <1>4, <1>5 DEF TextFits, MessageOf
  <1> QED
    BY <1>3, <1>4, <1>6, SilentChatInv

LEMMA JoinRoomChatInv ==
    ASSUME ChatInv, NEW w \in Workers, NEW u \in Ids, NEW n \in Names, JoinRoom(w, u, n),
           UNCHANGED textVars
    PROVE  ChatInv'
  <1>1. /\ CInv /\ UNCHANGED <<history, arg, sent, echoed, shown, listed, clashed>>
        /\ arg \in [Workers -> Args] /\ sent \subseteq Messages
        /\ cc[w] = Idle /\ arg[w] = NoArg
    BY DEF ChatInv, TextsFit, textVars, JoinRoom, StartChannelCall, TextFits
  <1>2. CInv'
    BY <1>1, JoinRoomInv
  <1>3. arg' = [arg EXCEPT ![w] = NoArg]
    BY <1>1
  <1>4. StartChannelCall(w, "has", "join", u, n) /\ asked \subseteq asked'
    BY DEF JoinRoom
  <1>5. "join" \in ChannelOps /\ "join" # "text" /\ u \in Ids \cup {NoId} /\ n \in Names \cup {EmptyName}
    BY DEF ChannelOps
  <1> QED
    BY <1>1, <1>2, <1>3, <1>4, <1>5, NoArgFits, StartChatInv

LEMMA SendTextInv ==
    ASSUME ChatInv, NEW w \in Workers, NEW l \in Logins, NEW n \in Names, NEW d \in Times,
           SendText(w, l, n, d)
    PROVE  ChatInv'
  <1>1. PICK a : a = [NoArg EXCEPT !.l = l, !.d = d]
    OBVIOUS
  <1>2. a \in Args /\ a.l = l /\ a.d = d
    BY <1>1 DEF NoArg, Args
  <1>3. /\ StartChannelCall(w, "has", "text", NoId, n)
        /\ arg' = [arg EXCEPT ![w] = a]
        /\ sent' = sent \cup {[l |-> l, n |-> n, d |-> d]}
        /\ UNCHANGED <<asked, history, echoed, shown, listed, clashed>>
    BY <1>1 DEF SendText
  <1>4. CInv /\ sent \subseteq Messages /\ asked' = asked /\ asked' \subseteq Ids \X Names
    BY <1>3 DEF ChatInv, TextsFit, CInv, CTypes
  <1>5. "text" \in ChannelOps /\ "text" # "join" /\ n \in Names \cup {EmptyName} /\ NoId \in Ids \cup {NoId}
    BY DEF ChannelOps
  <1>6. CInv'
    BY <1>3, <1>4, <1>5, StartInv
  <1>7. /\ sent \subseteq sent' /\ sent' \subseteq Messages
        /\ a.l \in Logins /\ [l |-> a.l, n |-> n, d |-> a.d] \in sent'
    BY <1>2, <1>3, <1>4 DEF Messages
  <1> QED
    BY <1>2, <1>3, <1>4, <1>5, <1>6, <1>7, StartChatInv

LEMMA GetHistoryInv ==
    ASSUME ChatInv, NEW w \in Workers, NEW u \in Ids, NEW n \in Names,
           NEW since \in Times \cup {0}, GetHistory(w, u, n, since)
    PROVE  ChatInv'
  <1>1. PICK a : a = [NoArg EXCEPT !.d = since]
    OBVIOUS
  <1>2. a \in Args
    BY <1>1 DEF NoArg, Args
  <1>3. /\ StartChannelCall(w, "has", "history", u, n)
        /\ arg' = [arg EXCEPT ![w] = a]
        /\ UNCHANGED <<asked, history, sent, echoed, shown, listed, clashed>>
    BY <1>1 DEF GetHistory
  <1>4. CInv /\ sent \subseteq Messages /\ asked' = asked /\ asked' \subseteq Ids \X Names
    BY <1>3 DEF ChatInv, TextsFit, CInv, CTypes
  <1>5. /\ "history" \in ChannelOps /\ "history" # "join" /\ "history" # "text"
        /\ n \in Names \cup {EmptyName} /\ u \in Ids \cup {NoId}
    BY DEF ChannelOps
  <1>6. CInv'
    BY <1>3, <1>4, <1>5, StartInv
  <1> QED
    BY <1>2, <1>3, <1>4, <1>5, <1>6, StartChatInv

LEMMA GetChannelsInv ==
    ASSUME ChatInv, NEW w \in Workers, NEW u \in Ids, GetChannels(w, u)
    PROVE  ChatInv'
  <1>1. /\ StartChannelCall(w, "list", "list", u, EmptyName)
        /\ UNCHANGED <<asked, history, arg, sent, echoed, shown, listed, clashed>>
    BY DEF GetChannels, textVars
  <1>2. cc[w] = Idle /\ arg[w] = NoArg /\ arg \in [Workers -> Args]
    BY <1>1 DEF StartChannelCall, ChatInv, TextFits
  <1>3. arg' = [arg EXCEPT ![w] = NoArg]
    BY <1>1, <1>2
  <1>4. CInv /\ sent \subseteq Messages /\ asked' = asked /\ asked' \subseteq Ids \X Names
    BY <1>1 DEF ChatInv, TextsFit, CInv, CTypes
  <1>5. /\ "list" \in ChannelOps /\ "list" # "join" /\ "list" # "text" /\ "list" # "has"
        /\ EmptyName \in Names \cup {EmptyName} /\ u \in Ids \cup {NoId}
    BY DEF ChannelOps
  <1>6. CInv'
    BY <1>1, <1>4, <1>5, StartInv
  <1> QED
    BY <1>1, <1>3, <1>4, <1>5, <1>6, NoArgFits, StartChatInv

------------------------------------------------------------------------------
(* sendText *)

(* A call of Chat goes on in what is Chat's, or ends. *)
LEMMA GoesOn ==
    ASSUME ChatInv, NEW w \in Workers, cc[w] \in CallsAt(AllPcs), server = "up",
           NEW c \in CallsAt(LaterPcs), c.op # "join", cc' = [cc EXCEPT ![w] = c],
           Unmoved, UNCHANGED errors \/ QueryFails, UNCHANGED sent
    PROVE  /\ CInv' /\ ChatGrows /\ sent' \subseteq Messages
           /\ cc'[w] = c /\ \A v \in Workers \ {w} : cc'[v] = cc[v]
  <1>1. CInv /\ sent \subseteq Messages /\ cc \in [Workers -> CallsAt(AllPcs) \cup {Idle}]
    BY DEF ChatInv, TextsFit, CInv, CTypes
  <1>2. c \in CallsAt(AllPcs) /\ c.pc \in LaterPcs
    BY DEF CallsAt, AllPcs
  <1>3. /\ cc' \in [Workers -> CallsAt(AllPcs) \cup {Idle}]
        /\ cc'[w] = c /\ \A v \in Workers \ {w} : cc'[v] = cc[v]
    BY <1>1, <1>2
  <1>4. CallFits(w)'
    BY <1>2, <1>3 DEF CallFits
  <1>5. UNCHANGED <<userVars, started, crashes, channels, subscriptions, objects,
                    idChannels, mutex, asked, acked, overlappedNames, missing>>
    BY DEF Unmoved
  <1>6. CInv'
    BY <1>1, <1>3, <1>4, <1>5, FailedQuery, QuietInv
  <1>7. errors > 0 => errors' > 0
    BY <1>1, MoreErrors DEF QueryFails
  <1>8. ChatGrows
    BY <1>5, <1>7 DEF ChatGrows, TextsGrow, userVars
  <1> QED
    BY <1>1, <1>3, <1>6, <1>8

LEMMA Stops ==
    ASSUME ChatInv, NEW w \in Workers, server = "up", EndChat(w),
           Unmoved, UNCHANGED errors \/ QueryFails, UNCHANGED sent
    PROVE  /\ CInv' /\ ChatGrows /\ sent' \subseteq Messages
           /\ \A v \in Workers \ {w} : cc'[v] = cc[v] /\ arg'[v] = arg[v]
           /\ arg' \in [Workers -> Args] /\ TextFits(w)'
  <1>1. CInv /\ sent \subseteq Messages
    BY DEF ChatInv, TextsFit
  <1>2. UNCHANGED <<userVars, started, crashes, channels, subscriptions, objects,
                    idChannels, mutex, asked, acked, overlappedNames, missing>>
    BY DEF Unmoved
  <1>3. CInv'
    BY <1>1, <1>2, EndFits, FailedQuery, QuietInv
  <1>4. errors > 0 => errors' > 0
    BY <1>1, MoreErrors DEF QueryFails
  <1>5. ChatGrows
    BY <1>2, <1>4 DEF ChatGrows, TextsGrow, userVars
  <1> QED
    BY <1>1, <1>3, <1>5, EndFits

LEMMA ChatCall ==
    ASSUME ChatInv, NEW w \in Workers, NEW pc, pc # "idle", CAt(w, pc)
    PROVE  /\ cc[w] \in CallsAt(AllPcs) /\ cc[w] # Idle /\ server = "up" /\ cc[w].pc = pc
           /\ CallFits(w) /\ TextFits(w) /\ arg[w] \in Args
           /\ pc \in LaterPcs => cc[w].op # "join"
  <1>1. CInv /\ TextFits(w) /\ arg[w] \in Args
    BY DEF ChatInv
  <1>2. cc[w] \in CallsAt(AllPcs) /\ cc[w] # Idle /\ server = "up" /\ CallFits(w)
    BY <1>1, CallIsRecord
  <1> QED
    BY <1>1, <1>2 DEF CAt, CallFits

(* The members of a Channel asked for its name, which is that of a row. *)
LEMMA ChannelFits ==
    ASSUME ChatInv, NEW o \in DOMAIN objects
    PROVE  /\ objects[o] \in Objects /\ objects[o].name # EmptyName
           /\ objects[o].id \in DOMAIN channels /\ channels[objects[o].id] = objects[o].name
           /\ IdsOfName(objects[o].name) # {}
           /\ \A u \in objects[o].users : <<u, objects[o].name>> \in asked
  <1>1. ObjectFits(o) /\ objects[o] \in Objects
    BY DEF ChatInv, CInv, CTypes, ObjectsFit
  <1> QED
    BY <1>1 DEF ObjectFits, IdsOfName, MayBeIn

(* A text on its way: what it carries stays, as does its channel. *)
LEMMA TextGoesOn ==
    ASSUME NEW w \in Workers, TextFits(w), cc[w] # Idle, cc[w].op = "text",
           cc'[w].op = "text", cc'[w].n = cc[w].n,
           cc'[w].pc \in {"write", "author", "store"},
           arg'[w].l = arg[w].l, arg'[w].d = arg[w].d,
           UNCHANGED <<clients, channels, asked, sent>>,
           cc[w].n # EmptyName, IdsOfName(cc[w].n) # {},
           cc'[w].pc = "write" => \A u \in arg'[w].todo : <<u, cc[w].n>> \in asked,
           cc'[w].pc = "store" => cc'[w].id \in IdsOf(arg[w].l) \cup {NoId}
    PROVE  TextFits(w)'
  <1>1. MessageOf(w)' = MessageOf(w) /\ IdsOfName(cc[w].n)' # {}
    BY DEF MessageOf, IdsOfName
  <1>2. arg[w].l \in Logins /\ MessageOf(w) \in sent
    BY DEF TextFits
  <1>3. IdsOf(arg[w].l)' = IdsOf(arg[w].l)
    BY DEF IdsOf
  <1>4. cc'[w] # Idle
    BY DEF Idle
  <1> QED
    BY <1>1, <1>2, <1>3, <1>4 DEF TextFits

LEMMA StartWriteInv ==
    ASSUME ChatInv, NEW w \in Workers, StartWrite(w)
    PROVE  ChatInv'
  <1>1. /\ cc[w] \in CallsAt(AllPcs) /\ cc[w] # Idle /\ server = "up" /\ cc[w].pc = "resume"
        /\ CallFits(w) /\ TextFits(w) /\ arg[w] \in Args
    BY ChatCall DEF StartWrite
  <1>2. /\ Goto(w, "write") /\ cc[w].op = "text"
        /\ arg' = [arg EXCEPT ![w].todo = objects[cc[w].obj].users]
        /\ UNCHANGED <<errors, history, sent, echoed, shown, listed, clashed>> /\ Unmoved
    BY DEF StartWrite
  <1>3. /\ cc[w].obj \in DOMAIN objects /\ objects[cc[w].obj].name = cc[w].n
        /\ cc[w].n \in Names
    BY <1>1 DEF CallFits, LaterPcs
  <1>4. PICK c : c = [cc[w] EXCEPT !.pc = "write"]
    OBVIOUS
  <1>5. c \in CallsAt(LaterPcs) /\ c.op = "text" /\ c.n = cc[w].n /\ c.pc = "write"
    BY <1>1, <1>2, <1>4 DEF CallsAt, LaterPcs
  <1>6. cc' = [cc EXCEPT ![w] = c]
    BY <1>2, <1>4 DEF Goto
  <1>7. /\ CInv' /\ ChatGrows /\ sent' \subseteq Messages
        /\ cc'[w] = c /\ \A v \in Workers \ {w} : cc'[v] = cc[v]
    BY <1>1, <1>2, <1>5, <1>6, GoesOn
  <1>8. PICK us : us = objects[cc[w].obj].users
    OBVIOUS
  <1>9. us \subseteq Ids /\ (\A u \in us : <<u, cc[w].n>> \in asked)
        /\ cc[w].n # EmptyName /\ IdsOfName(cc[w].n) # {}
    BY <1>3, <1>8, ChannelFits DEF Objects
  <1>10. /\ arg'[w].todo = us /\ arg'[w].l = arg[w].l /\ arg'[w].d = arg[w].d
         /\ arg' \in [Workers -> Args] /\ \A v \in Workers \ {w} : arg'[v] = arg[v]
    <2>1. arg'[w] = [arg[w] EXCEPT !.todo = us] /\ arg \in [Workers -> Args]
      BY <1>2, <1>8 DEF ChatInv
    <2>2. arg'[w] \in Args
      BY <1>1, <1>9, <2>1 DEF Args
    <2> QED
      BY <1>1, <1>2, <2>1, <2>2 DEF Args
  <1>11. TextFits(w)'
    BY <1>1, <1>2, <1>5, <1>7, <1>9, <1>10, TextGoesOn DEF Unmoved, userVars
  <1> QED
    BY <1>2, <1>7, <1>10, <1>11, SilentChatInv

LEMMA WriteNextInv ==
    ASSUME ChatInv, NEW w \in Workers, WriteNext(w)
    PROVE  ChatInv'
  <1>1. /\ cc[w] \in CallsAt(AllPcs) /\ cc[w] # Idle /\ cc[w].pc = "write"
        /\ TextFits(w) /\ arg[w] \in Args /\ CInv /\ TextsFit
    BY ChatCall DEF WriteNext, ChatInv
  <1>2. /\ UNCHANGED <<cc, errors, history, sent, shown, listed, clashed>> /\ Unmoved
        /\ UNCHANGED <<clients, channels, asked, objects, idClients>>
    BY DEF WriteNext, Unmoved, userVars
  <1>3. PICK u \in arg[w].todo :
          \/ /\ u \in DOMAIN idClients
             /\ echoed' = echoed \cup {[s |-> idClients[u], u |-> u, m |-> MessageOf(w),
                                        full |-> ~arg[w].moved]}
             /\ arg' = [arg EXCEPT ![w].todo = @ \ {u}, ![w].moved = TRUE]
          \/ /\ arg' = [arg EXCEPT ![w].todo = @ \ {u}]
             /\ UNCHANGED echoed
    BY DEF WriteNext
  <1>4. CInv'
    <2>1. UNCHANGED cvars
      BY <1>2 DEF cvars, vars, channelVars, Unmoved, userVars
    <2> QED
      BY <1>1, <2>1, NextCInv
  <1>5. ChatGrows
    BY <1>2 DEF ChatGrows, TextsGrow
  <1>6. /\ cc[w].op = "text" /\ cc[w].n # EmptyName /\ IdsOfName(cc[w].n) # {}
        /\ MessageOf(w) \in sent /\ \A v \in arg[w].todo : <<v, cc[w].n>> \in asked
    BY <1>1 DEF TextFits
  <1>7. /\ arg'[w].todo \subseteq arg[w].todo /\ arg'[w].l = arg[w].l /\ arg'[w].d = arg[w].d
        /\ arg' \in [Workers -> Args] /\ \A v \in Workers \ {w} : arg'[v] = arg[v]
    <2>1. PICK todo, moved :
            /\ todo \subseteq arg[w].todo /\ moved \in BOOLEAN
            /\ arg' = [arg EXCEPT ![w].todo = todo, ![w].moved = moved]
      <3>1. CASE arg' = [arg EXCEPT ![w].todo = @ \ {u}, ![w].moved = TRUE]
        BY <3>1
      <3>2. CASE arg' = [arg EXCEPT ![w].todo = @ \ {u}]
        <4>1. arg[w].moved \in BOOLEAN /\ arg \in [Workers -> Args]
          BY <1>1 DEF Args, ChatInv
        <4>2. arg' = [arg EXCEPT ![w].todo = arg[w].todo \ {u}, ![w].moved = arg[w].moved]
          BY <3>2, <4>1 DEF Args
        <4> QED
          BY <4>1, <4>2
      <3> QED
        BY <1>3, <3>1, <3>2
    <2>2. arg'[w] = [arg[w] EXCEPT !.todo = todo, !.moved = moved] /\ arg \in [Workers -> Args]
      BY <2>1 DEF ChatInv
    <2>3. arg'[w] \in Args
      BY <1>1, <2>1, <2>2 DEF Args
    <2> QED
      BY <1>1, <2>1, <2>2, <2>3 DEF Args
  <1>8. TextFits(w)'
    BY <1>1, <1>2, <1>6, <1>7, TextGoesOn
  <1>9. \A e \in echoed' \ echoed : EchoFits(e)'
    <2> SUFFICES ASSUME NEW e \in echoed' \ echoed PROVE EchoFits(e)'
      OBVIOUS
    <2>1. e.s = idClients[u] /\ u \in DOMAIN idClients /\ e.u = u /\ e.m = MessageOf(w)
      BY <1>3
    <2>2. e.s \in Sessions
      BY <1>1, <2>1 DEF CInv, Inv1, TypeOK
    <2>3. e.m.n = cc[w].n
      BY <2>1 DEF MessageOf
    <2> QED
      BY <1>2, <1>6, <2>1, <2>2, <2>3 DEF EchoFits
  <1>10. TextsFit'
    <2>1. sent' \subseteq Messages /\ clashed' \subseteq sent'
      BY <1>1, <1>2 DEF TextsFit
    <2> QED
      BY <1>1, <1>2, <1>5, <1>9, <2>1, TextsStill DEF ChatGrows
  <1> QED
    BY <1>2, <1>4, <1>5, <1>7, <1>8, <1>10, StepChatInv

LEMMA WriteDoneInv ==
    ASSUME ChatInv, NEW w \in Workers, WriteDone(w)
    PROVE  ChatInv'
  <1>1. /\ cc[w] \in CallsAt(AllPcs) /\ cc[w] # Idle /\ server = "up" /\ cc[w].pc = "write"
        /\ TextFits(w) /\ arg[w] \in Args
    BY ChatCall DEF WriteDone
  <1>2. /\ Goto(w, "author") /\ arg' = [arg EXCEPT ![w].todo = {}]
        /\ UNCHANGED <<errors, history, sent, echoed, shown, listed, clashed>> /\ Unmoved
    BY DEF WriteDone, StoreAuthor
  <1>3. cc[w].op = "text" /\ cc[w].n # EmptyName /\ IdsOfName(cc[w].n) # {}
    BY <1>1 DEF TextFits
  <1>4. PICK c : c = [cc[w] EXCEPT !.pc = "author"]
    OBVIOUS
  <1>5. c \in CallsAt(LaterPcs) /\ c.op = "text" /\ c.n = cc[w].n /\ c.pc = "author"
    BY <1>1, <1>3, <1>4 DEF CallsAt, LaterPcs
  <1>6. cc' = [cc EXCEPT ![w] = c]
    BY <1>2, <1>4 DEF Goto
  <1>7. /\ CInv' /\ ChatGrows /\ sent' \subseteq Messages
        /\ cc'[w] = c /\ \A v \in Workers \ {w} : cc'[v] = cc[v]
    BY <1>1, <1>2, <1>5, <1>6, GoesOn
  <1>8. /\ arg'[w].l = arg[w].l /\ arg'[w].d = arg[w].d
        /\ arg' \in [Workers -> Args] /\ \A v \in Workers \ {w} : arg'[v] = arg[v]
    <2>1. arg'[w] = [arg[w] EXCEPT !.todo = {}] /\ arg \in [Workers -> Args]
      BY <1>2 DEF ChatInv
    <2>2. arg'[w] \in Args
      BY <1>1, <2>1 DEF Args
    <2> QED
      BY <1>1, <1>2, <2>1, <2>2 DEF Args
  <1>9. TextFits(w)'
    BY <1>1, <1>2, <1>3, <1>5, <1>7, <1>8, TextGoesOn DEF Unmoved, userVars
  <1> QED
    BY <1>2, <1>7, <1>8, <1>9, SilentChatInv

LEMMA AuthorIdInv ==
    ASSUME ChatInv, NEW w \in Workers, AuthorId(w)
    PROVE  ChatInv'
  <1>1. /\ cc[w] \in CallsAt(AllPcs) /\ cc[w] # Idle /\ server = "up" /\ cc[w].pc = "author"
        /\ TextFits(w) /\ arg \in [Workers -> Args]
    BY ChatCall DEF AuthorId, ChatInv
  <1>2. PICK r \in IdsOf(arg[w].l) \cup {NoId} :
          /\ SelectId(IdsOf(arg[w].l), r)
          /\ cc' = [cc EXCEPT ![w].pc = "store", ![w].id = r]
    BY DEF AuthorId, AuthorsOf
  <1>3. /\ UNCHANGED <<history, arg, sent, echoed, shown, listed, clashed>> /\ Unmoved
        /\ UNCHANGED errors \/ QueryFails
    BY <1>2 DEF AuthorId, textVars, SelectId, QueryFails
  <1>4. cc[w].op = "text" /\ cc[w].n # EmptyName /\ IdsOfName(cc[w].n) # {}
    BY <1>1 DEF TextFits
  <1>5. r \in Nat
    BY DEF IdsOf, NoId, ChatInv, CInv, Inv1, TypeOK
  <1>6. PICK c : c = [cc[w] EXCEPT !.pc = "store", !.id = r]
    OBVIOUS
  <1>7. /\ c \in CallsAt(LaterPcs) /\ c.op = "text" /\ c.n = cc[w].n /\ c.pc = "store" /\ c.id = r
    BY <1>1, <1>4, <1>5, <1>6 DEF CallsAt, LaterPcs
  <1>8. cc' = [cc EXCEPT ![w] = c]
    BY <1>2, <1>6
  <1>9. /\ CInv' /\ ChatGrows /\ sent' \subseteq Messages
        /\ cc'[w] = c /\ \A v \in Workers \ {w} : cc'[v] = cc[v]
    BY <1>1, <1>3, <1>7, <1>8, GoesOn
  <1>10. TextFits(w)'
    BY <1>1, <1>2, <1>3, <1>4, <1>7, <1>9, TextGoesOn DEF Unmoved, userVars
  <1> QED
    BY <1>1, <1>3, <1>9, <1>10, SilentChatInv

LEMMA StoreTextInv ==
    ASSUME ChatInv, NEW w \in Workers, StoreText(w)
    PROVE  ChatInv'
  <1>1. /\ cc[w] \in CallsAt(AllPcs) /\ cc[w] # Idle /\ server = "up" /\ cc[w].pc = "store"
        /\ TextFits(w) /\ TextsFit
    BY ChatCall DEF StoreText, ChatInv
  <1>2. /\ UNCHANGED <<sent, echoed, shown, listed>> /\ Unmoved /\ EndChat(w)
        /\ UNCHANGED errors \/ QueryFails
        /\ clashed' \subseteq clashed \cup {MessageOf(w)}
        /\ history' \subseteq history \cup {[u |-> i, n |-> cc[w].n, d |-> arg[w].d] :
                                             i \in Referenced(cc[w].id)}
    BY DEF StoreText
  <1>3. /\ cc[w].op = "text" /\ cc[w].n # EmptyName /\ IdsOfName(cc[w].n) # {}
        /\ MessageOf(w) \in sent /\ cc[w].id \in IdsOf(arg[w].l) \cup {NoId}
    BY <1>1 DEF TextFits
  <1>4. /\ CInv' /\ ChatGrows /\ sent' \subseteq Messages
        /\ \A v \in Workers \ {w} : cc'[v] = cc[v] /\ arg'[v] = arg[v]
        /\ arg' \in [Workers -> Args] /\ TextFits(w)'
    BY <1>1, <1>2, Stops
  <1>5. clashed' \subseteq sent'
    BY <1>1, <1>2, <1>3 DEF TextsFit
  <1>6. \A r \in history' \ history : RowFits(r)'
    <2> SUFFICES ASSUME NEW r \in history' \ history PROVE RowFits(r)'
      OBVIOUS
    <2>1. PICK i \in Referenced(cc[w].id) : r = [u |-> i, n |-> cc[w].n, d |-> arg[w].d]
      BY <1>2
    <2>2. i \in DOMAIN clients /\ i = cc[w].id /\ i \in IdsOf(arg[w].l)
      <3>1. i \in DOMAIN clients /\ i = cc[w].id /\ clients \in Seq([login : Logins, pw : Passwords])
        BY DEF Referenced, ChatInv, CInv, Inv1, TypeOK
      <3> QED
        BY <1>3, <3>1 DEF NoId
    <2>3. clients[i].login = arg[w].l
      BY <2>2 DEF IdsOf
    <2>4. cc[w].n \in Names /\ arg[w].d \in Times
      BY <1>1, <1>3 DEF MessageOf, Messages, TextsFit
    <2>5. UNCHANGED <<clients, channels, sent>>
      BY <1>2 DEF Unmoved, userVars
    <2>6. RowFits(r)
      BY <1>3, <2>1, <2>2, <2>3, <2>4 DEF RowFits, SentAs, MessageOf
    <2> QED
      BY <2>5, <2>6 DEF RowFits, SentAs, IdsOfName
  <1>7. TextsFit'
    BY <1>1, <1>2, <1>4, <1>5, <1>6, TextsStill DEF ChatGrows
  <1> QED
    BY <1>4, <1>7, StepChatInv

------------------------------------------------------------------------------
(* getHistory and getChannels *)

LEMMA EndsQuietly ==
    ASSUME ChatInv, NEW w \in Workers, server = "up", EndChat(w), Unmoved,
           UNCHANGED <<errors, history, sent, echoed, shown, listed, clashed>>
    PROVE  ChatInv'
  <1>1. /\ CInv' /\ ChatGrows /\ sent' \subseteq Messages
        /\ \A v \in Workers \ {w} : cc'[v] = cc[v] /\ arg'[v] = arg[v]
        /\ arg' \in [Workers -> Args] /\ TextFits(w)'
    BY Stops
  <1> QED
    BY <1>1, SilentChatInv

(* The session a read answers is that of a User. *)
LEMMA SessionKept ==
    ASSUME ChatInv, NEW w \in Workers, NEW u \in DOMAIN idClients,
           arg' = [arg EXCEPT ![w].s = idClients[u]]
    PROVE  arg' \in [Workers -> Args] /\ \A v \in Workers \ {w} : arg'[v] = arg[v]
  <1>1. arg[w] \in Args /\ arg \in [Workers -> Args] /\ idClients[u] \in Sessions
    BY DEF ChatInv, CInv, Inv1, TypeOK
  <1>2. arg'[w] = [arg[w] EXCEPT !.s = idClients[u]]
    BY <1>1
  <1>3. arg'[w] \in Args
    BY <1>1, <1>2 DEF Args
  <1> QED
    BY <1>1, <1>2, <1>3

LEMMA HistoryMemberInv ==
    ASSUME ChatInv, NEW w \in Workers, HistoryMember(w)
    PROVE  ChatInv'
  <1>1. /\ cc[w] \in CallsAt(AllPcs) /\ cc[w] # Idle /\ server = "up" /\ cc[w].pc = "resume"
        /\ CallFits(w) /\ TextFits(w) /\ cc[w].op = "history"
    BY ChatCall DEF HistoryMember
  <1>2. UNCHANGED <<errors, history, sent, echoed, shown, listed, clashed>> /\ Unmoved
    BY DEF HistoryMember
  <1>3. CASE EndChat(w)
    BY <1>1, <1>2, <1>3, EndsQuietly
  <1>4. CASE /\ MayRead(w) /\ cc[w].u \in DOMAIN idClients /\ Goto(w, "name")
             /\ arg' = [arg EXCEPT ![w].s = idClients[cc[w].u]]
    <2>1. PICK c : c = [cc[w] EXCEPT !.pc = "name"]
      OBVIOUS
    <2>2. /\ c \in CallsAt(LaterPcs) /\ c.op = "history" /\ c.u = cc[w].u /\ c.pc = "name"
          /\ c.obj = cc[w].obj /\ c # Idle
      BY <1>1, <2>1 DEF CallsAt, LaterPcs, Idle
    <2>3. cc' = [cc EXCEPT ![w] = c]
      BY <1>4, <2>1 DEF Goto
    <2>4. /\ CInv' /\ ChatGrows /\ sent' \subseteq Messages
          /\ cc'[w] = c /\ \A v \in Workers \ {w} : cc'[v] = cc[v]
      BY <1>1, <1>2, <2>2, <2>3, GoesOn
    <2>5. arg' \in [Workers -> Args] /\ \A v \in Workers \ {w} : arg'[v] = arg[v]
      BY <1>4, SessionKept
    <2>6. cc[w].obj \in DOMAIN objects /\ <<cc[w].u, objects[cc[w].obj].name>> \in asked
      <3>1. cc[w].obj \in DOMAIN objects
        BY <1>1 DEF CallFits, LaterPcs
      <3> QED
        BY <1>4, <3>1, ChannelFits DEF MayRead
    <2>7. TextFits(w)'
      BY <1>2, <2>2, <2>4, <2>6 DEF TextFits, Unmoved
    <2> QED
      BY <1>2, <2>4, <2>5, <2>7, SilentChatInv
  <1> QED
    BY <1>3, <1>4 DEF HistoryMember

LEMMA HistoryNameInv ==
    ASSUME ChatInv, NEW w \in Workers, HistoryName(w)
    PROVE  ChatInv'
  <1>1. /\ cc[w] \in CallsAt(AllPcs) /\ cc[w] # Idle /\ server = "up" /\ cc[w].pc = "name"
        /\ TextFits(w) /\ cc[w].op # "join" /\ arg \in [Workers -> Args]
    BY ChatCall DEF HistoryName, LaterPcs, ChatInv
  <1>2. /\ cc[w].obj \in DOMAIN objects /\ cc[w].op = "history"
        /\ <<cc[w].u, objects[cc[w].obj].name>> \in asked
    BY <1>1 DEF TextFits
  <1>3. PICK n \in {channels[objects[cc[w].obj].id], EmptyName} :
          /\ cc' = [cc EXCEPT ![w].pc = "rows", ![w].n = n]
          /\ UNCHANGED errors \/ QueryFails
    BY DEF HistoryName
  <1>4. UNCHANGED <<history, arg, sent, echoed, shown, listed, clashed>> /\ Unmoved
    BY DEF HistoryName, textVars
  <1>5. n \in Names \cup {EmptyName} /\ (n = EmptyName \/ <<cc[w].u, n>> \in asked)
    BY <1>2, ChannelFits DEF Objects
  <1>6. PICK c : c = [cc[w] EXCEPT !.pc = "rows", !.n = n]
    OBVIOUS
  <1>7. /\ c \in CallsAt(LaterPcs) /\ c.op = "history" /\ c.u = cc[w].u /\ c.pc = "rows"
        /\ c.n = n /\ c # Idle
    BY <1>1, <1>2, <1>5, <1>6 DEF CallsAt, LaterPcs, Idle
  <1>8. cc' = [cc EXCEPT ![w] = c]
    BY <1>3, <1>6
  <1>9. /\ CInv' /\ ChatGrows /\ sent' \subseteq Messages
        /\ cc'[w] = c /\ \A v \in Workers \ {w} : cc'[v] = cc[v]
    BY <1>1, <1>3, <1>4, <1>7, <1>8, GoesOn
  <1>10. TextFits(w)'
    BY <1>4, <1>5, <1>7, <1>9 DEF TextFits, Unmoved
  <1> QED
    BY <1>1, <1>4, <1>9, <1>10, SilentChatInv

(* A message of the answer is a row of a channel its reader asked for. *)
LEMMA RowsAreShown ==
    ASSUME ChatInv, NEW w \in Workers, cc[w].pc = "rows", TextFits(w),
           NEW r \in RowsOf(cc[w].n), NEW nameless,
           nameless # {} => errors' > 0, sent \subseteq sent', asked \subseteq asked',
           NEW m, m = AsMessage(r, nameless)
    PROVE  /\ <<cc[w].u, m.n>> \in asked'
           /\ \/ m \in sent'
              \/ m.l = NoLogin /\ errors' > 0 /\ \E l \in Logins : [m EXCEPT !.l = l] \in sent'
  <1>1. RowFits(r) /\ r.n = cc[w].n
    BY DEF RowsOf, ChatInv, TextsFit
  <1>2. PICK l : l = clients[r.u].login
    OBVIOUS
  <1>3. l \in Logins /\ [l |-> l, n |-> r.n, d |-> r.d] \in sent
    <2>1. \A i \in DOMAIN clients : clients[i].login \in Logins
      <3> DEFINE Rows == [login : Logins, pw : Passwords]
      <3>1. clients \in Seq(Rows)
        BY DEF ChatInv, CInv, Inv1, TypeOK
      <3> HIDE DEF Rows
      <3>2. \A i \in DOMAIN clients : clients[i] \in Rows
        BY <3>1
      <3> QED
        BY <3>2 DEF Rows
    <2>2. r.u \in DOMAIN clients
      BY <1>1 DEF RowFits
    <2>3. SentAs(l, r.n, r.d)
      BY <1>1, <1>2 DEF RowFits
    <2> QED
      BY <1>2, <2>1, <2>2, <2>3 DEF SentAs
  <1>4. m.n = r.n /\ <<cc[w].u, r.n>> \in asked
    <2>1. cc[w] # Idle
      BY DEF Idle
    <2> QED
      BY <1>1, <2>1 DEF AsMessage, TextFits, RowFits
  <1>5. CASE r \notin nameless
    <2>1. m = [l |-> l, n |-> r.n, d |-> r.d]
      BY <1>2, <1>5 DEF AsMessage
    <2> QED
      BY <1>3, <1>4, <2>1
  <1>6. CASE r \in nameless
    <2>1. m = [l |-> NoLogin, n |-> r.n, d |-> r.d]
      BY <1>6 DEF AsMessage
    <2>2. [m EXCEPT !.l = l] = [l |-> l, n |-> r.n, d |-> r.d] /\ m.l = NoLogin
      BY <2>1
    <2> QED
      BY <1>3, <1>4, <1>6, <2>2
  <1> QED
    BY <1>5, <1>6

LEMMA HistoryRowsInv ==
    ASSUME ChatInv, NEW w \in Workers, HistoryRows(w)
    PROVE  ChatInv'
  <1>1. /\ server = "up" /\ cc[w].pc = "rows" /\ TextFits(w) /\ TextsFit /\ CInv
    BY ChatCall DEF HistoryRows, ChatInv
  <1>2. UNCHANGED <<history, sent, echoed, listed, clashed>> /\ Unmoved /\ EndChat(w)
    BY DEF HistoryRows
  <1>3. PICK rows \in {RowsOf(cc[w].n), {}}, nameless \in {{}} \cup {{r} : r \in RowsOf(cc[w].n)} :
          /\ IF rows = RowsOf(cc[w].n) /\ nameless = {} THEN UNCHANGED errors ELSE QueryFails
          /\ LET msgs == {AsMessage(r, nameless) : r \in {r \in rows : Newer(r.d, arg[w].d)}}
              IN  shown' = IF msgs = {} THEN shown
                           ELSE shown \cup {[s |-> arg[w].s, u |-> cc[w].u, msgs |-> msgs]}
    BY DEF HistoryRows
  <1>4. UNCHANGED errors \/ QueryFails
    BY <1>3
  <1>5. nameless # {} => errors' > 0
    BY <1>1, <1>3 DEF QueryFails, CInv, Inv1, TypeOK
  <1>6. /\ CInv' /\ ChatGrows /\ sent' \subseteq Messages
        /\ \A v \in Workers \ {w} : cc'[v] = cc[v] /\ arg'[v] = arg[v]
        /\ arg' \in [Workers -> Args] /\ TextFits(w)'
    BY <1>1, <1>2, <1>4, Stops
  <1>7. \A h \in shown' \ shown : ShownFits(h)'
    <2> SUFFICES ASSUME NEW h \in shown' \ shown, NEW m \in h.msgs
                 PROVE  /\ <<h.u, m.n>> \in asked'
                        /\ \/ m \in sent'
                           \/ /\ m.l = NoLogin /\ errors' > 0
                              /\ \E l \in Logins : [m EXCEPT !.l = l] \in sent'
      BY DEF ShownFits
    <2>1. h.u = cc[w].u
      BY <1>3
    <2>2. h.msgs = {AsMessage(r, nameless) : r \in {r \in rows : Newer(r.d, arg[w].d)}}
      BY <1>3
    <2>3. PICK r \in rows : m = AsMessage(r, nameless)
      BY <2>2
    <2>4. r \in RowsOf(cc[w].n)
      BY <1>3
    <2>5. sent \subseteq sent' /\ asked \subseteq asked'
      BY <1>6 DEF ChatGrows, TextsGrow
    <2> QED
      BY <1>1, <1>5, <2>1, <2>3, <2>4, <2>5, RowsAreShown
  <1>8. TextsFit'
    <2>1. clashed' \subseteq sent'
      BY <1>1, <1>2 DEF TextsFit
    <2> QED
      BY <1>1, <1>2, <1>6, <1>7, <2>1, TextsStill DEF ChatGrows
  <1> QED
    BY <1>6, <1>8, StepChatInv

LEMMA ListUserInv ==
    ASSUME ChatInv, NEW w \in Workers, ListUser(w)
    PROVE  ChatInv'
  <1>1. /\ cc[w] \in CallsAt(AllPcs) /\ cc[w] # Idle /\ server = "up" /\ cc[w].pc = "list"
        /\ TextFits(w) /\ cc[w].op # "join"
    BY ChatCall DEF ListUser, LaterPcs
  <1>2. UNCHANGED <<errors, history, sent, echoed, shown, listed, clashed>> /\ Unmoved
    BY DEF ListUser
  <1>3. CASE EndChat(w)
    BY <1>1, <1>2, <1>3, EndsQuietly
  <1>4. CASE /\ cc[w].u \in DOMAIN idClients /\ Goto(w, "names")
             /\ arg' = [arg EXCEPT ![w].s = idClients[cc[w].u]]
    <2>1. PICK c : c = [cc[w] EXCEPT !.pc = "names"]
      OBVIOUS
    <2>2. /\ c \in CallsAt(LaterPcs) /\ c.op = cc[w].op /\ c.n = cc[w].n /\ c.pc = "names" /\ c # Idle
      BY <1>1, <2>1 DEF CallsAt, LaterPcs, Idle
    <2>3. cc' = [cc EXCEPT ![w] = c]
      BY <1>4, <2>1 DEF Goto
    <2>4. /\ CInv' /\ ChatGrows /\ sent' \subseteq Messages
          /\ cc'[w] = c /\ \A v \in Workers \ {w} : cc'[v] = cc[v]
      BY <1>1, <1>2, <2>2, <2>3, GoesOn
    <2>5. /\ arg' \in [Workers -> Args] /\ \A v \in Workers \ {w} : arg'[v] = arg[v]
          /\ arg'[w].l = arg[w].l /\ arg'[w].d = arg[w].d
      <3>1. arg[w] \in Args /\ arg \in [Workers -> Args]
        BY DEF ChatInv
      <3> QED
        BY <1>4, <3>1, SessionKept DEF Args
    <2>6. TextFits(w)'
      BY <1>1, <1>2, <2>2, <2>4, <2>5 DEF TextFits, MessageOf
    <2> QED
      BY <1>2, <2>4, <2>5, <2>6, SilentChatInv
  <1> QED
    BY <1>3, <1>4 DEF ListUser

LEMMA ListNamesInv ==
    ASSUME ChatInv, NEW w \in Workers, ListNames(w)
    PROVE  ChatInv'
  <1>1. server = "up" /\ TextsFit
    BY ChatCall DEF ListNames, ChatInv
  <1>2. UNCHANGED <<history, sent, echoed, shown, clashed>> /\ Unmoved /\ EndChat(w)
    BY DEF ListNames
  <1>3. PICK ns \in {NamesOf(cc[w].u), {}} :
          /\ listed' = listed \cup {[s |-> arg[w].s, u |-> cc[w].u, ns |-> ns]}
          /\ UNCHANGED errors \/ QueryFails
    BY DEF ListNames
  <1>4. /\ CInv' /\ ChatGrows /\ sent' \subseteq Messages
        /\ \A v \in Workers \ {w} : cc'[v] = cc[v] /\ arg'[v] = arg[v]
        /\ arg' \in [Workers -> Args] /\ TextFits(w)'
    BY <1>1, <1>2, <1>3, Stops
  <1>5. \A x \in listed' \ listed : ListedFits(x)'
    <2> SUFFICES ASSUME NEW x \in listed' \ listed, NEW n \in x.ns
                 PROVE  \E m \in sent' : m.n = n /\ x.u \in IdsOf(m.l)'
      BY DEF ListedFits
    <2>1. x.u = cc[w].u /\ x.ns = ns
      BY <1>3
    <2>2. PICK r \in history : r.n = n /\ r.u = x.u
      BY <2>1 DEF NamesOf
    <2>3. RowFits(r)
      BY <1>1 DEF TextsFit
    <2>4. PICK m \in sent : m = [l |-> clients[r.u].login, n |-> r.n, d |-> r.d]
      BY <2>3 DEF RowFits, SentAs
    <2>5. m.n = n /\ x.u \in IdsOf(m.l)
      BY <2>2, <2>3, <2>4 DEF IdsOf, RowFits
    <2>6. m \in sent' /\ x.u \in IdsOf(m.l)'
      BY <1>4, <2>5, NamesStay DEF ChatGrows, TextsGrow
    <2> QED
      BY <2>5, <2>6
  <1>6. TextsFit'
    <2>1. clashed' \subseteq sent'
      BY <1>1, <1>2 DEF TextsFit
    <2> QED
      BY <1>1, <1>2, <1>4, <1>5, <2>1, TextsStill DEF ChatGrows
  <1> QED
    BY <1>4, <1>6, StepChatInv

------------------------------------------------------------------------------
(* The process and the theorems *)

(* When no call is left, only what is stored and what was said has to fit. *)
LEMMA NoCallsInv ==
    ASSUME ChatInv, CInv', TextsGrow, \A w \in Workers : cc'[w] = Idle /\ arg'[w] = NoArg,
           arg' \in [Workers -> Args],
           UNCHANGED <<history, sent, echoed, shown, listed, clashed>>
    PROVE  ChatInv'
  <1>1. TextsFit /\ sent' \subseteq Messages /\ clashed' \subseteq sent'
    BY DEF ChatInv, TextsFit
  <1>2. TextsFit'
    BY <1>1, TextsStill
  <1>3. \A w \in Workers : TextFits(w)'
    BY DEF TextFits
  <1> QED
    BY <1>2, <1>3 DEF ChatInv

LEMMA CrashChatInv == ChatInv /\ HCrash => ChatInv'
  <1> SUFFICES ASSUME ChatInv, HCrash PROVE ChatInv'
    OBVIOUS
  <1>1. /\ CCrash /\ arg' = [w \in Workers |-> NoArg]
        /\ UNCHANGED <<history, sent, echoed, shown, listed, clashed>>
    BY DEF HCrash
  <1>2. CInv' /\ UNCHANGED <<clients, channels, asked, errors>> /\ cc' = [w \in Workers |-> Idle]
    BY <1>1, CrashCInv DEF ChatInv, CCrash, Crash
  <1>3. TextsGrow
    BY <1>1, <1>2 DEF TextsGrow
  <1> QED
    BY <1>1, <1>2, <1>3, NoArgFits, NoCallsInv

LEMMA BootChatInv == ChatInv /\ CBoot /\ UNCHANGED textVars => ChatInv'
  <1> SUFFICES ASSUME ChatInv, CBoot, UNCHANGED textVars PROVE ChatInv'
    OBVIOUS
  <1>1. /\ CInv /\ server = "down" /\ UNCHANGED <<clients, channels, cc, asked>>
        /\ UNCHANGED errors \/ errors' = errors + 1
    BY DEF ChatInv, CBoot, BootUsers, Connect, QueryFails
  <1>2. CInv'
    BY <1>1, BootCInv
  <1>3. UNCHANGED <<history, arg, sent, echoed, shown, listed, clashed>>
    BY DEF textVars
  <1>4. TextsGrow
    BY <1>1, <1>3, MoreErrors DEF TextsGrow
  <1>5. arg' \in [Workers -> Args] /\ \A w \in Workers : cc'[w] = Idle /\ arg'[w] = NoArg
    BY <1>1, <1>3 DEF ChatInv, CInv, QuietWhenDown, TextFits
  <1> QED
    BY <1>2, <1>3, <1>4, <1>5, NoCallsInv

LEMMA InitChatInv == HInit => ChatInv
  <1> SUFFICES ASSUME HInit PROVE ChatInv
    OBVIOUS
  <1>1. CInv
    BY InitCInv DEF HInit
  <1>2. TextsFit
    BY DEF HInit, TextsFit
  <1>3. arg \in [Workers -> Args] /\ \A w \in Workers : TextFits(w)
    BY NoArgFits DEF HInit, CInit, TextFits
  <1> QED
    BY <1>1, <1>2, <1>3 DEF ChatInv

LEMMA NextChatInv == ChatInv /\ [HNext]_hvars => ChatInv'
  <1> SUFFICES ASSUME ChatInv, [HNext]_hvars PROVE ChatInv'
    OBVIOUS
  <1>1. CASE HCrash \/ (CBoot /\ UNCHANGED textVars)
    BY <1>1, CrashChatInv, BootChatInv
  <1>2. ASSUME NEW w \in Workers, HRequest(w) PROVE ChatInv'
    <2>1. CASE CRequest(w) /\ UNCHANGED textVars
      BY <2>1, UserChatInv, JoinRoomChatInv DEF CRequest
    <2> QED
      BY <1>2, <2>1, SendTextInv, GetHistoryInv, GetChannelsInv DEF HRequest
  <1>3. ASSUME NEW w \in Workers, TextStep(w) PROVE ChatInv'
    BY <1>3, StartWriteInv, WriteNextInv, WriteDoneInv, AuthorIdInv, StoreTextInv DEF TextStep
  <1>4. ASSUME NEW w \in Workers, ReadStep(w) PROVE ChatInv'
    BY <1>4, HistoryMemberInv, HistoryNameInv, HistoryRowsInv, ListUserInv, ListNamesInv DEF ReadStep
  <1>5. ASSUME NEW w \in Workers, HStep(w) PROVE ChatInv'
    BY <1>3, <1>4, <1>5, UserChatInv, JoinChatInv, LookupChatInv DEF HStep
  <1>6. CASE UNCHANGED hvars
    <2>1. CInv'
      BY <1>6, NextCInv DEF hvars, ChatInv
    <2>2. /\ UNCHANGED <<clients, channels, objects, cc, asked, errors>>
          /\ UNCHANGED <<history, arg, sent, echoed, shown, listed, clashed>>
      BY <1>6 DEF hvars, cvars, vars, channelVars, textVars
    <2>3. ChatGrows
      BY <2>2 DEF ChatGrows, TextsGrow
    <2>4. TextsFit /\ sent' \subseteq Messages /\ clashed' \subseteq sent'
      BY <2>2 DEF ChatInv, TextsFit
    <2>5. TextsFit'
      BY <2>2, <2>3, <2>4, TextsStill DEF ChatGrows
    <2>6. arg' \in [Workers -> Args] /\ \A w \in Workers : TextFits(w)'
      BY <2>2, <2>3, TextFitsStill DEF ChatInv
    <2> QED
      BY <2>1, <2>5, <2>6 DEF ChatInv
  <1> QED
    BY <1>1, <1>2, <1>5, <1>6 DEF HNext

LEMMA ChatInvHolds == HSpec => []ChatInv
  BY InitChatInv, NextChatInv, PTL DEF HSpec

(***************************************************************************)
(* The rows of history are those of clients and of names, what a call      *)
(* carries is dropped when it ends, however it ends, and an EchoResponse   *)
(* carries a text that was sent.                                           *)
(***************************************************************************)
THEOREM ChatTypeCorrect == HSpec => []HTypeOK
  <1>1. ChatInv => HTypeOK
    <2> SUFFICES ASSUME ChatInv PROVE HTypeOK
      OBVIOUS
    <2>1. CTablesOK
      BY DEF ChatInv, CInv, Inv1, CTypes, CTablesOK
    <2>2. AllPcs = CreatingPcs \cup GetPcs \cup JoinPcs \cup ChatPcs \cup {"resume"}
      BY DEF AllPcs, LaterPcs, ChatPcs
    <2>3. cc \in [Workers -> CallsAt(CreatingPcs \cup GetPcs \cup JoinPcs \cup ChatPcs
                                      \cup {"resume"}) \cup {Idle}]
      BY <2>2 DEF ChatInv, CInv, CTypes
    <2>4. history \subseteq [u : DOMAIN clients, n : Names, d : Times]
      BY DEF ChatInv, TextsFit, RowFits
    <2>5. arg \in [Workers -> Args] /\ \A w \in Workers : cc[w] = Idle => arg[w] = NoArg
      BY DEF ChatInv, TextFits
    <2>6. /\ sent \subseteq Messages /\ clashed \subseteq sent
          /\ \A e \in echoed : e.m \in sent /\ e.s \in Sessions
      BY DEF ChatInv, TextsFit, EchoFits
    <2> QED
      BY <2>1, <2>3, <2>4, <2>5, <2>6 DEF HTypeOK
  <1> QED
    BY <1>1, ChatInvHolds, PTL

(***************************************************************************)
(* A text is written only to users who asked to join its channel, and a    *)
(* history is read only by them: by the Channel object the call got, which *)
(* another may have replaced by then, and after any number of restarts.    *)
(***************************************************************************)
THEOREM OnlyMembersHear == HSpec => []OnlyMembersReceive
  <1>1. ChatInv => OnlyMembersReceive
    BY DEF ChatInv, TextsFit, EchoFits, ShownFits, OnlyMembersReceive
  <1> QED
    BY <1>1, ChatInvHolds, PTL

(***************************************************************************)
(* A message of a HistoryResponse was sent to that channel, at that time   *)
(* and under that login, though its row keeps only the id that the login   *)
(* had at the INSERT; or a query for the login failed.                     *)
(***************************************************************************)
THEOREM HistoryWasSent == HSpec => []HistoryIsAsSent
  <1>1. ChatInv => HistoryIsAsSent
    BY DEF ChatInv, TextsFit, ShownFits, HistoryIsAsSent
  <1> QED
    BY <1>1, ChatInvHolds, PTL

(***************************************************************************)
(* A ChannelsResponse names only channels that a text was sent to under    *)
(* the login of the client that asked.                                     *)
(***************************************************************************)
THEOREM ListedWereWritten == HSpec => []ListedAreWritten
  <1>1. ChatInv => ListedAreWritten
    BY DEF ChatInv, TextsFit, ListedFits, ListedAreWritten
  <1> QED
    BY <1>1, ChatInvHolds, PTL

(***************************************************************************)
(* A stored text belongs to a stored channel, though createChannel goes on *)
(* when the INSERT of the channel failed.                                  *)
(***************************************************************************)
THEOREM TextsHaveChannels == HSpec => []TextsBelongToChannels
  <1>1. ChatInv => TextsBelongToChannels
    BY DEF ChatInv, TextsFit, RowFits, TextsBelongToChannels
  <1> QED
    BY <1>1, ChatInvHolds, PTL

==============================================================================
