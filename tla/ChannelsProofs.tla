---------------------------- MODULE ChannelsProofs ----------------------------
(***************************************************************************)
(* Theorems about channels and their members, for any workers, names, ids  *)
(* and bounds.                                                             *)
(*                                                                         *)
(* CInv is the type invariant with what a call (a join, or one of Chat as  *)
(* far as it shares the lookup) carries from one query to the next and     *)
(* with what ties the tables, the Channel objects and the map of the       *)
(* manager together.  The part of it about Users is Inv1, which the        *)
(* lemmas of UsersProofs preserve, since its steps are the same actions.   *)
(* The other invariants are about the names whose creation no call found   *)
(* out: MInv, that such a name has one row, and HInv, that its members     *)
(* hear; HInv is inductive only with MInv and with RegistryHeld, which is  *)
(* what the mutex of the manager is for.                                   *)
(***************************************************************************)
EXTENDS Channels, UsersProofs

(* Where a call of Chat goes on once it left createOrGetChannelByName. *)
LaterPcs == {"write", "author", "store", "name", "rows", "list", "names"}
AllPcs == CreatingPcs \cup GetPcs \cup JoinPcs \cup {"resume"} \cup LaterPcs

CTypes ==
    /\ channels \in Seq(Names)
    /\ subscriptions \subseteq Ids \X Nat
    /\ objects \in Seq(Objects)
    /\ DOMAIN idChannels \subseteq DOMAIN channels
    /\ idChannels \in [DOMAIN idChannels -> DOMAIN objects]
    /\ mutex \in Workers \cup {NoWorker}
    /\ asked \subseteq Ids \X Names
    /\ acked \subseteq Acks
    /\ overlappedNames \subseteq Names
    /\ missing \subseteq Ids \X Names
    /\ cc \in [Workers -> CallsAt(AllPcs) \cup {Idle}]

(* What a call of createOrGetChannelByName holds, and a join after it: its   *)
(* id and its Channel are those of its name, a join was asked for, and past  *)
(* the lookup of its user that is a client.                                  *)
CallFits(w) ==
    cc[w] # Idle =>
        /\ cc[w].op = "join" => cc[w].pc \notin LaterPcs
        /\ cc[w].pc \notin LaterPcs =>
             /\ cc[w].n \in Names
             /\ cc[w].op = "join" => cc[w].u \in Ids /\ <<cc[w].u, cc[w].n>> \in asked
             /\ cc[w].id # NoId => cc[w].id \in IdsOfName(cc[w].n)
             /\ cc[w].pc \in {"loadLocked", "register"} => cc[w].id # NoId
             /\ cc[w].pc = "loadLocked" => cc[w].n # EmptyName
             /\ cc[w].pc \in {"register", "resume"} \cup JoinPcs =>
                  cc[w].obj \in DOMAIN objects /\ objects[cc[w].obj].name = cc[w].n
             /\ cc[w].pc \in JoinPcs => cc[w].op = "join" /\ cc[w].u \in DOMAIN clients

MayBeIn(u, n) == u \in DOMAIN clients /\ <<u, n>> \in asked

(* A Channel is one of a row, of a name, with members who asked for it. *)
ObjectFits(o) ==
    /\ objects[o].id \in IdsOfName(objects[o].name)
    /\ objects[o].name # EmptyName
    /\ \A u \in objects[o].users : MayBeIn(u, objects[o].name)
ObjectsFit == \A o \in DOMAIN objects : ObjectFits(o)

RegistryFits ==
    \A k \in DOMAIN idChannels : objects[idChannels[k]].name = channels[k]

RowsFit ==
    \A row \in subscriptions :
        /\ row[1] \in DOMAIN clients
        /\ row[2] # NoId => row[2] \in DOMAIN channels /\ MayBeIn(row[1], channels[row[2]])

QuietWhenDown == server = "down" => \A w \in Workers : cc[w] = Idle

CInv ==
    /\ Inv1 /\ CTypes /\ QuietWhenDown
    /\ ObjectsFit /\ RegistryFits /\ RowsFit
    /\ \A w \in Workers : CallFits(w)

------------------------------------------------------------------------------
(* Frames *)

(* The steps of the channels touch of Users only its counters. *)
LEMMA UsersKept ==
    ASSUME Inv1, UNCHANGED <<userVars, crashes>>,
           started' \in 0..MaxCalls, errors' \in 0..MaxErrors
    PROVE  Inv1'
  <1>1. TypeOK'
    BY DEF Inv1, TypeOK, userVars
  <1>2. \A w \in Workers : CallOK(w)'
    BY DEF Inv1, CallOK, userVars
  <1> QED
    BY <1>1, <1>2 DEF Inv1

(* Tables, objects and questions are only added. *)
Grows ==
    /\ \A k \in DOMAIN channels : k \in DOMAIN channels' /\ channels'[k] = channels[k]
    /\ \A o \in DOMAIN objects : o \in DOMAIN objects' /\ objects'[o].name = objects[o].name
    /\ DOMAIN clients \subseteq DOMAIN clients'
    /\ asked \subseteq asked'

LEMMA FitsStill ==
    ASSUME Grows, NEW v \in Workers, cc'[v] = cc[v], CallFits(v)
    PROVE  CallFits(v)'
  BY DEF Grows, CallFits, LaterPcs, IdsOfName

(* A step of worker w in the channels. *)
LEMMA StepInv ==
    ASSUME CInv, NEW w \in Workers, UNCHANGED <<userVars, crashes>>,
           started' \in 0..MaxCalls, errors' \in 0..MaxErrors,
           Grows, CTypes', server = "up",
           \A v \in Workers \ {w} : cc'[v] = cc[v], CallFits(w)',
           ObjectsFit', RegistryFits', RowsFit'
    PROVE  CInv'
  <1>1. Inv1'
    BY UsersKept DEF CInv
  <1>2. \A v \in Workers : CallFits(v)'
    BY FitsStill DEF CInv
  <1>3. QuietWhenDown'
    BY DEF QuietWhenDown, userVars
  <1> QED
    BY <1>1, <1>2, <1>3 DEF CInv

(* Worker w goes on at pc, with id and obj. *)
Moved(w, pc, id, obj) ==
    /\ cc' \in [Workers -> CallsAt(AllPcs) \cup {Idle}]
    /\ \A v \in Workers \ {w} : cc'[v] = cc[v]
    /\ cc'[w].pc = pc /\ cc'[w].id = id /\ cc'[w].obj = obj
    /\ cc'[w].op = cc[w].op /\ cc'[w].u = cc[w].u /\ cc'[w].n = cc[w].n

LEMMA CallIsRecord ==
    ASSUME CInv, NEW w \in Workers, NEW pc, pc # "idle", CAt(w, pc)
    PROVE  /\ cc[w] \in CallsAt(AllPcs) /\ cc[w] # Idle /\ server = "up"
           /\ cc[w].id \in Nat /\ cc[w].obj \in Nat
           /\ CallFits(w)
  <1>1. cc[w] # Idle /\ cc[w] \in CallsAt(AllPcs) /\ CallFits(w)
    BY DEF CInv, CTypes, CAt, Idle
  <1>2. server = "up"
    BY <1>1 DEF CInv, QuietWhenDown, Inv1, TypeOK
  <1> QED
    BY <1>1, <1>2 DEF CallsAt

LEMMA Moves ==
    ASSUME CInv, NEW w \in Workers, cc[w] \in CallsAt(AllPcs),
           NEW pc \in AllPcs, NEW id \in Nat, NEW obj \in Nat
    PROVE  /\ Goto(w, pc) => Moved(w, pc, cc[w].id, cc[w].obj)
           /\ cc' = [cc EXCEPT ![w].pc = pc, ![w].id = id] => Moved(w, pc, id, cc[w].obj)
           /\ cc' = [cc EXCEPT ![w].pc = pc, ![w].obj = obj] => Moved(w, pc, cc[w].id, obj)
  <1>0. cc \in [Workers -> CallsAt(AllPcs) \cup {Idle}]
    BY DEF CInv, CTypes
  <1>1. ASSUME Goto(w, pc) PROVE Moved(w, pc, cc[w].id, cc[w].obj)
    <2>1. cc'[w] = [cc[w] EXCEPT !.pc = pc]
      BY <1>0, <1>1 DEF Goto
    <2>2. cc'[w] \in CallsAt(AllPcs)
      BY <2>1 DEF CallsAt
    <2>3. cc' \in [Workers -> CallsAt(AllPcs) \cup {Idle}] /\ \A v \in Workers \ {w} : cc'[v] = cc[v]
      BY <1>0, <1>1, <2>1, <2>2 DEF Goto
    <2> QED
      BY <2>1, <2>3 DEF Moved, CallsAt
  <1>2. ASSUME cc' = [cc EXCEPT ![w].pc = pc, ![w].id = id] PROVE Moved(w, pc, id, cc[w].obj)
    <2>1. cc'[w] = [cc[w] EXCEPT !.pc = pc, !.id = id]
      BY <1>0, <1>2
    <2>2. cc'[w] \in CallsAt(AllPcs)
      BY <2>1 DEF CallsAt
    <2>3. cc' \in [Workers -> CallsAt(AllPcs) \cup {Idle}] /\ \A v \in Workers \ {w} : cc'[v] = cc[v]
      BY <1>0, <1>2, <2>1, <2>2
    <2> QED
      BY <2>1, <2>3 DEF Moved, CallsAt
  <1>3. ASSUME cc' = [cc EXCEPT ![w].pc = pc, ![w].obj = obj] PROVE Moved(w, pc, cc[w].id, obj)
    <2>1. cc'[w] = [cc[w] EXCEPT !.pc = pc, !.obj = obj]
      BY <1>0, <1>3
    <2>2. cc'[w] \in CallsAt(AllPcs)
      BY <2>1 DEF CallsAt
    <2>3. cc' \in [Workers -> CallsAt(AllPcs) \cup {Idle}] /\ \A v \in Workers \ {w} : cc'[v] = cc[v]
      BY <1>0, <1>3, <2>1, <2>2
    <2> QED
      BY <2>1, <2>3 DEF Moved, CallsAt
  <1> QED
    BY <1>1, <1>2, <1>3

LEMMA Ends ==
    ASSUME CInv, NEW w \in Workers, EndCall(w)
    PROVE  /\ cc' \in [Workers -> CallsAt(AllPcs) \cup {Idle}]
           /\ \A v \in Workers \ {w} : cc'[v] = cc[v]
           /\ CallFits(w)'
  BY DEF CInv, CTypes, EndCall, CallFits, LaterPcs

(* A step that changes neither the tables, nor the objects, nor the map. *)
LEMMA QuietInv ==
    ASSUME CInv, NEW w \in Workers, server = "up",
           UNCHANGED <<userVars, started, crashes, channels, subscriptions, objects,
                       idChannels, asked, missing>>,
           errors' \in 0..MaxErrors, acked' \subseteq Acks, overlappedNames' \subseteq Names,
           mutex' \in Workers \cup {NoWorker},
           cc' \in [Workers -> CallsAt(AllPcs) \cup {Idle}],
           \A v \in Workers \ {w} : cc'[v] = cc[v], CallFits(w)'
    PROVE  CInv'
  <1>1. Grows /\ CTypes'
    BY DEF CInv, CTypes, Grows, userVars
  <1>2. ObjectsFit' /\ RegistryFits' /\ RowsFit'
    BY DEF CInv, ObjectsFit, ObjectFits, IdsOfName, RegistryFits, RowsFit, MayBeIn, userVars
  <1>3. started' \in 0..MaxCalls
    BY DEF CInv, Inv1, TypeOK
  <1> QED
    BY <1>1, <1>2, <1>3, StepInv

LEMMA FailedQuery ==
    ASSUME CInv
    PROVE  /\ errors \in 0..MaxErrors /\ (UNCHANGED errors \/ QueryFails => errors' \in 0..MaxErrors)
           /\ UNCHANGED acked => acked' \subseteq Acks
           /\ UNCHANGED overlappedNames => overlappedNames' \subseteq Names
           /\ UNCHANGED mutex => mutex' \in Workers \cup {NoWorker}
  BY BoundsAssumption DEF CInv, Inv1, TypeOK, CTypes, QueryFails

------------------------------------------------------------------------------
(* createOrGetChannelByName *)

LEMMA HasInv ==
    ASSUME CInv, NEW w \in Workers, HasChannel(w)
    PROVE  CInv'
  <1>1. /\ cc[w] \in CallsAt(AllPcs) /\ cc[w] # Idle /\ server = "up" /\ CallFits(w)
        /\ cc[w].id \in Nat /\ cc[w].obj \in Nat /\ cc[w].pc = "has"
    BY CallIsRecord DEF HasChannel, CAt
  <1>2. /\ UNCHANGED <<userVars, started, crashes, channels, subscriptions, objects,
                       idChannels, mutex, asked, acked, missing>>
        /\ errors' \in 0..MaxErrors
        /\ overlappedNames' \subseteq Names
    BY <1>1, FailedQuery DEF HasChannel, CallFits, LaterPcs, CInv, CTypes
  <1>3. CASE EndCall(w)
    BY <1>1, <1>2, <1>3, Ends, FailedQuery, QuietInv
  <1>4. CASE Goto(w, IF IdsOfName(cc[w].n) = {} THEN "create" ELSE "getid")
    <2>1. PICK pc \in {"create", "getid"} : Goto(w, pc)
      BY <1>4
    <2>2. Moved(w, pc, cc[w].id, cc[w].obj)
      BY <1>1, <2>1, Moves DEF AllPcs, CreatingPcs, GetPcs
    <2>3. CallFits(w)'
      BY <1>1, <1>2, <2>2 DEF Moved, CallFits, LaterPcs, IdsOfName, JoinPcs
    <2> QED
      BY <1>1, <1>2, <2>2, <2>3, FailedQuery, QuietInv DEF Moved
  <1> QED
    BY <1>3, <1>4 DEF HasChannel

LEMMA GetIdInv ==
    ASSUME CInv, NEW w \in Workers,
           NEW pc \in {"getid", "create", "reread", "subid"},
           NEW none \in {"lock", "insert", "load", "subhas"},
           NEW some \in {"lock", "load", "subhas"},
           none = "subhas" \/ some = "subhas" => pc = "subid",
           GetChannelId(w, pc, none, some)
    PROVE  CInv'
  <1>1. /\ cc[w] \in CallsAt(AllPcs) /\ cc[w] # Idle /\ server = "up" /\ CallFits(w)
        /\ cc[w].id \in Nat /\ cc[w].obj \in Nat /\ cc[w].pc = pc
    BY CallIsRecord DEF GetChannelId, CAt
  <1>2. PICK r \in IdsOfName(cc[w].n) \cup {NoId} :
          /\ SelectId(IdsOfName(cc[w].n), r)
          /\ cc' = [cc EXCEPT ![w].pc = IF r = NoId THEN none ELSE some, ![w].id = r]
    BY DEF GetChannelId
  <1>3. /\ UNCHANGED <<userVars, started, crashes, channels, subscriptions, objects,
                       idChannels, mutex, asked, acked, missing, overlappedNames>>
        /\ errors' \in 0..MaxErrors
    BY <1>2, FailedQuery DEF GetChannelId, SelectId, QueryFails
  <1>4. r \in Nat
    BY DEF IdsOfName, CInv, CTypes, NoId
  <1>5. PICK to \in {none, some} : cc' = [cc EXCEPT ![w].pc = to, ![w].id = r]
    BY <1>2
  <1>6. Moved(w, to, r, cc[w].obj)
    <2>1. to \in AllPcs
      BY DEF AllPcs, CreatingPcs, GetPcs, JoinPcs
    <2> QED
      BY <1>1, <1>4, <1>5, <2>1, Moves
  <1>7. CallFits(w)'
    BY <1>1, <1>3, <1>6 DEF Moved, CallFits, LaterPcs, IdsOfName, JoinPcs, userVars
  <1> QED
    BY <1>1, <1>3, <1>6, <1>7, FailedQuery, QuietInv DEF Moved

LEMMA CreateInsertInv ==
    ASSUME CInv, NEW w \in Workers, CreateInsert(w)
    PROVE  CInv'
  <1>1. /\ cc[w] \in CallsAt(AllPcs) /\ cc[w] # Idle /\ server = "up" /\ CallFits(w)
        /\ cc[w].id \in Nat /\ cc[w].obj \in Nat /\ cc[w].pc = "insert"
    BY CallIsRecord DEF CreateInsert, CAt
  <1>2. /\ UNCHANGED <<userVars, started, crashes, subscriptions, objects, idChannels,
                       mutex, asked, acked, overlappedNames, missing>>
        /\ errors' \in 0..MaxErrors
    BY FailedQuery DEF CreateInsert
  <1>3. Moved(w, "reread", cc[w].id, cc[w].obj)
    BY <1>1, Moves DEF CreateInsert, AllPcs, CreatingPcs
  <1>4. channels \in Seq(Names) /\ cc[w].n \in Names
    BY <1>1 DEF CInv, CTypes, CallFits, LaterPcs
  <1>5. /\ channels' \in Seq(Names)
        /\ \A k \in DOMAIN channels : k \in DOMAIN channels' /\ channels'[k] = channels[k]
    BY <1>4 DEF CreateInsert
  <1>6. Grows
    BY <1>2, <1>5 DEF Grows, userVars
  <1>7. CTypes'
    BY <1>2, <1>3, <1>5 DEF CInv, CTypes, Moved
  <1>8. CallFits(w)'
    BY <1>1, <1>2, <1>3, <1>5 DEF Moved, CallFits, LaterPcs, IdsOfName, JoinPcs
  <1>9. ObjectsFit' /\ RegistryFits' /\ RowsFit'
    BY <1>2, <1>5 DEF CInv, CTypes, ObjectsFit, ObjectFits, IdsOfName, RegistryFits, RowsFit, MayBeIn, userVars
  <1>10. started' \in 0..MaxCalls
    BY <1>2 DEF CInv, Inv1, TypeOK
  <1> QED
    BY <1>1, <1>2, <1>3, <1>6, <1>7, <1>8, <1>9, <1>10, StepInv DEF Moved

(* The users of a row of channels have asked for its name and are clients. *)
LEMMA UsersOfFit ==
    ASSUME CInv, NEW k \in DOMAIN channels
    PROVE  /\ UsersOf(k) \subseteq Ids
           /\ \A u \in UsersOf(k) : MayBeIn(u, channels[k])
  <1>1. k # NoId
    BY DEF CInv, CTypes, NoId
  <1> QED
    BY <1>1 DEF CInv, CTypes, UsersOf, RowsFit

LEMMA ConstructFits ==
    ASSUME CInv, NEW w \in Workers, cc[w] \in CallsAt(AllPcs), cc[w] # Idle,
           cc[w].id # NoId, cc[w].n # EmptyName,
           NEW pc \in {"register", "resume"}, cc[w].pc \in {"load", "loadLocked"}, Construct(w, pc),
           UNCHANGED <<userVars, channels, asked>>
    PROVE  /\ Moved(w, pc, cc[w].id, Len(objects) + 1)
           /\ objects' \in Seq(Objects) /\ Len(objects) + 1 \in DOMAIN objects'
           /\ objects'[Len(objects) + 1].name = cc[w].n
           /\ objects'[Len(objects) + 1].id = cc[w].id
           /\ \A o \in DOMAIN objects : o \in DOMAIN objects' /\ objects'[o] = objects[o]
           /\ missing' \subseteq Ids \X Names
           /\ errors' \in 0..MaxErrors
           /\ ObjectsFit' /\ Grows
           /\ UsersOf(cc[w].id) \X {cc[w].n} \subseteq
                (objects'[Len(objects) + 1].users \X {cc[w].n}) \cup missing'
           /\ missing \subseteq missing'
  <1>1. CallFits(w) /\ objects \in Seq(Objects) /\ missing \subseteq Ids \X Names
    BY DEF CInv, CTypes
  <1>2. /\ cc[w].id \in DOMAIN channels /\ channels[cc[w].id] = cc[w].n
        /\ cc[w].n \in Names /\ cc[w].id \in Nat
    BY <1>1 DEF CallFits, LaterPcs, IdsOfName, CInv, CTypes, CallsAt
  <1>3. PICK us \in {UsersOf(cc[w].id), {}} :
          /\ UNCHANGED errors \/ QueryFails
          /\ objects' = Append(objects, [name |-> cc[w].n, id |-> cc[w].id, users |-> us])
          /\ missing' = missing \cup ((UsersOf(cc[w].id) \ us) \X {cc[w].n})
          /\ cc' = [cc EXCEPT ![w].pc = pc, ![w].obj = Len(objects) + 1]
    BY DEF Construct
  <1>4. PICK e : e = [name |-> cc[w].n, id |-> cc[w].id, users |-> us]
    OBVIOUS
  <1>5. /\ us \subseteq Ids /\ \A u \in us : MayBeIn(u, cc[w].n)
        /\ UsersOf(cc[w].id) \subseteq Ids
    BY <1>2, <1>3, UsersOfFit
  <1>6. e \in Objects /\ e.name = cc[w].n /\ e.id = cc[w].id /\ e.users = us
    BY <1>2, <1>4, <1>5 DEF Objects
  <1>7. /\ Len(objects) \in Nat /\ DOMAIN objects = 1..Len(objects)
        /\ objects' = Append(objects, e) /\ objects' \in Seq(Objects)
        /\ DOMAIN objects' = 1..(Len(objects) + 1) /\ objects'[Len(objects) + 1] = e
        /\ \A o \in 1..Len(objects) : objects'[o] = objects[o]
    BY <1>1, <1>3, <1>4, <1>6
  <1>8. Moved(w, pc, cc[w].id, Len(objects) + 1)
    <2>1. pc \in AllPcs /\ Len(objects) + 1 \in Nat /\ cc[w].id \in Nat
      BY <1>2, <1>7 DEF AllPcs, CreatingPcs
    <2> QED
      BY <1>3, <2>1, Moves
  <1>9. ObjectsFit'
    <2>1. \A o \in DOMAIN objects : ObjectFits(o)'
      BY <1>7 DEF CInv, ObjectsFit, ObjectFits, IdsOfName, MayBeIn, userVars
    <2>2. PICK q : q = Len(objects) + 1
      OBVIOUS
    <2>3. ObjectFits(q)'
      BY <1>2, <1>5, <1>6, <1>7, <2>2 DEF ObjectFits, IdsOfName, MayBeIn, userVars
    <2>4. \A o \in DOMAIN objects' : o \in DOMAIN objects \/ o = q
      BY <1>1, <1>7, <2>2
    <2> QED
      BY <2>1, <2>3, <2>4 DEF ObjectsFit
  <1>10. Grows
    BY <1>7 DEF Grows, userVars
  <1>11. errors' \in 0..MaxErrors
    BY <1>3, FailedQuery
  <1>12. missing' \subseteq Ids \X Names /\ missing \subseteq missing'
    BY <1>1, <1>2, <1>3, <1>5
  <1>13. UsersOf(cc[w].id) \X {cc[w].n} \subseteq (us \X {cc[w].n}) \cup missing'
    BY <1>3
  <1> QED
    BY <1>6, <1>7, <1>8, <1>9, <1>10, <1>11, <1>12, <1>13

LEMMA BuildInv ==
    ASSUME CInv, NEW w \in Workers, Build(w)
    PROVE  CInv'
  <1>1. /\ cc[w] \in CallsAt(AllPcs) /\ cc[w] # Idle /\ server = "up" /\ CallFits(w)
        /\ cc[w].id \in Nat /\ cc[w].obj \in Nat /\ cc[w].pc = "load"
    BY CallIsRecord DEF Build, CAt
  <1>2. UNCHANGED <<userVars, started, crashes, channels, subscriptions, idChannels,
                    mutex, asked, acked, overlappedNames>>
    BY DEF Build
  <1>3. CASE ~Constructible(cc[w].id, cc[w].n)
    BY <1>1, <1>2, <1>3, Ends, FailedQuery, QuietInv DEF Build
  <1>4. CASE Constructible(cc[w].id, cc[w].n)
    <2>1. /\ cc[w].id # NoId /\ cc[w].n # EmptyName /\ cc[w].pc = "load"
          /\ Construct(w, "register")
      BY <1>4 DEF Constructible, Build, CAt
    <2>2. /\ Moved(w, "register", cc[w].id, Len(objects) + 1)
          /\ objects' \in Seq(Objects) /\ Len(objects) + 1 \in DOMAIN objects'
          /\ objects'[Len(objects) + 1].name = cc[w].n
          /\ \A o \in DOMAIN objects : o \in DOMAIN objects' /\ objects'[o] = objects[o]
          /\ missing' \subseteq Ids \X Names /\ errors' \in 0..MaxErrors
          /\ ObjectsFit' /\ Grows
      BY <1>1, <1>2, <2>1, ConstructFits
    <2>3. CTypes'
      BY <1>2, <2>2 DEF CInv, CTypes, Moved
    <2>4. CallFits(w)'
      BY <1>1, <1>2, <2>1, <2>2 DEF Moved, CallFits, LaterPcs, IdsOfName, JoinPcs
    <2>5. RegistryFits' /\ RowsFit'
      BY <1>2, <2>2 DEF CInv, CTypes, RegistryFits, RowsFit, MayBeIn, userVars
    <2>6. started' \in 0..MaxCalls
      BY <1>2 DEF CInv, Inv1, TypeOK
    <2> QED
      BY <1>1, <1>2, <2>2, <2>3, <2>4, <2>5, <2>6, StepInv DEF Moved
  <1> QED
    BY <1>3, <1>4

LEMMA LockRegistryInv ==
    ASSUME CInv, NEW w \in Workers, LockRegistry(w)
    PROVE  CInv'
  <1>1. /\ cc[w] \in CallsAt(AllPcs) /\ cc[w] # Idle /\ server = "up" /\ CallFits(w)
        /\ cc[w].id \in Nat /\ cc[w].obj \in Nat /\ cc[w].pc = "lock"
    BY CallIsRecord DEF LockRegistry, CAt
  <1>2. /\ UNCHANGED <<userVars, started, errors, crashes, channels, subscriptions,
                       objects, idChannels, asked, acked, overlappedNames, missing>>
        /\ mutex' \in Workers \cup {NoWorker} /\ errors' \in 0..MaxErrors
    BY FailedQuery DEF LockRegistry, boundVars, CInv, CTypes
  <1>3. CASE EndCall(w)
    BY <1>1, <1>2, <1>3, Ends, FailedQuery, QuietInv
  <1>4. CASE KnownChannel(cc[w].id) /\
             cc' = [cc EXCEPT ![w].pc = "resume", ![w].obj = idChannels[cc[w].id]]
    <2>1. /\ cc[w].id \in DOMAIN idChannels /\ cc[w].id \in DOMAIN channels
          /\ idChannels[cc[w].id] \in DOMAIN objects /\ idChannels[cc[w].id] \in Nat
          /\ objects[idChannels[cc[w].id]].name = channels[cc[w].id]
      BY <1>4 DEF KnownChannel, CInv, CTypes, RegistryFits
    <2>2. channels[cc[w].id] = cc[w].n
      BY <1>1, <2>1 DEF CallFits, LaterPcs, IdsOfName, NoId, CInv, CTypes
    <2>3. Moved(w, "resume", cc[w].id, idChannels[cc[w].id])
      BY <1>1, <1>4, <2>1, Moves DEF AllPcs
    <2>4. CallFits(w)'
      BY <1>1, <1>2, <2>1, <2>2, <2>3 DEF Moved, CallFits, LaterPcs, IdsOfName, JoinPcs
    <2> QED
      BY <1>1, <1>2, <2>3, <2>4, FailedQuery, QuietInv DEF Moved
  <1>5. CASE Constructible(cc[w].id, cc[w].n) /\ Goto(w, "loadLocked")
    <2>1. Moved(w, "loadLocked", cc[w].id, cc[w].obj)
      BY <1>1, <1>5, Moves DEF AllPcs, GetPcs
    <2>2. CallFits(w)'
      BY <1>1, <1>2, <1>5, <2>1 DEF Moved, CallFits, LaterPcs, IdsOfName, JoinPcs, Constructible
    <2> QED
      BY <1>1, <1>2, <2>1, <2>2, FailedQuery, QuietInv DEF Moved
  <1> QED
    BY <1>3, <1>4, <1>5 DEF LockRegistry

(* The map of the manager with one more entry, or another Channel for one. *)
LEMMA PutFits ==
    ASSUME CInv, NEW id \in DOMAIN channels, NEW o, o \in DOMAIN objects',
           objects'[o].name = channels[id], PutChannel(id, o), Grows, UNCHANGED channels
    PROVE  /\ DOMAIN idChannels' \subseteq DOMAIN channels'
           /\ idChannels' \in [DOMAIN idChannels' -> DOMAIN objects']
           /\ RegistryFits'
  <1>1. /\ DOMAIN idChannels' = DOMAIN idChannels \cup {id}
        /\ \A k \in DOMAIN idChannels' : idChannels'[k] = IF k = id THEN o ELSE idChannels[k]
        /\ idChannels' = [k \in DOMAIN idChannels' |-> idChannels'[k]]
    BY DEF PutChannel
  <1>2. \A k \in DOMAIN idChannels \ {id} :
          idChannels[k] \in DOMAIN objects' /\ objects'[idChannels[k]].name = channels[k]
    BY DEF CInv, CTypes, RegistryFits, Grows
  <1>3. \A k \in DOMAIN idChannels' :
          idChannels'[k] \in DOMAIN objects' /\ objects'[idChannels'[k]].name = channels[k]
    BY <1>1, <1>2
  <1>4. RegistryFits'
    BY <1>3 DEF RegistryFits
  <1> QED
    BY <1>1, <1>3, <1>4 DEF CInv, CTypes

LEMMA BuildLockedInv ==
    ASSUME CInv, NEW w \in Workers, BuildLocked(w)
    PROVE  CInv'
  <1>1. /\ cc[w] \in CallsAt(AllPcs) /\ cc[w] # Idle /\ server = "up" /\ CallFits(w)
        /\ cc[w].id \in Nat /\ cc[w].obj \in Nat /\ cc[w].pc = "loadLocked"
    BY CallIsRecord DEF BuildLocked, CAt
  <1>2. /\ UNCHANGED <<userVars, started, crashes, channels, subscriptions, asked,
                       acked, overlappedNames>>
        /\ mutex' = NoWorker /\ Construct(w, "resume")
        /\ PutChannel(cc[w].id, Len(objects) + 1)
    BY DEF BuildLocked, Release
  <1>3. /\ cc[w].id # NoId /\ cc[w].id \in DOMAIN channels /\ channels[cc[w].id] = cc[w].n
        /\ cc[w].n # EmptyName /\ cc[w].pc = "loadLocked"
    BY <1>1 DEF BuildLocked, CAt, CallFits, LaterPcs, IdsOfName
  <1>4. /\ Moved(w, "resume", cc[w].id, Len(objects) + 1)
        /\ objects' \in Seq(Objects) /\ Len(objects) + 1 \in DOMAIN objects'
        /\ objects'[Len(objects) + 1].name = cc[w].n
        /\ \A o \in DOMAIN objects : o \in DOMAIN objects' /\ objects'[o] = objects[o]
        /\ missing' \subseteq Ids \X Names /\ errors' \in 0..MaxErrors
        /\ ObjectsFit' /\ Grows
    BY <1>1, <1>2, <1>3, ConstructFits
  <1>5. /\ DOMAIN idChannels' \subseteq DOMAIN channels'
        /\ idChannels' \in [DOMAIN idChannels' -> DOMAIN objects']
        /\ RegistryFits'
    BY <1>2, <1>3, <1>4, PutFits
  <1>6. CTypes'
    BY <1>2, <1>4, <1>5 DEF CInv, CTypes, Moved
  <1>7. CallFits(w)'
    BY <1>1, <1>2, <1>3, <1>4 DEF Moved, CallFits, LaterPcs, IdsOfName, JoinPcs
  <1>8. RowsFit'
    BY <1>2 DEF CInv, RowsFit, MayBeIn, userVars
  <1>9. started' \in 0..MaxCalls
    BY <1>2 DEF CInv, Inv1, TypeOK
  <1> QED
    BY <1>1, <1>2, <1>4, <1>5, <1>6, <1>7, <1>8, <1>9, StepInv DEF Moved

LEMMA RegisterInv ==
    ASSUME CInv, NEW w \in Workers, Register(w)
    PROVE  CInv'
  <1>1. /\ cc[w] \in CallsAt(AllPcs) /\ cc[w] # Idle /\ server = "up" /\ CallFits(w)
        /\ cc[w].id \in Nat /\ cc[w].obj \in Nat /\ cc[w].pc = "register"
    BY CallIsRecord DEF Register, CAt
  <1>2. UNCHANGED <<userVars, started, errors, crashes, channels, subscriptions, objects,
                    mutex, asked, acked, overlappedNames, missing>>
    BY DEF Register, boundVars
  <1>3. /\ cc[w].id \in DOMAIN channels /\ channels[cc[w].id] = cc[w].n
        /\ cc[w].obj \in DOMAIN objects /\ objects[cc[w].obj].name = cc[w].n
    BY <1>1 DEF Register, CAt, CallFits, LaterPcs, IdsOfName
  <1>4. Moved(w, "resume", cc[w].id, cc[w].obj)
    BY <1>1, Moves DEF Register, AllPcs
  <1>5. Grows
    BY <1>2 DEF Grows, userVars
  <1>6. /\ DOMAIN idChannels' \subseteq DOMAIN channels'
        /\ idChannels' \in [DOMAIN idChannels' -> DOMAIN objects']
        /\ RegistryFits'
    BY <1>2, <1>3, <1>5, PutFits DEF Register
  <1>7. CTypes'
    BY <1>2, <1>4, <1>6 DEF CInv, CTypes, Moved
  <1>8. CallFits(w)'
    BY <1>1, <1>2, <1>3, <1>4 DEF Moved, CallFits, LaterPcs, IdsOfName, JoinPcs, Register, CAt
  <1>9. ObjectsFit' /\ RowsFit'
    BY <1>2 DEF CInv, ObjectsFit, ObjectFits, IdsOfName, RowsFit, MayBeIn, userVars
  <1>10. started' \in 0..MaxCalls /\ errors' \in 0..MaxErrors
    BY <1>2 DEF CInv, Inv1, TypeOK
  <1> QED
    BY <1>1, <1>2, <1>4, <1>5, <1>6, <1>7, <1>8, <1>9, <1>10, StepInv DEF Moved

------------------------------------------------------------------------------
(* joinRoom *)

(* A call begins; a join asks for membership, the others change no more. *)
LEMMA StartInv ==
    ASSUME CInv, NEW w \in Workers, NEW pc \in {"has", "list"}, NEW op \in ChannelOps,
           NEW u \in Ids \cup {NoId}, NEW n \in Names \cup {EmptyName},
           pc = "has" => n \in Names, pc = "list" => op # "join",
           op = "join" => u \in Ids /\ <<u, n>> \in asked',
           StartChannelCall(w, pc, op, u, n),
           asked \subseteq asked', asked' \subseteq Ids \X Names
    PROVE  CInv'
  <1>1. PICK c : c = [pc |-> pc, op |-> op, u |-> u, n |-> n, id |-> NoId, obj |-> 0]
    OBVIOUS
  <1>2. /\ server = "up" /\ cc' = [cc EXCEPT ![w] = c]
        /\ started < MaxCalls /\ started' = started + 1
        /\ UNCHANGED <<userVars, errors, crashes, channels, subscriptions, objects,
                       idChannels, mutex, acked, overlappedNames, missing>>
    BY <1>1 DEF StartChannelCall
  <1>3. c \in CallsAt(AllPcs)
    BY <1>1 DEF CallsAt, AllPcs, GetPcs, LaterPcs, NoId
  <1>4. /\ cc' \in [Workers -> CallsAt(AllPcs) \cup {Idle}] /\ cc'[w] = c
        /\ \A v \in Workers \ {w} : cc'[v] = cc[v]
    BY <1>2, <1>3 DEF CInv, CTypes
  <1>5. CallFits(w)'
    BY <1>1, <1>2, <1>4 DEF CallFits, NoId, JoinPcs, LaterPcs
  <1>6. CTypes'
    BY <1>2, <1>4 DEF CInv, CTypes
  <1>7. Grows
    BY <1>2 DEF Grows, userVars
  <1>8. ObjectsFit' /\ RegistryFits' /\ RowsFit'
    BY <1>2 DEF CInv, ObjectsFit, ObjectFits, IdsOfName, RegistryFits, RowsFit, MayBeIn, userVars
  <1>9. started' \in 0..MaxCalls /\ errors' \in 0..MaxErrors
    BY <1>2, BoundsAssumption DEF CInv, Inv1, TypeOK
  <1>10. UNCHANGED <<userVars, crashes>> /\ server = "up"
    BY <1>2
  <1> QED
    BY <1>4, <1>5, <1>6, <1>7, <1>8, <1>9, <1>10, StepInv

LEMMA JoinRoomInv ==
    ASSUME CInv, NEW w \in Workers, NEW u \in Ids, NEW n \in Names, JoinRoom(w, u, n)
    PROVE  CInv'
  <1>1. /\ asked' = asked \cup {<<u, n>>} /\ asked \subseteq Ids \X Names
        /\ StartChannelCall(w, "has", "join", u, n)
    BY DEF JoinRoom, CInv, CTypes
  <1>2. asked \subseteq asked' /\ asked' \subseteq Ids \X Names /\ <<u, n>> \in asked'
    BY <1>1
  <1>3. /\ "join" \in ChannelOps /\ "has" \in {"has", "list"} /\ "has" # "list"
        /\ u \in Ids \cup {NoId} /\ n \in Names \cup {EmptyName}
    BY DEF ChannelOps
  <1> QED
    BY <1>1, <1>2, <1>3, StartInv

LEMMA JoinUserInv ==
    ASSUME CInv, NEW w \in Workers, JoinUser(w)
    PROVE  CInv'
  <1>1. /\ cc[w] \in CallsAt(AllPcs) /\ cc[w] # Idle /\ server = "up" /\ CallFits(w)
        /\ cc[w].id \in Nat /\ cc[w].obj \in Nat /\ cc[w].pc = "resume"
    BY CallIsRecord DEF JoinUser, CAt
  <1>2. UNCHANGED <<userVars, started, errors, crashes, channels, subscriptions, objects,
                    idChannels, mutex, asked, acked, overlappedNames, missing>>
    BY DEF JoinUser, boundVars
  <1>3. CASE EndCall(w)
    BY <1>1, <1>2, <1>3, Ends, FailedQuery, QuietInv
  <1>4. CASE KnownUser(cc[w].u) /\ Goto(w, "add")
    <2>1. Moved(w, "add", cc[w].id, cc[w].obj)
      BY <1>1, <1>4, Moves DEF AllPcs, JoinPcs
    <2>2. cc[w].u \in DOMAIN clients
      BY <1>4 DEF KnownUser, CInv, Inv1, TypeOK
    <2>3. CallFits(w)'
      BY <1>1, <1>2, <2>1, <2>2 DEF Moved, CallFits, LaterPcs, IdsOfName, JoinPcs, JoinUser, CAt, userVars
    <2> QED
      BY <1>1, <1>2, <2>1, <2>3, FailedQuery, QuietInv DEF Moved
  <1> QED
    BY <1>3, <1>4 DEF JoinUser

LEMMA AddUserInv ==
    ASSUME CInv, NEW w \in Workers, AddUser(w)
    PROVE  CInv'
  <1>1. /\ cc[w] \in CallsAt(AllPcs) /\ cc[w] # Idle /\ server = "up" /\ CallFits(w)
        /\ cc[w].id \in Nat /\ cc[w].obj \in Nat /\ cc[w].pc = "add"
    BY CallIsRecord DEF AddUser, CAt
  <1>2. UNCHANGED <<userVars, started, errors, crashes, channels, subscriptions,
                    idChannels, mutex, asked, acked, overlappedNames>>
    BY DEF AddUser, boundVars
  <1>3. /\ cc[w].u \in Ids /\ cc[w].n \in Names /\ MayBeIn(cc[w].u, cc[w].n)
        /\ cc[w].obj \in DOMAIN objects /\ objects[cc[w].obj].name = cc[w].n
    BY <1>1 DEF AddUser, CAt, CallFits, LaterPcs, JoinPcs, MayBeIn
  <1>4. missing' \subseteq Ids \X Names
    BY <1>3 DEF AddUser, CInv, CTypes
  <1>5. PICK o : o = cc[w].obj
    OBVIOUS
  <1>6. \/ UNCHANGED objects
        \/ objects' = [objects EXCEPT ![o].users = @ \cup {cc[w].u}]
    BY <1>5 DEF AddUser
  <1>7. /\ objects' \in Seq(Objects)
        /\ DOMAIN objects' = DOMAIN objects
        /\ \A q \in DOMAIN objects :
             objects'[q].name = objects[q].name /\ objects'[q].id = objects[q].id
        /\ \A q \in DOMAIN objects : \A u \in objects'[q].users :
             u \in objects[q].users \/ (q = o /\ u = cc[w].u)
    <2>1. objects \in Seq(Objects) /\ o \in DOMAIN objects /\ objects[o] \in Objects
      BY <1>3, <1>5 DEF CInv, CTypes
    <2>2. CASE UNCHANGED objects
      BY <2>1, <2>2
    <2>3. CASE objects' = [objects EXCEPT ![o].users = @ \cup {cc[w].u}]
      <3>1. PICK e : e = [objects[o] EXCEPT !.users = objects[o].users \cup {cc[w].u}]
        OBVIOUS
      <3>2. /\ e \in Objects /\ e.name = objects[o].name /\ e.id = objects[o].id
            /\ e.users = objects[o].users \cup {cc[w].u}
        BY <1>3, <2>1, <3>1 DEF Objects
      <3>3. objects' = [objects EXCEPT ![o] = e]
        BY <2>1, <2>3, <3>1
      <3> QED
        BY <2>1, <3>2, <3>3
    <2> QED
      BY <1>6, <2>2, <2>3
  <1>8. PICK pc \in {"subid", "ack"} : Goto(w, pc)
    BY DEF AddUser
  <1>9. Moved(w, pc, cc[w].id, cc[w].obj)
    BY <1>1, <1>8, Moves DEF AllPcs, JoinPcs
  <1>10. Grows
    BY <1>2, <1>7 DEF Grows, userVars
  <1>11. CTypes'
    BY <1>2, <1>4, <1>7, <1>9 DEF CInv, CTypes, Moved
  <1>12. CallFits(w)'
    BY <1>1, <1>2, <1>3, <1>7, <1>9 DEF Moved, CallFits, LaterPcs, IdsOfName, JoinPcs, userVars, MayBeIn
  <1>13. ObjectsFit'
    BY <1>2, <1>3, <1>5, <1>7 DEF CInv, ObjectsFit, ObjectFits, IdsOfName, MayBeIn, userVars
  <1>14. RegistryFits' /\ RowsFit'
    BY <1>2, <1>7 DEF CInv, CTypes, RegistryFits, RowsFit, MayBeIn, userVars
  <1>15. started' \in 0..MaxCalls /\ errors' \in 0..MaxErrors
    BY <1>2 DEF CInv, Inv1, TypeOK
  <1> QED
    BY <1>1, <1>2, <1>9, <1>10, <1>11, <1>12, <1>13, <1>14, <1>15, StepInv DEF Moved

LEMMA JoinAckInv ==
    ASSUME CInv, NEW w \in Workers, JoinAck(w)
    PROVE  CInv'
  <1>1. /\ cc[w] \in CallsAt(AllPcs) /\ cc[w] # Idle /\ server = "up" /\ CallFits(w)
        /\ cc[w].id \in Nat /\ cc[w].obj \in Nat /\ cc[w].pc = "ack"
    BY CallIsRecord DEF JoinAck, CAt
  <1>2. UNCHANGED <<userVars, started, errors, crashes, channels, subscriptions, objects,
                    idChannels, mutex, asked, overlappedNames, missing>>
    BY DEF JoinAck, boundVars
  <1>3. acked' \subseteq Acks
    <2>1. acked \subseteq Acks /\ crashes \in Nat /\ cc[w].u \in Ids /\ cc[w].n \in Names
      BY <1>1, BoundsAssumption DEF CInv, CTypes, Inv1, TypeOK, CallFits, LaterPcs, JoinPcs
    <2>2. cc[w].u \in DOMAIN idClients => idClients[cc[w].u] \in Sessions
      BY DEF CInv, Inv1, TypeOK
    <2> QED
      BY <2>1, <2>2 DEF JoinAck, Acks
  <1>4. Moved(w, "subid", cc[w].id, cc[w].obj)
    BY <1>1, Moves DEF JoinAck, StoreJoin, AllPcs, JoinPcs
  <1>5. CallFits(w)'
    BY <1>1, <1>2, <1>4 DEF Moved, CallFits, LaterPcs, IdsOfName, JoinPcs, JoinAck, CAt, userVars
  <1> QED
    BY <1>1, <1>2, <1>3, <1>4, <1>5, FailedQuery, QuietInv DEF Moved

LEMMA JoinHasInv ==
    ASSUME CInv, NEW w \in Workers, JoinHas(w)
    PROVE  CInv'
  <1>1. /\ cc[w] \in CallsAt(AllPcs) /\ cc[w] # Idle /\ server = "up" /\ CallFits(w)
        /\ cc[w].id \in Nat /\ cc[w].obj \in Nat /\ cc[w].pc = "subhas"
    BY CallIsRecord DEF JoinHas, CAt
  <1>2. /\ UNCHANGED <<userVars, started, crashes, channels, subscriptions, objects,
                       idChannels, mutex, asked, acked, overlappedNames, missing>>
        /\ errors' \in 0..MaxErrors
    BY FailedQuery DEF JoinHas
  <1>3. CASE EndCall(w)
    BY <1>1, <1>2, <1>3, Ends, FailedQuery, QuietInv
  <1>4. CASE Goto(w, "subins")
    <2>1. Moved(w, "subins", cc[w].id, cc[w].obj)
      BY <1>1, <1>4, Moves DEF AllPcs, JoinPcs
    <2>2. CallFits(w)'
      BY <1>1, <1>2, <2>1 DEF Moved, CallFits, LaterPcs, IdsOfName, JoinPcs, JoinHas, CAt, userVars
    <2> QED
      BY <1>1, <1>2, <2>1, <2>2, FailedQuery, QuietInv DEF Moved
  <1> QED
    BY <1>3, <1>4 DEF JoinHas

LEMMA JoinInsertInv ==
    ASSUME CInv, NEW w \in Workers, JoinInsert(w)
    PROVE  CInv'
  <1>1. /\ cc[w] \in CallsAt(AllPcs) /\ cc[w] # Idle /\ server = "up" /\ CallFits(w)
        /\ cc[w].id \in Nat /\ cc[w].obj \in Nat /\ cc[w].pc = "subins"
    BY CallIsRecord DEF JoinInsert, CAt
  <1>2. /\ UNCHANGED <<userVars, started, crashes, channels, objects, idChannels, mutex,
                       asked, acked, overlappedNames, missing>>
        /\ errors' \in 0..MaxErrors
    BY FailedQuery DEF JoinInsert
  <1>3. subscriptions' \subseteq subscriptions \cup {<<cc[w].u, cc[w].id>>}
    BY DEF JoinInsert
  <1>4. /\ cc' \in [Workers -> CallsAt(AllPcs) \cup {Idle}]
        /\ \A v \in Workers \ {w} : cc'[v] = cc[v]
        /\ CallFits(w)'
    BY Ends DEF JoinInsert
  <1>5. /\ cc[w].u \in Ids /\ MayBeIn(cc[w].u, cc[w].n)
        /\ cc[w].id # NoId => cc[w].id \in DOMAIN channels /\ channels[cc[w].id] = cc[w].n
    BY <1>1 DEF JoinInsert, CAt, CallFits, LaterPcs, JoinPcs, MayBeIn, IdsOfName
  <1>6. CTypes'
    BY <1>1, <1>2, <1>3, <1>4, <1>5 DEF CInv, CTypes
  <1>7. RowsFit'
    <2> SUFFICES ASSUME NEW row \in subscriptions'
                 PROVE  /\ row[1] \in DOMAIN clients
                        /\ row[2] # NoId => row[2] \in DOMAIN channels /\ MayBeIn(row[1], channels[row[2]])
      BY <1>2 DEF RowsFit, MayBeIn, userVars
    <2>1. CASE row \in subscriptions
      BY <2>1 DEF CInv, RowsFit
    <2>2. CASE row = <<cc[w].u, cc[w].id>>
      BY <1>5, <2>2 DEF MayBeIn
    <2> QED
      BY <1>3, <2>1, <2>2
  <1>8. ObjectsFit' /\ RegistryFits' /\ Grows
    BY <1>2 DEF CInv, ObjectsFit, ObjectFits, IdsOfName, RegistryFits, MayBeIn, Grows, userVars
  <1>9. started' \in 0..MaxCalls
    BY <1>2 DEF CInv, Inv1, TypeOK
  <1> QED
    BY <1>1, <1>2, <1>4, <1>6, <1>7, <1>8, <1>9, StepInv

------------------------------------------------------------------------------
(* The requests of Users, the process and the theorems *)

(* The clients table only grows. *)
LEMMA UsersInv ==
    ASSUME CInv, NEW w \in Workers, UserRequest(w) \/ UserStep(w), UNCHANGED channelVars
    PROVE  CInv'
  <1>1. Inv1'
    BY RequestInv1, LookupInv1, InsertInv1, RereadInv1, CheckInv1, PushInv1, AnswerInv1
       DEF CInv, UserStep
  <1>2. DOMAIN clients \subseteq DOMAIN clients'
    BY TableGrows DEF CInv, Inv1, Next
  <1>3. server' = server
    BY DEF UserRequest, UserStep, Reg, Auth, StartCall, RegLookup, RegInsert, RegReread,
       AuthCheck, Push, Answer
  <1>4. Grows
    BY <1>2 DEF Grows, channelVars
  <1>5. \A v \in Workers : CallFits(v)'
    BY <1>4, FitsStill DEF CInv, channelVars
  <1>6. CTypes' /\ QuietWhenDown' /\ ObjectsFit' /\ RegistryFits' /\ RowsFit'
    BY <1>2, <1>3 DEF CInv, CTypes, QuietWhenDown, ObjectsFit, ObjectFits, IdsOfName, RegistryFits, RowsFit,
       MayBeIn, channelVars
  <1> QED
    BY <1>1, <1>5, <1>6 DEF CInv

LEMMA CrashCInv == CInv /\ CCrash => CInv'
  <1> SUFFICES ASSUME CInv, CCrash PROVE CInv'
    OBVIOUS
  <1>1. Inv1' /\ UNCHANGED clients
    BY ProcessInv1 DEF CCrash, Crash, CInv
  <1>2. CTypes'
    BY DEF CInv, CTypes, CCrash
  <1>3. QuietWhenDown' /\ \A w \in Workers : CallFits(w)'
    BY DEF CCrash, QuietWhenDown, CallFits, LaterPcs
  <1>4. ObjectsFit' /\ RegistryFits' /\ RowsFit'
    BY <1>1 DEF CInv, CCrash, ObjectsFit, ObjectFits, IdsOfName, RegistryFits, RowsFit, MayBeIn
  <1> QED
    BY <1>1, <1>2, <1>3, <1>4 DEF CInv

(* What main loads before it serves. *)
LEMMA LoadFits ==
    ASSUME CInv, NEW failed \in SUBSET DOMAIN channels, LoadChannels(failed),
           \A k \in DOMAIN channels : channels[k] # EmptyName,
           UNCHANGED <<clients, channels, asked>>
    PROVE  /\ objects' \in Seq(Objects) /\ missing' \subseteq Ids \X Names
           /\ DOMAIN idChannels' = DOMAIN channels
           /\ idChannels' \in [DOMAIN idChannels' -> DOMAIN objects']
           /\ ObjectsFit' /\ RegistryFits'
  <1>1. /\ channels \in Seq(Names) /\ Len(channels) \in Nat
        /\ DOMAIN channels = 1..Len(channels)
    BY DEF CInv, CTypes
  <1>2. /\ \A k \in DOMAIN channels : channels[k] \in Names /\ UsersOf(k) \subseteq Ids
        /\ \A k \in DOMAIN channels : \A u \in UsersOf(k) : MayBeIn(u, channels[k])
    BY <1>1, UsersOfFit
  <1> DEFINE loaded(k) == [name |-> channels[k], id |-> k,
                           users |-> IF k \in failed THEN {} ELSE UsersOf(k)]
  <1>3. /\ objects' = [k \in DOMAIN channels |-> loaded(k)]
        /\ idChannels' = [k \in DOMAIN channels |-> k]
        /\ missing' = UNION {UsersOf(k) \X {channels[k]} : k \in failed}
    BY DEF LoadChannels
  <1>4. \A k \in DOMAIN channels :
          /\ loaded(k) \in Objects /\ loaded(k).name = channels[k] /\ loaded(k).id = k
          /\ \A u \in loaded(k).users : u \in UsersOf(k)
    BY <1>1, <1>2 DEF Objects
  <1> HIDE DEF loaded
  <1>5. objects' \in Seq(Objects)
    BY <1>1, <1>3, <1>4
  <1>6. ObjectsFit'
    BY <1>2, <1>3, <1>4 DEF ObjectsFit, ObjectFits, IdsOfName, MayBeIn
  <1>7. /\ DOMAIN idChannels' = DOMAIN channels
        /\ idChannels' \in [DOMAIN idChannels' -> DOMAIN objects']
        /\ RegistryFits'
    BY <1>3, <1>4 DEF RegistryFits
  <1>8. missing' \subseteq Ids \X Names
    BY <1>2, <1>3
  <1> QED
    BY <1>5, <1>6, <1>7, <1>8

LEMMA BootCInv == CInv /\ CBoot => CInv'
  <1> SUFFICES ASSUME CInv, CBoot PROVE CInv'
    OBVIOUS
  <1>1. /\ server = "down" /\ server' = "up"
        /\ UNCHANGED <<clients, idClients, uc, started, crashes, told, overlapped, racedIds>>
        /\ UNCHANGED <<channels, subscriptions, mutex, cc, asked, acked, overlappedNames>>
    BY DEF CBoot, BootUsers, Connect, historyVars
  <1>2. errors' \in 0..MaxErrors
    BY FailedQuery DEF CBoot
  <1>3. Inv1'
    BY <1>1, <1>2 DEF CInv, Inv1, TypeOK, CallOK
  <1>4. \A w \in Workers : CallFits(w)'
    BY <1>1 DEF CInv, QuietWhenDown, CallFits, LaterPcs
  <1>5. /\ objects' \in Seq(Objects) /\ missing' \subseteq Ids \X Names
        /\ DOMAIN idChannels' \subseteq DOMAIN channels
        /\ idChannels' \in [DOMAIN idChannels' -> DOMAIN objects']
        /\ ObjectsFit' /\ RegistryFits'
    <2>1. CASE UNCHANGED <<objects, idChannels, missing>>
      BY <1>1, <2>1 DEF CInv, CTypes, ObjectsFit, ObjectFits, IdsOfName, RegistryFits, MayBeIn
    <2>2. ASSUME NEW failed \in SUBSET DOMAIN channels, LoadChannels(failed),
                 \A k \in DOMAIN channels : channels[k] # EmptyName
          PROVE  /\ objects' \in Seq(Objects) /\ missing' \subseteq Ids \X Names
                 /\ DOMAIN idChannels' \subseteq DOMAIN channels
                 /\ idChannels' \in [DOMAIN idChannels' -> DOMAIN objects']
                 /\ ObjectsFit' /\ RegistryFits'
      BY <1>1, <2>2, LoadFits
    <2>3. \/ UNCHANGED <<objects, idChannels, missing>>
          \/ /\ \E failed \in SUBSET DOMAIN channels : LoadChannels(failed)
             /\ \A k \in DOMAIN channels : channels[k] # EmptyName
      BY DEF CBoot, Constructible
    <2> QED
      BY <2>1, <2>2, <2>3
  <1>6. CTypes'
    BY <1>1, <1>5 DEF CInv, CTypes
  <1>7. QuietWhenDown' /\ RowsFit'
    BY <1>1 DEF CInv, QuietWhenDown, RowsFit, MayBeIn
  <1> QED
    BY <1>3, <1>4, <1>5, <1>6, <1>7 DEF CInv

LEMMA InitCInv == CInit => CInv
  <1> SUFFICES ASSUME CInit PROVE CInv
    OBVIOUS
  <1>1. Inv1
    BY InitInv1 DEF CInit
  <1>2. CTypes
    BY DEF CInit, CTypes
  <1>3. ObjectsFit /\ RegistryFits /\ RowsFit /\ QuietWhenDown /\ \A w \in Workers : CallFits(w)
    BY DEF CInit, ObjectsFit, ObjectFits, IdsOfName, RegistryFits, RowsFit, QuietWhenDown, CallFits, LaterPcs
  <1> QED
    BY <1>1, <1>2, <1>3 DEF CInv

LEMMA CreateOrGetInv ==
    ASSUME CInv, NEW w \in Workers, CreateOrGetStep(w)
    PROVE  CInv'
  <1>1. CASE GetKnownId(w) \/ CreateLookup(w) \/ CreateReread(w)
    <2>1. \/ GetChannelId(w, "getid", "lock", "lock")
          \/ GetChannelId(w, "create", "insert", "load")
          \/ GetChannelId(w, "reread", "load", "load")
      BY <1>1 DEF GetKnownId, CreateLookup, CreateReread, AfterNoReread
    <2> QED
      BY <2>1, GetIdInv
  <1> QED
    BY <1>1, HasInv, LockRegistryInv, BuildLockedInv, CreateInsertInv, BuildInv,
       RegisterInv DEF CreateOrGetStep

LEMMA JoinStepInv ==
    ASSUME CInv, NEW w \in Workers, JoinStep(w)
    PROVE  CInv'
  <1>1. CASE JoinGetId(w)
    BY <1>1, GetIdInv DEF JoinGetId
  <1> QED
    BY <1>1, JoinUserInv, AddUserInv, JoinAckInv, JoinHasInv, JoinInsertInv DEF JoinStep

LEMMA NextCInv == CInv /\ [CNext]_cvars => CInv'
  <1> SUFFICES ASSUME CInv, [CNext]_cvars PROVE CInv'
    OBVIOUS
  <1>1. CASE CCrash \/ CBoot
    BY <1>1, CrashCInv, BootCInv
  <1>2. ASSUME NEW w \in Workers, CRequest(w) PROVE CInv'
    BY <1>2, UsersInv, JoinRoomInv DEF CRequest
  <1>3. ASSUME NEW w \in Workers, CreateOrGetStep(w) PROVE CInv'
    BY <1>3, CreateOrGetInv
  <1>4. ASSUME NEW w \in Workers, JoinStep(w) PROVE CInv'
    BY <1>4, JoinStepInv
  <1>5. ASSUME NEW w \in Workers, UserStep(w), UNCHANGED channelVars PROVE CInv'
    BY <1>5, UsersInv
  <1>6. CASE UNCHANGED cvars
    <2>1. Inv1'
      BY <1>6 DEF cvars, vars, CInv, Inv1, TypeOK, CallOK
    <2> QED
      BY <1>6, <2>1 DEF cvars, vars, channelVars, CInv, CTypes, QuietWhenDown, ObjectsFit, ObjectFits, IdsOfName,
         RegistryFits, RowsFit, MayBeIn, CallFits, LaterPcs
  <1> QED
    BY <1>1, <1>2, <1>3, <1>4, <1>5, <1>6 DEF CNext, CStep

LEMMA CInvHolds == CSpec => []CInv
  BY InitCInv, NextCInv, PTL DEF CSpec

(* Every call of this specification is a join. *)
JoinsOnly == \A w \in Workers : cc[w] # Idle => cc[w].op = "join"

EarlyPcs == CreatingPcs \cup GetPcs \cup JoinPcs \cup {"resume"}

(* The call of w goes on with its request, short of what is Chat's. *)
KeepsCall(w) ==
    /\ cc'[w].pc \in EarlyPcs
    /\ cc'[w].op = cc[w].op /\ cc'[w].u = cc[w].u /\ cc'[w].n = cc[w].n

LEMMA CallStays ==
    ASSUME CInv, NEW w \in Workers, CreateOrGetStep(w) \/ JoinStep(w)
    PROVE  /\ \A v \in Workers \ {w} : cc'[v] = cc[v]
           /\ cc[w] # Idle
           /\ cc'[w] = Idle \/ KeepsCall(w)
  <1>1. cc[w] # Idle /\ cc[w] \in CallsAt(AllPcs)
    BY CallIsRecord DEF CreateOrGetStep, JoinStep, HasChannel, GetKnownId, LockRegistry,
       BuildLocked, CreateLookup, CreateInsert, CreateReread, Build, Register, JoinUser, AddUser,
       JoinAck, JoinGetId, JoinHas, JoinInsert, GetChannelId
  <1>2. \/ EndCall(w)
        \/ \E pc \in EarlyPcs : Goto(w, pc)
        \/ \E pc \in EarlyPcs : \E id : cc' = [cc EXCEPT ![w].pc = pc, ![w].id = id]
        \/ \E pc \in EarlyPcs : \E obj : cc' = [cc EXCEPT ![w].pc = pc, ![w].obj = obj]
    <2>1. CASE HasChannel(w)
      BY <2>1 DEF HasChannel, EarlyPcs, CreatingPcs, GetPcs, JoinPcs
    <2>2. CASE CreateInsert(w)
      BY <2>2 DEF CreateInsert, EarlyPcs, CreatingPcs, GetPcs, JoinPcs
    <2>3. CASE LockRegistry(w)
      BY <2>3 DEF LockRegistry, EarlyPcs, CreatingPcs, GetPcs, JoinPcs
    <2>4. CASE BuildLocked(w)
      BY <2>4 DEF BuildLocked, Construct, EarlyPcs, CreatingPcs, GetPcs, JoinPcs
    <2>5. CASE Build(w)
      BY <2>5 DEF Build, Construct, EarlyPcs, CreatingPcs, GetPcs, JoinPcs
    <2>6. CASE Register(w)
      BY <2>6 DEF Register, EarlyPcs, CreatingPcs, GetPcs, JoinPcs
    <2>7. CASE JoinUser(w)
      BY <2>7 DEF JoinUser, EarlyPcs, CreatingPcs, GetPcs, JoinPcs
    <2>8. CASE AddUser(w)
      BY <2>8 DEF AddUser, EarlyPcs, CreatingPcs, GetPcs, JoinPcs
    <2>9. CASE JoinAck(w)
      BY <2>9 DEF JoinAck, StoreJoin, EarlyPcs, CreatingPcs, GetPcs, JoinPcs
    <2>10. CASE JoinHas(w)
      BY <2>10 DEF JoinHas, EarlyPcs, CreatingPcs, GetPcs, JoinPcs
    <2>11. CASE JoinInsert(w)
      BY <2>11 DEF JoinInsert, EarlyPcs, CreatingPcs, GetPcs, JoinPcs
    <2>12. CASE GetKnownId(w)
      BY <2>12 DEF GetKnownId, GetChannelId, EarlyPcs, GetPcs
    <2>13. CASE CreateLookup(w)
      BY <2>13 DEF CreateLookup, GetChannelId, EarlyPcs, CreatingPcs
    <2>14. CASE CreateReread(w)
      BY <2>14 DEF CreateReread, AfterNoReread, GetChannelId, EarlyPcs, CreatingPcs
    <2>15. CASE JoinGetId(w)
      BY <2>15 DEF JoinGetId, GetChannelId, EarlyPcs, JoinPcs
    <2> QED
      BY <2>1, <2>2, <2>3, <2>4, <2>5, <2>6, <2>7, <2>8, <2>9, <2>10, <2>11, <2>12,
         <2>13, <2>14, <2>15
         DEF CreateOrGetStep, JoinStep
  <1>3. cc \in [Workers -> CallsAt(AllPcs) \cup {Idle}]
    BY DEF CInv, CTypes
  <1>4. \A v \in Workers \ {w} : cc'[v] = cc[v]
    BY <1>2, <1>3 DEF EndCall, Goto
  <1>5. CASE EndCall(w)
    BY <1>1, <1>3, <1>4, <1>5 DEF EndCall
  <1>6. ASSUME NEW pc \in EarlyPcs, Goto(w, pc)
        PROVE  KeepsCall(w)
    BY <1>1, <1>3, <1>6 DEF Goto, CallsAt, KeepsCall
  <1>7. ASSUME NEW pc \in EarlyPcs, NEW id, cc' = [cc EXCEPT ![w].pc = pc, ![w].id = id]
        PROVE  KeepsCall(w)
    BY <1>1, <1>3, <1>7 DEF CallsAt, KeepsCall
  <1>8. ASSUME NEW pc \in EarlyPcs, NEW obj, cc' = [cc EXCEPT ![w].pc = pc, ![w].obj = obj]
        PROVE  KeepsCall(w)
    BY <1>1, <1>3, <1>8 DEF CallsAt, KeepsCall
  <1> QED
    BY <1>1, <1>2, <1>4, <1>5, <1>6, <1>7, <1>8

LEMMA NextJoinsOnly == CInv /\ JoinsOnly /\ [CNext]_cvars => JoinsOnly'
  <1> SUFFICES ASSUME CInv, JoinsOnly, [CNext]_cvars PROVE JoinsOnly'
    OBVIOUS
  <1>1. ASSUME NEW w \in Workers, CreateOrGetStep(w) \/ JoinStep(w) PROVE JoinsOnly'
    BY <1>1, CallStays DEF JoinsOnly, KeepsCall
  <1>2. ASSUME NEW w \in Workers, NEW u \in Ids, NEW n \in Names, JoinRoom(w, u, n) PROVE JoinsOnly'
    <2>1. PICK c : c = [pc |-> "has", op |-> "join", u |-> u, n |-> n, id |-> NoId, obj |-> 0]
      OBVIOUS
    <2>2. cc' = [cc EXCEPT ![w] = c] /\ c.op = "join"
      BY <1>2, <2>1 DEF JoinRoom, StartChannelCall
    <2> QED
      BY <2>2 DEF JoinsOnly, CInv, CTypes
  <1>3. CASE UNCHANGED cc
    BY <1>3 DEF JoinsOnly
  <1>4. CASE CCrash
    BY <1>4 DEF CCrash, JoinsOnly
  <1>5. CASE CBoot
    BY <1>3, <1>5 DEF CBoot
  <1> QED
    BY <1>1, <1>2, <1>3, <1>4, <1>5 DEF CNext, CRequest, CStep, channelVars, cvars

(***************************************************************************)
(* The tables, the Channel objects, the map of the manager and the calls   *)
(* keep their types, and the map its keys and values: an id that is handed *)
(* out is that of a row and of a Channel that exists.                      *)
(***************************************************************************)
THEOREM ChannelsTypeCorrect == CSpec => []CTypeOK
  <1>1. CInit => JoinsOnly
    BY DEF CInit, JoinsOnly
  <1>2. CInv /\ JoinsOnly => CTypeOK
    <2> SUFFICES ASSUME CInv, JoinsOnly PROVE CTypeOK
      OBVIOUS
    <2>1. ASSUME NEW w \in Workers, cc[w] # Idle
          PROVE  cc[w] \in CallsAt(CreatingPcs \cup GetPcs \cup JoinPcs \cup {"resume"})
      <3>1. cc[w] \in CallsAt(AllPcs) /\ cc[w].pc \notin LaterPcs
        BY <2>1 DEF CInv, CTypes, JoinsOnly, CallFits
      <3> QED
        BY <3>1 DEF CallsAt, AllPcs
    <2>2. cc \in [Workers -> CallsAt(CreatingPcs \cup GetPcs \cup JoinPcs \cup {"resume"}) \cup {Idle}]
      BY <2>1 DEF CInv, CTypes
    <2>3. CTablesOK
      BY DEF CInv, Inv1, CTypes, CTablesOK
    <2> QED
      BY <2>2, <2>3 DEF CTypeOK
  <1> QED
    BY <1>1, <1>2, CInvHolds, NextJoinsOnly, PTL DEF CSpec

(***************************************************************************)
(* Nobody is a member, in memory or stored, of a channel it did not ask to *)
(* join: the id that joinClientChannel looks up by name is one of the name *)
(* also when the name has two rows.                                        *)
(***************************************************************************)
THEOREM MembersAsked == CSpec => []OnlyAskedAreMembers
  <1>1. CInv => OnlyAskedAreMembers
    BY DEF CInv, ObjectsFit, ObjectFits, IdsOfName, RowsFit, MayBeIn, OnlyAskedAreMembers
  <1> QED
    BY <1>1, CInvHolds, PTL

(***************************************************************************)
(* Every member, in memory or stored, is a row of clients: the lookup in   *)
(* the UserManager stands between a request and the tables.                *)
(***************************************************************************)
THEOREM MembersAreRows == CSpec => []MembersAreClients
  <1>1. CInv => MembersAreClients
    BY DEF CInv, ObjectsFit, ObjectFits, IdsOfName, RowsFit, MayBeIn, MembersAreClients
  <1> QED
    BY <1>1, CInvHolds, PTL

------------------------------------------------------------------------------
(* One row for a name *)

Makes(w, n) == cc[w].pc \in CreatingPcs /\ cc[w].n = n
AtName(w, pcs, n) == cc[w].pc \in pcs /\ cc[w].n = n

(***************************************************************************)
(* A name of whose creation no other call found out has one creator at     *)
(* most, no row before its INSERT and one row at most.                     *)
(***************************************************************************)
OneChannel(n) ==
    /\ \A v, w \in Workers : Makes(v, n) /\ Makes(w, n) => v = w
    /\ \A w \in Workers : AtName(w, {"create", "insert"}, n) => IdsOfName(n) = {}
    /\ \A j, k \in IdsOfName(n) : j = k

MInv == \A n \in Names \ overlappedNames : OneChannel(n)

(* A step that adds no row and takes nobody else into the creation. *)
LEMMA OneStill ==
    ASSUME NEW n, OneChannel(n), UNCHANGED channels,
           \A v \in Workers :
             \/ cc'[v] = cc[v]
             \/ ~Makes(v, n)'
             \/ Makes(v, n) /\ (AtName(v, {"create", "insert"}, n)'
                                  => AtName(v, {"create", "insert"}, n))
    PROVE  OneChannel(n)'
  <1>1. IdsOfName(n)' = IdsOfName(n)
    BY DEF IdsOfName
  <1>2. \A v \in Workers : Makes(v, n)' => Makes(v, n)
    BY DEF Makes
  <1>3. \A v \in Workers :
          AtName(v, {"create", "insert"}, n)' => AtName(v, {"create", "insert"}, n)
    BY DEF AtName, Makes, CreatingPcs
  <1> QED
    BY <1>1, <1>2, <1>3 DEF OneChannel

LEMMA HasOne ==
    ASSUME CInv, NEW w \in Workers, HasChannel(w), NEW n \in Names \ overlappedNames',
           OneChannel(n)
    PROVE  OneChannel(n)'
  <1>1. /\ cc[w] \in CallsAt(AllPcs) /\ cc[w] # Idle /\ cc[w].pc = "has"
        /\ cc[w].id \in Nat /\ cc[w].obj \in Nat /\ UNCHANGED channels
    BY CallIsRecord DEF HasChannel, CAt
  <1>2. CASE EndCall(w)
    <2>1. cc'[w] = Idle /\ \A v \in Workers \ {w} : cc'[v] = cc[v]
      BY <1>2 DEF EndCall, CInv, CTypes
    <2> QED
      BY <1>1, <2>1, OneStill DEF Makes, CreatingPcs, Idle
  <1>3. CASE Goto(w, "getid")
    <2>1. Moved(w, "getid", cc[w].id, cc[w].obj)
      BY <1>1, <1>3, Moves DEF AllPcs, GetPcs
    <2> QED
      BY <1>1, <2>1, OneStill DEF Makes, CreatingPcs, Moved
  <1>4. CASE /\ Goto(w, "create") /\ IdsOfName(cc[w].n) = {}
             /\ overlappedNames' = IF Creating(w, cc[w].n)
                                   THEN overlappedNames \cup {cc[w].n} ELSE overlappedNames
    <2>1. Moved(w, "create", cc[w].id, cc[w].obj)
      BY <1>1, <1>4, Moves DEF AllPcs, CreatingPcs
    <2>2. CASE cc[w].n # n
      BY <1>1, <2>1, <2>2, OneStill DEF Makes, Moved
    <2>3. CASE cc[w].n = n
      <3>1. \A v \in Workers \ {w} : ~Makes(v, n)
        BY <1>4, <2>3 DEF Creating, Makes
      <3>2. \A v \in Workers : Makes(v, n)' => v = w
        BY <2>1, <3>1 DEF Makes, Moved
      <3>3. IdsOfName(n)' = {}
        BY <1>1, <1>4, <2>3 DEF IdsOfName
      <3> QED
        BY <3>2, <3>3 DEF OneChannel
    <2> QED
      BY <2>2, <2>3
  <1> QED
    BY <1>2, <1>3, <1>4 DEF HasChannel

LEMMA GetIdOne ==
    ASSUME CInv, NEW w \in Workers, NEW n, OneChannel(n),
           NEW pc \in {"getid", "create", "reread", "subid"},
           NEW none \in {"lock", "insert", "load", "subhas"},
           NEW some \in {"lock", "load", "subhas"},
           pc \notin CreatingPcs => {none, some} \subseteq {"lock", "subhas"},
           none = "insert" => pc = "create",
           GetChannelId(w, pc, none, some)
    PROVE  OneChannel(n)'
  <1>1. /\ cc[w] \in CallsAt(AllPcs) /\ cc[w] # Idle /\ cc[w].pc = pc
        /\ cc[w].id \in Nat /\ cc[w].obj \in Nat /\ UNCHANGED channels
    BY CallIsRecord DEF GetChannelId, CAt
  <1>2. PICK r \in IdsOfName(cc[w].n) \cup {NoId} :
          cc' = [cc EXCEPT ![w].pc = IF r = NoId THEN none ELSE some, ![w].id = r]
    BY DEF GetChannelId
  <1>3. r \in Nat
    BY DEF IdsOfName, CInv, CTypes, NoId
  <1>4. PICK to \in {none, some} : cc' = [cc EXCEPT ![w].pc = to, ![w].id = r]
    BY <1>2
  <1>5. Moved(w, to, r, cc[w].obj)
    <2>1. to \in AllPcs
      BY DEF AllPcs, CreatingPcs, GetPcs, JoinPcs
    <2> QED
      BY <1>1, <1>3, <1>4, <2>1, Moves
  <1>6. /\ to \in CreatingPcs => pc \in CreatingPcs
        /\ to \in {"create", "insert"} => pc = "create"
    BY DEF CreatingPcs
  <1> QED
    BY <1>1, <1>5, <1>6, OneStill DEF Makes, AtName, Moved

(* Only the one creator of the name adds a row, where there was none. *)
LEMMA InsertOne ==
    ASSUME CInv, NEW w \in Workers, CreateInsert(w), NEW n, OneChannel(n)
    PROVE  OneChannel(n)'
  <1>1. /\ cc[w] \in CallsAt(AllPcs) /\ cc[w] # Idle /\ cc[w].pc = "insert"
        /\ cc[w].id \in Nat /\ cc[w].obj \in Nat /\ cc[w].n \in Names
    BY CallIsRecord DEF CreateInsert, CAt, CallFits, LaterPcs
  <1>2. Moved(w, "reread", cc[w].id, cc[w].obj)
    BY <1>1, Moves DEF CreateInsert, AllPcs, CreatingPcs
  <1>3. CASE UNCHANGED channels
    BY <1>1, <1>2, <1>3, OneStill DEF Makes, AtName, Moved, CreatingPcs
  <1>4. CASE channels' = Append(channels, cc[w].n)
    <2>1. channels \in Seq(Names)
      BY DEF CInv, CTypes
    <2>2. /\ Len(channels) \in Nat
          /\ IdsOfName(n)' = IdsOfName(n) \cup (IF cc[w].n = n THEN {Len(channels) + 1} ELSE {})
      BY <1>1, <1>4, <2>1 DEF IdsOfName
    <2>3. \A v \in Workers : Makes(v, n)' => Makes(v, n)
      BY <1>1, <1>2 DEF Makes, Moved, CreatingPcs
    <2>4. CASE cc[w].n # n
      <3>1. IdsOfName(n)' = IdsOfName(n)
        BY <2>2, <2>4
      <3>2. \A v \in Workers : AtName(v, {"create", "insert"}, n)'
                                 => AtName(v, {"create", "insert"}, n)
        BY <1>2, <2>4 DEF AtName, Moved
      <3> QED
        BY <2>3, <3>1, <3>2 DEF OneChannel
    <2>5. CASE cc[w].n = n
      <3>1. IdsOfName(n) = {} /\ \A v \in Workers \ {w} : ~Makes(v, n)
        BY <1>1, <2>5 DEF OneChannel, AtName, Makes, CreatingPcs
      <3>2. \A v \in Workers : ~AtName(v, {"create", "insert"}, n)'
        BY <1>2, <3>1 DEF AtName, Makes, Moved, CreatingPcs
      <3> QED
        BY <2>2, <2>3, <3>1, <3>2 DEF OneChannel
    <2> QED
      BY <2>4, <2>5
  <1> QED
    BY <1>3, <1>4 DEF CreateInsert

(* The steps that neither look a name up nor insert it. *)
OtherStep(w) ==
    \/ LockRegistry(w) \/ BuildLocked(w) \/ Build(w) \/ Register(w)
    \/ JoinUser(w) \/ AddUser(w) \/ JoinAck(w) \/ JoinHas(w) \/ JoinInsert(w)

LEMMA OtherMoves ==
    ASSUME CInv, NEW w \in Workers, OtherStep(w)
    PROVE  /\ UNCHANGED <<channels, overlappedNames>>
           /\ \A v \in Workers \ {w} : cc'[v] = cc[v]
           /\ \/ cc'[w] = Idle
              \/ /\ cc'[w].pc \in {"loadLocked", "resume"} \cup JoinPcs
                 /\ cc'[w].n = cc[w].n
              \/ /\ Build(w) /\ cc[w].pc = "load"
                 /\ cc'[w].pc = "register" /\ cc'[w].n = cc[w].n
  <1>1. /\ cc[w] \in CallsAt(AllPcs) /\ cc[w] # Idle
        /\ cc[w].id \in Nat /\ cc[w].obj \in Nat
    BY CallIsRecord DEF OtherStep, LockRegistry, BuildLocked, Build, Register, JoinUser,
       AddUser, JoinAck, JoinHas, JoinInsert
  <1>2. UNCHANGED <<channels, overlappedNames>>
    BY DEF OtherStep, LockRegistry, BuildLocked, Build, Register, JoinUser,
       AddUser, JoinAck, JoinHas, JoinInsert
  <1>3. \/ EndCall(w)
        \/ \E pc \in {"loadLocked", "resume"} \cup JoinPcs : Goto(w, pc)
        \/ KnownChannel(cc[w].id) /\ cc' = [cc EXCEPT ![w].pc = "resume", ![w].obj = idChannels[cc[w].id]]
        \/ cc' = [cc EXCEPT ![w].pc = "resume", ![w].obj = Len(objects) + 1]
        \/ /\ Build(w) /\ cc[w].pc = "load"
           /\ cc' = [cc EXCEPT ![w].pc = "register", ![w].obj = Len(objects) + 1]
    BY DEF OtherStep, LockRegistry, BuildLocked, Build, Construct, Register, JoinUser,
       AddUser, JoinAck, StoreJoin, JoinHas, JoinInsert, JoinPcs, CAt
  <1>4. Len(objects) + 1 \in Nat
    BY DEF CInv, CTypes
  <1>5. CASE EndCall(w)
    BY <1>2, <1>5 DEF EndCall, CInv, CTypes
  <1>6. ASSUME NEW pc \in {"loadLocked", "resume"} \cup JoinPcs, Goto(w, pc)
        PROVE  /\ \A v \in Workers \ {w} : cc'[v] = cc[v]
               /\ cc'[w].pc = pc /\ cc'[w].n = cc[w].n
    <2>1. pc \in AllPcs
      BY DEF AllPcs, GetPcs
    <2> QED
      BY <1>1, <1>6, <2>1, Moves DEF Moved
  <1>7. CASE KnownChannel(cc[w].id) /\ cc' = [cc EXCEPT ![w].pc = "resume", ![w].obj = idChannels[cc[w].id]]
    <2>1. idChannels[cc[w].id] \in Nat /\ "resume" \in AllPcs
      BY <1>7 DEF KnownChannel, CInv, CTypes, AllPcs
    <2> QED
      BY <1>1, <1>2, <1>7, <2>1, Moves DEF Moved
  <1>8. CASE cc' = [cc EXCEPT ![w].pc = "resume", ![w].obj = Len(objects) + 1]
    <2>1. "resume" \in AllPcs
      BY DEF AllPcs
    <2> QED
      BY <1>1, <1>2, <1>4, <1>8, <2>1, Moves DEF Moved
  <1>9. CASE /\ Build(w) /\ cc[w].pc = "load"
             /\ cc' = [cc EXCEPT ![w].pc = "register", ![w].obj = Len(objects) + 1]
    <2>1. "register" \in AllPcs
      BY DEF AllPcs, CreatingPcs
    <2> QED
      BY <1>1, <1>2, <1>4, <1>9, <2>1, Moves DEF Moved
  <1> QED
    BY <1>2, <1>3, <1>5, <1>6, <1>7, <1>8, <1>9

LEMMA OtherOne ==
    ASSUME CInv, NEW w \in Workers, OtherStep(w), NEW n, OneChannel(n)
    PROVE  OneChannel(n)'
  <1>1. cc'[w] = Idle => ~Makes(w, n)'
    BY DEF Makes, CreatingPcs, Idle
  <1>2. cc'[w].pc \in {"loadLocked", "resume"} \cup JoinPcs => ~Makes(w, n)'
    BY DEF Makes, CreatingPcs, JoinPcs
  <1>3. cc[w].pc = "load" /\ cc'[w].pc = "register" /\ cc'[w].n = cc[w].n /\ Makes(w, n)' =>
          Makes(w, n) /\ ~AtName(w, {"create", "insert"}, n)'
    BY DEF Makes, CreatingPcs, AtName
  <1> QED
    BY <1>1, <1>2, <1>3, OtherMoves, OneStill

LEMMA JoinRoomOne ==
    ASSUME CInv, NEW w \in Workers, NEW u, NEW m, JoinRoom(w, u, m), NEW n, OneChannel(n)
    PROVE  OneChannel(n)'
  <1>1. UNCHANGED channels /\ cc'[w].pc = "has" /\ \A v \in Workers \ {w} : cc'[v] = cc[v]
    BY DEF JoinRoom, StartChannelCall, CInv, CTypes
  <1> QED
    BY <1>1, OneStill DEF Makes, CreatingPcs

LEMMA OverlapGrows ==
    ASSUME NEW w \in Workers, CreateOrGetStep(w) \/ JoinStep(w)
    PROVE  overlappedNames \subseteq overlappedNames'
  <1>1. CASE HasChannel(w)
    BY <1>1 DEF HasChannel
  <1>2. CASE OtherStep(w)
    BY <1>2 DEF OtherStep, LockRegistry, BuildLocked, Build, Register, JoinUser, AddUser,
       JoinAck, JoinHas, JoinInsert
  <1>3. CASE GetKnownId(w) \/ CreateLookup(w) \/ CreateReread(w) \/ JoinGetId(w)
    BY <1>3 DEF GetKnownId, CreateLookup, CreateReread, JoinGetId, GetChannelId
  <1>4. CASE CreateInsert(w)
    BY <1>4 DEF CreateInsert
  <1> QED
    BY <1>1, <1>2, <1>3, <1>4 DEF CreateOrGetStep, JoinStep, OtherStep

LEMMA NextMInv == CInv /\ MInv /\ [CNext]_cvars => MInv'
  <1> SUFFICES ASSUME CInv, MInv, [CNext]_cvars, NEW n \in Names \ overlappedNames'
               PROVE  OneChannel(n)'
    BY DEF MInv
  <1>1. ASSUME NEW w \in Workers, CreateOrGetStep(w) \/ JoinStep(w) PROVE OneChannel(n)'
    <2>1. overlappedNames \subseteq overlappedNames'
      BY <1>1, OverlapGrows
    <2>2. OneChannel(n)
      BY <2>1 DEF MInv
    <2>3. CASE GetKnownId(w)
      BY <2>2, <2>3, GetIdOne DEF GetKnownId, CreatingPcs
    <2>4. CASE CreateLookup(w)
      BY <2>2, <2>4, GetIdOne DEF CreateLookup, CreatingPcs
    <2>5. CASE CreateReread(w)
      BY <2>2, <2>5, GetIdOne DEF CreateReread, CreatingPcs, AfterNoReread
    <2>6. CASE JoinGetId(w)
      BY <2>2, <2>6, GetIdOne DEF JoinGetId, CreatingPcs
    <2> QED
      BY <1>1, <2>2, <2>3, <2>4, <2>5, <2>6, HasOne, InsertOne, OtherOne
         DEF CreateOrGetStep, JoinStep, OtherStep
  <1>2. CASE CCrash
    <2>1. OneChannel(n) /\ UNCHANGED channels /\ \A w \in Workers : cc'[w] = Idle
      BY <1>2 DEF CCrash, MInv
    <2> QED
      BY <2>1, OneStill DEF Makes, CreatingPcs, Idle
  <1>3. CASE CBoot \/ UNCHANGED cvars \/ UNCHANGED channelVars
    <2>1. OneChannel(n) /\ UNCHANGED <<channels, cc>>
      BY <1>3 DEF CBoot, cvars, channelVars, MInv
    <2> QED
      BY <2>1, OneStill
  <1>4. ASSUME NEW w \in Workers, NEW u \in Ids, NEW m \in Names, JoinRoom(w, u, m)
        PROVE  OneChannel(n)'
    <2>1. OneChannel(n)
      BY <1>4 DEF JoinRoom, StartChannelCall, MInv
    <2> QED
      BY <1>4, <2>1, JoinRoomOne
  <1> QED
    BY <1>1, <1>2, <1>3, <1>4 DEF CNext, CStep, CRequest

LEMMA InitMInv == CInit => MInv
  BY DEF CInit, MInv, OneChannel, Makes, AtName, IdsOfName, CreatingPcs, Idle

LEMMA MInvHolds == CSpec => []MInv
  BY InitMInv, NextMInv, CInvHolds, PTL DEF CSpec

(***************************************************************************)
(* hasChannel, getChannelId, the INSERT and getChannelId again are not one *)
(* transaction and channel_name is not UNIQUE: a name has a second row     *)
(* only if a call looked for it while another was creating it.             *)
(***************************************************************************)
THEOREM DuplicatesWereFound == CSpec => []DuplicateChannelNeedsOverlap
  <1>1. CInv /\ MInv => DuplicateChannelNeedsOverlap
    BY DEF CInv, CTypes, MInv, OneChannel, IdsOfName, DuplicateChannelNeedsOverlap
  <1> QED
    BY <1>1, CInvHolds, MInvHolds, PTL

------------------------------------------------------------------------------
(* The mutex of the manager *)

(* Who builds a known channel holds the mutex, and its id is not mapped yet. *)
RegistryHeld ==
    /\ \A w \in Workers : cc[w].pc = "loadLocked" =>
         mutex = w /\ cc[w].id \notin DOMAIN idChannels
    /\ server = "down" => DOMAIN idChannels = {}
    /\ \A a \in acked : a.inc <= crashes

LEMMA HeldStill ==
    ASSUME CInv, RegistryHeld, NEW w \in Workers,
           UNCHANGED <<server, crashes, idChannels, mutex>>,
           \A a \in acked' \ acked : a.inc = crashes,
           \A v \in Workers \ {w} : cc'[v] = cc[v], cc'[w].pc # "loadLocked"
    PROVE  RegistryHeld'
  <1>1. crashes \in Nat
    BY BoundsAssumption DEF CInv, Inv1, TypeOK
  <1> QED
    BY <1>1 DEF RegistryHeld

LEMMA LockHeld ==
    ASSUME CInv, RegistryHeld, NEW w \in Workers, LockRegistry(w)
    PROVE  RegistryHeld'
  <1>1. /\ cc[w] \in CallsAt(AllPcs) /\ cc[w] # Idle
        /\ cc[w].id \in Nat /\ cc[w].obj \in Nat /\ cc[w].pc = "lock"
    BY CallIsRecord DEF LockRegistry, CAt
  <1>2. UNCHANGED <<server, crashes, idChannels, acked>> /\ mutex = NoWorker
    BY DEF LockRegistry, userVars, boundVars
  <1>3. \A v \in Workers \ {w} : cc'[v] = cc[v] /\ cc[v].pc # "loadLocked"
    <2>1. \A v \in Workers \ {w} : cc'[v] = cc[v]
      BY OtherMoves DEF OtherStep
    <2> QED
      BY <1>2, <2>1, RequestAssumption DEF RegistryHeld
  <1>4. CASE Goto(w, "loadLocked") /\ ~KnownChannel(cc[w].id) /\ mutex' = w
    <2>1. Moved(w, "loadLocked", cc[w].id, cc[w].obj)
      BY <1>1, <1>4, Moves DEF AllPcs, GetPcs
    <2> QED
      BY <1>2, <1>3, <1>4, <2>1 DEF RegistryHeld, Moved, KnownChannel
  <1>5. CASE UNCHANGED mutex /\ EndCall(w)
    <2>1. cc'[w] = Idle
      BY <1>5 DEF EndCall, CInv, CTypes
    <2> QED
      BY <1>2, <1>3, <1>5, <2>1, HeldStill DEF Idle
  <1>6. CASE UNCHANGED mutex /\ KnownChannel(cc[w].id) /\
             cc' = [cc EXCEPT ![w].pc = "resume", ![w].obj = idChannels[cc[w].id]]
    <2>1. idChannels[cc[w].id] \in Nat /\ "resume" \in AllPcs
      BY <1>6 DEF KnownChannel, CInv, CTypes, AllPcs
    <2>2. cc'[w].pc = "resume"
      BY <1>1, <1>6, <2>1, Moves DEF Moved
    <2> QED
      BY <1>2, <1>3, <1>6, <2>2, HeldStill
  <1> QED
    BY <1>4, <1>5, <1>6 DEF LockRegistry

LEMMA NextHeld == CInv /\ RegistryHeld /\ [CNext]_cvars => RegistryHeld'
  <1> SUFFICES ASSUME CInv, RegistryHeld, [CNext]_cvars PROVE RegistryHeld'
    OBVIOUS
  <1>1. ASSUME NEW w \in Workers, BuildLocked(w) \/ Register(w) PROVE RegistryHeld'
    <2>1. /\ \A v \in Workers \ {w} : cc'[v] = cc[v]
          /\ cc'[w].pc # "loadLocked" /\ cc[w] # Idle
      <3>1. /\ \A v \in Workers \ {w} : cc'[v] = cc[v]
            /\ \/ cc'[w] = Idle
               \/ cc'[w].pc \in {"loadLocked", "resume", "register"} \cup JoinPcs
        BY <1>1, OtherMoves DEF OtherStep
      <3>2. cc'[w].pc = "resume"
        <4>1. /\ cc[w] \in CallsAt(AllPcs) /\ cc[w].id \in Nat /\ "resume" \in AllPcs
              /\ Len(objects) + 1 \in Nat
          <5>1. cc[w] \in CallsAt(AllPcs) /\ cc[w].id \in Nat
            BY <1>1, CallIsRecord DEF BuildLocked, Register
          <5>2. Len(objects) + 1 \in Nat /\ "resume" \in AllPcs
            BY DEF CInv, CTypes, AllPcs
          <5> QED
            BY <5>1, <5>2
        <4>2. PICK o \in Nat : o = Len(objects) + 1
          BY <4>1
        <4>3. \/ Goto(w, "resume")
              \/ cc' = [cc EXCEPT ![w].pc = "resume", ![w].obj = o]
          BY <1>1, <4>2, SMTT(20) DEF BuildLocked, Construct, Register
        <4>4. PICK p \in Nat : p = cc[w].obj
          BY <1>1, CallIsRecord DEF BuildLocked, Register
        <4>5. Moved(w, "resume", cc[w].id, p) \/ Moved(w, "resume", cc[w].id, o)
          BY <4>1, <4>3, <4>4, Moves
        <4> QED
          BY <4>5 DEF Moved
      <3> QED
        BY <1>1, <3>1, <3>2, CallIsRecord, SMTT(20) DEF BuildLocked, Register
    <2>2. \A v \in Workers \ {w} : cc[v].pc # "loadLocked"
      BY <1>1, RequestAssumption DEF BuildLocked, Register, RegistryHeld, CAt
    <2>3. server = "up" /\ UNCHANGED <<server, crashes, acked>>
      BY <1>1, CallIsRecord DEF BuildLocked, Register, userVars, boundVars
    <2> QED
      BY <2>1, <2>2, <2>3 DEF RegistryHeld
  <1>2. ASSUME NEW w \in Workers, Build(w) \/ JoinUser(w) \/ AddUser(w) \/ JoinAck(w)
                                  \/ JoinHas(w) \/ JoinInsert(w)
        PROVE  RegistryHeld'
    <2>1. \A v \in Workers \ {w} : cc'[v] = cc[v]
      BY <1>2, OtherMoves DEF OtherStep
    <2>2. cc'[w].pc # "loadLocked"
      <3>1. /\ cc[w] \in CallsAt(AllPcs) /\ cc[w].id \in Nat /\ cc[w].obj \in Nat
            /\ Len(objects) + 1 \in Nat
        BY <1>2, CallIsRecord, SMTT(20)
           DEF Build, JoinUser, AddUser, JoinAck, JoinHas, JoinInsert, CInv, CTypes
      <3>2. \/ EndCall(w)
            \/ \E pc \in JoinPcs : Goto(w, pc)
            \/ cc' = [cc EXCEPT ![w].pc = "register", ![w].obj = Len(objects) + 1]
        BY <1>2 DEF Build, Construct, JoinUser, AddUser, JoinAck, StoreJoin, JoinHas, JoinInsert,
           JoinPcs
      <3>3. CASE EndCall(w)
        BY <3>3 DEF EndCall, CInv, CTypes, Idle
      <3>4. ASSUME NEW pc \in JoinPcs, Goto(w, pc) PROVE cc'[w].pc # "loadLocked"
        <4>1. pc \in AllPcs /\ pc # "loadLocked"
          BY DEF AllPcs, JoinPcs
        <4>2. Moved(w, pc, cc[w].id, cc[w].obj)
          BY <3>1, <3>4, <4>1, Moves
        <4> QED
          BY <4>1, <4>2 DEF Moved
      <3>5. CASE cc' = [cc EXCEPT ![w].pc = "register", ![w].obj = Len(objects) + 1]
        <4>1. "register" \in AllPcs
          BY DEF AllPcs, CreatingPcs
        <4>2. PICK o \in Nat : o = Len(objects) + 1
          BY <3>1
        <4>3. cc' = [cc EXCEPT ![w].pc = "register", ![w].obj = o]
          BY <3>5, <4>2
        <4>4. Moved(w, "register", cc[w].id, o)
          BY <3>1, <4>1, <4>3, Moves
        <4> QED
          BY <4>4 DEF Moved
      <3> QED
        BY <3>2, <3>3, <3>4, <3>5
    <2>3. /\ UNCHANGED <<server, crashes, idChannels, mutex>>
          /\ \A a \in acked' \ acked : a.inc = crashes
      BY <1>2, SMTT(20)
         DEF Build, JoinUser, AddUser, JoinAck, JoinHas, JoinInsert, userVars, boundVars
    <2> QED
      BY <2>1, <2>2, <2>3, HeldStill
  <1>3. ASSUME NEW w \in Workers, HasChannel(w) \/ CreateInsert(w)
        PROVE  RegistryHeld'
    <2>1. /\ cc[w] \in CallsAt(AllPcs) /\ cc[w].id \in Nat /\ cc[w].obj \in Nat
      BY <1>3, CallIsRecord DEF HasChannel, CreateInsert
    <2>2. EndCall(w) \/ \E pc \in {"create", "getid", "reread"} : Goto(w, pc)
      BY <1>3 DEF HasChannel, CreateInsert
    <2>3. CASE EndCall(w)
      BY <1>3, <2>3, HeldStill DEF EndCall, CInv, CTypes, Idle, HasChannel, CreateInsert, userVars
    <2>4. ASSUME NEW pc \in {"create", "getid", "reread"}, Goto(w, pc) PROVE RegistryHeld'
      <3>1. pc \in AllPcs /\ pc # "loadLocked"
        BY DEF AllPcs, CreatingPcs, GetPcs
      <3>2. cc'[w].pc = pc /\ \A v \in Workers \ {w} : cc'[v] = cc[v]
        BY <2>1, <2>4, <3>1, Moves DEF Moved
      <3> QED
        BY <1>3, <3>1, <3>2, HeldStill DEF HasChannel, CreateInsert, userVars
    <2> QED
      BY <2>2, <2>3, <2>4
  <1>4. ASSUME NEW w \in Workers,
               NEW pc \in {"getid", "create", "reread", "subid"},
               NEW none \in {"lock", "insert", "load", "subhas"},
               NEW some \in {"lock", "load", "subhas"}, GetChannelId(w, pc, none, some)
        PROVE  RegistryHeld'
    <2>1. /\ cc[w] \in CallsAt(AllPcs) /\ cc[w].id \in Nat /\ cc[w].obj \in Nat
      BY <1>4, CallIsRecord DEF GetChannelId
    <2>2. PICK r \in IdsOfName(cc[w].n) \cup {NoId} :
            cc' = [cc EXCEPT ![w].pc = IF r = NoId THEN none ELSE some, ![w].id = r]
      BY <1>4 DEF GetChannelId
    <2>3. r \in Nat
      BY DEF IdsOfName, CInv, CTypes, NoId
    <2>4. PICK to \in {none, some} : cc' = [cc EXCEPT ![w].pc = to, ![w].id = r]
      BY <2>2
    <2>5. to \in AllPcs /\ to # "loadLocked"
      BY DEF AllPcs, CreatingPcs, GetPcs, JoinPcs
    <2>6. cc'[w].pc = to /\ \A v \in Workers \ {w} : cc'[v] = cc[v]
      BY <2>1, <2>3, <2>4, <2>5, Moves DEF Moved
    <2> QED
      BY <1>4, <2>5, <2>6, HeldStill DEF GetChannelId, userVars
  <1>5. ASSUME NEW w \in Workers, GetKnownId(w) \/ CreateLookup(w) \/ CreateReread(w) \/ JoinGetId(w)
        PROVE  RegistryHeld'
    <2>1. \/ GetChannelId(w, "getid", "lock", "lock")
          \/ GetChannelId(w, "create", "insert", "load")
          \/ GetChannelId(w, "reread", "load", "load")
          \/ GetChannelId(w, "subid", "subhas", "subhas")
      BY <1>5 DEF GetKnownId, CreateLookup, CreateReread, AfterNoReread, JoinGetId
    <2> QED
      BY <1>4, <2>1
  <1>6. ASSUME NEW w \in Workers, NEW u \in Ids, NEW n \in Names, JoinRoom(w, u, n)
        PROVE  RegistryHeld'
    <2>1. cc'[w].pc = "has" /\ \A v \in Workers \ {w} : cc'[v] = cc[v]
      BY <1>6 DEF JoinRoom, StartChannelCall, CInv, CTypes
    <2> QED
      BY <1>6, <2>1, HeldStill DEF JoinRoom, StartChannelCall, userVars
  <1>7. ASSUME NEW w \in Workers, UserRequest(w) \/ UserStep(w), UNCHANGED channelVars
        PROVE  RegistryHeld'
    <2>1. UNCHANGED <<server, crashes>>
      BY <1>7 DEF UserRequest, UserStep, Reg, Auth, StartCall, RegLookup, RegInsert, RegReread,
         AuthCheck, Push, Answer, boundVars
    <2> QED
      BY <1>7, <2>1 DEF RegistryHeld, channelVars
  <1>8. CASE CCrash
    BY <1>8, BoundsAssumption DEF CCrash, Crash, RegistryHeld, Idle, CInv, CTypes, Acks, Inv1, TypeOK
  <1>9. CASE CBoot
    <2>1. server = "down" /\ server' = "up" /\ UNCHANGED <<crashes, acked, cc>>
      BY <1>9 DEF CBoot, BootUsers, Connect
    <2>2. \A w \in Workers : cc'[w].pc # "loadLocked"
      BY <2>1 DEF CInv, QuietWhenDown, Idle
    <2> QED
      BY <2>1, <2>2 DEF RegistryHeld
  <1>10. CASE UNCHANGED cvars
    BY <1>10 DEF cvars, vars, channelVars, RegistryHeld
  <1> QED
    BY <1>1, <1>2, <1>3, <1>5, <1>6, <1>7, <1>8, <1>9, <1>10, LockHeld
       DEF CNext, CStep, CRequest, CreateOrGetStep, JoinStep

LEMMA InitHeld == CInit => RegistryHeld
  BY DEF CInit, RegistryHeld, Idle

LEMMA HeldHolds == CSpec => []RegistryHeld
  BY InitHeld, NextHeld, CInvHolds, PTL DEF CSpec

------------------------------------------------------------------------------
(* The members that are stored and the members that hear *)

Held(n) == IdsOfName(n) \cap DOMAIN idChannels
Hears(u, n, o) == u \in objects[o].users \/ <<u, n>> \in missing

(***************************************************************************)
(* A call for the name that did not create it found its row and nobody     *)
(* creating it; a creator finds no Channel handed out; past the lookup the *)
(* call holds the Channel that is handed out, and past addUser its user is *)
(* a member of that; a Channel that is about to be registered has all      *)
(* stored members.                                                         *)
(***************************************************************************)
CallHears(w, n) ==
    /\ AtName(w, GetPcs \ {"has"}, n) => IdsOfName(n) # {} /\ \A v \in Workers : ~Makes(v, n)
    /\ Makes(w, n) => Held(n) = {}
    /\ AtName(w, JoinPcs \cup {"resume"}, n) => \E k \in Held(n) : idChannels[k] = cc[w].obj
    /\ AtName(w, JoinPcs \ {"add"}, n) => Hears(cc[w].u, n, cc[w].obj)
    /\ AtName(w, {"register"}, n) => \A u \in UsersOf(cc[w].id) : Hears(u, n, cc[w].obj)

TablesHear(n) ==
    /\ \A k \in Held(n) : \A u \in UsersOf(k) : Hears(u, n, idChannels[k])
    /\ \A a \in acked : a.inc = crashes /\ a.n = n =>
         \E k \in Held(n) : Hears(a.u, n, idChannels[k])

NameHears(n) == TablesHear(n) /\ \A w \in Workers : CallHears(w, n)

HInv == \A n \in Names \ overlappedNames : NameHears(n)

(* A call that ended, or is for another name, owes nothing to this one. *)
LEMMA Elsewhere ==
    ASSUME NEW w, NEW n, cc'[w].n # n \/ cc'[w].pc \in {"idle", "has"}
    PROVE  CallHears(w, n)'
  <1>1. ~Makes(w, n)'
    BY DEF Makes, CreatingPcs
  <1>2. ~AtName(w, GetPcs \ {"has"}, n)' /\ ~AtName(w, JoinPcs \cup {"resume"}, n)'
        /\ ~AtName(w, JoinPcs \ {"add"}, n)' /\ ~AtName(w, {"register"}, n)'
    BY DEF AtName, GetPcs, JoinPcs
  <1> QED
    BY <1>1, <1>2 DEF CallHears

LEMMA HearsStill ==
    ASSUME \A o \in DOMAIN objects : objects[o].users \subseteq objects'[o].users,
           missing \subseteq missing', NEW u, NEW n, NEW o \in DOMAIN objects, Hears(u, n, o)
    PROVE  Hears(u, n, o)'
  BY DEF Hears

(* The other calls, in a step of w that takes nothing from them. *)
LEMMA OthersHear ==
    ASSUME CInv, NEW w \in Workers, NEW n, NameHears(n),
           NEW v \in Workers \ {w}, cc'[v] = cc[v],
           IdsOfName(n) \subseteq IdsOfName(n)',
           AtName(v, GetPcs \ {"has"}, n) => \A x \in Workers : Makes(x, n)' => Makes(x, n),
           \A k \in Held(n) : k \in Held(n)' /\ idChannels'[k] = idChannels[k],
           Makes(v, n) => Held(n)' = {},
           \A o \in DOMAIN objects : objects[o].users \subseteq objects'[o].users,
           missing \subseteq missing',
           AtName(v, {"register"}, n) => UsersOf(cc[v].id)' = UsersOf(cc[v].id)
    PROVE  CallHears(v, n)'
  <1>1. CallHears(v, n) /\ CallFits(v)
    BY DEF NameHears, CInv
  <1>2. /\ \A pcs : AtName(v, pcs, n)' <=> AtName(v, pcs, n)
        /\ Makes(v, n)' <=> Makes(v, n)
    BY DEF AtName, Makes
  <1>3. AtName(v, GetPcs \ {"has"}, n) =>
          IdsOfName(n)' # {} /\ \A x \in Workers : ~Makes(x, n)'
    BY <1>1 DEF CallHears
  <1>4. AtName(v, JoinPcs \cup {"resume"}, n) => \E k \in Held(n)' : idChannels'[k] = cc'[v].obj
    BY <1>1 DEF CallHears
  <1>5. PICK c : c = cc[v]
    OBVIOUS
  <1>6. AtName(v, JoinPcs \ {"add"}, n) => Hears(c.u, n, c.obj)'
    <2> SUFFICES ASSUME AtName(v, JoinPcs \ {"add"}, n) PROVE Hears(c.u, n, c.obj)'
      OBVIOUS
    <2>1. c.obj \in DOMAIN objects
      BY <1>1, <1>5 DEF AtName, CallFits, LaterPcs, Idle, JoinPcs
    <2> QED
      BY <1>1, <1>5, <2>1, HearsStill DEF CallHears
  <1>7. AtName(v, {"register"}, n) => \A u \in UsersOf(c.id)' : Hears(u, n, c.obj)'
    <2> SUFFICES ASSUME AtName(v, {"register"}, n), NEW u \in UsersOf(c.id)
                 PROVE  Hears(u, n, c.obj)'
      BY <1>5
    <2>1. c.obj \in DOMAIN objects
      BY <1>1, <1>5 DEF AtName, CallFits, LaterPcs, Idle
    <2> QED
      BY <1>1, <1>5, <2>1, HearsStill DEF CallHears
  <1>8. cc'[v] = c
    BY <1>5
  <1>9. Makes(v, n)' => Held(n)' = {}
    BY <1>2
  <1> QED
    BY <1>2, <1>3, <1>4, <1>6, <1>7, <1>8, <1>9 DEF CallHears

(* The tables, in a step that maps no other Channel for the name. *)
LEMMA TablesStill ==
    ASSUME CInv, NEW n, TablesHear(n), UNCHANGED <<acked, crashes>>,
           Held(n)' = Held(n),
           \A k \in Held(n) : idChannels'[k] = idChannels[k] /\ UsersOf(k)' = UsersOf(k),
           \A o \in DOMAIN objects : objects[o].users \subseteq objects'[o].users,
           missing \subseteq missing'
    PROVE  TablesHear(n)'
  <1>1. \A k \in Held(n) : idChannels[k] \in DOMAIN objects
    BY DEF Held, CInv, CTypes
  <1>2. \A k \in Held(n) : \A u : Hears(u, n, idChannels[k]) => Hears(u, n, idChannels[k])'
    BY <1>1, HearsStill
  <1> QED
    BY <1>2 DEF TablesHear

(* A step that changes the call of w and nothing else that counts here. *)
LEMMA QuietHears ==
    ASSUME CInv, NEW w \in Workers, NEW n, NameHears(n),
           UNCHANGED <<channels, subscriptions, objects, idChannels, missing, acked, crashes>>,
           \A v \in Workers \ {w} : cc'[v] = cc[v],
           IdsOfName(n) # {} => (Makes(w, n)' => Makes(w, n)),
           CallHears(w, n)'
    PROVE  NameHears(n)'
  <1>1. IdsOfName(n)' = IdsOfName(n) /\ Held(n)' = Held(n) /\ \A k : UsersOf(k)' = UsersOf(k)
    BY DEF IdsOfName, Held, UsersOf
  <1>2. TablesHear(n)'
    BY <1>1, TablesStill DEF NameHears
  <1>3. ASSUME NEW v \in Workers \ {w} PROVE CallHears(v, n)'
    <2>1. AtName(v, GetPcs \ {"has"}, n) => \A x \in Workers : Makes(x, n)' => Makes(x, n)
      BY DEF NameHears, CallHears, Makes
    <2>2. Makes(v, n) => Held(n)' = {}
      BY <1>1 DEF NameHears, CallHears
    <2> QED
      BY <1>1, <2>1, <2>2, OthersHear
  <1> QED
    BY <1>2, <1>3 DEF NameHears

LEMMA HasHears ==
    ASSUME CInv, NEW w \in Workers, HasChannel(w), NEW n \in Names \ overlappedNames',
           NameHears(n)
    PROVE  NameHears(n)'
  <1>1. /\ cc[w] \in CallsAt(AllPcs) /\ cc[w] # Idle /\ cc[w].pc = "has"
        /\ cc[w].id \in Nat /\ cc[w].obj \in Nat
    BY CallIsRecord DEF HasChannel, CAt
  <1>2. UNCHANGED <<channels, subscriptions, objects, idChannels, missing, acked, crashes>>
    BY DEF HasChannel
  <1>3. CASE EndCall(w)
    <2>1. cc'[w] = Idle /\ \A v \in Workers \ {w} : cc'[v] = cc[v]
      BY <1>3 DEF EndCall, CInv, CTypes
    <2>2. CallHears(w, n)' /\ ~Makes(w, n)'
      BY <2>1, Elsewhere DEF Idle, Makes, CreatingPcs
    <2> QED
      BY <1>2, <2>1, <2>2, QuietHears
  <1>4. CASE /\ Goto(w, "getid") /\ IdsOfName(cc[w].n) # {}
             /\ overlappedNames' = IF Creating(w, cc[w].n)
                                   THEN overlappedNames \cup {cc[w].n} ELSE overlappedNames
    <2>1. Moved(w, "getid", cc[w].id, cc[w].obj)
      BY <1>1, <1>4, Moves DEF AllPcs, GetPcs
    <2>2. CASE cc[w].n # n
      BY <1>2, <2>1, <2>2, Elsewhere, QuietHears DEF Moved, Makes
    <2>3. CASE cc[w].n = n
      <3>1. IdsOfName(n)' # {}
        BY <1>2, <1>4, <2>3 DEF IdsOfName
      <3>2. \A v \in Workers : ~Makes(v, n)'
        <4>1. \A v \in Workers \ {w} : ~Makes(v, n)
          BY <1>4, <2>3 DEF Creating, Makes
        <4> QED
          BY <2>1, <4>1 DEF Makes, Moved, CreatingPcs
      <3>3. CallHears(w, n)'
        BY <2>1, <3>1, <3>2 DEF CallHears, AtName, Moved, JoinPcs
      <3> QED
        BY <1>2, <2>1, <3>2, <3>3, QuietHears DEF Moved
    <2> QED
      BY <2>2, <2>3
  <1>5. CASE Goto(w, "create") /\ IdsOfName(cc[w].n) = {}
    <2>1. Moved(w, "create", cc[w].id, cc[w].obj)
      BY <1>1, <1>5, Moves DEF AllPcs, CreatingPcs
    <2>2. CASE cc[w].n # n
      BY <1>2, <2>1, <2>2, Elsewhere, QuietHears DEF Moved, Makes
    <2>3. CASE cc[w].n = n
      <3>1. Held(n)' = {}
        BY <1>2, <1>5, <2>3 DEF IdsOfName, Held
      <3>2. CallHears(w, n)'
        BY <2>1, <3>1 DEF CallHears, AtName, Moved, JoinPcs, GetPcs
      <3> QED
        BY <1>2, <1>5, <2>1, <2>3, <3>2, QuietHears DEF Moved
    <2> QED
      BY <2>2, <2>3
  <1> QED
    BY <1>3, <1>4, <1>5 DEF HasChannel

(* What w owes to n while it goes from pc to pc of the same stretch. *)
LEMMA StretchHears ==
    ASSUME CInv, NEW w \in Workers, NEW n, NameHears(n),
           UNCHANGED <<channels, subscriptions, objects, idChannels, missing, acked, crashes>>,
           NEW to, NEW id, Moved(w, to, id, cc[w].obj),
           \/ cc[w].pc \in GetPcs \ {"has"} /\ to \in GetPcs \ {"has"}
           \/ cc[w].pc \in CreatingPcs /\ to \in CreatingPcs \ {"register"}
           \/ cc[w].pc \in JoinPcs \ {"add"} /\ to \in JoinPcs \ {"add"}
           \/ cc[w].pc \in JoinPcs \cup {"resume"} /\ to = "add"
    PROVE  NameHears(n)'
  <1>1. /\ \A v \in Workers \ {w} : cc'[v] = cc[v]
        /\ cc'[w].pc = to /\ cc'[w].n = cc[w].n /\ cc'[w].u = cc[w].u /\ cc'[w].obj = cc[w].obj
    BY DEF Moved
  <1>2. IdsOfName(n)' = IdsOfName(n) /\ Held(n)' = Held(n)
    BY DEF IdsOfName, Held
  <1>3. /\ Makes(w, n)' => Makes(w, n)
        /\ AtName(w, GetPcs \ {"has"}, n)' => AtName(w, GetPcs \ {"has"}, n)
        /\ AtName(w, JoinPcs \cup {"resume"}, n)' => AtName(w, JoinPcs \cup {"resume"}, n)
        /\ AtName(w, JoinPcs \ {"add"}, n)' => AtName(w, JoinPcs \ {"add"}, n)
        /\ ~AtName(w, {"register"}, n)'
    BY <1>1 DEF Makes, AtName, GetPcs, CreatingPcs, JoinPcs
  <1>4. \A v \in Workers : Makes(v, n)' => Makes(v, n)
    BY <1>1, <1>3 DEF Makes
  <1>5. CallHears(w, n) /\ UNCHANGED <<objects, missing, idChannels>>
    BY DEF NameHears
  <1>6. CallHears(w, n)'
    BY <1>1, <1>2, <1>3, <1>4, <1>5 DEF CallHears, Hears
  <1> QED
    BY <1>1, <1>3, <1>6, QuietHears

LEMMA GetIdHears ==
    ASSUME CInv, NEW w \in Workers, NEW n, NameHears(n),
           NEW pc, NEW none, NEW some,
           \/ pc = "getid" /\ none = "lock" /\ some = "lock"
           \/ pc = "create" /\ none = "insert" /\ some = "load"
           \/ pc = "reread" /\ none = "load" /\ some = "load"
           \/ pc = "subid" /\ none = "subhas" /\ some = "subhas",
           GetChannelId(w, pc, none, some)
    PROVE  NameHears(n)'
  <1>1. /\ cc[w] \in CallsAt(AllPcs) /\ cc[w] # Idle /\ cc[w].pc = pc
        /\ cc[w].id \in Nat /\ cc[w].obj \in Nat
        /\ UNCHANGED <<channels, subscriptions, objects, idChannels, missing, acked, crashes>>
    BY CallIsRecord DEF GetChannelId, CAt
  <1>2. PICK r \in IdsOfName(cc[w].n) \cup {NoId} :
          cc' = [cc EXCEPT ![w].pc = IF r = NoId THEN none ELSE some, ![w].id = r]
    BY DEF GetChannelId
  <1>3. r \in Nat
    BY DEF IdsOfName, CInv, CTypes, NoId
  <1>4. PICK to \in {none, some} : cc' = [cc EXCEPT ![w].pc = to, ![w].id = r]
    BY <1>2
  <1>5. Moved(w, to, r, cc[w].obj)
    <2>1. to \in AllPcs
      BY DEF AllPcs, CreatingPcs, GetPcs, JoinPcs
    <2> QED
      BY <1>1, <1>3, <1>4, <2>1, Moves
  <1>6. \/ cc[w].pc \in GetPcs \ {"has"} /\ to \in GetPcs \ {"has"}
        \/ cc[w].pc \in CreatingPcs /\ to \in CreatingPcs \ {"register"}
        \/ cc[w].pc \in JoinPcs \ {"add"} /\ to \in JoinPcs \ {"add"}
    BY <1>1 DEF CreatingPcs, GetPcs, JoinPcs
  <1> QED
    BY <1>1, <1>5, <1>6, StretchHears

LEMMA InsertHears ==
    ASSUME CInv, NEW w \in Workers, CreateInsert(w), NEW n, NameHears(n)
    PROVE  NameHears(n)'
  <1>1. /\ cc[w] \in CallsAt(AllPcs) /\ cc[w] # Idle /\ cc[w].pc = "insert"
        /\ cc[w].id \in Nat /\ cc[w].obj \in Nat /\ cc[w].n \in Names
    BY CallIsRecord DEF CreateInsert, CAt, CallFits, LaterPcs
  <1>2. Moved(w, "reread", cc[w].id, cc[w].obj)
    BY <1>1, Moves DEF CreateInsert, AllPcs, CreatingPcs
  <1>3. UNCHANGED <<subscriptions, objects, idChannels, missing, acked, crashes>>
    BY DEF CreateInsert
  <1>4. IdsOfName(n) \subseteq IdsOfName(n)' /\ Held(n)' = Held(n)
    <2>1. channels \in Seq(Names) /\ DOMAIN idChannels \subseteq DOMAIN channels
      BY DEF CInv, CTypes
    <2>2. CASE UNCHANGED channels
      BY <1>3, <2>2 DEF IdsOfName, Held
    <2>3. CASE channels' = Append(channels, cc[w].n)
      <3>1. \A k \in DOMAIN channels : k \in DOMAIN channels' /\ channels'[k] = channels[k]
        BY <1>1, <2>1, <2>3
      <3> QED
        BY <1>3, <2>1, <3>1 DEF IdsOfName, Held
    <2> QED
      BY <2>2, <2>3 DEF CreateInsert
  <1>5. \A v \in Workers : Makes(v, n)' => Makes(v, n)
    BY <1>1, <1>2 DEF Makes, Moved, CreatingPcs
  <1>6. \A k : UsersOf(k)' = UsersOf(k)
    BY <1>3 DEF UsersOf
  <1>7. TablesHear(n)'
    BY <1>3, <1>4, <1>6, TablesStill DEF NameHears
  <1>8. ASSUME NEW v \in Workers \ {w} PROVE CallHears(v, n)'
    <2>1. Makes(v, n) => Held(n)' = {}
      BY <1>4 DEF NameHears, CallHears
    <2>2. cc'[v] = cc[v]
      BY <1>2 DEF Moved
    <2> QED
      BY <1>3, <1>4, <1>5, <1>6, <2>1, <2>2, OthersHear
  <1>9. CallHears(w, n)'
    <2>1. Makes(w, n)' => Held(n)' = {}
      BY <1>4, <1>5 DEF NameHears, CallHears
    <2> QED
      BY <1>2, <2>1 DEF CallHears, AtName, Moved, JoinPcs, GetPcs
  <1> QED
    BY <1>7, <1>8, <1>9 DEF NameHears

LEMMA LockHears ==
    ASSUME CInv, NEW w \in Workers, LockRegistry(w), NEW n, NameHears(n)
    PROVE  NameHears(n)'
  <1>1. /\ cc[w] \in CallsAt(AllPcs) /\ cc[w] # Idle /\ cc[w].pc = "lock" /\ CallFits(w)
        /\ cc[w].id \in Nat /\ cc[w].obj \in Nat
        /\ UNCHANGED <<channels, subscriptions, objects, idChannels, missing, acked, crashes>>
    BY CallIsRecord DEF LockRegistry, CAt, boundVars
  <1>2. CASE EndCall(w)
    <2>1. cc'[w] = Idle /\ \A v \in Workers \ {w} : cc'[v] = cc[v]
      BY <1>2 DEF EndCall, CInv, CTypes
    <2>2. CallHears(w, n)' /\ ~Makes(w, n)'
      BY <2>1, Elsewhere DEF Idle, Makes, CreatingPcs
    <2> QED
      BY <1>1, <2>1, <2>2, QuietHears
  <1>3. CASE Goto(w, "loadLocked")
    <2>1. Moved(w, "loadLocked", cc[w].id, cc[w].obj)
      BY <1>1, <1>3, Moves DEF AllPcs, GetPcs
    <2>2. cc[w].pc \in GetPcs \ {"has"} /\ "loadLocked" \in GetPcs \ {"has"}
      BY <1>1 DEF GetPcs
    <2> QED
      BY <1>1, <2>1, <2>2, StretchHears
  <1>4. CASE /\ KnownChannel(cc[w].id)
             /\ cc' = [cc EXCEPT ![w].pc = "resume", ![w].obj = idChannels[cc[w].id]]
    <2>1. cc[w].id \in DOMAIN idChannels /\ idChannels[cc[w].id] \in Nat
      BY <1>4 DEF KnownChannel, CInv, CTypes
    <2>2. Moved(w, "resume", cc[w].id, idChannels[cc[w].id])
      BY <1>1, <1>4, <2>1, Moves DEF AllPcs
    <2>3. CASE cc[w].n # n
      BY <1>1, <2>2, <2>3, Elsewhere, QuietHears DEF Moved, Makes
    <2>4. CASE cc[w].n = n
      <3>1. cc[w].id \in Held(n)
        BY <1>1, <2>1, <2>4 DEF Held, CallFits, LaterPcs, NoId, CInv, CTypes
      <3>2. cc[w].id \in Held(n)' /\ idChannels'[cc[w].id] = cc'[w].obj /\ ~Makes(w, n)'
        BY <1>1, <2>2, <3>1 DEF Held, IdsOfName, Moved, Makes, CreatingPcs
      <3>3. CallHears(w, n)'
        BY <2>2, <3>2 DEF CallHears, AtName, Moved, JoinPcs, GetPcs
      <3> QED
        BY <1>1, <2>2, <3>2, <3>3, QuietHears DEF Moved
    <2> QED
      BY <2>3, <2>4
  <1> QED
    BY <1>2, <1>3, <1>4 DEF LockRegistry

LEMMA BuildHears ==
    ASSUME CInv, NEW w \in Workers, Build(w), NEW n, NameHears(n)
    PROVE  NameHears(n)'
  <1>1. /\ cc[w] \in CallsAt(AllPcs) /\ cc[w] # Idle /\ cc[w].pc = "load" /\ CallFits(w)
        /\ cc[w].id \in Nat /\ cc[w].obj \in Nat
        /\ UNCHANGED <<channels, subscriptions, idChannels, acked, crashes>>
    BY CallIsRecord DEF Build, CAt
  <1>2. CASE EndCall(w) /\ UNCHANGED <<objects, missing>>
    <2>1. cc'[w] = Idle /\ \A v \in Workers \ {w} : cc'[v] = cc[v]
      BY <1>2 DEF EndCall, CInv, CTypes
    <2>2. CallHears(w, n)' /\ ~Makes(w, n)'
      BY <2>1, Elsewhere DEF Idle, Makes, CreatingPcs
    <2> QED
      BY <1>1, <1>2, <2>1, <2>2, QuietHears
  <1>3. CASE Constructible(cc[w].id, cc[w].n) /\ Construct(w, "register")
    <2>1. UNCHANGED <<userVars, channels, asked>> /\ cc[w].id # NoId /\ cc[w].n # EmptyName
      BY <1>3 DEF Build, Constructible
    <2>2. /\ Moved(w, "register", cc[w].id, Len(objects) + 1)
          /\ \A o \in DOMAIN objects : o \in DOMAIN objects' /\ objects'[o] = objects[o]
          /\ UsersOf(cc[w].id) \X {cc[w].n} \subseteq
               (objects'[Len(objects) + 1].users \X {cc[w].n}) \cup missing'
          /\ missing \subseteq missing'
      BY <1>1, <1>3, <2>1, ConstructFits
    <2>3. IdsOfName(n)' = IdsOfName(n) /\ Held(n)' = Held(n) /\ \A k : UsersOf(k)' = UsersOf(k)
      BY <1>1 DEF IdsOfName, Held, UsersOf
    <2>4. \A v \in Workers : Makes(v, n)' => Makes(v, n)
      BY <1>1, <2>2 DEF Makes, Moved, CreatingPcs
    <2>5. TablesHear(n)'
      BY <1>1, <2>2, <2>3, TablesStill DEF NameHears
    <2>6. ASSUME NEW v \in Workers \ {w} PROVE CallHears(v, n)'
      <3>1. Makes(v, n) => Held(n)' = {}
        BY <2>3 DEF NameHears, CallHears
      <3>2. cc'[v] = cc[v]
        BY <2>2 DEF Moved
      <3> QED
        BY <1>1, <2>2, <2>3, <2>4, <3>1, <3>2, OthersHear
    <2>7. CallHears(w, n)'
      <3>1. CASE cc[w].n # n
        BY <2>2, <3>1, Elsewhere DEF Moved
      <3>2. CASE cc[w].n = n
        <4>1. Held(n)' = {}
          BY <1>1, <2>3, <3>2 DEF NameHears, CallHears, Makes, CreatingPcs
        <4>2. PICK id, o : id = cc[w].id /\ o = Len(objects) + 1
          OBVIOUS
        <4>3. \A u \in UsersOf(id) : Hears(u, n, o)'
          BY <2>2, <3>2, <4>2 DEF Hears
        <4>4. \A u \in UsersOf(cc[w].id)' : Hears(u, n, cc[w].obj)'
          BY <2>2, <2>3, <4>2, <4>3 DEF Moved
        <4> QED
          BY <2>2, <4>1, <4>4 DEF CallHears, AtName, Moved, JoinPcs, GetPcs
      <3> QED
        BY <3>1, <3>2
    <2> QED
      BY <2>5, <2>6, <2>7 DEF NameHears
  <1> QED
    BY <1>2, <1>3 DEF Build

(***************************************************************************)
(* The manager gets a Channel o for the id of the name, which had none: it *)
(* has the members that are stored, nobody was answered before, and no     *)
(* other call holds a Channel of the name.                                 *)
(***************************************************************************)
LEMMA FirstChannelHears ==
    ASSUME CInv, NEW w \in Workers, NEW n, NameHears(n), OneChannel(n),
           cc[w].n = n, NEW id, id = cc[w].id, id \in IdsOfName(n), Held(n) = {},
           NEW o, o \in Nat, PutChannel(id, o), Moved(w, "resume", id, o),
           \A v \in Workers \ {w} : ~Makes(v, n),
           UNCHANGED <<channels, subscriptions, acked, crashes>>,
           \A q \in DOMAIN objects : objects[q].users \subseteq objects'[q].users,
           missing \subseteq missing',
           \A u \in UsersOf(id) : Hears(u, n, o)'
    PROVE  NameHears(n)'
  <1>1. /\ IdsOfName(n)' = {id} /\ IdsOfName(n) = {id} /\ Held(n)' = {id}
        /\ idChannels'[id] = o /\ UsersOf(id)' = UsersOf(id)
    BY DEF OneChannel, IdsOfName, Held, PutChannel, UsersOf
  <1>2. \A a \in acked : ~(a.inc = crashes /\ a.n = n)
    BY DEF NameHears, TablesHear
  <1>3. \A k \in Held(n)' : \A u \in UsersOf(k)' : Hears(u, n, idChannels[k])'
    <2> SUFFICES ASSUME NEW u \in UsersOf(id) PROVE Hears(u, n, idChannels[id])'
      BY <1>1
    <2>1. Hears(u, n, o)'
      OBVIOUS
    <2> QED
      BY <1>1, <2>1 DEF Hears
  <1>4. TablesHear(n)'
    BY <1>2, <1>3 DEF TablesHear
  <1>5. \A v \in Workers : ~Makes(v, n)'
    BY DEF Makes, Moved, CreatingPcs
  <1>6. CallHears(w, n)'
    BY <1>1, <1>5 DEF CallHears, AtName, Moved, GetPcs, JoinPcs
  <1>7. ASSUME NEW v \in Workers \ {w} PROVE CallHears(v, n)'
    <2>1. ~AtName(v, {"register"}, n) /\ cc'[v] = cc[v]
      BY DEF AtName, Makes, CreatingPcs, Moved
    <2> QED
      BY <1>1, <1>5, <2>1, OthersHear
  <1> QED
    BY <1>4, <1>6, <1>7 DEF NameHears

(* The manager gets a Channel for an id of another name. *)
LEMMA OtherChannelHears ==
    ASSUME CInv, NEW w \in Workers, NEW n, NameHears(n), cc[w].n # n,
           NEW id, id \notin IdsOfName(n), NEW o, PutChannel(id, o),
           NEW cid, NEW cobj, Moved(w, "resume", cid, cobj),
           UNCHANGED <<channels, subscriptions, acked, crashes>>,
           \A q \in DOMAIN objects : objects[q].users \subseteq objects'[q].users,
           missing \subseteq missing'
    PROVE  NameHears(n)'
  <1>1. /\ IdsOfName(n)' = IdsOfName(n) /\ Held(n)' = Held(n)
        /\ \A k \in Held(n) : idChannels'[k] = idChannels[k]
        /\ \A k : UsersOf(k)' = UsersOf(k)
    BY DEF IdsOfName, Held, PutChannel, UsersOf
  <1>2. TablesHear(n)'
    BY <1>1, TablesStill DEF NameHears
  <1>3. CallHears(w, n)'
    BY Elsewhere DEF Moved
  <1>4. ASSUME NEW v \in Workers \ {w} PROVE CallHears(v, n)'
    <2>1. cc'[v] = cc[v] /\ \A x \in Workers : Makes(x, n)' => Makes(x, n)
      BY DEF Makes, Moved
    <2>2. Makes(v, n) => Held(n)' = {}
      BY <1>1 DEF NameHears, CallHears
    <2> QED
      BY <1>1, <2>1, <2>2, OthersHear
  <1> QED
    BY <1>2, <1>3, <1>4 DEF NameHears

LEMMA BuildLockedHears ==
    ASSUME CInv, RegistryHeld, NEW w \in Workers, BuildLocked(w), NEW n, NameHears(n),
           OneChannel(n)
    PROVE  NameHears(n)'
  <1>1. /\ cc[w] \in CallsAt(AllPcs) /\ cc[w] # Idle /\ cc[w].pc = "loadLocked" /\ CallFits(w)
        /\ cc[w].id \in Nat /\ cc[w].obj \in Nat
        /\ UNCHANGED <<userVars, channels, subscriptions, asked, acked, crashes>>
        /\ Construct(w, "resume") /\ PutChannel(cc[w].id, Len(objects) + 1)
    BY CallIsRecord DEF BuildLocked, CAt
  <1>2. /\ cc[w].id # NoId /\ cc[w].id \in IdsOfName(cc[w].n) /\ cc[w].id \notin DOMAIN idChannels
        /\ cc[w].n # EmptyName
    BY <1>1 DEF CallFits, LaterPcs, RegistryHeld
  <1>3. /\ Moved(w, "resume", cc[w].id, Len(objects) + 1)
        /\ \A o \in DOMAIN objects : o \in DOMAIN objects' /\ objects'[o] = objects[o]
        /\ UsersOf(cc[w].id) \X {cc[w].n} \subseteq
             (objects'[Len(objects) + 1].users \X {cc[w].n}) \cup missing'
        /\ missing \subseteq missing'
    BY <1>1, <1>2, ConstructFits
  <1>4. CASE cc[w].n # n
    <2>1. cc[w].id \notin IdsOfName(n)
      BY <1>2, <1>4 DEF IdsOfName
    <2> QED
      BY <1>1, <1>3, <1>4, <2>1, OtherChannelHears
  <1>5. CASE cc[w].n = n
    <2>1. \A v \in Workers : ~Makes(v, n)
      BY <1>1, <1>5 DEF NameHears, CallHears, AtName, GetPcs
    <2>2. Held(n) = {}
      BY <1>2, <1>5 DEF Held, OneChannel
    <2>3. Len(objects) + 1 \in Nat
      BY DEF CInv, CTypes
    <2>4. PICK id, o : id = cc[w].id /\ o = Len(objects) + 1
      OBVIOUS
    <2>5. \A u \in UsersOf(id) : Hears(u, n, o)'
      BY <1>3, <1>5, <2>4 DEF Hears
    <2> QED
      BY <1>1, <1>2, <1>3, <1>5, <2>1, <2>2, <2>3, <2>4, <2>5, FirstChannelHears
  <1> QED
    BY <1>4, <1>5

LEMMA RegisterHears ==
    ASSUME CInv, NEW w \in Workers, Register(w), NEW n, NameHears(n), OneChannel(n)
    PROVE  NameHears(n)'
  <1>1. /\ cc[w] \in CallsAt(AllPcs) /\ cc[w] # Idle /\ cc[w].pc = "register" /\ CallFits(w)
        /\ cc[w].id \in Nat /\ cc[w].obj \in Nat
        /\ UNCHANGED <<userVars, channels, subscriptions, objects, missing, acked, crashes>>
        /\ PutChannel(cc[w].id, cc[w].obj)
    BY CallIsRecord DEF Register, CAt, boundVars
  <1>2. cc[w].id \in IdsOfName(cc[w].n)
    BY <1>1 DEF CallFits, LaterPcs
  <1>3. Moved(w, "resume", cc[w].id, cc[w].obj)
    BY <1>1, Moves DEF Register, AllPcs
  <1>4. CASE cc[w].n # n
    <2>1. cc[w].id \notin IdsOfName(n)
      BY <1>2, <1>4 DEF IdsOfName
    <2> QED
      BY <1>1, <1>3, <1>4, <2>1, OtherChannelHears
  <1>5. CASE cc[w].n = n
    <2>1. Makes(w, n) /\ AtName(w, {"register"}, n)
      BY <1>1, <1>5 DEF Makes, AtName, CreatingPcs
    <2>2. Held(n) = {} /\ \A v \in Workers \ {w} : ~Makes(v, n)
      BY <2>1 DEF NameHears, CallHears, OneChannel
    <2>3. PICK id, o : id = cc[w].id /\ o = cc[w].obj
      OBVIOUS
    <2>4. \A u \in UsersOf(id) : Hears(u, n, o)
      BY <2>1, <2>3 DEF NameHears, CallHears
    <2>5. \A u \in UsersOf(id) : Hears(u, n, o)'
      BY <1>1, <2>4 DEF Hears
    <2> QED
      BY <1>1, <1>2, <1>3, <1>5, <2>2, <2>3, <2>5, FirstChannelHears
  <1> QED
    BY <1>4, <1>5

LEMMA JoinUserHears ==
    ASSUME CInv, NEW w \in Workers, JoinUser(w), NEW n, NameHears(n)
    PROVE  NameHears(n)'
  <1>1. /\ cc[w] \in CallsAt(AllPcs) /\ cc[w] # Idle /\ cc[w].pc = "resume"
        /\ cc[w].id \in Nat /\ cc[w].obj \in Nat
        /\ UNCHANGED <<channels, subscriptions, objects, idChannels, missing, acked, crashes>>
    BY CallIsRecord DEF JoinUser, CAt, boundVars
  <1>2. CASE EndCall(w)
    <2>1. cc'[w] = Idle /\ \A v \in Workers \ {w} : cc'[v] = cc[v]
      BY <1>2 DEF EndCall, CInv, CTypes
    <2>2. CallHears(w, n)' /\ ~Makes(w, n)'
      BY <2>1, Elsewhere DEF Idle, Makes, CreatingPcs
    <2> QED
      BY <1>1, <2>1, <2>2, QuietHears
  <1>3. CASE Goto(w, "add")
    <2>1. Moved(w, "add", cc[w].id, cc[w].obj)
      BY <1>1, <1>3, Moves DEF AllPcs, JoinPcs
    <2> QED
      BY <1>1, <2>1, StretchHears
  <1> QED
    BY <1>2, <1>3 DEF JoinUser

LEMMA AddUserHears ==
    ASSUME CInv, NEW w \in Workers, AddUser(w), NEW n, NameHears(n)
    PROVE  NameHears(n)'
  <1>1. /\ cc[w] \in CallsAt(AllPcs) /\ cc[w] # Idle /\ cc[w].pc = "add" /\ CallFits(w)
        /\ cc[w].id \in Nat /\ cc[w].obj \in Nat
        /\ UNCHANGED <<channels, subscriptions, idChannels, acked, crashes>>
    BY CallIsRecord DEF AddUser, CAt, boundVars
  <1>2. PICK o, u : o = cc[w].obj /\ u = cc[w].u
    OBVIOUS
  <1>3. o \in DOMAIN objects /\ objects \in Seq(Objects) /\ objects[o] \in Objects
    BY <1>1, <1>2 DEF CallFits, LaterPcs, JoinPcs, CInv, CTypes
  <1>4. /\ \A q \in DOMAIN objects : objects[q].users \subseteq objects'[q].users
        /\ missing \subseteq missing'
        /\ cc[w].n = n => Hears(u, n, o)'
    <2>1. CASE u \in objects[o].users /\ UNCHANGED objects
      BY <1>2, <2>1 DEF AddUser, Hears
    <2>2. CASE objects' = [objects EXCEPT ![o].users = @ \cup {u}]
      <3>1. /\ objects'[o] = [objects[o] EXCEPT !.users = objects[o].users \cup {u}]
            /\ \A q \in DOMAIN objects \ {o} : objects'[q] = objects[q]
        BY <1>3, <2>2
      <3>2. objects'[o].users = objects[o].users \cup {u}
        BY <1>3, <3>1 DEF Objects
      <3> QED
        BY <1>2, <3>1, <3>2 DEF AddUser, Hears
    <2>3. CASE AddContended(w) /\ UNCHANGED objects
      BY <1>2, <2>3 DEF AddUser, Hears
    <2> QED
      BY <1>2, <2>1, <2>2, <2>3 DEF AddUser
  <1>5. PICK pc \in {"subid", "ack"} : Goto(w, pc)
    BY DEF AddUser
  <1>6. Moved(w, pc, cc[w].id, cc[w].obj)
    BY <1>1, <1>5, Moves DEF AllPcs, JoinPcs
  <1>7. IdsOfName(n)' = IdsOfName(n) /\ Held(n)' = Held(n) /\ \A k : UsersOf(k)' = UsersOf(k)
    BY <1>1 DEF IdsOfName, Held, UsersOf
  <1>8. \A v \in Workers : Makes(v, n)' => Makes(v, n)
    BY <1>6 DEF Makes, Moved, CreatingPcs
  <1>9. TablesHear(n)'
    BY <1>1, <1>4, <1>7, TablesStill DEF NameHears
  <1>10. ASSUME NEW v \in Workers \ {w} PROVE CallHears(v, n)'
    <2>1. cc'[v] = cc[v]
      BY <1>6 DEF Moved
    <2>2. Makes(v, n) => Held(n)' = {}
      BY <1>7 DEF NameHears, CallHears
    <2> QED
      BY <1>1, <1>4, <1>7, <1>8, <2>1, <2>2, OthersHear
  <1>11. CallHears(w, n)'
    <2>1. CASE cc[w].n # n
      BY <1>6, <2>1, Elsewhere DEF Moved
    <2>2. CASE cc[w].n = n
      <3>1. \E k \in Held(n)' : idChannels'[k] = o
        BY <1>1, <1>2, <1>7, <2>2 DEF NameHears, CallHears, AtName, JoinPcs
      <3>2. cc'[w].u = u /\ cc'[w].obj = o
        BY <1>2, <1>6 DEF Moved
      <3>3. Hears(u, n, o)'
        BY <1>4, <2>2
      <3>4. Hears(cc[w].u, n, cc[w].obj)'
        BY <3>2, <3>3 DEF Hears
      <3> QED
        BY <1>6, <3>1, <3>2, <3>4 DEF CallHears, AtName, Makes, Moved, GetPcs, CreatingPcs, JoinPcs
    <2> QED
      BY <2>1, <2>2
  <1> QED
    BY <1>9, <1>10, <1>11 DEF NameHears

LEMMA JoinAckHears ==
    ASSUME CInv, NEW w \in Workers, JoinAck(w), NEW n, NameHears(n)
    PROVE  NameHears(n)'
  <1>1. /\ cc[w] \in CallsAt(AllPcs) /\ cc[w] # Idle /\ cc[w].pc = "ack"
        /\ cc[w].id \in Nat /\ cc[w].obj \in Nat
        /\ UNCHANGED <<channels, subscriptions, objects, idChannels, missing, crashes>>
    BY CallIsRecord DEF JoinAck, CAt, boundVars
  <1>2. Moved(w, "subid", cc[w].id, cc[w].obj)
    BY <1>1, Moves DEF JoinAck, StoreJoin, AllPcs, JoinPcs
  <1>3. /\ IdsOfName(n)' = IdsOfName(n) /\ Held(n)' = Held(n)
        /\ \A k : UsersOf(k)' = UsersOf(k)
        /\ \A u, o : Hears(u, n, o) => Hears(u, n, o)'
    BY <1>1 DEF IdsOfName, Held, UsersOf, Hears
  <1>4. \A v \in Workers : Makes(v, n)' => Makes(v, n)
    BY <1>2 DEF Makes, Moved, CreatingPcs
  <1>5. PICK o, u : o = cc[w].obj /\ u = cc[w].u
    OBVIOUS
  <1>6. cc[w].n = n => /\ \E k \in Held(n) : idChannels[k] = o
                       /\ Hears(u, n, o)
    BY <1>1, <1>5 DEF NameHears, CallHears, AtName, JoinPcs
  <1>7. TablesHear(n)'
    <2>1. \A k \in Held(n)' : \A x \in UsersOf(k)' : Hears(x, n, idChannels[k])'
      <3>1. \A k \in Held(n) : \A x \in UsersOf(k) : Hears(x, n, idChannels[k])
        BY DEF NameHears, TablesHear
      <3> QED
        BY <1>1, <1>3, <3>1 DEF Hears
    <2>2. ASSUME NEW a \in acked', a.inc = crashes, a.n = n
          PROVE  \E k \in Held(n) : Hears(a.u, n, idChannels[k])
      <3>1. CASE a \in acked
        BY <2>2, <3>1 DEF NameHears, TablesHear
      <3>2. CASE a \notin acked
        <4>1. a.n = cc[w].n /\ a.u = u
          BY <1>5, <3>2 DEF JoinAck
        <4> QED
          BY <1>6, <2>2, <4>1
      <3> QED
        BY <3>1, <3>2
    <2>3. ASSUME NEW a \in acked', a.inc = crashes', a.n = n
          PROVE  \E k \in Held(n)' : Hears(a.u, n, idChannels[k])'
      <3>1. PICK k \in Held(n) : Hears(a.u, n, idChannels[k])
        BY <1>1, <2>2, <2>3
      <3> QED
        BY <1>1, <1>3, <3>1 DEF Hears
    <2> QED
      BY <2>1, <2>3 DEF TablesHear
  <1>8. ASSUME NEW v \in Workers \ {w} PROVE CallHears(v, n)'
    <2>1. cc'[v] = cc[v]
      BY <1>2 DEF Moved
    <2>2. Makes(v, n) => Held(n)' = {}
      BY <1>3 DEF NameHears, CallHears
    <2> QED
      BY <1>1, <1>3, <1>4, <2>1, <2>2, OthersHear
  <1>9. CallHears(w, n)'
    <2>1. CASE cc[w].n # n
      BY <1>2, <2>1, Elsewhere DEF Moved
    <2>2. CASE cc[w].n = n
      <3>1. \E k \in Held(n)' : idChannels'[k] = o
        BY <1>1, <1>3, <1>6, <2>2
      <3>2. cc'[w].u = u /\ cc'[w].obj = o
        BY <1>2, <1>5 DEF Moved
      <3>3. Hears(u, n, o)'
        BY <1>3, <1>6, <2>2
      <3>4. Hears(cc[w].u, n, cc[w].obj)'
        BY <3>2, <3>3 DEF Hears
      <3> QED
        BY <1>2, <3>1, <3>2, <3>4 DEF CallHears, AtName, Makes, Moved, GetPcs, CreatingPcs, JoinPcs
    <2> QED
      BY <2>1, <2>2
  <1> QED
    BY <1>7, <1>8, <1>9 DEF NameHears

LEMMA JoinHasHears ==
    ASSUME CInv, NEW w \in Workers, JoinHas(w), NEW n, NameHears(n)
    PROVE  NameHears(n)'
  <1>1. /\ cc[w] \in CallsAt(AllPcs) /\ cc[w] # Idle /\ cc[w].pc = "subhas"
        /\ cc[w].id \in Nat /\ cc[w].obj \in Nat
        /\ UNCHANGED <<channels, subscriptions, objects, idChannels, missing, acked, crashes>>
    BY CallIsRecord DEF JoinHas, CAt
  <1>2. CASE EndCall(w)
    <2>1. cc'[w] = Idle /\ \A v \in Workers \ {w} : cc'[v] = cc[v]
      BY <1>2 DEF EndCall, CInv, CTypes
    <2>2. CallHears(w, n)' /\ ~Makes(w, n)'
      BY <2>1, Elsewhere DEF Idle, Makes, CreatingPcs
    <2> QED
      BY <1>1, <2>1, <2>2, QuietHears
  <1>3. CASE Goto(w, "subins")
    <2>1. Moved(w, "subins", cc[w].id, cc[w].obj)
      BY <1>1, <1>3, Moves DEF AllPcs, JoinPcs
    <2>2. cc[w].pc \in JoinPcs \ {"add"} /\ "subins" \in JoinPcs \ {"add"}
      BY <1>1 DEF JoinPcs
    <2> QED
      BY <1>1, <2>1, <2>2, StretchHears
  <1> QED
    BY <1>2, <1>3 DEF JoinHas

(***************************************************************************)
(* The row that is stored is one of a user that hears: the id read back is *)
(* that of the one row of the name, and the Channel of the call is the one *)
(* that is handed out for it.                                              *)
(***************************************************************************)
LEMMA JoinInsertHears ==
    ASSUME CInv, NEW w \in Workers, JoinInsert(w), NEW n, NameHears(n), OneChannel(n)
    PROVE  NameHears(n)'
  <1>1. /\ cc[w] \in CallsAt(AllPcs) /\ cc[w] # Idle /\ cc[w].pc = "subins" /\ CallFits(w)
        /\ UNCHANGED <<channels, objects, idChannels, missing, acked, crashes>>
        /\ EndCall(w)
    BY CallIsRecord DEF JoinInsert, CAt
  <1>2. cc'[w] = Idle /\ \A v \in Workers \ {w} : cc'[v] = cc[v]
    BY <1>1 DEF EndCall, CInv, CTypes
  <1>3. /\ IdsOfName(n)' = IdsOfName(n) /\ Held(n)' = Held(n)
        /\ \A u, o : Hears(u, n, o) => Hears(u, n, o)'
    BY <1>1 DEF IdsOfName, Held, Hears
  <1>4. \A v \in Workers : Makes(v, n)' => Makes(v, n)
    BY <1>2 DEF Makes, CreatingPcs, Idle
  <1>5. /\ \A k : UsersOf(k) \subseteq UsersOf(k)'
        /\ \A k : UsersOf(k)' \subseteq UsersOf(k) \cup (IF k = cc[w].id THEN {cc[w].u} ELSE {})
    BY DEF JoinInsert, UsersOf
  <1>6. cc[w].id \in IdsOfName(n) =>
          /\ \E k \in Held(n) : idChannels[k] = cc[w].obj
          /\ Hears(cc[w].u, n, cc[w].obj)
    <2> SUFFICES ASSUME cc[w].id \in IdsOfName(n)
                 PROVE  /\ \E k \in Held(n) : idChannels[k] = cc[w].obj
                        /\ Hears(cc[w].u, n, cc[w].obj)
      OBVIOUS
    <2>1. cc[w].id # NoId
      BY DEF IdsOfName, NoId, CInv, CTypes
    <2>2. cc[w].n = n
      BY <1>1, <2>1 DEF CallFits, LaterPcs, IdsOfName
    <2> QED
      BY <1>1, <2>2 DEF NameHears, CallHears, AtName, JoinPcs
  <1>7. TablesHear(n)'
    <2>1. ASSUME NEW k \in Held(n), NEW u \in UsersOf(k)' PROVE Hears(u, n, idChannels[k])
      <3>1. CASE u \in UsersOf(k)
        BY <3>1 DEF NameHears, TablesHear
      <3>2. CASE k = cc[w].id /\ u = cc[w].u
        <4>1. k \in IdsOfName(n)
          BY DEF Held
        <4>2. PICK j \in Held(n) : idChannels[j] = cc[w].obj /\ Hears(u, n, cc[w].obj)
          BY <1>6, <3>2, <4>1
        <4>3. j = k
          BY <4>1 DEF OneChannel, Held
        <4> QED
          BY <4>2, <4>3
      <3> QED
        BY <1>5, <3>1, <3>2
    <2>2. \A k \in Held(n)' : \A u \in UsersOf(k)' : Hears(u, n, idChannels[k])'
      BY <1>1, <1>3, <2>1 DEF Hears
    <2>3. \A a \in acked : a.inc = crashes /\ a.n = n =>
            \E k \in Held(n)' : Hears(a.u, n, idChannels[k])'
      <3>1. \A a \in acked : a.inc = crashes /\ a.n = n =>
              \E k \in Held(n) : Hears(a.u, n, idChannels[k])
        BY DEF NameHears, TablesHear
      <3> QED
        BY <1>1, <1>3, <3>1 DEF Hears
    <2> QED
      BY <1>1, <2>2, <2>3 DEF TablesHear
  <1>8. ASSUME NEW v \in Workers \ {w} PROVE CallHears(v, n)'
    <2>1. Makes(v, n) => Held(n)' = {}
      BY <1>3 DEF NameHears, CallHears
    <2>2. AtName(v, {"register"}, n) => UsersOf(cc[v].id)' = UsersOf(cc[v].id)
      <3> SUFFICES ASSUME AtName(v, {"register"}, n) PROVE UsersOf(cc[v].id)' = UsersOf(cc[v].id)
        OBVIOUS
      <3>1. Held(n) = {} /\ cc[v].n = n
        BY DEF NameHears, CallHears, AtName, Makes, CreatingPcs
      <3>2. CallFits(v) /\ cc[v].pc = "register" /\ cc[v] # Idle
        BY DEF AtName, CInv, Idle
      <3>3. PICK id : id = cc[v].id
        OBVIOUS
      <3>4. id \in IdsOfName(n)
        BY <3>1, <3>2, <3>3 DEF CallFits, LaterPcs
      <3>5. id # cc[w].id
        BY <1>6, <3>1, <3>4
      <3>6. UsersOf(id)' = UsersOf(id)
        <4>1. \A u \in UsersOf(id)' : u \in UsersOf(id)
          BY <1>5, <3>5
        <4>2. \A u \in UsersOf(id) : u \in UsersOf(id)'
          BY <1>5
        <4> QED
          BY <4>1, <4>2 DEF UsersOf
      <3> QED
        BY <1>2, <3>3, <3>6
    <2> QED
      BY <1>1, <1>2, <1>3, <1>4, <2>1, <2>2, OthersHear
  <1>9. CallHears(w, n)'
    BY <1>2, Elsewhere DEF Idle
  <1> QED
    BY <1>7, <1>8, <1>9 DEF NameHears

LEMMA JoinRoomHears ==
    ASSUME CInv, NEW w \in Workers, NEW u, NEW m, JoinRoom(w, u, m), NEW n, NameHears(n)
    PROVE  NameHears(n)'
  <1>1. /\ UNCHANGED <<channels, subscriptions, objects, idChannels, missing, acked, crashes>>
        /\ cc'[w].pc = "has" /\ \A v \in Workers \ {w} : cc'[v] = cc[v]
    BY DEF JoinRoom, StartChannelCall, CInv, CTypes
  <1>2. CallHears(w, n)' /\ ~Makes(w, n)'
    BY <1>1, Elsewhere DEF Makes, CreatingPcs
  <1> QED
    BY <1>1, <1>2, QuietHears

(* A restart: everything that is stored is loaded, or known as missing. *)
LEMMA BootHears ==
    ASSUME CInv, RegistryHeld, CBoot, NEW n, NameHears(n)
    PROVE  NameHears(n)'
  <1>1. /\ server = "down" /\ UNCHANGED <<channels, subscriptions, cc, acked, crashes>>
    BY DEF CBoot, BootUsers, Connect
  <1>2. \A w \in Workers : CallHears(w, n)'
    BY <1>1, Elsewhere DEF CInv, QuietWhenDown, Idle
  <1>3. Held(n) = {} /\ \A a \in acked : ~(a.inc = crashes /\ a.n = n)
    BY <1>1 DEF RegistryHeld, Held, NameHears, TablesHear
  <1>4. \A k \in Held(n)' : \A u \in UsersOf(k)' : Hears(u, n, idChannels[k])'
    <2>1. ASSUME NEW failed \in SUBSET DOMAIN channels, LoadChannels(failed),
                 NEW k \in Held(n)', NEW u \in UsersOf(k)
          PROVE  Hears(u, n, idChannels[k])'
      <3>1. k \in DOMAIN channels /\ channels[k] = n /\ idChannels'[k] = k
        BY <1>1, <2>1 DEF Held, IdsOfName, LoadChannels
      <3>2. objects'[k].users = IF k \in failed THEN {} ELSE UsersOf(k)
        BY <2>1, <3>1 DEF LoadChannels
      <3>3. k \in failed => <<u, n>> \in missing'
        BY <2>1, <3>1 DEF LoadChannels
      <3> QED
        BY <3>1, <3>2, <3>3 DEF Hears
    <2>2. CASE UNCHANGED idChannels
      BY <1>1, <1>3, <2>2 DEF Held, IdsOfName
    <2>3. \/ UNCHANGED idChannels
          \/ \E failed \in SUBSET DOMAIN channels : LoadChannels(failed)
      BY DEF CBoot
    <2>4. \A k : UsersOf(k)' = UsersOf(k)
      BY <1>1 DEF UsersOf
    <2> QED
      BY <2>1, <2>2, <2>3, <2>4
  <1> QED
    BY <1>1, <1>2, <1>3, <1>4 DEF NameHears, TablesHear

LEMMA CrashHears ==
    ASSUME CInv, RegistryHeld, CCrash, NEW n
    PROVE  NameHears(n)'
  <1>1. /\ UNCHANGED acked /\ crashes' = crashes + 1 /\ crashes \in Nat
        /\ DOMAIN idChannels' = {} /\ \A w \in Workers : cc'[w] = Idle
    BY BoundsAssumption DEF CCrash, Crash, CInv, Inv1, TypeOK
  <1>2. \A w \in Workers : CallHears(w, n)'
    BY <1>1, Elsewhere DEF Idle
  <1>3. \A a \in acked : a.inc # crashes'
    BY <1>1 DEF RegistryHeld, CInv, CTypes, Acks
  <1>4. Held(n)' = {}
    BY <1>1 DEF Held
  <1>5. TablesHear(n)'
    BY <1>1, <1>3, <1>4 DEF TablesHear
  <1> QED
    BY <1>2, <1>5 DEF NameHears

LEMMA NextHInv == CInv /\ RegistryHeld /\ MInv /\ HInv /\ [CNext]_cvars => HInv'
  <1> SUFFICES ASSUME CInv, RegistryHeld, MInv, HInv, [CNext]_cvars,
                      NEW n \in Names \ overlappedNames'
               PROVE  NameHears(n)'
    BY DEF HInv
  <1>1. overlappedNames \subseteq overlappedNames'
    <2>1. CASE \E w \in Workers : CreateOrGetStep(w) \/ JoinStep(w)
      BY <2>1, OverlapGrows
    <2>2. CASE CCrash \/ CBoot
      BY <2>2 DEF CCrash, CBoot
    <2>3. CASE \E w \in Workers : CRequest(w)
      BY <2>3 DEF CRequest, channelVars, JoinRoom, StartChannelCall
    <2>4. CASE UNCHANGED overlappedNames
      BY <2>4
    <2> QED
      BY <2>1, <2>2, <2>3, <2>4 DEF CNext, CStep, cvars, channelVars
  <1>2. NameHears(n) /\ OneChannel(n)
    BY <1>1 DEF HInv, MInv
  <1>3. ASSUME NEW w \in Workers, GetKnownId(w) \/ CreateLookup(w) \/ CreateReread(w) \/ JoinGetId(w)
        PROVE  NameHears(n)'
    <2>1. \/ GetChannelId(w, "getid", "lock", "lock")
          \/ GetChannelId(w, "create", "insert", "load")
          \/ GetChannelId(w, "reread", "load", "load")
          \/ GetChannelId(w, "subid", "subhas", "subhas")
      BY <1>3 DEF GetKnownId, CreateLookup, CreateReread, AfterNoReread, JoinGetId
    <2> QED
      BY <1>2, <2>1, GetIdHears
  <1>4. ASSUME NEW w \in Workers, CreateOrGetStep(w) \/ JoinStep(w)
        PROVE  NameHears(n)'
    BY <1>2, <1>3, <1>4, HasHears, LockHears, BuildLockedHears, InsertHears, BuildHears,
       RegisterHears, JoinUserHears, AddUserHears, JoinAckHears, JoinHasHears, JoinInsertHears
       DEF CreateOrGetStep, JoinStep
  <1>5. ASSUME UNCHANGED <<channelVars, crashes>> PROVE NameHears(n)'
    BY <1>2, <1>5, SMTT(20) DEF channelVars, NameHears, TablesHear, CallHears, AtName, Makes, Held,
       Hears, IdsOfName, UsersOf
  <1>6. ASSUME NEW w \in Workers, UserRequest(w) \/ UserStep(w), UNCHANGED channelVars
        PROVE  NameHears(n)'
    <2>1. UNCHANGED crashes
      BY <1>6 DEF UserRequest, UserStep, Reg, Auth, StartCall, RegLookup, RegInsert, RegReread,
         AuthCheck, Push, Answer, boundVars
    <2> QED
      BY <1>5, <1>6, <2>1
  <1>7. CASE UNCHANGED cvars
    BY <1>5, <1>7 DEF cvars, vars
  <1> QED
    BY <1>2, <1>4, <1>6, <1>7, JoinRoomHears, CrashHears, BootHears
       DEF CNext, CStep, CRequest

LEMMA InitHInv == CInit => HInv
  BY DEF CInit, HInv, NameHears, TablesHear, CallHears, AtName, Makes, Held, IdsOfName,
     CreatingPcs, GetPcs, JoinPcs, Idle

LEMMA HInvHolds == CSpec => []HInv
  BY InitHInv, NextHInv, CInvHolds, HeldHolds, MInvHolds, PTL DEF CSpec

(***************************************************************************)
(* Who is stored as a member hears what is sent, restarts included, unless *)
(* the creation of the channel overlapped another call or the entry raced  *)
(* or was not loaded.                                                      *)
(***************************************************************************)
THEOREM StoredHear == CSpec => []StoredMembersHear
  <1>1. CInv /\ HInv => StoredMembersHear
    <2> SUFFICES ASSUME CInv, HInv, NEW row \in subscriptions, row[2] \in DOMAIN idChannels,
                        channels[row[2]] \notin overlappedNames
                 PROVE  Hears(row[1], channels[row[2]], idChannels[row[2]])
      BY DEF StoredMembersHear, Hears
    <2>1. row[2] \in DOMAIN channels /\ channels[row[2]] \in Names
      BY DEF CInv, CTypes
    <2>2. row[2] \in Held(channels[row[2]]) /\ row[1] \in UsersOf(row[2])
      BY <2>1 DEF Held, IdsOfName, UsersOf
    <2> QED
      BY <2>1, <2>2 DEF HInv, NameHears, TablesHear
  <1> QED
    BY <1>1, CInvHolds, HInvHolds, PTL

(***************************************************************************)
(* Who this process told that it joined hears what is sent to the name,    *)
(* with the same exceptions.                                               *)
(***************************************************************************)
THEOREM AckedHear == CSpec => []AckedMembersHear
  <1>1. CInv /\ MInv /\ HInv => AckedMembersHear
    <2> SUFFICES ASSUME CInv, MInv, HInv, NEW a \in acked, a.inc = crashes,
                        NEW k \in DOMAIN idChannels, channels[k] = a.n,
                        a.n \notin overlappedNames
                 PROVE  Hears(a.u, a.n, idChannels[k])
      BY DEF AckedMembersHear, Hears
    <2>1. k \in IdsOfName(a.n) /\ a.n \in Names
      BY DEF CInv, CTypes, IdsOfName
    <2>2. PICK j \in Held(a.n) : Hears(a.u, a.n, idChannels[j])
      BY <2>1 DEF HInv, NameHears, TablesHear
    <2>3. j = k
      BY <2>1, <2>2 DEF MInv, OneChannel, Held
    <2> QED
      BY <2>2, <2>3
  <1> QED
    BY <1>1, CInvHolds, MInvHolds, HInvHolds, PTL

==============================================================================
