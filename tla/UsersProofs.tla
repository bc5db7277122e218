----------------------------- MODULE UsersProofs -----------------------------
(***************************************************************************)
(* Theorems about registration and authorisation, for any number of        *)
(* workers, sessions, logins and passwords and any bounds.                 *)
(*                                                                         *)
(* Inv1 is the type invariant with what a call carries from one query to   *)
(* the next; the other parts are inductive relative to it.                 *)
(***************************************************************************)
EXTENDS Users, TLAPS

(* The id that a call has found is a row of its login, with its password   *)
(* when the row was accepted by auth.                                      *)
CallOK(w) ==
    /\ uc[w].pc \in RegPcs => uc[w].op = "reg" /\ uc[w].id = NoId
    /\ uc[w].pc = "check" => uc[w].op = "auth" /\ uc[w].id = NoId
    /\ uc[w].pc = "push" => uc[w].id # NoId
    /\ uc[w].pc \in {"push", "answer"} /\ uc[w].id # NoId =>
         /\ uc[w].id \in DOMAIN clients
         /\ clients[uc[w].id].login = uc[w].l
         /\ uc[w].op = "auth" => clients[uc[w].id].pw = uc[w].p

Inv1 == TypeOK /\ \A w \in Workers : CallOK(w)

Handles(w, pc, l) == uc[w].pc = pc /\ uc[w].l = l

(***************************************************************************)
(* A login whose registrations neither overlapped nor failed has one row   *)
(* at most, none while a registration of it is about to insert, and every  *)
(* call that got past the queries holds the password of that row.          *)
(***************************************************************************)
OneRow(l) ==
    /\ \A v, w \in Workers :
         Handles(v, "insert", l) /\ Handles(w, "insert", l) => v = w
    /\ \A w \in Workers : Handles(w, "insert", l) => IdsOf(l) = {}
    /\ \A i, j \in IdsOf(l) : i = j
RowPassword(l) ==
    /\ \A w \in Workers :
         Handles(w, "reread", l) => \E i \in IdsOf(l) : clients[i].pw = uc[w].p
    /\ \A w \in Workers :
         /\ Handles(w, "push", l) \/ Handles(w, "answer", l)
         /\ uc[w].id # NoId
         => clients[uc[w].id].pw = uc[w].p
    /\ \A a \in told : a.l = l /\ a.id # NoId => clients[a.id].pw = a.p

Inv3 == \A l \in Logins \ overlapped : OneRow(l) /\ RowPassword(l)

(***************************************************************************)
(* What this process told is in idClients_ or was raced, and what it is    *)
(* about to tell as well.                                                  *)
(***************************************************************************)
Inv4 ==
    /\ \A a \in told : a.inc <= crashes
    /\ \A w \in Workers : uc[w].pc = "answer" /\ uc[w].id # NoId =>
         uc[w].id \in DOMAIN idClients \cup racedIds
    /\ server = "down" => /\ \A w \in Workers : uc[w] = Idle
                          /\ \A a \in told : a.inc < crashes
    /\ ToldIdIsKnown

------------------------------------------------------------------------------
(* A call that goes on changes its own record and no other. *)
LEMMA CallAdvances ==
    ASSUME TypeOK, NEW w \in Workers, uc[w] # Idle,
           NEW pc \in CallPcs, NEW id \in Nat,
           Advance(w, pc, id)
    PROVE  /\ uc' \in [Workers -> Calls \cup {Idle}]
           /\ \A v \in Workers \ {w} : uc'[v] = uc[v]
           /\ uc[w] \in Calls
           /\ uc'[w] \in Calls
           /\ uc'[w].pc = pc /\ uc'[w].id = id
           /\ uc'[w].op = uc[w].op /\ uc'[w].s = uc[w].s
           /\ uc'[w].l = uc[w].l /\ uc'[w].p = uc[w].p
  <1>1. uc[w] \in Calls
    BY DEF TypeOK
  <1> DEFINE c == [pc |-> pc, op |-> uc[w].op, s |-> uc[w].s, l |-> uc[w].l,
                   p |-> uc[w].p, id |-> id]
  <1>2. c \in Calls
    BY <1>1 DEF Calls
  <1>3. uc' = [uc EXCEPT ![w] = c]
    BY DEF Advance
  <1>4. uc'[w] = c /\ \A v \in Workers \ {w} : uc'[v] = uc[v]
    BY <1>3 DEF TypeOK
  <1>5. uc' \in [Workers -> Calls \cup {Idle}]
    BY <1>2, <1>3 DEF TypeOK
  <1> QED
    BY <1>1, <1>2, <1>4, <1>5

(* What the SELECT of an id returns. *)
LEMMA SelectedId ==
    ASSUME TypeOK, NEW found \in SUBSET DOMAIN clients, NEW r \in found \cup {NoId},
           SelectId(found, r)
    PROVE  /\ r \in Nat
           /\ errors' \in 0..MaxErrors
           /\ r # NoId => r \in found
           /\ r = NoId => found = {} \/ errors' # errors
  BY BoundsAssumption DEF SelectId, NoId, TypeOK

LEMMA AppendType ==
    ASSUME NEW S, NEW t \in Seq(S), NEW e \in S
    PROVE  Append(t, e) \in Seq(S) /\ DOMAIN t \subseteq DOMAIN Append(t, e)
  OBVIOUS

(* The table only grows. *)
LEMMA TableGrows ==
    ASSUME TypeOK, [Next]_vars
    PROVE  \A i \in DOMAIN clients : i \in DOMAIN clients' /\ clients'[i] = clients[i]
  <1>1. CASE UNCHANGED clients
    BY <1>1
  <1>2. CASE \E w \in Workers : RegInsert(w)
    <2>1. PICK w \in Workers : RegInsert(w)
      BY <1>2
    <2>2. CASE clients' = Append(clients, [login |-> uc[w].l, pw |-> uc[w].p])
      BY <2>2 DEF TypeOK
    <2> QED
      BY <1>1, <2>1, <2>2 DEF RegInsert
  <1> QED
    BY <1>1, <1>2 DEF Next, vars, UserRequest, UserStep, Reg, Auth, StartCall, RegLookup,
       RegReread, AuthCheck, Push, Answer, Crash, Boot, BootUsers, Connect, SelectId

------------------------------------------------------------------------------
LEMMA InitInv1 == Init => Inv1
  BY BoundsAssumption DEF Init, Inv1, TypeOK, CallOK, Idle, RegPcs, NoId

LEMMA RequestInv1 ==
    ASSUME Inv1, NEW w \in Workers, UserRequest(w)
    PROVE  Inv1'
  <1>1. PICK c \in Calls : /\ StartCall(w, c)
                          /\ c.id = NoId
                          /\ \/ c.pc = "lookup" /\ c.op = "reg"
                             \/ c.pc = "check" /\ c.op = "auth"
    BY DEF UserRequest, Reg, Auth, Calls, CallPcs, RegPcs, NoId
  <1>2. uc' = [uc EXCEPT ![w] = c] /\ uc'[w] = c /\ \A v \in Workers \ {w} : uc'[v] = uc[v]
    BY <1>1 DEF StartCall, Inv1, TypeOK
  <1>3. TypeOK'
    BY <1>1, <1>2, BoundsAssumption DEF Inv1, TypeOK, StartCall, historyVars
  <1>4. ASSUME NEW v \in Workers PROVE CallOK(v)'
    <2>1. clients' = clients
      BY <1>1 DEF StartCall
    <2>2. CASE v = w
      BY <1>1, <1>2, <2>2 DEF CallOK, RegPcs, NoId
    <2>3. CASE v # w
      BY <1>2, <2>1, <2>3 DEF Inv1, CallOK
    <2> QED
      BY <2>2, <2>3
  <1> QED
    BY <1>3, <1>4 DEF Inv1

(***************************************************************************)
(* A step of a call preserves Inv1 when it leaves the record of the call   *)
(* in order: the other calls still find the rows they have found.          *)
(***************************************************************************)
LEMMA AdvanceInv1 ==
    ASSUME Inv1, [Next]_vars, NEW w \in Workers, uc[w] # Idle,
           NEW pc \in CallPcs, NEW id \in Nat, Advance(w, pc, id),
           clients' \in Seq([login : Logins, pw : Passwords]),
           DOMAIN idClients' \subseteq DOMAIN clients',
           idClients' \in [DOMAIN idClients' -> Sessions],
           UNCHANGED <<server, started, crashes, told>>,
           errors' \in 0..MaxErrors, overlapped' \subseteq Logins, racedIds' \subseteq Nat,
           CallOK(w)'
    PROVE  Inv1'
  <1> USE DEF Inv1
  <1>1. TypeOK'
    BY CallAdvances DEF TypeOK
  <1>2. ASSUME NEW v \in Workers \ {w} PROVE CallOK(v)'
    <2>1. uc'[v] = uc[v] /\ CallOK(v)
      BY CallAdvances
    <2> QED
      BY <2>1, TableGrows DEF CallOK
  <1> QED
    BY <1>1, <1>2

LEMMA LookupInv1 ==
    ASSUME Inv1, NEW w \in Workers, RegLookup(w)
    PROVE  Inv1'
  <1>1. uc[w] \in Calls /\ uc[w] # Idle /\ uc[w].pc = "lookup" /\ CallOK(w)
    BY DEF Inv1, TypeOK, RegLookup, At, Idle
  <1>2. PICK r \in IdsOf(uc[w].l) \cup {NoId} :
             SelectId(IdsOf(uc[w].l), r) /\ Advance(w, AfterLookup(r), NoId)
    BY DEF RegLookup
  <1>3. AfterLookup(r) \in CallPcs /\ AfterLookup(r) \in {"insert", "answer"} /\ NoId \in Nat
    BY DEF AfterLookup, CallPcs, RegPcs, NoId
  <1>4. errors' \in 0..MaxErrors
    BY <1>2, SelectedId DEF Inv1, IdsOf
  <1>5. CallOK(w)'
    BY <1>1, <1>2, <1>3, CallAdvances DEF CallOK, RegPcs, Inv1
  <1>6. overlapped' \subseteq Logins
    BY <1>1 DEF RegLookup, Inv1, TypeOK, Calls
  <1> QED
    BY <1>1, <1>2, <1>3, <1>4, <1>5, <1>6, AdvanceInv1
       DEF RegLookup, Inv1, TypeOK, Next, UserStep

LEMMA InsertInv1 ==
    ASSUME Inv1, NEW w \in Workers, RegInsert(w)
    PROVE  Inv1'
  <1>1. uc[w] \in Calls /\ uc[w] # Idle /\ uc[w].pc = "insert" /\ CallOK(w)
    BY DEF Inv1, TypeOK, RegInsert, At, Idle
  <1>2. "reread" \in CallPcs /\ NoId \in Nat /\ Advance(w, "reread", NoId)
    BY DEF CallPcs, RegPcs, NoId, RegInsert
  <1>3. CallOK(w)'
    BY <1>1, <1>2, CallAdvances DEF CallOK, RegPcs, Inv1
  <1>4. [login |-> uc[w].l, pw |-> uc[w].p] \in [login : Logins, pw : Passwords]
    BY <1>1 DEF Calls
  <1>5. /\ clients' \in Seq([login : Logins, pw : Passwords])
        /\ DOMAIN clients \subseteq DOMAIN clients'
    <2> DEFINE row == [login |-> uc[w].l, pw |-> uc[w].p]
               Rows == [login : Logins, pw : Passwords]
    <2>1. clients \in Seq(Rows) /\ row \in Rows
      BY <1>4 DEF Inv1, TypeOK
    <2>2. clients' = Append(clients, row) \/ clients' = clients
      BY DEF RegInsert
    <2> HIDE DEF row, Rows
    <2>3. clients' \in Seq(Rows) /\ DOMAIN clients \subseteq DOMAIN clients'
      BY <2>1, <2>2, AppendType
    <2> QED
      BY <2>3 DEF Rows
  <1>6. errors' \in 0..MaxErrors /\ overlapped' \subseteq Logins
    BY <1>1, BoundsAssumption DEF RegInsert, Inv1, TypeOK, Calls
  <1> QED
    BY <1>1, <1>2, <1>3, <1>5, <1>6, AdvanceInv1
       DEF RegInsert, Inv1, TypeOK, Next, UserStep

LEMMA RereadInv1 ==
    ASSUME Inv1, NEW w \in Workers, RegReread(w)
    PROVE  Inv1'
  <1>1. uc[w] \in Calls /\ uc[w] # Idle /\ uc[w].pc = "reread" /\ CallOK(w)
    BY DEF Inv1, TypeOK, RegReread, At, Idle
  <1>2. PICK r \in IdsOf(uc[w].l) \cup {NoId} :
             SelectId(IdsOf(uc[w].l), r) /\ Advance(w, AfterId(r), r)
    BY DEF RegReread, RegisteredIds
  <1>3. /\ r \in Nat /\ errors' \in 0..MaxErrors
        /\ r # NoId => r \in DOMAIN clients /\ clients[r].login = uc[w].l
    BY <1>2, SelectedId DEF Inv1, IdsOf
  <1>4. AfterId(r) \in CallPcs /\ AfterId(r) \in {"push", "answer"}
        /\ (AfterId(r) = "push" <=> r # NoId)
    BY DEF AfterId, CallPcs, RegPcs
  <1>5. CallOK(w)'
    BY <1>1, <1>2, <1>3, <1>4, CallAdvances DEF CallOK, RegPcs, Inv1, RegReread
  <1> QED
    BY <1>1, <1>2, <1>3, <1>4, <1>5, AdvanceInv1
       DEF RegReread, historyVars, Inv1, TypeOK, Next, UserStep

LEMMA CheckInv1 ==
    ASSUME Inv1, NEW w \in Workers, AuthCheck(w)
    PROVE  Inv1'
  <1>1. uc[w] \in Calls /\ uc[w] # Idle /\ uc[w].pc = "check" /\ CallOK(w)
    BY DEF Inv1, TypeOK, AuthCheck, At, Idle
  <1>2. PICK r \in IdsOf(uc[w].l) \cup {NoId} :
             /\ SelectId(IdsOf(uc[w].l), r)
             /\ LET id == IF Accepted(r, uc[w].p) THEN r ELSE NoId
                IN  Advance(w, AfterId(id), id)
    BY DEF AuthCheck
  <1> DEFINE id == IF Accepted(r, uc[w].p) THEN r ELSE NoId
  <1>3. /\ id \in Nat /\ errors' \in 0..MaxErrors
        /\ id # NoId => /\ id \in DOMAIN clients
                        /\ clients[id].login = uc[w].l /\ clients[id].pw = uc[w].p
    BY <1>2, SelectedId DEF Inv1, IdsOf, Accepted, NoId
  <1>4. AfterId(id) \in CallPcs /\ AfterId(id) \in {"push", "answer"}
        /\ (AfterId(id) = "push" <=> id # NoId)
    BY DEF AfterId, CallPcs, RegPcs
  <1>5. Advance(w, AfterId(id), id)
    BY <1>2
  <1> HIDE DEF id
  <1>6. CallOK(w)'
    BY <1>1, <1>3, <1>4, <1>5, CallAdvances DEF CallOK, RegPcs, Inv1, AuthCheck
  <1> QED
    BY <1>1, <1>3, <1>4, <1>5, <1>6, AdvanceInv1
       DEF AuthCheck, historyVars, Inv1, TypeOK, Next, UserStep

LEMMA PushInv1 ==
    ASSUME Inv1, NEW w \in Workers, Push(w)
    PROVE  Inv1'
  <1>1. uc[w] \in Calls /\ uc[w] # Idle /\ uc[w].pc = "push" /\ CallOK(w)
    BY DEF Inv1, TypeOK, Push, At, Idle
  <1>2. "answer" \in CallPcs /\ uc[w].id \in Nat /\ Advance(w, "answer", uc[w].id)
    BY <1>1 DEF CallPcs, Push, Calls
  <1>3. CallOK(w)'
    BY <1>1, <1>2, CallAdvances DEF CallOK, RegPcs, Inv1, Push
  <1>4. /\ DOMAIN idClients' \subseteq DOMAIN clients
        /\ idClients' \in [DOMAIN idClients' -> Sessions]
    BY <1>1 DEF Push, Bind, CallOK, Inv1, TypeOK, Calls
  <1>5. racedIds' \subseteq Nat
    BY <1>1 DEF Push, Inv1, TypeOK, Calls
  <1> QED
    BY <1>1, <1>2, <1>3, <1>4, <1>5, AdvanceInv1
       DEF Push, boundVars, Inv1, TypeOK, Next, UserStep

LEMMA AnswerInv1 ==
    ASSUME Inv1, NEW w \in Workers, Answer(w)
    PROVE  Inv1'
  <1>1. uc[w] \in Calls
    BY DEF Inv1, TypeOK, Answer, At, Idle
  <1>2. told' \subseteq Answers
    BY <1>1 DEF Answer, Answers, Calls, Inv1, TypeOK
  <1>3. TypeOK'
    BY <1>2 DEF Answer, boundVars, Inv1, TypeOK
  <1>4. ASSUME NEW v \in Workers PROVE CallOK(v)'
    BY DEF Answer, Inv1, TypeOK, CallOK, Idle, RegPcs
  <1> QED
    BY <1>3, <1>4 DEF Inv1

LEMMA ProcessInv1 ==
    ASSUME Inv1, Crash \/ Boot
    PROVE  Inv1'
  <1>1. CASE Crash
    <2>1. uc' \in [Workers -> Calls \cup {Idle}]
      BY <1>1 DEF Crash
    <2>2. idClients' = [i \in {} |-> 0] /\ DOMAIN idClients' = {}
      BY <1>1 DEF Crash
    <2>3. idClients' \in [DOMAIN idClients' -> Sessions]
      BY <2>2
    <2>4. TypeOK'
      BY <1>1, <2>1, <2>2, <2>3, BoundsAssumption DEF Crash, Inv1, TypeOK
    <2>5. ASSUME NEW v \in Workers PROVE CallOK(v)'
      BY <1>1 DEF Crash, CallOK, Idle, RegPcs
    <2> QED
      BY <2>4, <2>5 DEF Inv1
  <1>2. CASE Boot
    BY <1>2 DEF Boot, BootUsers, Connect, historyVars, Inv1, TypeOK, CallOK
  <1> QED
    BY <1>1, <1>2

LEMMA NextInv1 == Inv1 /\ [Next]_vars => Inv1'
  <1>1. ASSUME Inv1, UNCHANGED vars PROVE Inv1'
    BY <1>1 DEF Inv1, TypeOK, CallOK, vars
  <1> QED
    BY <1>1, RequestInv1, LookupInv1, InsertInv1, RereadInv1, CheckInv1, PushInv1,
       AnswerInv1, ProcessInv1 DEF Next, UserStep

LEMMA Inv1Holds == Spec => []Inv1
  BY InitInv1, NextInv1, PTL DEF Spec

(***************************************************************************)
(* The tables, the UserManager and the calls in progress keep their types: *)
(* in particular every id in idClients_ is the id of a stored client.      *)
(***************************************************************************)
THEOREM TypeCorrect == Spec => []TypeOK
  BY Inv1Holds, PTL DEF Inv1

------------------------------------------------------------------------------
LEMMA InitTold == Init => ToldIdIsStored
  BY DEF Init, ToldIdIsStored

LEMMA NextTold == Inv1 /\ ToldIdIsStored /\ [Next]_vars => ToldIdIsStored'
  <1> SUFFICES ASSUME Inv1, ToldIdIsStored, [Next]_vars, NEW a \in told', a.id # NoId
               PROVE  (a.id \in IdsOf(a.l) /\ (a.op = "auth" => clients[a.id].pw = a.p))'
    BY DEF ToldIdIsStored
  <1>1. CASE a \in told
    <2>1. a.id \in DOMAIN clients /\ clients[a.id].login = a.l
          /\ (a.op = "auth" => clients[a.id].pw = a.p)
      BY <1>1 DEF ToldIdIsStored, IdsOf
    <2> QED
      BY <2>1, TableGrows DEF Inv1, IdsOf
  <1>2. CASE a \notin told
    <2>1. PICK w \in Workers : Answer(w)
      BY <1>2 DEF Next, vars, UserRequest, UserStep, Reg, Auth, StartCall, RegLookup,
         RegInsert, RegReread, AuthCheck, Push, Crash, Boot, BootUsers, Connect, historyVars
    <2>2. CallOK(w) /\ uc[w].pc = "answer"
      BY <2>1 DEF Answer, At, Inv1
    <2>3. a.id = uc[w].id /\ a.l = uc[w].l /\ a.op = uc[w].op /\ a.p = uc[w].p
          /\ UNCHANGED clients
      BY <1>2, <2>1 DEF Answer
    <2> QED
      BY <2>2, <2>3 DEF CallOK, IdsOf
  <1> QED
    BY <1>1, <1>2

(***************************************************************************)
(* No answer of reg or auth promises an account the table does not hold.   *)
(***************************************************************************)
THEOREM ToldStored == Spec => []ToldIdIsStored
  BY InitTold, NextTold, Inv1Holds, PTL DEF Spec

------------------------------------------------------------------------------
LEMMA InsertedIds ==
    ASSUME TypeOK, NEW row \in [login : Logins, pw : Passwords],
           clients' = Append(clients, row)
    PROVE  /\ clients'[Len(clients) + 1] = row
           /\ IdsOf(row.login)' = IdsOf(row.login) \cup {Len(clients) + 1}
           /\ \A l \in Logins \ {row.login} : IdsOf(l)' = IdsOf(l)
           /\ \A i \in DOMAIN clients : clients'[i] = clients[i]
  <1> DEFINE Rows == [login : Logins, pw : Passwords]
  <1>1. clients \in Seq(Rows) /\ row \in Rows
    BY DEF TypeOK
  <1> HIDE DEF Rows
  <1>2. /\ DOMAIN clients' = DOMAIN clients \cup {Len(clients) + 1}
        /\ Len(clients) + 1 \notin DOMAIN clients
        /\ clients'[Len(clients) + 1] = row
        /\ \A i \in DOMAIN clients : clients'[i] = clients[i]
    BY <1>1
  <1> QED
    BY <1>2 DEF IdsOf

LEMMA InitInv3 == Init => Inv3
  BY DEF Init, Inv3, OneRow, RowPassword, Handles, Idle, IdsOf

(* A step that leaves the table and the answers alone disturbs only its own call. *)
LEMMA QuietInv3 ==
    ASSUME NEW l \in Logins, OneRow(l), RowPassword(l), NEW w \in Workers,
           UNCHANGED <<clients, told>>,
           \A v \in Workers \ {w} : uc'[v] = uc[v],
           Handles(w, "insert", l)' =>
             IdsOf(l) = {} /\ \A v \in Workers \ {w} : ~Handles(v, "insert", l),
           ~Handles(w, "reread", l)',
           (Handles(w, "push", l) \/ Handles(w, "answer", l))' /\ uc'[w].id # NoId =>
             clients[uc'[w].id].pw = uc'[w].p
    PROVE  OneRow(l)' /\ RowPassword(l)'
  <1>1. IdsOf(l)' = IdsOf(l)
    BY DEF IdsOf
  <1>2. OneRow(l)'
    BY <1>1 DEF OneRow, Handles
  <1>3. RowPassword(l)'
    BY <1>1 DEF RowPassword, Handles
  <1> QED
    BY <1>2, <1>3

LEMMA LookupInv3 ==
    ASSUME Inv1, Inv3, NEW w \in Workers, RegLookup(w), NEW l \in Logins \ overlapped'
    PROVE  OneRow(l)' /\ RowPassword(l)'
  <1>1. uc[w] \in Calls /\ uc[w] # Idle /\ TypeOK
    BY DEF Inv1, TypeOK, RegLookup, At, Idle
  <1>2. PICK r \in IdsOf(uc[w].l) \cup {NoId} :
             /\ SelectId(IdsOf(uc[w].l), r) /\ Advance(w, AfterLookup(r), NoId)
             /\ overlapped' = IF \/ errors' # errors
                                 \/ AfterLookup(r) = "insert" /\ Overlap(w, uc[w].l)
                              THEN overlapped \cup {uc[w].l} ELSE overlapped
    BY DEF RegLookup
  <1>3. AfterLookup(r) \in CallPcs /\ AfterLookup(r) \in {"insert", "answer"} /\ NoId \in Nat
        /\ (AfterLookup(r) = "insert" <=> r = NoId)
    BY DEF AfterLookup, CallPcs, RegPcs, NoId
  <1>4. OneRow(l) /\ RowPassword(l)
    BY <1>2 DEF Inv3
  <1>5. Handles(w, "insert", l)' =>
          IdsOf(l) = {} /\ \A v \in Workers \ {w} : ~Handles(v, "insert", l)
    <2> SUFFICES ASSUME Handles(w, "insert", l)'
                 PROVE  IdsOf(l) = {} /\ \A v \in Workers \ {w} : ~Handles(v, "insert", l)
      OBVIOUS
    <2>1. uc[w].l = l /\ AfterLookup(r) = "insert" /\ r = NoId
      BY <1>1, <1>2, <1>3, CallAdvances DEF Handles
    <2>2. errors' = errors /\ ~Overlap(w, l)
      BY <1>2, <2>1
    <2>3. IdsOf(l) = {}
      BY <1>1, <1>2, <2>1, <2>2, SelectedId DEF IdsOf
    <2> QED
      BY <2>2, <2>3 DEF Overlap, Handles
  <1>6. ~Handles(w, "reread", l)' /\ uc'[w].id = NoId /\ \A v \in Workers \ {w} : uc'[v] = uc[v]
    BY <1>1, <1>2, <1>3, CallAdvances DEF Handles
  <1> QED
    BY <1>4, <1>5, <1>6, QuietInv3 DEF RegLookup

LEMMA RereadInv3 ==
    ASSUME Inv1, Inv3, NEW w \in Workers, RegReread(w), NEW l \in Logins \ overlapped'
    PROVE  OneRow(l)' /\ RowPassword(l)'
  <1>1. uc[w] \in Calls /\ uc[w] # Idle /\ TypeOK /\ uc[w].pc = "reread"
    BY DEF Inv1, TypeOK, RegReread, At, Idle
  <1>2. PICK r \in IdsOf(uc[w].l) \cup {NoId} : Advance(w, AfterId(r), r)
    BY DEF RegReread, RegisteredIds
  <1>3. AfterId(r) \in CallPcs /\ AfterId(r) \in {"push", "answer"} /\ r \in Nat
    BY <1>1, <1>2 DEF AfterId, CallPcs, RegPcs, NoId, IdsOf, TypeOK
  <1>4. OneRow(l) /\ RowPassword(l)
    BY DEF Inv3, RegReread, historyVars
  <1>5. /\ uc'[w].pc \in {"push", "answer"} /\ uc'[w].id = r
        /\ uc'[w].l = uc[w].l /\ uc'[w].p = uc[w].p
        /\ \A v \in Workers \ {w} : uc'[v] = uc[v]
    BY <1>1, <1>2, <1>3, CallAdvances
  <1>6. ASSUME uc[w].l = l, r # NoId PROVE clients[r].pw = uc[w].p
    <2>1. PICK i \in IdsOf(l) : clients[i].pw = uc[w].p
      BY <1>1, <1>4, <1>6 DEF RowPassword, Handles
    <2>2. r = i
      BY <1>2, <1>4, <1>6, <2>1 DEF OneRow
    <2> QED
      BY <2>1, <2>2
  <1> QED
    BY <1>4, <1>5, <1>6, QuietInv3 DEF RegReread, historyVars, Handles

LEMMA CheckInv3 ==
    ASSUME Inv1, Inv3, NEW w \in Workers, AuthCheck(w), NEW l \in Logins \ overlapped'
    PROVE  OneRow(l)' /\ RowPassword(l)'
  <1>1. uc[w] \in Calls /\ uc[w] # Idle /\ TypeOK
    BY DEF Inv1, TypeOK, AuthCheck, At, Idle
  <1>2. PICK id \in IdsOf(uc[w].l) \cup {NoId} :
             /\ Advance(w, AfterId(id), id)
             /\ id # NoId => clients[id].pw = uc[w].p
    BY DEF AuthCheck, Accepted, NoId
  <1>3. AfterId(id) \in CallPcs /\ AfterId(id) \in {"push", "answer"} /\ id \in Nat
    BY <1>1, <1>2 DEF AfterId, CallPcs, RegPcs, NoId, IdsOf, TypeOK
  <1>4. OneRow(l) /\ RowPassword(l)
    BY DEF Inv3, AuthCheck, historyVars
  <1>5. /\ uc'[w].pc \in {"push", "answer"} /\ uc'[w].id = id /\ uc'[w].p = uc[w].p
        /\ \A v \in Workers \ {w} : uc'[v] = uc[v]
    BY <1>1, <1>2, <1>3, CallAdvances
  <1> QED
    BY <1>2, <1>4, <1>5, QuietInv3 DEF AuthCheck, historyVars, Handles

LEMMA PushInv3 ==
    ASSUME Inv1, Inv3, NEW w \in Workers, Push(w), NEW l \in Logins \ overlapped'
    PROVE  OneRow(l)' /\ RowPassword(l)'
  <1>1. uc[w] \in Calls /\ uc[w] # Idle /\ TypeOK /\ uc[w].pc = "push"
    BY DEF Inv1, TypeOK, Push, At, Idle
  <1>2. "answer" \in CallPcs /\ uc[w].id \in Nat /\ Advance(w, "answer", uc[w].id)
    BY <1>1 DEF CallPcs, Push, Calls
  <1>3. OneRow(l) /\ RowPassword(l)
    BY DEF Inv3, Push
  <1>4. /\ uc'[w].pc = "answer" /\ uc'[w].id = uc[w].id
        /\ uc'[w].l = uc[w].l /\ uc'[w].p = uc[w].p
        /\ \A v \in Workers \ {w} : uc'[v] = uc[v]
    BY <1>1, <1>2, CallAdvances
  <1>5. Handles(w, "push", l) /\ uc[w].id # NoId => clients[uc[w].id].pw = uc[w].p
    BY <1>3 DEF RowPassword
  <1> QED
    BY <1>1, <1>3, <1>4, <1>5, QuietInv3 DEF Push, Handles

LEMMA RequestInv3 ==
    ASSUME Inv1, Inv3, NEW w \in Workers, UserRequest(w), NEW l \in Logins \ overlapped'
    PROVE  OneRow(l)' /\ RowPassword(l)'
  <1>1. PICK c : StartCall(w, c) /\ c.pc \in {"lookup", "check"}
    BY DEF UserRequest, Reg, Auth
  <1>2. uc'[w].pc \in {"lookup", "check"} /\ \A v \in Workers \ {w} : uc'[v] = uc[v]
    BY <1>1 DEF StartCall, Inv1, TypeOK
  <1>3. OneRow(l) /\ RowPassword(l)
    BY <1>1 DEF Inv3, StartCall, historyVars
  <1> QED
    BY <1>1, <1>2, <1>3, QuietInv3 DEF StartCall, historyVars, Handles

(* The only step that adds a row: it was the only one about to. *)
LEMMA InsertInv3 ==
    ASSUME Inv1, ToldIdIsStored, Inv3, NEW w \in Workers, RegInsert(w),
           NEW l \in Logins \ overlapped'
    PROVE  OneRow(l)' /\ RowPassword(l)'
  <1>1. uc[w] \in Calls /\ uc[w] # Idle /\ TypeOK /\ uc[w].pc = "insert"
    BY DEF Inv1, TypeOK, RegInsert, At, Idle
  <1>2. /\ uc'[w].pc = "reread" /\ uc'[w].l = uc[w].l /\ uc'[w].p = uc[w].p
        /\ \A v \in Workers \ {w} : uc'[v] = uc[v]
    BY <1>1, CallAdvances DEF RegInsert, CallPcs, RegPcs, NoId
  <1>3. OneRow(l) /\ RowPassword(l)
    BY DEF Inv3, RegInsert
  <1> DEFINE row == [login |-> uc[w].l, pw |-> uc[w].p]
  <1>4. row \in [login : Logins, pw : Passwords] /\ row.login = uc[w].l
    BY <1>1 DEF Calls
  <1>5. CASE uc[w].l # l
    <2>1. IdsOf(l)' = IdsOf(l) /\ \A i \in DOMAIN clients : clients'[i] = clients[i]
      BY <1>1, <1>4, <1>5, InsertedIds DEF RegInsert, IdsOf
    <2>2. OneRow(l)'
      BY <1>2, <1>3, <1>5, <2>1 DEF OneRow, Handles
    <2>3. \A v \in Workers : uc[v].pc \in {"push", "answer"} /\ uc[v].id # NoId =>
            uc[v].id \in DOMAIN clients
      BY DEF Inv1, CallOK
    <2>4. \A i \in IdsOf(l) : clients'[i] = clients[i]
      BY <2>1 DEF IdsOf
    <2>5. /\ \A v \in Workers : Handles(v, "reread", l)' => Handles(v, "reread", l) /\ uc'[v] = uc[v]
          /\ \A v \in Workers : (Handles(v, "push", l) \/ Handles(v, "answer", l))' =>
               uc'[v] = uc[v] /\ (Handles(v, "push", l) \/ Handles(v, "answer", l))
      BY <1>2, <1>5 DEF Handles
    <2>6. \A a \in told' : a.l = l /\ a.id # NoId => clients'[a.id].pw = a.p
      <3>1. told' = told
        BY DEF RegInsert
      <3> SUFFICES ASSUME NEW a \in told, a.l = l, a.id # NoId PROVE clients'[a.id].pw = a.p
        BY <3>1
      <3>2. a.id \in DOMAIN clients
        BY DEF ToldIdIsStored, IdsOf
      <3> QED
        BY <1>3, <2>1, <3>2 DEF RowPassword
    <2>7. RowPassword(l)'
      BY <1>3, <2>1, <2>3, <2>4, <2>5, <2>6 DEF RowPassword, Handles
    <2> QED
      BY <2>2, <2>7
  <1>6. CASE uc[w].l = l
    <2>1. clients' = Append(clients, row)
      BY <1>6 DEF RegInsert
    <2>2. IdsOf(l) = {} /\ \A v \in Workers \ {w} : ~Handles(v, "insert", l)
      BY <1>1, <1>3, <1>6 DEF OneRow, Handles
    <2>3. IdsOf(l)' = {Len(clients) + 1} /\ clients'[Len(clients) + 1] = row
      BY <1>1, <1>4, <1>6, <2>1, <2>2, InsertedIds
    <2>4. OneRow(l)'
      BY <1>2, <2>2, <2>3 DEF OneRow, Handles
    <2>5. \A v \in Workers \ {w} : ~Handles(v, "reread", l)
      BY <1>3, <2>2 DEF RowPassword
    <2>6. \A v \in Workers \ {w} :
            (Handles(v, "push", l) \/ Handles(v, "answer", l)) => uc[v].id = NoId
      BY <2>2 DEF Inv1, CallOK, Handles, IdsOf
    <2>7. \A a \in told : a.l = l => a.id = NoId
      BY <2>2 DEF ToldIdIsStored
    <2>8. RowPassword(l)'
      BY <1>2, <1>6, <2>3, <2>5, <2>6, <2>7 DEF RowPassword, Handles, RegInsert
    <2> QED
      BY <2>4, <2>8
  <1> QED
    BY <1>5, <1>6

LEMMA AnswerInv3 ==
    ASSUME Inv1, Inv3, NEW w \in Workers, Answer(w), NEW l \in Logins \ overlapped'
    PROVE  OneRow(l)' /\ RowPassword(l)'
  <1>1. OneRow(l) /\ RowPassword(l) /\ IdsOf(l)' = IdsOf(l) /\ UNCHANGED clients
    BY DEF Inv3, Answer, IdsOf
  <1>2. uc'[w].pc = "idle" /\ \A v \in Workers \ {w} : uc'[v] = uc[v]
    BY DEF Answer, Inv1, TypeOK, Idle
  <1>3. OneRow(l)'
    BY <1>1, <1>2 DEF OneRow, Handles
  <1>4. \A a \in told' : a.l = l /\ a.id # NoId => clients[a.id].pw = a.p
    BY <1>1 DEF Answer, At, RowPassword, Handles
  <1> QED
    BY <1>1, <1>2, <1>3, <1>4 DEF RowPassword, Handles

LEMMA ProcessInv3 ==
    ASSUME Inv3, Crash \/ Boot \/ UNCHANGED vars, NEW l \in Logins \ overlapped'
    PROVE  OneRow(l)' /\ RowPassword(l)'
  <1>1. OneRow(l) /\ RowPassword(l) /\ IdsOf(l)' = IdsOf(l) /\ UNCHANGED <<clients, told>>
    BY DEF Inv3, Crash, Boot, BootUsers, Connect, vars, historyVars, IdsOf
  <1>2. \A w \in Workers : uc'[w] = uc[w] \/ uc'[w].pc = "idle"
    BY DEF Crash, Boot, BootUsers, Connect, vars, Idle
  <1> QED
    BY <1>1, <1>2 DEF OneRow, RowPassword, Handles

LEMMA NextInv3 == Inv1 /\ ToldIdIsStored /\ Inv3 /\ [Next]_vars => Inv3'
  <1> SUFFICES ASSUME Inv1, ToldIdIsStored, Inv3, [Next]_vars, NEW l \in Logins \ overlapped'
               PROVE  OneRow(l)' /\ RowPassword(l)'
    BY DEF Inv3
  <1> QED
    BY RequestInv3, LookupInv3, InsertInv3, RereadInv3, CheckInv3, PushInv3, AnswerInv3,
       ProcessInv3 DEF Next, UserStep

LEMMA Inv3Holds == Spec => []Inv3
  BY InitInv3, NextInv3, ToldStored, Inv1Holds, PTL DEF Spec

(***************************************************************************)
(* A login has a second row only if registrations of it overlapped or a    *)
(* query of one failed: the three queries of checkRegUser are enough when  *)
(* nothing interferes.                                                     *)
(***************************************************************************)
THEOREM DuplicatesNeedOverlap == Spec => []DuplicateLoginNeedsOverlap
  <1>1. Inv1 /\ Inv3 => DuplicateLoginNeedsOverlap
    <2> SUFFICES ASSUME Inv1, Inv3, NEW i \in DOMAIN clients, NEW j \in DOMAIN clients,
                        i # j, clients[i].login = clients[j].login,
                        clients[i].login \notin overlapped
                 PROVE  FALSE
      BY DEF DuplicateLoginNeedsOverlap
    <2>1. clients[i].login \in Logins
      <3> DEFINE Rows == [login : Logins, pw : Passwords]
      <3>1. clients \in Seq(Rows)
        BY DEF Inv1, TypeOK
      <3> HIDE DEF Rows
      <3>2. clients[i] \in Rows
        BY <3>1
      <3> QED
        BY <3>2 DEF Rows
    <2> QED
      BY <2>1 DEF Inv3, OneRow, IdsOf
  <1> QED
    BY <1>1, Inv1Holds, Inv3Holds, PTL

(***************************************************************************)
(* Two passwords are accepted for one login only in the same case.         *)
(***************************************************************************)
THEOREM PasswordsAgree == Spec => []OnePasswordPerLogin
  <1>1. Inv1 /\ ToldIdIsStored /\ Inv3 => OnePasswordPerLogin
    <2> SUFFICES ASSUME Inv1, ToldIdIsStored, Inv3, NEW a \in told, NEW b \in told,
                        a.id # NoId, b.id # NoId, a.l = b.l, a.l \notin overlapped
                 PROVE  a.p = b.p
      BY DEF OnePasswordPerLogin
    <2>1. a.l \in Logins
      BY DEF Inv1, TypeOK, Answers
    <2>2. a.id = b.id
      BY <2>1 DEF Inv3, OneRow, ToldIdIsStored
    <2> QED
      BY <2>1, <2>2 DEF Inv3, RowPassword
  <1> QED
    BY <1>1, ToldStored, Inv1Holds, Inv3Holds, PTL

------------------------------------------------------------------------------
LEMMA InitInv4 == Init => Inv4
  BY DEF Init, Inv4, ToldIdIsKnown, Idle

LEMMA NextInv4 == Inv1 /\ Inv4 /\ [Next]_vars => Inv4'
  <1> SUFFICES ASSUME Inv1, Inv4, [Next]_vars PROVE Inv4'
    OBVIOUS
  <1>1. ASSUME NEW w \in Workers, UserRequest(w) PROVE Inv4'
    <2>1. PICK c : StartCall(w, c) /\ c.pc \in {"lookup", "check"}
      BY <1>1 DEF UserRequest, Reg, Auth
    <2>2. uc'[w].pc \in {"lookup", "check"} /\ \A v \in Workers \ {w} : uc'[v] = uc[v]
      BY <2>1 DEF StartCall, Inv1, TypeOK
    <2> QED
      BY <2>1, <2>2 DEF StartCall, historyVars, Inv4, ToldIdIsKnown
  <1>2. ASSUME NEW w \in Workers, RegLookup(w) \/ RegInsert(w) \/ RegReread(w) \/ AuthCheck(w)
        PROVE  Inv4'
    <2>1. uc[w] \in Calls /\ uc[w] # Idle /\ TypeOK
      BY <1>2 DEF Inv1, TypeOK, RegLookup, RegInsert, RegReread, AuthCheck, At, Idle
    <2>2. PICK pc \in CallPcs, id \in Nat :
             Advance(w, pc, id) /\ (pc = "answer" => id = NoId)
      <3>1. CASE RegLookup(w)
        BY <3>1 DEF RegLookup, AfterLookup, CallPcs, RegPcs, NoId
      <3>2. CASE RegInsert(w)
        BY <3>2 DEF RegInsert, CallPcs, RegPcs, NoId
      <3>3. CASE RegReread(w)
        <4>1. PICK r \in IdsOf(uc[w].l) \cup {NoId} : Advance(w, AfterId(r), r)
          BY <3>3 DEF RegReread, RegisteredIds
        <4>2. r \in Nat /\ AfterId(r) \in CallPcs /\ (AfterId(r) = "answer" => r = NoId)
          BY <2>1, <4>1 DEF IdsOf, NoId, AfterId, CallPcs, RegPcs, TypeOK
        <4> QED
          BY <4>1, <4>2
      <3>4. CASE AuthCheck(w)
        <4>1. PICK r \in IdsOf(uc[w].l) \cup {NoId} : Advance(w, AfterId(r), r)
          BY <3>4 DEF AuthCheck
        <4>2. r \in Nat /\ AfterId(r) \in CallPcs /\ (AfterId(r) = "answer" => r = NoId)
          BY <2>1, <4>1 DEF IdsOf, NoId, AfterId, CallPcs, RegPcs, TypeOK
        <4> QED
          BY <4>1, <4>2
      <3> QED
        BY <1>2, <3>1, <3>2, <3>3, <3>4
    <2>3. uc'[w].pc = pc /\ uc'[w].id = id /\ \A v \in Workers \ {w} : uc'[v] = uc[v]
      BY <2>1, <2>2, CallAdvances
    <2>4. UNCHANGED <<idClients, server, crashes, told, racedIds>>
      BY <1>2 DEF RegLookup, RegInsert, RegReread, AuthCheck, historyVars
    <2>5. server # "down"
      BY <2>1 DEF Inv4
    <2> QED
      BY <2>2, <2>3, <2>4, <2>5 DEF Inv4, ToldIdIsKnown
  <1>3. ASSUME NEW w \in Workers, Push(w) PROVE Inv4'
    <2>1. uc[w] \in Calls /\ uc[w] # Idle /\ TypeOK /\ uc[w].pc = "push"
      BY <1>3 DEF Inv1, TypeOK, Push, At, Idle
    <2>2. /\ uc'[w].id = uc[w].id
          /\ \A v \in Workers \ {w} : uc'[v] = uc[v]
      BY <1>3, <2>1, CallAdvances DEF Push, CallPcs, Calls
    <2>3. /\ DOMAIN idClients \cup racedIds \subseteq (DOMAIN idClients \cup racedIds)'
          /\ uc[w].id \in (DOMAIN idClients \cup racedIds)'
      BY <1>3 DEF Push, Bind
    <2>4. server # "down" /\ UNCHANGED <<server, crashes, told>>
      BY <1>3, <2>1 DEF Inv4, Push, boundVars
    <2> QED
      BY <2>2, <2>3, <2>4 DEF Inv4, ToldIdIsKnown
  <1>4. ASSUME NEW w \in Workers, Answer(w) PROVE Inv4'
    <2>1. uc'[w].pc = "idle" /\ (\A v \in Workers \ {w} : uc'[v] = uc[v]) /\ uc[w] # Idle
      BY <1>4 DEF Answer, At, Inv1, TypeOK, Idle
    <2>2. UNCHANGED <<idClients, server, crashes, racedIds>> /\ server # "down"
      BY <1>4, <2>1 DEF Answer, boundVars, Inv4
    <2>3. \A a \in told' \ told : a.id = uc[w].id /\ a.inc = crashes
      BY <1>4 DEF Answer
    <2>4. uc[w].id # NoId => uc[w].id \in DOMAIN idClients \cup racedIds
      BY <1>4 DEF Answer, At, Inv4
    <2>5. crashes \in Nat
      BY BoundsAssumption DEF Inv1, TypeOK
    <2> QED
      BY <2>1, <2>2, <2>3, <2>4, <2>5 DEF Inv4, ToldIdIsKnown
  <1>5. CASE Crash
    BY <1>5, BoundsAssumption DEF Crash, Inv1, TypeOK, Answers, Inv4, ToldIdIsKnown, Idle
  <1>6. CASE Boot
    <2>1. UNCHANGED <<told, crashes, uc>> /\ server = "down" /\ server' = "up"
      BY <1>6 DEF Boot, BootUsers, Connect, historyVars
    <2>2. \A a \in told : a.inc # crashes
      BY <2>1, BoundsAssumption DEF Inv4, Inv1, TypeOK, Answers
    <2>3. \A w \in Workers : uc[w].pc # "answer"
      BY <2>1 DEF Inv4, Idle
    <2> QED
      BY <2>1, <2>2, <2>3 DEF Inv4, ToldIdIsKnown
  <1>7. CASE UNCHANGED vars
    BY <1>7 DEF vars, Inv4, ToldIdIsKnown
  <1> QED
    BY <1>1, <1>2, <1>3, <1>4, <1>5, <1>6, <1>7 DEF Next, UserStep

(***************************************************************************)
(* Who was told an id by this process is found by the UserManager, unless  *)
(* its push raced another.                                                 *)
(***************************************************************************)
THEOREM ToldKnown == Spec => []ToldIdIsKnown
  <1>1. Inv4 => ToldIdIsKnown
    BY DEF Inv4
  <1> QED
    BY <1>1, InitInv4, NextInv4, Inv1Holds, PTL DEF Spec

------------------------------------------------------------------------------
LEMMA InitBound == Init => BoundSessionIsTold
  BY DEF Init, BoundSessionIsTold

LEMMA NextBound == Inv1 /\ BoundSessionIsTold /\ [Next]_vars => BoundSessionIsTold'
  <1> SUFFICES ASSUME Inv1, BoundSessionIsTold, [Next]_vars, NEW i \in DOMAIN idClients'
               PROVE  \/ \E a \in told' : a.s = idClients'[i] /\ a.id = i
                      \/ \E w \in Workers : /\ uc'[w].pc = "answer"
                                            /\ uc'[w].s = idClients'[i] /\ uc'[w].id = i
    BY DEF BoundSessionIsTold
  <1>1. told \subseteq told'
    BY DEF Next, vars, UserRequest, UserStep, Reg, Auth, StartCall, RegLookup, RegInsert,
       RegReread, AuthCheck, Push, Answer, Crash, Boot, BootUsers, Connect, historyVars
  <1>2. CASE i \in DOMAIN idClients /\ idClients'[i] = idClients[i]
    <2>1. CASE \E a \in told : a.s = idClients[i] /\ a.id = i
      BY <1>1, <1>2, <2>1
    <2>2. CASE \E w \in Workers : uc[w].pc = "answer" /\ uc[w].s = idClients[i] /\ uc[w].id = i
      <3>1. PICK w \in Workers : uc[w].pc = "answer" /\ uc[w].s = idClients[i] /\ uc[w].id = i
        BY <2>2
      <3>2. CASE Answer(w)
        <4> DEFINE a == [op |-> uc[w].op, s |-> uc[w].s, l |-> uc[w].l,
                         p |-> uc[w].p, id |-> uc[w].id, inc |-> crashes]
        <4>1. a \in told' /\ a.s = uc[w].s /\ a.id = uc[w].id
          BY <3>2 DEF Answer
        <4> QED
          BY <1>2, <3>1, <4>1
      <3>3. CASE uc'[w] = uc[w]
        BY <1>2, <3>1, <3>3
      <3>4. CASE Crash
        BY <3>4 DEF Crash
      <3>5. ASSUME NEW v \in Workers, UserRequest(v) \/ UserStep(v), ~Answer(w)
            PROVE  uc'[w] = uc[w]
        <4>1. uc[w] # Idle /\ (v = w => FALSE)
          BY <3>1, <3>5 DEF Idle, UserRequest, UserStep, Reg, Auth, StartCall, RegLookup,
             RegInsert, RegReread, AuthCheck, Push, At
        <4> QED
          BY <4>1, <3>5 DEF UserRequest, UserStep, Reg, Auth, StartCall, RegLookup, RegInsert,
             RegReread, AuthCheck, Push, Answer, Advance, Inv1, TypeOK
      <3> QED
        BY <3>2, <3>3, <3>4, <3>5 DEF Next, Boot, BootUsers, Connect, vars
    <2> QED
      BY <1>2, <2>1, <2>2 DEF BoundSessionIsTold
  <1>3. CASE ~(i \in DOMAIN idClients /\ idClients'[i] = idClients[i])
    <2>1. PICK w \in Workers : Push(w)
      BY <1>3 DEF Next, vars, UserRequest, UserStep, Reg, Auth, StartCall, RegLookup,
         RegInsert, RegReread, AuthCheck, Answer, Crash, Boot, BootUsers, Connect, historyVars
    <2>2. uc[w] \in Calls /\ uc[w] # Idle /\ TypeOK
      BY <2>1 DEF Inv1, TypeOK, Push, At, Idle
    <2>3. uc'[w].pc = "answer" /\ uc'[w].s = uc[w].s /\ uc'[w].id = uc[w].id
      BY <2>1, <2>2, CallAdvances DEF Push, CallPcs, Calls
    <2>4. i = uc[w].id /\ idClients'[i] = uc[w].s
      BY <1>3, <2>1 DEF Push, Bind
    <2> QED
      BY <2>3, <2>4
  <1> QED
    BY <1>2, <1>3

(***************************************************************************)
(* A session is bound only to ids that were told to it, or are about to be.*)
(***************************************************************************)
THEOREM BoundIsTold == Spec => []BoundSessionIsTold
  BY InitBound, NextBound, Inv1Holds, PTL DEF Spec

==============================================================================
