------------------------------- MODULE Storage -------------------------------
(***************************************************************************)
(* Storage, the IDatabase in memory: each of its operations is one step,   *)
(* on maps that are never at odds with each other.  No part of the server  *)
(* uses it; it says what the engine expects of a store, and Chat is        *)
(* compared with it.                                                       *)
(***************************************************************************)
EXTENDS Naturals

CONSTANTS
    Keys,       \* the ids that generator_ gives
    Logins, Passwords, Names, Messages

VARIABLES
    users,          \* nameIdUsers_ and nameSettingsUsers_: id -> [login, pw]
    channels,       \* nameIdChannels_: id -> name
    clientChannels, \* clientChannels_: pairs of an id and a name
    history         \* history_: pairs of a channel id and a message

stVars == <<users, channels, clientChannels, history>>

Add(map, id, value) ==
    [i \in DOMAIN map \cup {id} |-> IF i = id THEN value ELSE map[i]]

NameIsTaken(l) == \E i \in DOMAIN users : users[i].login = l
hasChannel(n) == \E k \in DOMAIN channels : channels[k] = n

checkRegUser(l, p, id) ==
    /\ ~NameIsTaken(l) /\ id \notin DOMAIN users
    /\ users' = Add(users, id, [login |-> l, pw |-> p])
    /\ UNCHANGED <<channels, clientChannels, history>>

createChannel(n, id) ==
    /\ ~hasChannel(n) /\ id \notin DOMAIN channels
    /\ channels' = Add(channels, id, n)
    /\ UNCHANGED <<users, clientChannels, history>>

(* What the queries return: 0 is AUTH_LOGIN_IS_NOT_AVAILABLE. *)
checkAuthUser(l, p) ==
    IF \E i \in DOMAIN users : users[i] = [login |-> l, pw |-> p]
    THEN CHOOSE i \in DOMAIN users : users[i] = [login |-> l, pw |-> p]
    ELSE 0

getHistory(k) == {x[2] : x \in {x \in history : x[1] = k}}

joinClientChannel(u, n) ==
    /\ clientChannels' = clientChannels \cup {<<u, n>>}
    /\ UNCHANGED <<users, channels, history>>

addMsgHistory(k, m) ==
    /\ history' = history \cup {<<k, m>>}
    /\ UNCHANGED <<users, channels, clientChannels>>

StorageInit ==
    /\ users = [i \in {} |-> 0] /\ channels = [k \in {} |-> 0]
    /\ clientChannels = {} /\ history = {}

StorageNext ==
    \E id \in Keys :
        \/ \E l \in Logins, p \in Passwords : checkRegUser(l, p, id)
        \/ \E n \in Names : createChannel(n, id) \/ joinClientChannel(id, n)
        \/ \E m \in Messages : addMsgHistory(id, m)

StorageSpec == StorageInit /\ [][StorageNext]_stVars

==============================================================================
