---------------------------- MODULE RequestReply ----------------------------
(***************************************************************************)
(* What the server promises to its clients: a request is answered once, on *)
(* the connection it came from, unless the client is cut off first.        *)
(***************************************************************************)
EXTENDS Naturals, Sequences

CONSTANTS Clients, Requests

VARIABLES
    asked,      \* asked[c]: the requests that client c has sent
    replies,    \* replies[c]: the requests of the answers sent to c, in order
    cut         \* the clients that are cut off

rrVars == <<asked, replies, cut>>

Replied(c) == {replies[c][i] : i \in DOMAIN replies[c]}

RRInit ==
    /\ asked = [c \in Clients |-> {}]
    /\ replies = [c \in Clients |-> <<>>]
    /\ cut = {}

Ask(c, r) ==
    /\ c \notin cut /\ \A d \in Clients : r \notin asked[d]
    /\ asked' = [asked EXCEPT ![c] = @ \cup {r}]
    /\ UNCHANGED <<replies, cut>>

Reply(c, r) ==
    /\ c \notin cut /\ r \in asked[c] \ Replied(c)
    /\ replies' = [replies EXCEPT ![c] = Append(@, r)]
    /\ UNCHANGED <<asked, cut>>

CutOff(c) ==
    /\ cut' = cut \cup {c}
    /\ UNCHANGED <<asked, replies>>

RRNext ==
    \E c \in Clients : CutOff(c) \/ \E r \in Requests : Ask(c, r) \/ Reply(c, r)

RRSafety == RRInit /\ [][RRNext]_rrVars

=============================================================================
