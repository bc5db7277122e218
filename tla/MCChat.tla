------------------------------- MODULE MCChat -------------------------------
(***************************************************************************)
(* Small instances of Chat for TLC.  A behaviour starts in the middle of   *)
(* another: alice and bob have registered, over sessions s1 and s2, and    *)
(* both have joined news, so that the bounded calls are spent on texts.    *)
(***************************************************************************)
EXTENDS Chat, TLC

CONSTANTS alice, bob, p1, s1, s2, news

Chatting ==
    /\ clients = <<[login |-> alice, pw |-> p1], [login |-> bob, pw |-> p1]>>
    /\ idClients = (1 :> s1 @@ 2 :> s2)
    /\ uc = [w \in Workers |-> Idle] /\ cc = [w \in Workers |-> Idle]
    /\ server = "up"
    /\ started = 0 /\ errors = 0 /\ crashes = 0
    /\ told = {[op |-> "reg", s |-> s1, l |-> alice, p |-> p1, id |-> 1, inc |-> 0],
               [op |-> "reg", s |-> s2, l |-> bob, p |-> p1, id |-> 2, inc |-> 0]}
    /\ overlapped = {} /\ racedIds = {}
    /\ channels = <<news>> /\ subscriptions = {<<1, 1>>, <<2, 1>>}
    /\ objects = <<[name |-> news, id |-> 1, users |-> {1, 2}]>>
    /\ idChannels = (1 :> 1) /\ mutex = NoWorker
    /\ asked = {<<1, news>>, <<2, news>>}
    /\ acked = {[s |-> s1, u |-> 1, n |-> news, inc |-> 0],
                [s |-> s2, u |-> 2, n |-> news, inc |-> 0]}
    /\ overlappedNames = {} /\ missing = {}
    /\ history = {} /\ arg = [w \in Workers |-> NoArg]
    /\ sent = {} /\ echoed = {} /\ shown = {} /\ listed = {} /\ clashed = {}

ChattingSpec == Chatting /\ [][HNext]_hvars /\ \A w \in Workers : WF_hvars(HStep(w))

HSymmetry == Permutations(Workers)

==============================================================================
