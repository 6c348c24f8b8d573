-------------------------------- MODULE PubSub --------------------------------
(***************************************************************************)
(* What the broker promises its peers, without pattern lists, tables or    *)
(* timers: a set of peers that are greeted, the expressions each of them   *)
(* has confirmed, and exactly which copies a publication produces.         *)
(***************************************************************************)
EXTENDS ZccpNetwork

VARIABLES
    running,    \* the service accepts requests
    online,     \* the peers that are greeted
    name,       \* the identifier each peer gave when it was greeted
    interest    \* interest[c]: the expressions that peer c has confirmed

service == <<running, online, name, interest>>
pubsubVars == <<service, channels>>

PubSubInit ==
    /\ NetworkInit
    /\ running = TRUE
    /\ online = {}
    /\ name = [c \in Clients |-> NoIdentifier]
    /\ interest = [c \in Clients |-> {}]

Receives(c, k) == running /\ TakeRequest(c) /\ Head(toServer[c]).id = k

(* Peer c is forgotten, with everything it had confirmed.                   *)
Forget(c) ==
    /\ online' = online \ {c}
    /\ name' = [name EXCEPT ![c] = NoIdentifier]
    /\ interest' = [interest EXCEPT ![c] = {}]
    /\ UNCHANGED running

Greet(c) ==
    /\ Receives(c, "HELLO") /\ c \notin online
    /\ online' = online \cup {c}
    /\ name' = [name EXCEPT ![c] = Head(toServer[c]).identifier]
    /\ SendReply(c, Plain("HELLO_OK"))
    /\ UNCHANGED <<running, interest>>

Confirm(c) ==
    /\ Receives(c, "SUBSCRIBE") /\ c \in online
    /\ interest' = [interest EXCEPT ![c] = @ \cup {Head(toServer[c]).expression}]
    /\ SendReply(c, Plain("SUBSCRIBE_OK"))
    /\ UNCHANGED <<running, online, name>>

(* Every greeted peer but the publisher gets one copy for each expression   *)
(* of its own that matches the address; nobody else gets anything.          *)
CopiesFor(s, a) == Cardinality({e \in interest[s] : a \in Matches[e]})

Relay(c) ==
    LET m == Head(toServer[c])
        copy == Deliver(name[c], m.address, NoHeaders, m.content)
    IN  /\ Receives(c, "PUBLISH") /\ c \in online
        /\ toClient' = [s \in Clients |->
                          IF s = c THEN toClient[s]
                          ELSE toClient[s] \o [k \in 1..CopiesFor(s, m.address) |-> copy]]
        /\ UNCHANGED service

Discard(c) ==
    /\ Receives(c, "DIRECT") /\ c \in online
    /\ UNCHANGED <<service, toClient>>

SignOff(c) ==
    /\ Receives(c, "GOODBYE")
    /\ SendReply(c, Plain("GOODBYE_OK"))
    /\ Forget(c)

(* A request that is not valid at this time ends the session.               *)
ValidRequests(c) == IF c \in online THEN {"SUBSCRIBE", "PUBLISH", "DIRECT", "GOODBYE"}
                                    ELSE {"HELLO", "GOODBYE"}

Reject(c) ==
    /\ running /\ TakeRequest(c)
    /\ Head(toServer[c]).id \notin ValidRequests(c) \cup {"UNDECODABLE"}
    /\ SendReply(c, Plain("INVALID"))
    /\ Forget(c)

TimeOut(c) == running /\ c \in online /\ Forget(c) /\ UNCHANGED channels

(* The service stops, at a request it cannot read or by command, and comes  *)
(* back knowing nobody.                                                     *)
Halt ==
    /\ running
    /\ \/ UNCHANGED channels
       \/ \E c \in Clients : Receives(c, "UNDECODABLE") /\ UNCHANGED toClient
    /\ running' = FALSE
    /\ online' = {}
    /\ name' = [c \in Clients |-> NoIdentifier]
    /\ interest' = [c \in Clients |-> {}]

Resume == ~running /\ running' = TRUE /\ UNCHANGED <<online, name, interest, channels>>

(* The peers' side of the streams is not constrained.                       *)
PeerMoves(c) ==
    /\ \/ \E m \in Requests : SendRequest(c, m) /\ UNCHANGED toClient
       \/ TakeReply(c) /\ UNCHANGED toServer
       \/ ~running /\ (LoseRequest(c) \/ LoseReply(c))
    /\ UNCHANGED service

PubSubNext ==
    \/ \E c \in Clients : \/ Greet(c) \/ Confirm(c) \/ Relay(c) \/ Discard(c)
                          \/ SignOff(c) \/ Reject(c) \/ TimeOut(c) \/ PeerMoves(c)
    \/ Halt
    \/ Resume

PubSubSpec == PubSubInit /\ [][PubSubNext]_pubsubVars
=============================================================================
