-------------------------- MODULE ZccpServer_proofs --------------------------
(***************************************************************************)
(* Proofs about the broker among arbitrary peers (ZccpServerPeers), for    *)
(* any sets of clients, expressions, addresses and contents and any bounds *)
(* on the streams.                                                         *)
(***************************************************************************)
EXTENDS ZccpServerPeers, ZccpServerLemmas

(* Every handler, and every move of the peers and the streams, preserves    *)
(* the invariant.                                                           *)
THEOREM InvStep == ServerInv /\ [Next]_serverVars => ServerInv'
<1> SUFFICES ASSUME ServerInv, [Next]_serverVars PROVE ServerInv'
  OBVIOUS
<1>0. NetworkTypeOK /\ StateInv
  BY DEF ServerInv
<1>1. ASSUME NEW c \in Clients, PeerSends(c)  PROVE ServerInv'
  <2>1. PICK m \in Requests : SendRequest(c, m)
    BY <1>1 DEF PeerSends
  <2>2. Append(toServer[c], m) \in Seq(Requests)
    BY <1>0, AppendProperties DEF NetworkTypeOK
  <2>3. NetworkTypeOK'
    BY <1>0, <1>1, <2>1, <2>2 DEF PeerSends, SendRequest, NetworkTypeOK
  <2> QED  BY <1>0, <1>1, <2>3, StateUnchanged DEF PeerSends, serverState, ServerInv
<1>2. ASSUME NEW c \in Clients, TakeReply(c), UNCHANGED <<serverState, toServer>>
       PROVE  ServerInv'
  <2>1. toClient[c] \in Seq(Replies) /\ toClient[c] # <<>>
    BY <1>0, <1>2 DEF NetworkTypeOK, TakeReply
  <2>2. Tail(toClient[c]) \in Seq(Replies)
    BY <2>1, HeadTailProperties
  <2>3. NetworkTypeOK'
    BY <1>0, <1>2, <2>2 DEF TakeReply, NetworkTypeOK
  <2> QED  BY <1>0, <1>2, <2>3, StateUnchanged DEF serverState, ServerInv
<1>3. CASE UNCHANGED serverVars
  BY <1>0, <1>3, StateUnchanged
     DEF serverVars, serverState, channels, ServerInv, NetworkTypeOK
<1> QED
  BY <1>1, <1>2, <1>3, BrokerStep DEF Next, PeerReceives

(* The invariant holds in every state of the broker.                        *)
THEOREM InvAlways == ServerSpec => []ServerInv
<1> QED  BY InvInit, InvStep, PTL DEF ServerSpec

(* The state of the broker and the streams is always well formed.           *)
THEOREM TypeCorrect == ServerSpec => []ServerTypeOK
<1>1. ServerInv => ServerTypeOK
  BY DEF ServerInv, StateInv, ServerTypeOK
<1> QED  BY <1>1, InvAlways, PTL

(* No list of the broker refers to a client record that was destroyed.      *)
THEOREM NoDanglingSubscriber == ServerSpec => []SubscribersRegistered
<1>1. ServerInv => SubscribersRegistered
  BY DEF ServerInv, StateInv, ListsSound
<1> QED  BY <1>1, InvAlways, PTL

(* store_new_subscription makes one pattern of each expression.             *)
THEOREM OnePatternEach == ServerSpec => []DistinctPatterns
<1>1. ServerInv => DistinctPatterns
  BY DEF ServerInv, StateInv, ListsSound
<1> QED  BY <1>1, InvAlways, PTL

(* A client is at most once on the list of a pattern, however often it      *)
(* subscribes, leaves and returns.                                          *)
THEOREM OneEntryEach == ServerSpec => []NoDuplicateSubscribers
<1>1. ServerInv => NoDuplicateSubscribers
  BY DEF ServerInv, StateInv, ListsSound
<1> QED  BY <1>1, InvAlways, PTL

-----------------------------------------------------------------------------
(* A client whose record lives through a step keeps its subscriptions.      *)
THEOREM KeepsSubscriptions == ServerSpec => SubscriptionsKept
<1> DEFINE Kept == \A c \in clients \cap clients' : Subscriptions(c) \subseteq Subscriptions(c)'
<1>1. ServerInv /\ [Next]_serverVars => [Kept]_serverVars
  <2> SUFFICES ASSUME ServerInv, Next, NEW x \in clients \cap clients'
               PROVE  Subscriptions(x) \subseteq Subscriptions(x)'
    OBVIOUS
  <2>0. NetworkTypeOK /\ StateInv /\ x \in Clients
    BY DEF ServerInv, StateInv
  <2>1. ASSUME NEW c \in Clients, s_client_destroy(c)
        PROVE  Subscriptions(x) \subseteq Subscriptions(x)'
    <3>1. x # c
      BY <2>1 DEF s_client_destroy
    <3> QED  BY <2>0, <2>1, <3>1, DestroyEffect
  <2>2. ASSUME NEW c \in Clients, HandleSubscribe(c)
        PROVE  Subscriptions(x) \subseteq Subscriptions(x)'
    <3>1. Request(c).expression \in Exprs
      BY <2>0, <2>2, TakeRequestType, RequestShape DEF HandleSubscribe, Handles
    <3> QED  BY <2>0, <2>2, <3>1, StoreEffect DEF HandleSubscribe
  <2>3. CASE ReactorEnds
    BY <2>3 DEF ReactorEnds
  <2>4. CASE UNCHANGED patterns
    BY <2>4 DEF Subscriptions
  <2> QED
    BY <2>1, <2>2, <2>3, <2>4
       DEF Next, ServerNext, HandleMessage, HandleHello, HandlePublish, HandleDirect,
           HandleGoodbye, HandleInvalid, HandleUndecodable, HandleTimeout, ServerStop,
           ServerStart, PeerSends, PeerReceives, MessageLost, serverState
<1> QED  BY <1>1, InvAlways, PTL DEF ServerSpec, SubscriptionsKept

-----------------------------------------------------------------------------
(* The broker implements the service.                                       *)

interestOf == [c \in Clients |-> Subscriptions(c)]

(* The streams of the service are those of the broker.                      *)
LEMMA SameNetwork ==
    /\ Service!channels = channels
    /\ Service!Requests = Requests
    /\ \A c \in Clients : /\ Service!TakeRequest(c) <=> TakeRequest(c)
                          /\ Service!TakeReply(c) <=> TakeReply(c)
                          /\ Service!LoseRequest(c) <=> LoseRequest(c)
                          /\ Service!LoseReply(c) <=> LoseReply(c)
    /\ \A c \in Clients : \A m : /\ Service!SendRequest(c, m) <=> SendRequest(c, m)
                                 /\ Service!SendReply(c, m) <=> SendReply(c, m)
    /\ \A k : Service!Plain(k) = Plain(k)
    /\ \A s, a, h, b : Service!Deliver(s, a, h, b) = Deliver(s, a, h, b)
BY DEF Service!channels, channels, Service!Requests, Requests, Service!PlainRequests,
       PlainRequests, Service!TakeRequest, TakeRequest, Service!TakeReply, TakeReply,
       Service!LoseRequest, LoseRequest, Service!LoseReply, LoseReply,
       Service!SendRequest, SendRequest, Service!SendReply, SendReply,
       Service!Plain, Plain, Service!Deliver, Deliver

(* The instance counts sets as the broker's module does.                    *)
LEMMA SameCardinality ==
    ASSUME NEW S
    PROVE  Service!Cardinality(S) = Cardinality(S)
BY DEF Service!Cardinality, Cardinality

(* A request of kind k that the broker handles is one the service receives. *)
LEMMA HandlesReceives ==
    ASSUME NEW c \in Clients, NEW k
    PROVE  Handles(c, k) <=> Service!Receives(c, k)
BY SameNetwork DEF Handles, Request, Service!Receives

(* The broker starts as the service does.                                   *)
THEOREM ServiceInit == ServerInit => Service!PubSubInit
<1> SUFFICES ASSUME ServerInit PROVE Service!PubSubInit
  OBVIOUS
<1>1. \A c \in Clients : Subscriptions(c) = {}
  BY DEF ServerInit, Subscriptions
<1> QED  BY <1>1 DEF ServerInit, NetworkInit, Service!PubSubInit, Service!NetworkInit

(* A handler that destroys the record of c makes the service forget c.      *)
LEMMA DestroyForgets ==
    ASSUME StateInv, NEW c \in Clients, s_client_destroy(c)
    PROVE  Service!Forget(c)
<1>1. interestOf' = [interestOf EXCEPT ![c] = {}]
  BY DestroyEffect DEF interestOf
<1> QED  BY <1>1 DEF s_client_destroy, Service!Forget, interestOf

(* Every handler, and every move of the peers and the streams, is a step of *)
(* the service, or leaves it as it is.                                      *)
THEOREM ServiceStep == ServerInv /\ [Next]_serverVars => [Service!PubSubNext]_Service!pubsubVars
<1> SUFFICES ASSUME ServerInv, [Next]_serverVars
             PROVE  [Service!PubSubNext]_Service!pubsubVars
  OBVIOUS
<1>0. NetworkTypeOK /\ StateInv
  BY DEF ServerInv
<1>a. UNCHANGED patterns => interestOf' = interestOf
  BY DEF interestOf, Subscriptions
<1>b. UNCHANGED serverState => UNCHANGED Service!service
  BY <1>a DEF serverState, Service!service, interestOf
<1>1. ASSUME NEW c \in Clients, HandleHello(c)  PROVE Service!Greet(c)
  <2>1. Service!Receives(c, "HELLO") /\ Service!SendReply(c, Service!Plain("HELLO_OK"))
    BY <1>1, SameNetwork, HandlesReceives DEF HandleHello
  <2> QED  BY <1>1, <1>a, <2>1 DEF HandleHello, Request, Service!Greet, interestOf
<1>2. ASSUME NEW c \in Clients, HandleSubscribe(c)  PROVE Service!Confirm(c)
  <2>1. Request(c).expression \in Exprs
    BY <1>0, <1>2, TakeRequestType, RequestShape DEF HandleSubscribe, Handles
  <2>2. interestOf' = [interestOf EXCEPT ![c] = @ \cup {Request(c).expression}]
    <3>1. \A x \in Clients :
             Subscriptions(x)' = Subscriptions(x) \cup (IF x = c THEN {Request(c).expression}
                                                              ELSE {})
      BY <1>0, <1>2, <2>1, StoreEffect DEF HandleSubscribe
    <3> DEFINE e == Request(c).expression
    <3> HIDE DEF e
    <3> QED  BY <3>1 DEF interestOf, e
  <2>3. Service!Receives(c, "SUBSCRIBE") /\ Service!SendReply(c, Service!Plain("SUBSCRIBE_OK"))
    BY <1>2, SameNetwork, HandlesReceives DEF HandleSubscribe
  <2> QED  BY <1>2, <2>2, <2>3 DEF HandleSubscribe, Request, Service!Confirm, interestOf
<1>3. ASSUME NEW c \in Clients, HandlePublish(c)  PROVE Service!Relay(c)
  <2> DEFINE m == Head(toServer[c])
             copy == Service!Deliver(identifier[c], m.address, NoHeaders, m.content)
  <2>1. ASSUME NEW s \in Clients, NEW a
        PROVE  Service!CopiesFor(s, a) = Cardinality(Places(s, a))
    <3>1. Service!CopiesFor(s, a) = Cardinality({e \in Subscriptions(s) : a \in Matches[e]})
      BY SameCardinality DEF Service!CopiesFor
    <3> QED  BY <1>0, <3>1, PlacesCount DEF Matching
  <2>2. copy = get_content_to_publish(c, m)
    BY SameNetwork DEF get_content_to_publish
  <2>3. toClient' = [s \in Clients |->
                       IF s = c THEN toClient[s]
                       ELSE toClient[s] \o [k \in 1..Service!CopiesFor(s, m.address) |-> copy]]
    <3>1. toClient' = [s \in Clients |->
                       IF s = c THEN toClient[s]
                       ELSE toClient[s] \o [k \in 1..Cardinality(Places(s, m.address)) |-> copy]]
      BY <1>3, <2>2 DEF HandlePublish, forward_to_subscribers, Request
    <3> HIDE DEF copy, m
    <3> QED  BY <2>1, <3>1
  <2>4. Service!Receives(c, "PUBLISH") /\ c \in clients
    BY <1>3, HandlesReceives DEF HandlePublish
  <2>5. UNCHANGED Service!service
    BY <1>3, <1>b DEF HandlePublish
  <2> QED  BY <2>3, <2>4, <2>5 DEF Service!Relay
<1>4. ASSUME NEW c \in Clients, HandleDirect(c)  PROVE Service!Discard(c)
  BY <1>4, <1>b, HandlesReceives DEF HandleDirect, Service!Discard
<1>5. ASSUME NEW c \in Clients, HandleGoodbye(c)  PROVE Service!SignOff(c)
  BY <1>0, <1>5, DestroyForgets, SameNetwork, HandlesReceives
     DEF HandleGoodbye, Service!SignOff
<1>6. ASSUME NEW c \in Clients, HandleInvalid(c)  PROVE Service!Reject(c)
  BY <1>0, <1>6, DestroyForgets, SameNetwork
     DEF HandleInvalid, Request, Accepted, Service!Reject, Service!ValidRequests
<1>7. ASSUME NEW c \in Clients, HandleTimeout(c)  PROVE Service!TimeOut(c)
  BY <1>0, <1>7, DestroyForgets
     DEF HandleTimeout, channels, Service!TimeOut, Service!channels
<1>8. ReactorEnds => /\ interestOf' = [c \in Clients |-> {}]
                     /\ up' = FALSE /\ clients' = {}
                     /\ identifier' = [c \in Clients |-> NoIdentifier]
  BY DEF ReactorEnds, interestOf, Subscriptions
<1>9. ASSUME NEW c \in Clients, HandleUndecodable(c)  PROVE Service!Halt
  <2>1. up /\ Service!Receives(c, "UNDECODABLE") /\ ReactorEnds /\ UNCHANGED toClient
    BY <1>9, HandlesReceives DEF HandleUndecodable, Handles
  <2> QED  BY <1>8, <2>1 DEF Service!Halt, interestOf
<1>10. CASE ServerStop
  <2>1. Service!Halt
    BY <1>8, <1>10 DEF ServerStop, channels, Service!Halt, Service!channels, interestOf
  <2> QED  BY <2>1 DEF Service!PubSubNext
<1>11. CASE ServerStart
  <2>1. Service!Resume
    BY <1>11, <1>a DEF ServerStart, channels, Service!Resume, Service!channels, interestOf
  <2> QED  BY <2>1 DEF Service!PubSubNext
<1>12. ASSUME NEW c \in Clients, PeerSends(c) \/ PeerReceives(c) \/ MessageLost(c)
       PROVE  Service!PeerMoves(c)
  BY <1>12, <1>b, SameNetwork DEF PeerSends, PeerReceives, MessageLost, serverState,
                                  Service!PeerMoves
<1>13. CASE UNCHANGED serverVars
  BY <1>13, <1>b DEF serverVars, channels, Service!pubsubVars, Service!channels
<1> QED
  BY <1>1, <1>2, <1>3, <1>4, <1>5, <1>6, <1>7, <1>9, <1>10, <1>11, <1>12, <1>13
     DEF Next, ServerNext, HandleMessage, Service!PubSubNext

(* The broker, whatever its peers send, does what the service states.       *)
THEOREM BrokerImplementsService == ServerSpec => ImplementsService
<1> QED  BY InvAlways, ServiceInit, ServiceStep, PTL
         DEF ServerSpec, ImplementsService, Service!PubSubSpec
=============================================================================
