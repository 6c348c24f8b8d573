---------------------------- MODULE ZccpServerPeers ----------------------------
(***************************************************************************)
(* The broker among arbitrary ZCCP peers, which may send any message at    *)
(* any time, as the raw DEALER sockets of zccp_server_test do.             *)
(***************************************************************************)
EXTENDS ZccpServer

CONSTANTS
    MaxRequests,    \* a peer sends only while it has fewer requests in flight
    MaxReplies      \* peers send only while no peer has more replies unread

PeerSends(c) ==
    /\ Len(toServer[c]) < MaxRequests
    /\ \A s \in Clients : Len(toClient[s]) <= MaxReplies
    /\ \E m \in Requests : SendRequest(c, m)
    /\ UNCHANGED <<serverState, toClient>>

PeerReceives(c) == TakeReply(c) /\ UNCHANGED <<serverState, toServer>>

Next ==
    \/ ServerNext
    \/ \E c \in Clients : PeerSends(c) \/ PeerReceives(c) \/ MessageLost(c)

ServerSpec == ServerInit /\ [][Next]_serverVars

-----------------------------------------------------------------------------
(* As long as its record lives, no request, timeout or termination of       *)
(* another client makes a client lose a subscription.                       *)
SubscriptionsKept ==
    [][\A c \in clients \cap clients' : Subscriptions(c) \subseteq Subscriptions(c)']_serverVars

(* The broker implements the service: the table and lists are refined to    *)
(* the sets online and interest, step by step, so each publication yields   *)
(* exactly the copies that Relay states.                                    *)
Service == INSTANCE PubSub WITH
    running <- up, online <- clients, name <- identifier,
    interest <- [c \in Clients |-> Subscriptions(c)]

ImplementsService == Service!PubSubSpec

-----------------------------------------------------------------------------
(* "When we're forwarding a message, we need these", the headers among      *)
(* them: a copy carries the headers of the publication.                     *)
CopiesCarryHeaders ==
    [][\A c, s \in Clients :
          (HandlePublish(c) /\ Len(toClient'[s]) > Len(toClient[s]))
              => Last(toClient'[s]).headers = Request(c).headers]_serverVars
=============================================================================
