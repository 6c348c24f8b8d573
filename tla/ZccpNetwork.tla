----------------------------- MODULE ZccpNetwork -----------------------------
(***************************************************************************)
(* The protocol messages of ZCCP and the two message streams between the   *)
(* broker and each peer.                                                   *)
(*                                                                         *)
(* A peer is named by the routing id that the broker's ROUTER socket gives *)
(* to its connection.  toServer[c] is the stream from the DEALER socket of *)
(* peer c to the broker, toClient[c] the stream back.  ZeroMQ keeps the    *)
(* order within a stream.  The ROUTER is unbounded (zsock_set_unbounded);  *)
(* a DEALER is not: what that does to its owner is in ZccpSystem.          *)
(***************************************************************************)
EXTENDS Integers, Sequences, FiniteSets

CONSTANTS
    Clients,        \* routing ids
    Exprs,          \* subscription expressions
    Addresses,      \* logical addresses of publications
    Matches,        \* Matches[e]: the addresses that zrex matches with e
    Identifiers,    \* what a HELLO may carry as client identifier
    NoIdentifier,   \* the empty identifier
    Headers,        \* header dictionaries
    NoHeaders,      \* the absent header dictionary
    Contents        \* message bodies

ASSUME NetworkAssumption ==
    /\ Matches \in [Exprs -> SUBSET Addresses]
    /\ NoIdentifier \in Identifiers
    /\ NoHeaders \in Headers

VARIABLES toServer, toClient

channels == <<toServer, toClient>>

-----------------------------------------------------------------------------
(* Requests and replies.  "UNDECODABLE" is any frame for which              *)
(* zccp_msg_recv returns NULL.  The plain messages carry nothing that their *)
(* receiver reads.                                                          *)

Hello(i)          == [id |-> "HELLO", identifier |-> i]
Subscribe(e)      == [id |-> "SUBSCRIBE", expression |-> e]
Publish(a, h, b)  == [id |-> "PUBLISH", address |-> a, headers |-> h, content |-> b]
Deliver(s, a, h, b) ==
    [id |-> "DELIVER", sender |-> s, address |-> a, headers |-> h, content |-> b]
Plain(k)          == [id |-> k]

(* A DIRECT that the broker receives is dropped unread, and a peer that     *)
(* sends a reply message back to the broker is refused whatever it holds.   *)
(* The broker of this repository sends no SUBSCRIBE, PUBLISH or DIRECT, but *)
(* the client accepts them from a server, and reads none of their fields.   *)
PlainRequests == {"DIRECT", "GOODBYE", "HELLO_OK", "SUBSCRIBE_OK", "DELIVER",
                  "GOODBYE_OK", "PING", "PING_OK", "INVALID", "UNDECODABLE"}
PlainReplies  == {"HELLO_OK", "SUBSCRIBE", "SUBSCRIBE_OK", "PUBLISH", "DIRECT",
                  "GOODBYE_OK", "PING", "INVALID", "UNDECODABLE"}

Requests ==
    [id : {"HELLO"}, identifier : Identifiers]
      \cup [id : {"SUBSCRIBE"}, expression : Exprs]
      \cup [id : {"PUBLISH"}, address : Addresses, headers : Headers, content : Contents]
      \cup [id : PlainRequests]

Replies ==
    [id : {"DELIVER"}, sender : Identifiers, address : Addresses,
           headers : Headers, content : Contents]
      \cup [id : PlainReplies]

NetworkTypeOK ==
    /\ toServer \in [Clients -> Seq(Requests)]
    /\ toClient \in [Clients -> Seq(Replies)]

NetworkInit ==
    /\ toServer = [c \in Clients |-> <<>>]
    /\ toClient = [c \in Clients |-> <<>>]

-----------------------------------------------------------------------------
(* zccp_msg_send on a DEALER, once it has room, and on the ROUTER.          *)
SendRequest(c, m) == toServer' = [toServer EXCEPT ![c] = Append(@, m)]
SendReply(c, m)   == toClient' = [toClient EXCEPT ![c] = Append(@, m)]

(* zccp_msg_recv: the head of a stream is taken off.                        *)
TakeRequest(c) ==
    /\ toServer[c] # <<>>
    /\ toServer' = [toServer EXCEPT ![c] = Tail(@)]

TakeReply(c) ==
    /\ toClient[c] # <<>>
    /\ toClient' = [toClient EXCEPT ![c] = Tail(@)]

(* While the broker is gone: what its socket had received but not handled,  *)
(* and what it had queued but not transmitted, is lost with the socket.     *)
LoseRequest(c) == TakeRequest(c) /\ UNCHANGED toClient

LoseReply(c) ==
    /\ toClient[c] # <<>>
    /\ toClient' = [toClient EXCEPT ![c] = SubSeq(@, 1, Len(@) - 1)]
    /\ UNCHANGED toServer
=============================================================================
