------------------------------ MODULE ZccpSystem ------------------------------
(***************************************************************************)
(* The broker and the C clients of its peers, each with its application,   *)
(* joined by the message streams.                                          *)
(***************************************************************************)
EXTENDS ZccpServer, ZccpClient

CONSTANTS
    Faults,     \* which of "timeout" and "stop" happen
    MaxFaults,  \* how many of each
    HighWater   \* messages that a DEALER without a peer, or the pipe to an
                \* application, holds before its sender is blocked

ASSUME SystemAssumption ==
    /\ Faults \subseteq {"timeout", "stop"} /\ MaxFaults \in Nat
    /\ HighWater \in Nat \ {0}

VARIABLES
    faults,     \* number of faults of each kind so far (the bound MaxFaults)
    forgotten   \* history: the clients whose record was ever lost to a fault

faultState == <<faults, forgotten>>
vars == <<serverState, clientState, channels, faultState>>

FaultKinds == {"timeout", "stop"}

SystemTypeOK ==
    /\ ServerTypeOK
    /\ ClientTypeOK
    /\ faults \in [FaultKinds -> 0..MaxFaults]
    /\ forgotten \subseteq Clients

Init ==
    /\ ServerInit
    /\ ClientInit
    /\ faults = [k \in FaultKinds |-> 0]
    /\ forgotten = {}

(* A fault of kind k, in which the broker forgets the clients in S.         *)
Fault(k, S) ==
    /\ k \in Faults /\ faults[k] < MaxFaults
    /\ faults' = [faults EXCEPT ![k] = @ + 1]
    /\ forgotten' = forgotten \cup S

(* The inactivity timer of a record expires.                                *)
ClientExpires(c) == Fault("timeout", {c}) /\ HandleTimeout(c) /\ UNCHANGED clientState

BrokerStops == Fault("stop", Clients) /\ ServerStop /\ UNCHANGED clientState

BrokerStarts == ServerStart /\ UNCHANGED <<clientState, faultState>>

StreamLoses(c) == MessageLost(c) /\ UNCHANGED <<clientState, faultState>>

BrokerHandles(c) == HandleMessage(c) /\ UNCHANGED <<clientState, faultState>>

(* zccp_msg_send blocks on a DEALER that holds as much as it may.  Only     *)
(* while the broker is gone: the ROUTER takes all that comes.  zsock_send   *)
(* blocks likewise on a pipe that the application does not read.            *)
DealerRoom(c) == up \/ Len(toServer[c]) < HighWater
PipeRoom(c) == Len(replies[c]) < HighWater

HasRoom(c) ==
    /\ Len(toServer'[c]) > Len(toServer[c]) => DealerRoom(c)
    /\ Len(replies'[c]) > Len(replies[c]) => PipeRoom(c)

ActorSteps(c) ==
    /\ ActorPipe(c) \/ ActorProtocol(c)
    /\ HasRoom(c)
    /\ UNCHANGED <<serverState, faultState>>

ApplicationSteps(c) == Application(c) /\ UNCHANGED <<serverState, faultState>>

(* A ROUTER drops what it sends to a peer that is gone.                     *)
PeerGone(c) ==
    /\ ~Alive(c) /\ toClient[c] # <<>>
    /\ toClient' = [toClient EXCEPT ![c] = <<>>]
    /\ UNCHANGED <<serverState, clientState, toServer, faultState>>

Next ==
    \/ \E c \in Clients :
          \/ BrokerHandles(c) \/ ActorSteps(c) \/ ApplicationSteps(c)
          \/ ClientExpires(c) \/ StreamLoses(c) \/ PeerGone(c)
    \/ BrokerStops
    \/ BrokerStarts

Spec == Init /\ [][Next]_vars

(* The reactors poll all their sockets and a ROUTER queues fairly among its *)
(* peers, so a waiting message or command is handled in the end; a thread   *)
(* blocked in s_accept_reply takes a reply that has come; $TERM is awaited. *)
(* While a step waits that there is no room for, the actor may be blocked   *)
(* in it, and then takes no other.  Nothing makes an application call       *)
(* again, a timer expire, or a stopped broker return.                       *)
Blocked(c) ==
    /\ ~(DealerRoom(c) /\ PipeRoom(c))
    /\ ENABLED ((ActorPipe(c) \/ ActorProtocol(c)) /\ ~HasRoom(c))

Fairness == \A c \in Clients :
    /\ WF_vars(BrokerHandles(c))
    /\ WF_vars(~Blocked(c) /\ ActorSteps(c))
    /\ WF_vars(s_accept_reply(c) /\ UNCHANGED <<serverState, faultState>>)
    /\ WF_vars(call[c] = In("destroy") /\ ApplicationSteps(c))

FairSpec == Spec /\ Fairness

-----------------------------------------------------------------------------
Waiting(c) == call[c].name \in {"connect", "subscribe"}
Pending(ms, s) == \E i \in DOMAIN s : s[i].id \in ms

(* The actor of a client has no timer, so whenever it awaits the broker's   *)
(* answer that answer, or the request it answers, must be on its way, as    *)
(* long as no broker took it to its grave: each HELLO and SUBSCRIBE is      *)
(* answered exactly once and the actor never takes its own answer for       *)
(* another's and drops it.                                                  *)
AnswerOnTheWay ==
    faults["stop"] = 0 => \A c \in Clients :
        /\ state[c] \in {"connecting", "reconnecting"} =>
              \/ Pending({"HELLO"}, toServer[c])
              \/ Pending({"HELLO_OK", "INVALID"}, toClient[c])
        /\ state[c] = "subscribing" =>
              \/ Pending({"SUBSCRIBE"}, toServer[c])
              \/ Pending({"SUBSCRIBE_OK", "INVALID"}, toClient[c])

(* A client that the broker never forgot agrees with it on whether it is    *)
(* greeted, whatever calls its application makes and whatever happens to    *)
(* the others: it is never told INVALID.                                    *)
Kept == Clients \ forgotten

NeverRefused == \A c \in Kept : ~Pending({"INVALID"}, toClient[c])

(* A subscription that was confirmed to it is one the broker holds.         *)
GrantedIsHeld == \A c \in Kept : Alive(c) => granted[c] \subseteq Subscriptions(c)

(* When the broker handles a publication, every other client whose          *)
(* subscribe call has returned 0 for a matching expression, and that the    *)
(* broker never forgot, is sent a copy.                                     *)
Interested(c, a) == Alive(c) /\ \E e \in granted[c] : a \in Matches[e]

CopiesGoTo(S) ==
    \A p \in Clients : HandlePublish(p) =>
        \A c \in S \ {p} :
            Interested(c, Request(p).address) => Len(toClient'[c]) > Len(toClient[c])

KeptSubscribersGetCopy == [][CopiesGoTo(Kept)]_vars

(* Whatever the broker forgets and the clients repeat, a copy is only ever  *)
(* on its way to, or in the pipe of, a client whose application asked for   *)
(* an expression that matches it.                                           *)
Asked(c) ==
    granted[c] \cup (IF call[c].name = "subscribe" THEN {call[c].expression} ELSE {})

OnlyAskedFor ==
    \A c \in Clients :
        LET wanted == UNION {Matches[e] : e \in Asked(c)}
        IN  /\ \A i \in DOMAIN toClient[c] :
                  toClient[c][i].id = "DELIVER" => toClient[c][i].address \in wanted
            /\ \A i \in DOMAIN replies[c] :
                  replies[c][i].kind = "MESSAGE" => replies[c][i].address \in wanted

(* What is under way from an application, through its pipe and stream, is   *)
(* in its outbox; what is under way to it, in its inbox.                    *)
Images(F, s) == [i \in DOMAIN s |-> F[s[i]]]

OfRequest == [m \in Requests |->
    CASE m.id = "PUBLISH" -> [kind |-> "publication", address |-> m.address, content |-> m.content]
      [] m.id = "SUBSCRIBE" -> [kind |-> "subscription", expression |-> m.expression]
      [] OTHER -> [kind |-> "nothing"]]

OfCommand == [m \in Commands |->
    CASE m.method = "PUBLISH" -> OfRequest[Publish(m.address, NoHeaders, m.content)]
      [] m.method = "SUBSCRIBE" -> OfRequest[Subscribe(m.expression)]
      [] OTHER -> [kind |-> "nothing"]]

OfReply == [m \in Replies |->
    IF m.id = "DELIVER" THEN OfRequest[Publish(m.address, NoHeaders, m.content)]
    ELSE [kind |-> "nothing"]]

OfActorReply == [m \in ActorReplies |->
    IF m.kind = "MESSAGE" THEN OfRequest[Publish(m.address, NoHeaders, m.content)]
    ELSE [kind |-> "nothing"]]

Outbox(c) == Images(OfRequest, toServer[c]) \o Images(OfCommand, commands[c])
Inbox(c) == Images(OfActorReply, replies[c]) \o Images(OfReply, toClient[c])

outboxOf == [c \in Clients |-> Outbox(c)]
inboxOf  == [c \in Clients |-> Inbox(c)]
heldOf   == [c \in Clients |-> Subscriptions(c)]

Service == INSTANCE Notifications WITH outbox <- outboxOf, inbox <- inboxOf, held <- heldOf

(* What an application is sent is what others published, in their order and *)
(* once per expression it subscribed to; a client's subscriptions stay in   *)
(* force, and it is not refused, unless its record was lost to a fault.     *)
ImplementsNotifications == Service!NotificationsSpec

(* A client that the broker has forgotten is greeted again, unless a broker *)
(* was stopped: the HELLO that it took along is not repeated.               *)
Stopped == faults["stop"] > 0

Reconnects == \A c \in Clients :
    state[c] = "reconnecting" ~> state[c] # "reconnecting" \/ Stopped

(* In an application that connects once, before any other call (Orderly), a *)
(* call whose command is on its way to the actor returns, unless the client *)
(* is told INVALID or the broker was stopped.                               *)
CallsReturn == \A c \in Clients :
    Waiting(c) /\ commands[c] # <<>> ~> ~Waiting(c) \/ state[c] = "reconnecting" \/ Stopped

(* An application that destroys its client is not held up, whether its      *)
(* broker is there or not, unless the actor is blocked for good before it   *)
(* comes to read $TERM.                                                     *)
DestroyReturns == \A c \in Clients :
    call[c].name = "destroy" ~> call[c].name = "destroyed" \/ []Blocked(c)

-----------------------------------------------------------------------------
(* What comments of the code say, and the code does not do.                 *)

(* "All subscribers to that address will receive a copy of the message":    *)
(* also those that the broker forgot and greeted again.                     *)
SubscribersGetCopy == [][CopiesGoTo(Clients)]_vars

(* "Subscribe to all messages sent to matching addresses": a copy that      *)
(* reaches a client reaches its application's pipe.                         *)
CopyIsPassedOn ==
    [][\A c \in Clients :
          (ActorProtocol(c) /\ Head(toClient[c]).id = "DELIVER")
              => Len(replies'[c]) = Len(replies[c]) + 1]_vars

(* "Connect to server and return only when there's a successful connection  *)
(* or the timeout in msecs expires."                                        *)
ConnectReturns == \A c \in Clients : call[c].name = "connect" ~> call[c].name # "connect"
=============================================================================
