------------------------------ MODULE ZccpClient ------------------------------
(***************************************************************************)
(* The ZCCP client: the actor of zccp_client_engine.inc with the actions   *)
(* of zccp_client.c, and the zccp_client_t class through which an          *)
(* application thread drives it.  The two threads share a pipe, modelled   *)
(* as the stream of commands to the actor and the stream of replies back.  *)
(*                                                                         *)
(* The actor stores timeouts but arms no timer, so expired_event, and with *)
(* it the FAILURE reply, never happens.  No API method raises the events   *)
(* direct and close_connection, so disconnecting_state is never entered.   *)
(***************************************************************************)
EXTENDS ZccpNetwork

CONSTANTS
    MaxCalls,   \* calls of each application
    Orderly     \* TRUE: an application connects once, before any other call

ASSUME ClientAssumption == MaxCalls \in Nat /\ Orderly \in BOOLEAN

VARIABLES
    state,      \* state of each actor's machine, or how the actor ended
    commands,   \* pipe, application to actor
    replies,    \* pipe, actor to application
    call,       \* the API call the application is in
    calls,      \* number of calls so far (the bound MaxCalls)
    granted     \* history: the expressions for which subscribe returned 0

clientState == <<state, commands, replies, call, calls, granted>>
clientVars == <<clientState, channels>>

Connect        == [method |-> "CONNECT"]
SubscribeTo(e) == [method |-> "SUBSCRIBE", expression |-> e]
PublishTo(a, b) == [method |-> "PUBLISH", address |-> a, content |-> b]
Term           == [method |-> "$TERM"]
Success        == [kind |-> "SUCCESS"]
Message(m)     == [kind |-> "MESSAGE", sender |-> m.sender, address |-> m.address,
                   content |-> m.content]

In(k)        == [name |-> k]
InSubscribe(e) == [name |-> "subscribe", expression |-> e]

States == {"start", "connecting", "connected", "subscribing", "reconnecting",
           "terminated", "aborted"}
Commands == {Connect, Term} \cup [method : {"SUBSCRIBE"}, expression : Exprs]
              \cup [method : {"PUBLISH"}, address : Addresses, content : Contents]
ActorReplies == {Success} \cup [kind : {"MESSAGE"}, sender : Identifiers,
                                address : Addresses, content : Contents]
ApiCalls == [name : {"none", "connect", "recv", "destroy", "destroyed"}]
           \cup [name : {"subscribe"}, expression : Exprs]

ClientTypeOK ==
    /\ state \in [Clients -> States]
    /\ commands \in [Clients -> Seq(Commands)]
    /\ replies \in [Clients -> Seq(ActorReplies)]
    /\ call \in [Clients -> ApiCalls]
    /\ calls \in [Clients -> 0..MaxCalls]
    /\ granted \in [Clients -> SUBSET Exprs]

ClientInit ==
    /\ state = [c \in Clients |-> "start"]
    /\ commands = [c \in Clients |-> <<>>]
    /\ replies = [c \in Clients |-> <<>>]
    /\ call = [c \in Clients |-> In("none")]
    /\ calls = [c \in Clients |-> 0]
    /\ granted = [c \in Clients |-> {}]

-----------------------------------------------------------------------------
(* The actor.                                                               *)

Alive(c) == state[c] \notin {"terminated", "aborted"}
Enter(c, s) == state' = [state EXCEPT ![c] = s]
Signal(c, r) == replies' = [replies EXCEPT ![c] = Append(@, r)]

(* s_client_handle_pipe: the next command, of method m.                     *)
Command(c) == Head(commands[c])
TakesCommand(c, m) ==
    /\ Alive(c) /\ commands[c] # <<>> /\ Command(c).method = m
    /\ commands' = [commands EXCEPT ![c] = Tail(@)]
    /\ UNCHANGED <<replies, calls, granted, toClient>>

(* HELLO carries no identifier: no action of the client sets one.           *)
ActorConnect(c) ==
    /\ TakesCommand(c, "CONNECT") /\ state[c] = "start"
    /\ SendRequest(c, Hello(NoIdentifier))
    /\ Enter(c, "connecting")
    /\ UNCHANGED call

(* zsock_connect fails: the exception error_event halts the actions, and    *)
(* start_state has no such event, so the assertion ends the process, as it  *)
(* does for any other method before CONNECT.                                *)
ActorAborts(c) ==
    /\ \E m \in {"CONNECT", "SUBSCRIBE", "PUBLISH"} : TakesCommand(c, m)
    /\ state[c] = "start"
    /\ Enter(c, "aborted")
    /\ call' = [call EXCEPT ![c] = In("destroyed")]
    /\ UNCHANGED toServer

ActorSubscribe(c) ==
    /\ TakesCommand(c, "SUBSCRIBE") /\ state[c] = "connected"
    /\ SendRequest(c, Subscribe(Command(c).expression))
    /\ Enter(c, "subscribing")
    /\ UNCHANGED call

ActorPublish(c) ==
    /\ TakesCommand(c, "PUBLISH") /\ state[c] = "connected"
    /\ SendRequest(c, Publish(Command(c).address, NoHeaders, Command(c).content))
    /\ UNCHANGED <<state, call>>

(* "Discard any other incoming events".                                     *)
ActorIgnoresCommand(c) ==
    /\ \/ TakesCommand(c, "CONNECT") /\ state[c] # "start"
       \/ /\ TakesCommand(c, "SUBSCRIBE") \/ TakesCommand(c, "PUBLISH")
          /\ state[c] \notin {"start", "connected"}
    /\ UNCHANGED <<state, call, toServer>>

(* Mutant of the next definition: $TERM is left to connected_state.         *)
TerminatesWhenConnected(c) ==
    /\ TakesCommand(c, "$TERM") /\ state[c] = "connected"
    /\ Enter(c, "terminated")
    /\ UNCHANGED <<call, toServer>>

(* $TERM: the reactor ends and the DEALER is destroyed; what it had not yet *)
(* transmitted is dropped, as is what it had received.                      *)
ActorTerminates(c) ==
    /\ Alive(c) /\ commands[c] # <<>> /\ Command(c).method = "$TERM"
    /\ commands' = [commands EXCEPT ![c] = Tail(@)]
    /\ Enter(c, "terminated")
    /\ \E n \in 0..Len(toServer[c]) :
          toServer' = [toServer EXCEPT ![c] = SubSeq(@, 1, n)]
    /\ toClient' = [toClient EXCEPT ![c] = <<>>]
    /\ UNCHANGED <<replies, call, calls, granted>>

ActorPipe(c) ==
    \/ ActorConnect(c) \/ ActorAborts(c) \/ ActorSubscribe(c) \/ ActorPublish(c)
    \/ ActorIgnoresCommand(c) \/ ActorTerminates(c)

(* s_client_handle_protocol: the next message from the broker, of kind k.   *)
TakesReply(c, k) ==
    /\ Alive(c) /\ TakeReply(c) /\ Head(toClient[c]).id = k
    /\ UNCHANGED <<commands, call, calls, granted>>

(* Mutants of the next definition: every HELLO_OK, or none, is reported.    *)
HelloOkAlwaysReported(c) ==
    /\ TakesReply(c, "HELLO_OK") /\ state[c] \in {"connecting", "reconnecting"}
    /\ Signal(c, Success)
    /\ Enter(c, "connected")
    /\ UNCHANGED toServer

HelloOkNeverReported(c) ==
    /\ TakesReply(c, "HELLO_OK") /\ state[c] \in {"connecting", "reconnecting"}
    /\ Enter(c, "connected")
    /\ UNCHANGED <<replies, toServer>>

(* Only the first HELLO_OK is reported to the application.                  *)
ActorHelloOk(c) ==
    /\ TakesReply(c, "HELLO_OK")
    /\ \/ state[c] = "connecting" /\ Signal(c, Success)
       \/ state[c] = "reconnecting" /\ UNCHANGED replies
    /\ Enter(c, "connected")
    /\ UNCHANGED toServer

ActorSubscribeOk(c) ==
    /\ TakesReply(c, "SUBSCRIBE_OK") /\ state[c] = "subscribing"
    /\ Signal(c, Success)
    /\ Enter(c, "connected")
    /\ UNCHANGED toServer

(* Mutant of the next definition: the protocol message itself is passed on. *)
DeliverRaw(c) ==
    /\ TakesReply(c, "DELIVER") /\ state[c] = "connected"
    /\ Signal(c, Head(toClient[c]))
    /\ UNCHANGED <<state, toServer>>

deliver_message_to_application(c) ==
    /\ TakesReply(c, "DELIVER") /\ state[c] = "connected"
    /\ Signal(c, Message(Head(toClient[c])))
    /\ UNCHANGED <<state, toServer>>

ActorPing(c) ==
    /\ TakesReply(c, "PING") /\ state[c] = "connected"
    /\ SendRequest(c, Plain("PING_OK"))
    /\ UNCHANGED <<state, replies>>

(* A SUBSCRIBE, PUBLISH or DIRECT from the server raises the same event as  *)
(* the application's command.  What is sent has the fields that msgout has  *)
(* kept of commands that were discarded, or none (an empty string).         *)
ActorSubscribesUnasked(c) ==
    /\ TakesReply(c, "SUBSCRIBE") /\ state[c] = "connected"
    /\ \E e \in Exprs : SendRequest(c, Subscribe(e))
    /\ Enter(c, "subscribing")
    /\ UNCHANGED replies

ActorPublishesUnasked(c) ==
    /\ TakesReply(c, "PUBLISH") /\ state[c] = "connected"
    /\ \E a \in Addresses, b \in Contents : SendRequest(c, Publish(a, NoHeaders, b))
    /\ UNCHANGED <<state, replies>>

ActorDirectsUnasked(c) ==
    /\ TakesReply(c, "DIRECT") /\ state[c] = "connected"
    /\ SendRequest(c, Plain("DIRECT"))
    /\ UNCHANGED <<state, replies>>

(* Mutant of the next definition: no new HELLO.                             *)
InvalidNotGreeted(c) ==
    /\ TakesReply(c, "INVALID") /\ state[c] # "start"
    /\ Enter(c, "reconnecting")
    /\ UNCHANGED <<replies, toServer>>

(* "Server lost our connection state": in every state after start.          *)
ActorInvalid(c) ==
    /\ TakesReply(c, "INVALID") /\ state[c] # "start"
    /\ SendRequest(c, Hello(NoIdentifier))
    /\ Enter(c, "reconnecting")
    /\ UNCHANGED replies

(* Any other message in a state with no event for it is discarded.          *)
Awaited(s) ==
    CASE s = "connecting"   -> {"HELLO_OK", "INVALID"}
      [] s = "connected"    -> {"SUBSCRIBE", "PUBLISH", "DIRECT", "DELIVER", "PING",
                                "INVALID"}
      [] s = "subscribing"  -> {"SUBSCRIBE_OK", "INVALID"}
      [] s = "reconnecting" -> {"HELLO_OK", "INVALID"}

ActorIgnoresReply(c) ==
    /\ Alive(c) /\ state[c] # "start" /\ TakeReply(c)
    /\ Head(toClient[c]).id \notin Awaited(state[c]) \cup {"UNDECODABLE"}
    /\ UNCHANGED <<clientState, toServer>>

(* zccp_msg_recv returned NULL, or (with the same outcome) the message has   *)
(* no event in s_protocol_event: the reactor ends, without a word to the    *)
(* application.                                                             *)
ActorHalts(c) ==
    /\ TakesReply(c, "UNDECODABLE")
    /\ Enter(c, "terminated")
    /\ UNCHANGED <<replies, toServer>>

ActorProtocol(c) ==
    \/ ActorHelloOk(c) \/ ActorSubscribeOk(c) \/ deliver_message_to_application(c)
    \/ ActorSubscribesUnasked(c) \/ ActorPublishesUnasked(c) \/ ActorDirectsUnasked(c)
    \/ ActorPing(c) \/ ActorInvalid(c) \/ ActorIgnoresReply(c) \/ ActorHalts(c)

-----------------------------------------------------------------------------
(* The application, in the class API.  A call is entered only when the      *)
(* previous one has returned.                                               *)

EnterCall(c, m, k) ==
    /\ call[c] = In("none") /\ calls[c] < MaxCalls
    /\ calls' = [calls EXCEPT ![c] = @ + 1]
    /\ commands' = [commands EXCEPT ![c] = @ \o m]
    /\ call' = [call EXCEPT ![c] = k]
    /\ UNCHANGED <<state, replies, granted, channels>>

zccp_client_connect(c) ==
    /\ Orderly => calls[c] = 0
    /\ EnterCall(c, <<Connect>>, In("connect"))

zccp_client_subscribe(c, e) ==
    /\ Orderly => calls[c] > 0
    /\ EnterCall(c, <<SubscribeTo(e)>>, InSubscribe(e))

(* Asynchronous: it returns at once.                                        *)
zccp_client_publish(c, a, b) ==
    /\ Orderly => calls[c] > 0
    /\ EnterCall(c, <<PublishTo(a, b)>>, In("none"))

zccp_client_recv(c) ==
    /\ Orderly => calls[c] > 0
    /\ EnterCall(c, <<>>, In("recv"))

(* zactor_destroy sends $TERM and waits until the actor has ended.  It is   *)
(* not counted: an application may always let go of its client.             *)
zccp_client_destroy(c) ==
    \/ /\ call[c] = In("none")
       /\ call' = [call EXCEPT ![c] = In("destroy")]
       /\ commands' = [commands EXCEPT ![c] = Append(@, Term)]
       /\ UNCHANGED <<state, replies, calls, granted, channels>>
    \/ /\ call[c] = In("destroy") /\ ~Alive(c)
       /\ call' = [call EXCEPT ![c] = In("destroyed")]
       /\ commands' = [commands EXCEPT ![c] = <<>>]
       /\ replies' = [replies EXCEPT ![c] = <<>>]
       /\ UNCHANGED <<state, calls, granted, channels>>

(* s_accept_reply takes replies off the pipe until one passes the filters   *)
(* of the call, and discards the others.                                    *)
Filters(k) == CASE k \in {"connect", "subscribe"} -> {"SUCCESS", "FAILURE"}
                [] k = "recv" -> {"MESSAGE"}
                [] OTHER -> {}

s_accept_reply(c) ==
    /\ call[c].name \in {"connect", "subscribe", "recv"}
    /\ replies[c] # <<>>
    /\ replies' = [replies EXCEPT ![c] = Tail(@)]
    /\ IF Head(replies[c]).kind \in Filters(call[c].name)
       THEN /\ call' = [call EXCEPT ![c] = In("none")]
            /\ granted' = [granted EXCEPT ![c] =
                   IF call[c].name = "subscribe" THEN @ \cup {call[c].expression} ELSE @]
       ELSE UNCHANGED <<call, granted>>
    /\ UNCHANGED <<state, commands, calls, channels>>

Application(c) ==
    \/ zccp_client_connect(c)
    \/ \E e \in Exprs : zccp_client_subscribe(c, e)
    \/ \E a \in Addresses, b \in Contents : zccp_client_publish(c, a, b)
    \/ zccp_client_recv(c)
    \/ zccp_client_destroy(c)
    \/ s_accept_reply(c)

ClientNext == \E c \in Clients : ActorPipe(c) \/ ActorProtocol(c) \/ Application(c)

-----------------------------------------------------------------------------
Successes(c) == {i \in DOMAIN replies[c] : replies[c][i].kind = "SUCCESS"}

(* A SUCCESS in the pipe of client c belongs to the call that its           *)
(* application is in, and while it is there the actor is not about to       *)
(* produce another: the status of one call is never taken for that of a     *)
(* later one.                                                               *)
StatusBelongs(c) ==
    /\ Successes(c) # {} =>
          /\ call[c].name \in {"connect", "subscribe"}
          /\ \A i, j \in Successes(c) : i = j
          /\ state[c] \notin {"start", "connecting", "subscribing"}
    /\ state[c] = "connecting" => call[c].name = "connect"
    /\ state[c] = "subscribing" => call[c].name = "subscribe"
=============================================================================
