-------------------------- MODULE ZccpSystem_proofs --------------------------
(***************************************************************************)
(* Proofs about the broker and its clients together (ZccpSystem), for any  *)
(* sets of clients, expressions, addresses and contents, any number of     *)
(* calls in any order, and any number of faults.                           *)
(***************************************************************************)
EXTENDS ZccpSystem, ZccpServerLemmas, ZccpClientLemmas

(* What the broker and the clients keep to on their own.                    *)
BaseInv ==
    /\ ServerInv /\ ClientInv
    /\ faults \in [FaultKinds -> 0..MaxFaults]
    /\ forgotten \subseteq Clients

RequestsOf(K) == {m \in Requests : m.id \in K}
RepliesOf(K) == {m \in Replies : m.id \in K}

(* What is in the streams, and that nothing is before the actor has         *)
(* greeted: a client never sends what ends the broker or its record.        *)
StreamsSound(c) ==
    /\ ~Has(toServer[c], Requests \ RequestsOf({"HELLO", "SUBSCRIBE", "PUBLISH"}))
    /\ ~Has(toClient[c], Replies \ RepliesOf({"HELLO_OK", "SUBSCRIBE_OK", "INVALID", "DELIVER"}))
    /\ state[c] = "start" =>
          /\ toServer[c] = <<>> /\ toClient[c] = <<>> /\ replies[c] = <<>>
          /\ c \notin clients /\ granted[c] = {}

LeadsWithHello(s) == \A i \in DOMAIN s : s[i].id = "HELLO" <=> i = 1

(* Whether a client is greeted is agreed between it and the broker, but for *)
(* the HELLO that is under way, which comes before all else.                *)
Greeted(c) ==
    /\ c \in clients => ~Has(toServer[c], RequestsOf({"HELLO"}))
    /\ c \notin clients => LeadsWithHello(toServer[c])
    /\ ~Has(toClient[c], RepliesOf({"INVALID"}))
    /\ Has(toClient[c], RepliesOf({"HELLO_OK"})) => c \in clients
    /\ Alive(c) /\ state[c] \notin {"start", "connecting"} =>
          c \in clients /\ state[c] # "reconnecting"

(* A broker that is gone has forgotten everyone.                            *)
NoBroker == Kept = {} /\ faults["stop"] # 0

GreetingInv ==
    /\ up \/ NoBroker
    /\ \A c \in Clients : StreamsSound(c)
    /\ \A c \in Kept : Greeted(c)

(* A live client that was never forgotten has one subscription under way at *)
(* most, that of the call it is in, and where a confirmation is under way   *)
(* the broker holds the expression.                                         *)
Holds(c) == call[c].name = "subscribe" /\ call[c].expression \in Subscriptions(c)

Confirmed(c) ==
    /\ Has(toServer[c], RequestsOf({"SUBSCRIBE"})) =>
          /\ state[c] = "subscribing"
          /\ ~Has(toServer[c], {m \in RequestsOf({"SUBSCRIBE"}) :
                                   call[c] # InSubscribe(m.expression)})
          /\ ~Has(toClient[c], RepliesOf({"SUBSCRIBE_OK"}))
          /\ AtMostOne(toServer[c], RequestsOf({"SUBSCRIBE"}))
    /\ Has(toClient[c], RepliesOf({"SUBSCRIBE_OK"})) =>
          /\ state[c] = "subscribing" /\ Holds(c)
          /\ AtMostOne(toClient[c], RepliesOf({"SUBSCRIBE_OK"}))
    /\ Has(replies[c], {Success}) => call[c].name = "connect" \/ Holds(c)
    /\ granted[c] \subseteq Subscriptions(c)

ConfirmedInv == \A c \in Kept : Alive(c) => Confirmed(c)

(* What a client's application asked for is all that it may be sent for.    *)
Wanted(c) == UNION {Matches[e] : e \in Asked(c)}

AskedFor(c) ==
    /\ Subscriptions(c) \subseteq Asked(c)
    /\ ~Has(toServer[c], {m \in RequestsOf({"SUBSCRIBE"}) : m.expression \notin Asked(c)})
    /\ ~Has(toClient[c], {m \in RepliesOf({"DELIVER"}) : m.address \notin Wanted(c)})
    /\ ~Has(replies[c], {m \in ActorReplies : m.kind = "MESSAGE" /\ m.address \notin Wanted(c)})

AskedForInv == \A c \in Clients : AskedFor(c)

-----------------------------------------------------------------------------
(* This broker never has a client take its SUBSCRIBE for the application's. *)
LEMMA NonePrompted ==
    ASSUME NetworkTypeOK, NEW c \in Clients, StreamsSound(c)
    PROVE  NotPrompted(c)
<1> SUFFICES ASSUME toClient[c] # <<>>  PROVE Head(toClient[c]).id # "SUBSCRIBE"
  BY DEF NotPrompted
<1>1. toClient[c] \in Seq(Replies)
  BY DEF NetworkTypeOK
<1>2. Head(toClient[c]) \in RepliesOf({"HELLO_OK", "SUBSCRIBE_OK", "INVALID", "DELIVER"})
  BY <1>1, HasTail DEF StreamsSound
<1> QED  BY <1>2 DEF RepliesOf

(* The parts keep to themselves: no step of the broker touches the state of *)
(* a client, and none of a client that of the broker.                       *)
LEMMA BaseStep == BaseInv /\ (\A x \in Clients : NotPrompted(x)) /\ [Next]_vars => BaseInv'
<1> SUFFICES ASSUME BaseInv, \A x \in Clients : NotPrompted(x), [Next]_vars  PROVE BaseInv'
  OBVIOUS
<1>0. /\ ServerInv /\ ClientInv /\ NetworkTypeOK /\ StateInv
      /\ faults \in [FaultKinds -> 0..MaxFaults] /\ forgotten \subseteq Clients
  BY DEF BaseInv, ServerInv
<1>1. ASSUME UNCHANGED clientState, ServerInv'  PROVE ClientInv'
  BY <1>0, <1>1 DEF ServerInv, ClientInv, clientState, ClientTypeOK, StatusBelongs, Successes,
                    AskingBelongs
<1>2. ASSUME UNCHANGED serverState, ClientInv'  PROVE ServerInv'
  BY <1>0, <1>2, StateUnchanged DEF ClientInv, ServerInv, serverState
<1>3. ASSUME UNCHANGED faultState
      PROVE  faults' \in [FaultKinds -> 0..MaxFaults] /\ forgotten' \subseteq Clients
  BY <1>0, <1>3 DEF faultState
<1>4. ASSUME NEW k \in FaultKinds, NEW S \in SUBSET Clients, Fault(k, S)
      PROVE  faults' \in [FaultKinds -> 0..MaxFaults] /\ forgotten' \subseteq Clients
  <2>1. faults[k] + 1 \in 0..MaxFaults
    BY <1>0, <1>4, SystemAssumption DEF Fault
  <2> QED  BY <1>0, <1>4, <2>1 DEF Fault
<1>5. ASSUME NEW c \in Clients, BrokerHandles(c)  PROVE BaseInv'
  BY <1>0, <1>1, <1>3, <1>5, BrokerStep DEF BrokerHandles, ServerNext, BaseInv
<1>6. ASSUME NEW c \in Clients, ActorSteps(c) \/ ApplicationSteps(c)  PROVE BaseInv'
  <2>1. StepOf(c) /\ UNCHANGED <<serverState, faultState>>
    BY <1>6 DEF ActorSteps, ApplicationSteps, StepOf
  <2> QED  BY <1>0, <1>2, <1>3, <2>1, ClientStep DEF BaseInv
<1>7. ASSUME NEW c \in Clients, ClientExpires(c)  PROVE BaseInv'
  <2>1. /\ HandleTimeout(c) /\ UNCHANGED clientState
        /\ "timeout" \in FaultKinds /\ Fault("timeout", {c})
    BY <1>7 DEF ClientExpires, FaultKinds
  <2> QED  BY <1>0, <1>1, <1>4, <2>1, BrokerStep DEF ServerNext, BaseInv
<1>8. ASSUME NEW c \in Clients, StreamLoses(c)  PROVE BaseInv'
  BY <1>0, <1>1, <1>3, <1>8, BrokerStep DEF StreamLoses, BaseInv
<1>9. ASSUME NEW c \in Clients, PeerGone(c)  PROVE BaseInv'
  <2>1. /\ UNCHANGED <<serverState, clientState, toServer, faultState>>
        /\ toClient' = [toClient EXCEPT ![c] = <<>>]
    BY <1>9 DEF PeerGone
  <2>2. NetworkTypeOK'
    BY <1>0, <2>1, EmptySeq DEF NetworkTypeOK
  <2>3. ServerInv'
    BY <1>0, <2>1, <2>2, StateUnchanged DEF ServerInv, serverState
  <2> QED  BY <1>1, <1>3, <2>1, <2>3 DEF BaseInv
<1>10. CASE BrokerStops
  <2>1. /\ ServerStop /\ UNCHANGED clientState
        /\ "stop" \in FaultKinds /\ Fault("stop", Clients)
    BY <1>10 DEF BrokerStops, FaultKinds
  <2> QED  BY <1>0, <1>1, <1>4, <2>1, BrokerStep DEF ServerNext, BaseInv
<1>11. CASE BrokerStarts
  BY <1>0, <1>1, <1>3, <1>11, BrokerStep DEF BrokerStarts, ServerNext, BaseInv
<1>12. CASE UNCHANGED vars
  BY <1>0, <1>12, StateUnchanged
     DEF vars, BaseInv, faultState, ServerInv, ClientInv, NetworkTypeOK, ClientTypeOK,
         serverState, clientState, channels, StatusBelongs, Successes, AskingBelongs
<1> QED
  BY <1>5, <1>6, <1>7, <1>8, <1>9, <1>10, <1>11, <1>12 DEF Next

-----------------------------------------------------------------------------
(* What a step of a client does to its own state and streams, when nothing  *)
(* but what StreamsSound says is in them.                                   *)
Greets(c) ==
    /\ state[c] = "start" /\ state'[c] = "connecting"
    /\ toServer'[c] = Append(toServer[c], Hello(NoIdentifier))
    /\ UNCHANGED <<toClient[c], replies[c], call[c], granted[c]>>

Aborts(c) ==
    /\ state[c] = "start" /\ state'[c] = "aborted"
    /\ UNCHANGED <<toServer[c], toClient[c], replies[c], granted[c]>>

Subscribes(c) ==
    /\ state[c] = "connected" /\ state'[c] = "subscribing"
    /\ \E e \in Exprs : /\ call[c] = InSubscribe(e)
                        /\ toServer'[c] = Append(toServer[c], Subscribe(e))
    /\ UNCHANGED <<toClient[c], replies[c], call[c], granted[c]>>

Publishes(c) ==
    /\ state[c] = "connected"
    /\ \E a \in Addresses, b \in Contents :
          toServer'[c] = Append(toServer[c], Publish(a, NoHeaders, b))
    /\ UNCHANGED <<state[c], toClient[c], replies[c], call[c], granted[c]>>

Ends(c) ==
    /\ state'[c] = "terminated" /\ toClient'[c] = <<>>
    /\ \E n \in 0..Len(toServer[c]) : toServer'[c] = SubSeq(toServer[c], 1, n)
    /\ UNCHANGED <<replies[c], call[c], granted[c]>>

Takes(c, K) ==
    /\ Alive(c) /\ toClient[c] # <<>> /\ Head(toClient[c]).id \in K
    /\ toClient'[c] = Tail(toClient[c])
    /\ UNCHANGED <<call[c], granted[c]>>

IsAnswered(c) ==
    /\ \/ Takes(c, {"HELLO_OK"}) /\ state[c] = "connecting"
       \/ Takes(c, {"SUBSCRIBE_OK"}) /\ state[c] = "subscribing"
    /\ state'[c] = "connected" /\ replies'[c] = Append(replies[c], Success)
    /\ UNCHANGED toServer[c]

IsGreetedAgain(c) ==
    /\ Takes(c, {"HELLO_OK"}) /\ state[c] = "reconnecting" /\ state'[c] = "connected"
    /\ UNCHANGED <<toServer[c], replies[c]>>

IsRefused(c) ==
    /\ Takes(c, {"INVALID"}) /\ state[c] # "start" /\ state'[c] = "reconnecting"
    /\ toServer'[c] = Append(toServer[c], Hello(NoIdentifier))
    /\ UNCHANGED replies[c]

PassesOn(c) ==
    /\ Takes(c, {"DELIVER"}) /\ state[c] = "connected"
    /\ replies'[c] = Append(replies[c], Message(Head(toClient[c])))
    /\ UNCHANGED <<state[c], toServer[c]>>

Discards(c) ==
    /\ Takes(c, {Head(toClient[c]).id} \ Awaited(state[c])) /\ state[c] # "start"
    /\ UNCHANGED <<state[c], toServer[c], replies[c]>>

Calls(c) ==
    /\ call[c] = In("none")
    /\ UNCHANGED <<state[c], toServer[c], toClient[c], replies[c], granted[c]>>

IsDestroyed(c) ==
    /\ ~Alive(c) /\ call[c] = In("destroy") /\ replies'[c] = <<>>
    /\ UNCHANGED <<state[c], toServer[c], toClient[c], granted[c]>>

TakesStatus(c) ==
    /\ replies[c] # <<>> /\ replies'[c] = Tail(replies[c])
    /\ \/ UNCHANGED <<call[c], granted[c]>>
       \/ /\ call[c].name = "recv" \/ (call[c].name = "connect" /\ Head(replies[c]) = Success)
          /\ call'[c] = In("none") /\ UNCHANGED granted[c]
       \/ /\ call[c].name = "subscribe" /\ Head(replies[c]) = Success
          /\ call'[c] = In("none") /\ granted'[c] = granted[c] \cup {call[c].expression}
    /\ UNCHANGED <<state[c], toServer[c], toClient[c]>>

Unseen(c) == UNCHANGED <<state[c], toServer[c], toClient[c], replies[c], call[c], granted[c]>>

ClientDoes(c) ==
    \/ Greets(c) \/ Aborts(c) \/ Subscribes(c) \/ Publishes(c) \/ Ends(c)
    \/ IsAnswered(c) \/ IsGreetedAgain(c) \/ IsRefused(c) \/ PassesOn(c) \/ Discards(c)
    \/ Calls(c) \/ IsDestroyed(c) \/ TakesStatus(c) \/ Unseen(c)

(* Each handler of the actor and each call of the application does one of   *)
(* the things that ClientDoes lists: no more than its answer takes from and *)
(* adds to the pipe and the streams.                                        *)
LEMMA ClientEffect ==
    ASSUME BaseInv, NEW c \in Clients, StreamsSound(c), StepOf(c)
    PROVE  ClientDoes(c)
<1>0. /\ NetworkTypeOK /\ ClientTypeOK /\ StatusBelongs(c) /\ AskingBelongs(c)
      /\ toServer \in [Clients -> Seq(Requests)] /\ toClient \in [Clients -> Seq(Replies)]
      /\ state \in [Clients -> States] /\ commands \in [Clients -> Seq(Commands)]
      /\ replies \in [Clients -> Seq(ActorReplies)] /\ call \in [Clients -> ApiCalls]
      /\ granted \in [Clients -> SUBSET Exprs]
  BY DEF BaseInv, ClientInv, NetworkTypeOK, ClientTypeOK
<1>1. ASSUME NEW k, TakesReply(c, k)
      PROVE  /\ Takes(c, {k}) /\ k \in {"HELLO_OK", "SUBSCRIBE_OK", "INVALID", "DELIVER"}
  <2>1. /\ Alive(c) /\ TakeReply(c) /\ Head(toClient[c]).id = k
        /\ UNCHANGED <<call, granted>>
    BY <1>1 DEF TakesReply
  <2>2. /\ toClient[c] \in Seq(Replies) /\ toClient[c] # <<>> /\ Head(toClient[c]) \in Replies
        /\ toClient'[c] = Tail(toClient[c])
    BY <1>0, <2>1, TakesReplyEffect
  <2>3. Head(toClient[c]) \notin
           Replies \ RepliesOf({"HELLO_OK", "SUBSCRIBE_OK", "INVALID", "DELIVER"})
    BY <2>2, HasTail DEF StreamsSound
  <2> QED  BY <2>1, <2>2, <2>3 DEF Takes, RepliesOf
<1>2. CASE ActorConnect(c)
  <2>1. /\ state[c] = "start" /\ UNCHANGED <<toClient, replies, call, granted>>
        /\ SendRequest(c, Hello(NoIdentifier)) /\ Enter(c, "connecting")
    BY <1>2 DEF ActorConnect, TakesCommand
  <2> QED  BY <1>0, <2>1, RequestType, SendRequestEffect, EnterEffect
           DEF States, Greets, ClientDoes
<1>3. CASE ActorAborts(c)
  <2>1. /\ state[c] = "start" /\ UNCHANGED <<toServer, toClient, replies, granted>>
        /\ Enter(c, "aborted")
    BY <1>3 DEF ActorAborts, TakesCommand
  <2> QED  BY <1>0, <2>1, EnterEffect DEF States, Aborts, ClientDoes
<1>4. CASE ActorSubscribe(c)
  <2>1. /\ state[c] = "connected" /\ UNCHANGED <<toClient, replies, call, granted>>
        /\ SendRequest(c, Subscribe(Command(c).expression)) /\ Enter(c, "subscribing")
        /\ TakesCommand(c, "SUBSCRIBE")
    BY <1>4 DEF ActorSubscribe, TakesCommand
  <2> DEFINE e == Command(c).expression
  <2>2. /\ Alive(c) /\ commands[c] \in Seq(Commands) /\ commands[c] # <<>>
        /\ e \in Exprs /\ Head(commands[c]) = SubscribeTo(e)
    BY <1>0, <2>1, TakesCommandEffect, CommandShape
  <2> HIDE DEF e
  <2>3. \A M : SubscribeTo(e) \in M => Has(commands[c], M)
    BY <2>2, HasTail
  <2>4. call[c] = InSubscribe(e)
    <3>1. /\ SubscribeTo(e) \in Askings /\ SubscribeTo(e) \in Askings \ {Connect}
          /\ \A f \in Exprs : SubscribeTo(e) \notin Askings \ {SubscribeTo(f)} => f = e
      BY <2>2, CommandType DEF Connect, SubscribeTo
    <3>2. /\ Has(commands[c], Askings) /\ Has(commands[c], Askings \ {Connect})
          /\ \A f \in Exprs : ~Has(commands[c], Askings \ {SubscribeTo(f)}) => f = e
      BY <2>3, <3>1
    <3> QED  BY <1>0, <2>2, <3>2 DEF AskingBelongs, AskingSound, Alive
  <2>5. state'[c] = "subscribing" /\ toServer'[c] = Append(toServer[c], Subscribe(e))
    BY <1>0, <2>1, <2>2, RequestType, SendRequestEffect, EnterEffect DEF States, e
  <2> QED  BY <2>1, <2>2, <2>4, <2>5 DEF Subscribes, ClientDoes
<1>5. CASE ActorPublish(c)
  <2>1. /\ state[c] = "connected" /\ UNCHANGED <<state, toClient, replies, call, granted>>
        /\ SendRequest(c, Publish(Command(c).address, NoHeaders, Command(c).content))
        /\ TakesCommand(c, "PUBLISH")
    BY <1>5 DEF ActorPublish, TakesCommand
  <2>2. Command(c).address \in Addresses /\ Command(c).content \in Contents
    BY <1>0, <2>1, TakesCommandEffect, CommandShape
  <2>3. toServer'[c] = Append(toServer[c],
                              Publish(Command(c).address, NoHeaders, Command(c).content))
    BY <1>0, <2>1, <2>2, RequestType, SendRequestEffect
  <2> QED  BY <2>1, <2>2, <2>3 DEF Publishes, ClientDoes
<1>6. CASE ActorIgnoresCommand(c)
  BY <1>6 DEF ActorIgnoresCommand, TakesCommand, Unseen, ClientDoes
<1>7. CASE ActorTerminates(c)
  <2>1. /\ Enter(c, "terminated") /\ UNCHANGED <<replies, call, granted>>
        /\ toClient' = [toClient EXCEPT ![c] = <<>>]
        /\ \E n \in 0..Len(toServer[c]) :
              toServer' = [toServer EXCEPT ![c] = SubSeq(toServer[c], 1, n)]
    BY <1>7 DEF ActorTerminates
  <2> QED  BY <1>0, <2>1, EnterEffect DEF States, Ends, ClientDoes
<1>8. CASE ActorHelloOk(c)
  <2>1. /\ Takes(c, {"HELLO_OK"}) /\ UNCHANGED toServer /\ Enter(c, "connected")
        /\ \/ state[c] = "connecting" /\ Signal(c, Success)
           \/ state[c] = "reconnecting" /\ UNCHANGED replies
    BY <1>1, <1>8 DEF ActorHelloOk
  <2>2. state'[c] = "connected"
    BY <1>0, <2>1, EnterEffect DEF States
  <2>3. Signal(c, Success) => replies'[c] = Append(replies[c], Success)
    BY <1>0, SignalEffect, ActorReplyType
  <2> QED  BY <2>1, <2>2, <2>3 DEF IsAnswered, IsGreetedAgain, ClientDoes
<1>9. CASE ActorSubscribeOk(c)
  <2>1. /\ Takes(c, {"SUBSCRIBE_OK"}) /\ state[c] = "subscribing" /\ UNCHANGED toServer
        /\ Enter(c, "connected") /\ Signal(c, Success)
    BY <1>1, <1>9 DEF ActorSubscribeOk
  <2>2. state'[c] = "connected" /\ replies'[c] = Append(replies[c], Success)
    BY <1>0, <2>1, EnterEffect, SignalEffect, ActorReplyType DEF States
  <2> QED  BY <2>1, <2>2 DEF IsAnswered, ClientDoes
<1>10. CASE deliver_message_to_application(c)
  <2>1. /\ Takes(c, {"DELIVER"}) /\ state[c] = "connected" /\ UNCHANGED <<state, toServer>>
        /\ Signal(c, Message(Head(toClient[c])))
    BY <1>1, <1>10 DEF deliver_message_to_application
  <2>2. Head(toClient[c]) \in Replies /\ Head(toClient[c]).id = "DELIVER"
    BY <1>0, <2>1, HasTail DEF Takes
  <2>3. replies'[c] = Append(replies[c], Message(Head(toClient[c])))
    BY <1>0, <2>1, <2>2, SignalEffect, ActorReplyType
  <2> QED  BY <2>1, <2>3 DEF PassesOn, ClientDoes
<1>11. CASE \/ ActorPing(c) \/ ActorHalts(c)
            \/ ActorSubscribesUnasked(c) \/ ActorPublishesUnasked(c) \/ ActorDirectsUnasked(c)
  <2>1. \E k \in {"PING", "UNDECODABLE", "SUBSCRIBE", "PUBLISH", "DIRECT"} : TakesReply(c, k)
    BY <1>11 DEF ActorPing, ActorHalts, ActorSubscribesUnasked, ActorPublishesUnasked,
                 ActorDirectsUnasked
  <2>2. \E k \in {"PING", "UNDECODABLE", "SUBSCRIBE", "PUBLISH", "DIRECT"} :
           k \in {"HELLO_OK", "SUBSCRIBE_OK", "INVALID", "DELIVER"}
    BY <1>1, <2>1
  <2>3. FALSE
    BY <2>2
  <2> QED  BY <2>3
<1>12. CASE ActorInvalid(c)
  <2>1. /\ Takes(c, {"INVALID"}) /\ state[c] # "start" /\ UNCHANGED replies
        /\ Enter(c, "reconnecting") /\ SendRequest(c, Hello(NoIdentifier))
    BY <1>1, <1>12 DEF ActorInvalid
  <2> QED  BY <1>0, <2>1, RequestType, SendRequestEffect, EnterEffect
           DEF States, IsRefused, ClientDoes
<1>13. CASE ActorIgnoresReply(c)
  <2>1. /\ Alive(c) /\ state[c] # "start" /\ TakeReply(c)
        /\ Head(toClient[c]).id \notin Awaited(state[c])
        /\ UNCHANGED <<state, replies, call, granted, toServer>>
    BY <1>13 DEF ActorIgnoresReply, clientState
  <2>2. toClient[c] # <<>> /\ toClient'[c] = Tail(toClient[c])
    BY <1>0, <2>1, TakesReplyEffect
  <2> QED  BY <2>1, <2>2 DEF Takes, Discards, ClientDoes
<1>15. CASE \/ zccp_client_connect(c) \/ zccp_client_recv(c)
            \/ \E e \in Exprs : zccp_client_subscribe(c, e)
            \/ \E a \in Addresses, b \in Contents : zccp_client_publish(c, a, b)
  BY <1>15 DEF zccp_client_connect, zccp_client_recv, zccp_client_subscribe,
               zccp_client_publish, EnterCall, channels, Calls, ClientDoes
<1>16. CASE zccp_client_destroy(c)
  BY <1>0, <1>16 DEF zccp_client_destroy, channels, Calls, IsDestroyed, ClientDoes
<1>17. CASE s_accept_reply(c)
  <2>1. /\ call[c].name \in {"connect", "subscribe", "recv"} /\ replies[c] # <<>>
        /\ replies'[c] = Tail(replies[c]) /\ UNCHANGED <<state, toServer, toClient>>
        /\ Head(replies[c]) \in ActorReplies
    BY <1>0, <1>17, HasTail DEF s_accept_reply, channels
  <2>2. CASE UNCHANGED <<call, granted>>
    BY <2>1, <2>2 DEF TakesStatus, ClientDoes
  <2>3. CASE /\ Head(replies[c]).kind \in Filters(call[c].name)
             /\ call' = [call EXCEPT ![c] = In("none")]
             /\ granted' = [granted EXCEPT ![c] =
                   IF call[c].name = "subscribe" THEN granted[c] \cup {call[c].expression}
                                                 ELSE granted[c]]
    <3>1. call[c].name \in {"connect", "subscribe"} => Head(replies[c]) = Success
      BY <2>1, <2>3 DEF Filters, ActorReplies, Success
    <3>2. /\ call'[c] = In("none")
          /\ granted'[c] = IF call[c].name = "subscribe" THEN granted[c] \cup {call[c].expression}
                                                         ELSE granted[c]
      BY <1>0, <2>3
    <3> QED  BY <2>1, <3>1, <3>2 DEF TakesStatus, ClientDoes
  <2> QED  BY <1>17, <2>2, <2>3 DEF s_accept_reply
<1> QED
  BY <1>2, <1>3, <1>4, <1>5, <1>6, <1>7, <1>8, <1>9, <1>10, <1>11, <1>12, <1>13, <1>15, <1>16,
     <1>17 DEF StepOf, ActorPipe, ActorProtocol, Application

-----------------------------------------------------------------------------
(* What a step of the broker does to the client whose request it handles.   *)
Handled(c) ==
    /\ up /\ toServer[c] # <<>> /\ Head(toServer[c]) \in Requests
    /\ toServer'[c] = Tail(toServer[c])

Answers(c, k) == toClient'[c] = Append(toClient[c], Plain(k))

Welcomes(c) ==
    /\ Request(c).id = "HELLO" /\ c \notin clients /\ c \in clients'
    /\ Answers(c, "HELLO_OK") /\ Subscriptions(c)' = Subscriptions(c)

Confirms(c) ==
    /\ Request(c).id = "SUBSCRIBE" /\ c \in clients /\ c \in clients'
    /\ Answers(c, "SUBSCRIBE_OK")
    /\ Subscriptions(c)' = Subscriptions(c) \cup {Request(c).expression}

Forwards(c) ==
    /\ Request(c).id = "PUBLISH" /\ c \in clients /\ c \in clients'
    /\ UNCHANGED toClient[c] /\ Subscriptions(c)' = Subscriptions(c)

Refuses(c) ==
    /\ Request(c).id \notin Accepted(c) /\ c \notin clients'
    /\ Answers(c, "INVALID") /\ Subscriptions(c)' = {}

BrokerDoes(c) == Handled(c) /\ (Welcomes(c) \/ Confirms(c) \/ Forwards(c) \/ Refuses(c))

(* ... and to the others: it may only send them copies that they subscribed *)
(* to.                                                                      *)
CopiesTo(x) ==
    {m \in Replies : m.id = "DELIVER" /\ \E e \in Subscriptions(x) : m.address \in Matches[e]}

IsSentCopies(x) ==
    /\ UNCHANGED toServer[x] /\ (x \in clients' <=> x \in clients)
    /\ Subscriptions(x)' = Subscriptions(x)
    /\ \E d \in Seq(CopiesTo(x)) : toClient'[x] = toClient[x] \o d

(* s_server_client_message answers the peer that sent the request, as       *)
(* BrokerDoes lists; any other client is at most sent copies of a           *)
(* publication.                                                             *)
LEMMA BrokerEffect ==
    ASSUME BaseInv, NEW c \in Clients, StreamsSound(c), HandleMessage(c)
    PROVE  /\ BrokerDoes(c)
           /\ \A x \in Clients : x # c => IsSentCopies(x)
           /\ UNCHANGED up
<1> DEFINE Good == BrokerDoes(c) /\ (\A x \in Clients : x # c => IsSentCopies(x)) /\ UNCHANGED up
<1>0. /\ NetworkTypeOK /\ StateInv
      /\ toServer \in [Clients -> Seq(Requests)] /\ toClient \in [Clients -> Seq(Replies)]
  BY DEF BaseInv, ServerInv, NetworkTypeOK
<1>1. ASSUME up, TakeRequest(c)
      PROVE  /\ Handled(c) /\ Request(c) \in Requests
             /\ Request(c).id \in {"HELLO", "SUBSCRIBE", "PUBLISH"}
             /\ \A x \in Clients : x # c => UNCHANGED toServer[x]
  <2>1. /\ toServer[c] \in Seq(Requests) /\ toServer[c] # <<>>
        /\ toServer' = [toServer EXCEPT ![c] = Tail(toServer[c])]
    BY <1>0, <1>1 DEF TakeRequest
  <2>2. /\ Head(toServer[c]) \in Requests
        /\ Head(toServer[c]) \notin Requests \ RequestsOf({"HELLO", "SUBSCRIBE", "PUBLISH"})
    BY <2>1, HasTail DEF StreamsSound
  <2> QED  BY <1>0, <1>1, <2>1, <2>2 DEF Handled, Request, RequestsOf
<1>2. ASSUME NEW k \in PlainReplies, SendReply(c, Plain(k))
      PROVE  Answers(c, k) /\ \A x \in Clients : x # c => toClient'[x] = toClient[x]
  BY <1>0, <1>2 DEF SendReply, Answers
<1>3. ASSUME NEW x \in Clients, toServer'[x] = toServer[x], toClient'[x] = toClient[x],
             x \in clients' <=> x \in clients, Subscriptions(x)' = Subscriptions(x)
      PROVE  IsSentCopies(x)
  <2>1. toClient'[x] = toClient[x] \o <<>> /\ <<>> \in Seq(CopiesTo(x))
    BY <1>0, <1>3, ConcatEmptySeq, EmptySeq
  <2> QED  BY <1>3, <2>1 DEF IsSentCopies
<1>4. CASE HandleHello(c)
  <2>1. /\ up /\ TakeRequest(c) /\ Request(c).id = "HELLO" /\ c \notin clients
        /\ clients' = clients \cup {c} /\ SendReply(c, Plain("HELLO_OK"))
        /\ UNCHANGED <<up, patterns>>
    BY <1>4 DEF HandleHello, Handles
  <2>2. \A x \in Clients : Subscriptions(x)' = Subscriptions(x)
    BY <2>1 DEF Subscriptions
  <2>3. Answers(c, "HELLO_OK") /\ \A x \in Clients : x # c => toClient'[x] = toClient[x]
    BY <1>2, <2>1 DEF PlainReplies
  <2> QED  BY <1>1, <1>3, <2>1, <2>2, <2>3 DEF BrokerDoes, Welcomes
<1>5. CASE HandleSubscribe(c)
  <2>1. /\ up /\ TakeRequest(c) /\ Request(c).id = "SUBSCRIBE" /\ c \in clients
        /\ store_new_subscription(c, Request(c).expression)
        /\ SendReply(c, Plain("SUBSCRIBE_OK")) /\ UNCHANGED <<up, clients, identifier>>
    BY <1>5 DEF HandleSubscribe, Handles
  <2>2. Request(c).expression \in Exprs
    BY <1>1, <2>1, RequestShape
  <2>3. \A x \in Clients :
           Subscriptions(x)' = Subscriptions(x) \cup (IF x = c THEN {Request(c).expression} ELSE {})
    BY <1>0, <2>1, <2>2, StoreEffect
  <2>4. Answers(c, "SUBSCRIBE_OK") /\ \A x \in Clients : x # c => toClient'[x] = toClient[x]
    BY <1>2, <2>1 DEF PlainReplies
  <2>5. ASSUME NEW x \in Clients, x # c  PROVE IsSentCopies(x)
    BY <1>1, <1>3, <2>1, <2>3, <2>4, <2>5
  <2> QED  BY <1>1, <2>1, <2>3, <2>4, <2>5 DEF BrokerDoes, Confirms
<1>6. CASE HandlePublish(c)
  <2>1. /\ up /\ TakeRequest(c) /\ Request(c).id = "PUBLISH" /\ c \in clients
        /\ forward_to_subscribers(c, Request(c)) /\ UNCHANGED <<up, clients, patterns>>
    BY <1>6 DEF HandlePublish, Handles, serverState
  <2>2. Request(c).address \in Addresses /\ Request(c).content \in Contents
    BY <1>1, <2>1, RequestShape
  <2>3. \A x \in Clients : Subscriptions(x)' = Subscriptions(x)
    BY <2>1 DEF Subscriptions
  <2>4. toClient'[c] = toClient[c]
    BY <2>1 DEF forward_to_subscribers
  <2>5. ASSUME NEW x \in Clients, x # c  PROVE IsSentCopies(x)
    <3> DEFINE a == Request(c).address
    <3>1. PICK d \in Seq(CopiesFor(a)) :
             /\ toClient'[x] = toClient[x] \o d
             /\ d # <<>> <=> x # c /\ Matching(x, a) # {}
      BY <1>0, <2>1, <2>2, ForwardEffect
    <3>2. CASE d = <<>>
      BY <2>1, <2>3, <3>1, <3>2, <1>1, <2>5, EmptySeq DEF IsSentCopies
    <3>3. CASE Matching(x, a) # {}
      <4>1. CopiesFor(a) \subseteq CopiesTo(x)
        BY <3>3 DEF CopiesFor, CopiesTo, Matching
      <4>2. d \in Seq(CopiesTo(x))
        <5>1. Len(d) \in Nat /\ d \in [1..Len(d) -> CopiesFor(a)]
          BY LenProperties
        <5>2. d \in [1..Len(d) -> CopiesTo(x)]
          BY <4>1, <5>1
        <5> QED  BY <5>1, <5>2, SeqDef
      <4> QED  BY <1>1, <2>1, <2>3, <2>5, <3>1, <4>2 DEF IsSentCopies
    <3> QED  BY <3>1, <3>2, <3>3
  <2> QED  BY <1>1, <2>1, <2>3, <2>4, <2>5 DEF BrokerDoes, Forwards
<1>7. CASE HandleDirect(c) \/ HandleGoodbye(c) \/ HandleUndecodable(c)
  <2>1. /\ up /\ TakeRequest(c) /\ Request(c).id \in {"DIRECT", "GOODBYE", "UNDECODABLE"}
    BY <1>7 DEF HandleDirect, HandleGoodbye, HandleUndecodable, Handles
  <2> QED  BY <1>1, <2>1
<1>8. CASE HandleInvalid(c)
  <2>1. /\ up /\ TakeRequest(c) /\ Request(c).id \notin Accepted(c)
        /\ SendReply(c, Plain("INVALID")) /\ s_client_destroy(c)
        /\ clients' = clients \ {c} /\ UNCHANGED up
    BY <1>8 DEF HandleInvalid, s_client_destroy
  <2>2. \A x \in Clients : Subscriptions(x)' = IF x = c THEN {} ELSE Subscriptions(x)
    BY <1>0, <2>1, DestroyEffect
  <2>3. Answers(c, "INVALID") /\ \A x \in Clients : x # c => toClient'[x] = toClient[x]
    BY <1>2, <2>1 DEF PlainReplies
  <2>4. ASSUME NEW x \in Clients, x # c  PROVE IsSentCopies(x)
    BY <1>1, <1>3, <2>1, <2>2, <2>3, <2>4
  <2> QED  BY <1>1, <2>1, <2>2, <2>3, <2>4 DEF BrokerDoes, Refuses
<1> QED
  BY <1>4, <1>5, <1>6, <1>7, <1>8 DEF HandleMessage

-----------------------------------------------------------------------------
(* All that a step of the system can be to one client.                      *)
ClientKeeps(x) == UNCHANGED <<state[x], replies[x], call[x], granted[x]>>

BrokerKeeps(x) == (x \in clients' <=> x \in clients) /\ Subscriptions(x)' = Subscriptions(x)

IsForgotten(x) ==
    /\ x \in forgotten' /\ x \notin clients' /\ Subscriptions(x)' = {}
    /\ UNCHANGED <<toServer[x], toClient[x]>>

Loses(x) ==
    /\ ~up /\ BrokerKeeps(x)
    /\ \/ toServer[x] # <<>> /\ toServer'[x] = Tail(toServer[x]) /\ UNCHANGED toClient[x]
       \/ /\ UNCHANGED toServer[x]
          /\ toClient[x] # <<>>
          /\ \E n \in 0..Len(toClient[x]) : toClient'[x] = SubSeq(toClient[x], 1, n)

IsGone(x) ==
    /\ ~Alive(x) /\ BrokerKeeps(x)
    /\ toClient'[x] = <<>> /\ UNCHANGED toServer[x]

Moves(x) ==
    \/ ClientDoes(x) /\ BrokerKeeps(x)
    \/ ClientKeeps(x) /\ (BrokerDoes(x) \/ IsSentCopies(x) \/ IsForgotten(x) \/ Loses(x) \/ IsGone(x))

(* Whatever step the system takes, each client sees one of few moves: its   *)
(* own step, one of the broker's, or a fault.                               *)
LEMMA EveryMove ==
    ASSUME BaseInv, \A c \in Clients : StreamsSound(c), [Next]_vars, NEW x \in Clients
    PROVE  Moves(x)
<1>0. /\ NetworkTypeOK /\ ClientTypeOK /\ StateInv
      /\ toServer \in [Clients -> Seq(Requests)] /\ toClient \in [Clients -> Seq(Replies)]
  BY DEF BaseInv, ServerInv, ClientInv, NetworkTypeOK
<1>1. ASSUME UNCHANGED <<toServer[x], toClient[x]>>, BrokerKeeps(x)  PROVE IsSentCopies(x)
  <2>1. toClient'[x] = toClient[x] \o <<>> /\ <<>> \in Seq(CopiesTo(x))
    BY <1>0, <1>1, ConcatEmptySeq, EmptySeq
  <2> QED  BY <1>1, <2>1 DEF IsSentCopies, BrokerKeeps
<1>2. UNCHANGED clientState => ClientKeeps(x)
  BY DEF clientState, ClientKeeps
<1>3. UNCHANGED serverState => BrokerKeeps(x)
  BY DEF serverState, BrokerKeeps, Subscriptions
<1>4. ASSUME NEW c \in Clients, BrokerHandles(c)  PROVE Moves(x)
  <2>1. HandleMessage(c) /\ UNCHANGED clientState
    BY <1>4 DEF BrokerHandles
  <2>2. IF x = c THEN BrokerDoes(x) ELSE IsSentCopies(x)
    BY <2>1, BrokerEffect
  <2> QED  BY <1>2, <2>1, <2>2 DEF Moves
<1>5. ASSUME NEW c \in Clients, ActorSteps(c) \/ ApplicationSteps(c)  PROVE Moves(x)
  <2>1. StepOf(c) /\ UNCHANGED serverState
    BY <1>5 DEF ActorSteps, ApplicationSteps, StepOf
  <2>2. CASE x = c
    BY <1>3, <2>1, <2>2, ClientEffect DEF Moves
  <2>3. CASE x # c
    <3>1. UNCHANGED ActorState(x)
      BY <1>0, <2>1, <2>3, StepTypes
    <3>2. ClientKeeps(x) /\ UNCHANGED <<toServer[x], toClient[x]>>
      BY <3>1 DEF ActorState, ClientKeeps
    <3> QED  BY <1>1, <1>3, <2>1, <3>2 DEF Moves
  <2> QED  BY <2>2, <2>3
<1>6. ASSUME NEW c \in Clients, ClientExpires(c)  PROVE Moves(x)
  <2>1. /\ s_client_destroy(c) /\ clients' = clients \ {c} /\ UNCHANGED channels
        /\ UNCHANGED clientState /\ forgotten' = forgotten \cup {c}
    BY <1>6 DEF ClientExpires, HandleTimeout, s_client_destroy, Fault
  <2>2. Subscriptions(x)' = IF x = c THEN {} ELSE Subscriptions(x)
    BY <1>0, <2>1, DestroyEffect
  <2>3. UNCHANGED <<toServer[x], toClient[x]>>
    BY <2>1 DEF channels
  <2>4. CASE x = c
    BY <1>2, <2>1, <2>2, <2>3, <2>4 DEF IsForgotten, Moves
  <2>5. CASE x # c
    BY <1>1, <1>2, <2>1, <2>2, <2>3, <2>5 DEF BrokerKeeps, Moves
  <2> QED  BY <2>4, <2>5
<1>7. ASSUME NEW c \in Clients, StreamLoses(c)  PROVE Moves(x)
  <2>1. /\ ~up /\ UNCHANGED serverState /\ UNCHANGED clientState
        /\ LoseRequest(c) \/ LoseReply(c)
    BY <1>7 DEF StreamLoses, MessageLost
  <2>2. CASE x # c
    <3>1. UNCHANGED <<toServer[x], toClient[x]>>
      BY <1>0, <2>1, <2>2 DEF LoseRequest, LoseReply, TakeRequest
    <3> QED  BY <1>1, <1>2, <1>3, <2>1, <3>1 DEF Moves
  <2>3. CASE x = c /\ LoseRequest(c)
    BY <1>0, <1>2, <1>3, <2>1, <2>3 DEF LoseRequest, TakeRequest, Loses, Moves
  <2>4. CASE x = c /\ LoseReply(c)
    <3>1. /\ toClient[x] # <<>> /\ toServer' = toServer
          /\ toClient'[x] = SubSeq(toClient[x], 1, Len(toClient[x]) - 1)
      BY <1>0, <2>4 DEF LoseReply
    <3>2. Len(toClient[x]) - 1 \in 0..Len(toClient[x])
      BY <1>0, <3>1, LenProperties, EmptySeq
    <3> QED  BY <1>2, <1>3, <2>1, <3>1, <3>2 DEF Loses, Moves
  <2> QED  BY <2>1, <2>2, <2>3, <2>4
<1>8. ASSUME NEW c \in Clients, PeerGone(c)  PROVE Moves(x)
  <2>1. /\ UNCHANGED serverState /\ UNCHANGED clientState /\ toServer' = toServer
        /\ ~Alive(c) /\ toClient' = [toClient EXCEPT ![c] = <<>>]
    BY <1>8 DEF PeerGone
  <2>2. toClient'[x] = IF x = c THEN <<>> ELSE toClient[x]
    BY <1>0, <2>1
  <2>3. CASE x = c
    BY <1>2, <1>3, <2>1, <2>2, <2>3 DEF IsGone, Moves
  <2>4. CASE x # c
    BY <1>1, <1>2, <1>3, <2>1, <2>2, <2>4 DEF Moves
  <2> QED  BY <2>3, <2>4
<1>9. CASE BrokerStops
  <2>1. /\ ReactorEnds /\ clients' = {} /\ UNCHANGED channels /\ UNCHANGED clientState
        /\ forgotten' = forgotten \cup Clients
    BY <1>9 DEF BrokerStops, ServerStop, ReactorEnds, Fault
  <2>2. Subscriptions(x)' = {}
    BY <2>1, ReactorEndsEffect
  <2> QED  BY <1>2, <2>1, <2>2 DEF channels, IsForgotten, Moves
<1>10. CASE BrokerStarts
  <2>1. UNCHANGED <<clients, patterns, channels, clientState>>
    BY <1>10 DEF BrokerStarts, ServerStart
  <2>2. BrokerKeeps(x)
    BY <2>1 DEF BrokerKeeps, Subscriptions
  <2>3. UNCHANGED <<toServer[x], toClient[x]>>
    BY <2>1 DEF channels
  <2> QED  BY <1>1, <1>2, <2>1, <2>2, <2>3 DEF Moves
<1>11. CASE UNCHANGED vars
  BY <1>1, <1>2, <1>3, <1>11 DEF vars, channels, Moves
<1> QED
  BY <1>4, <1>5, <1>6, <1>7, <1>8, <1>9, <1>10, <1>11 DEF Next

(* What the faults make of a step for all clients.                          *)
LEMMA FaultsAddUp ==
    ASSUME BaseInv, \A c \in Clients : StreamsSound(c), [Next]_vars, up \/ NoBroker
    PROVE  /\ Kept' \subseteq Kept
           /\ faults'["stop"] = 0 => faults["stop"] = 0
           /\ up' \/ NoBroker'
<1>0. faults \in [FaultKinds -> 0..MaxFaults] /\ \A k \in FaultKinds : faults[k] \in Nat
  BY SystemAssumption DEF BaseInv
<1> DEFINE Good == /\ Kept' \subseteq Kept
                   /\ faults'["stop"] = 0 => faults["stop"] = 0
                   /\ up' \/ NoBroker'
<1>1. ASSUME UNCHANGED faultState, up' \/ ~up  PROVE Good
  BY <1>1 DEF faultState, Kept, NoBroker
<1>2. ASSUME NEW c \in Clients, BrokerHandles(c)  PROVE Good
  <2>1. HandleMessage(c) /\ UNCHANGED faultState
    BY <1>2 DEF BrokerHandles
  <2>2. UNCHANGED up
    BY <2>1, BrokerEffect
  <2> QED  BY <1>1, <2>1, <2>2
<1>3. ASSUME NEW c \in Clients,
             ActorSteps(c) \/ ApplicationSteps(c) \/ StreamLoses(c) \/ PeerGone(c)
      PROVE  Good
  <2>1. UNCHANGED serverState /\ UNCHANGED faultState
    BY <1>3 DEF ActorSteps, ApplicationSteps, StreamLoses, MessageLost, PeerGone
  <2> QED  BY <1>1, <2>1 DEF serverState
<1>4. ASSUME NEW c \in Clients, ClientExpires(c)  PROVE Good
  <2>1. /\ up /\ UNCHANGED up /\ forgotten' = forgotten \cup {c}
        /\ faults' = [faults EXCEPT !["timeout"] = faults["timeout"] + 1]
    BY <1>4 DEF ClientExpires, HandleTimeout, s_client_destroy, Fault
  <2> QED  BY <1>0, <2>1 DEF Kept, FaultKinds
<1>5. CASE BrokerStops
  <2>1. /\ forgotten' = forgotten \cup Clients
        /\ faults' = [faults EXCEPT !["stop"] = faults["stop"] + 1]
    BY <1>5 DEF BrokerStops, Fault
  <2>2. faults'["stop"] = faults["stop"] + 1 /\ faults["stop"] \in Nat
    BY <1>0, <2>1 DEF FaultKinds
  <2> QED  BY <2>1, <2>2 DEF Kept, NoBroker
<1>6. CASE BrokerStarts
  <2>1. up' /\ UNCHANGED faultState
    BY <1>6 DEF BrokerStarts, ServerStart
  <2> QED  BY <1>1, <2>1
<1>7. CASE UNCHANGED vars
  <2>1. UNCHANGED serverState /\ UNCHANGED faultState
    BY <1>7 DEF vars
  <2> QED  BY <1>1, <2>1 DEF serverState
<1> QED
  BY <1>2, <1>3, <1>4, <1>5, <1>6, <1>7 DEF Next

-----------------------------------------------------------------------------
(* What is sent is of the kind it says.                                     *)
LEMMA Kinds ==
    /\ Hello(NoIdentifier) \in RequestsOf({"HELLO"})
    /\ \A e \in Exprs : Subscribe(e) \in RequestsOf({"SUBSCRIBE"})
    /\ \A a \in Addresses, b \in Contents : Publish(a, NoHeaders, b) \in RequestsOf({"PUBLISH"})
    /\ Plain("HELLO_OK") \in RepliesOf({"HELLO_OK"})
    /\ Plain("SUBSCRIBE_OK") \in RepliesOf({"SUBSCRIBE_OK"})
    /\ Plain("INVALID") \in RepliesOf({"INVALID"})
<1>1. \A k \in {"HELLO_OK", "SUBSCRIBE_OK", "INVALID"} : Plain(k) \in Replies /\ Plain(k).id = k
  BY DEF Replies, PlainReplies, Plain
<1>2. /\ Hello(NoIdentifier).id = "HELLO"
      /\ \A e \in Exprs : Subscribe(e).id = "SUBSCRIBE"
      /\ \A a \in Addresses, b \in Contents : Publish(a, NoHeaders, b).id = "PUBLISH"
  BY DEF Hello, Subscribe, Publish
<1> QED  BY <1>1, <1>2, RequestType DEF RequestsOf, RepliesOf

(* A stream from which messages are taken, or lost, has no new ones.        *)
Shrinks(s, t) ==
    \/ t = s
    \/ s # <<>> /\ t = Tail(s)
    \/ t = <<>>
    \/ \E n \in 0..Len(s) : t = SubSeq(s, 1, n)

(* A queue that loses its head, its tail or all of it has no message that   *)
(* it did not have, and of none more.                                       *)
LEMMA ShrinksHas ==
    ASSUME NEW S, NEW s \in Seq(S), NEW t, Shrinks(s, t), NEW M
    PROVE  /\ Has(t, M) => Has(s, M)
           /\ AtMostOne(s, M) => AtMostOne(t, M)
<1>1. CASE t = s
  BY <1>1
<1>2. CASE s # <<>> /\ t = Tail(s)
  BY <1>2, HasTail
<1>3. CASE t = <<>>
  BY <1>3, HasNothing
<1>4. CASE \E n \in 0..Len(s) : t = SubSeq(s, 1, n)
  BY <1>4, HasPrefix DEF Has, AtMostOne
<1> QED  BY <1>1, <1>2, <1>3, <1>4 DEF Shrinks

(* Streams lose messages, or gain one that the client or the broker sent,   *)
(* or copies of a publication.                                              *)
LEMMA StreamMoves ==
    ASSUME NEW x \in Clients, Moves(x)
    PROVE  /\ \/ Shrinks(toServer[x], toServer'[x])
              \/ \E m \in RequestsOf({"HELLO", "SUBSCRIBE", "PUBLISH"}) :
                    toServer'[x] = Append(toServer[x], m)
           /\ \/ Shrinks(toClient[x], toClient'[x])
              \/ \E m \in RepliesOf({"HELLO_OK", "SUBSCRIBE_OK", "INVALID"}) :
                    toClient'[x] = Append(toClient[x], m)
              \/ \E d \in Seq(CopiesTo(x)) : toClient'[x] = toClient[x] \o d
<1>k. /\ \A K, L : K \subseteq L => RequestsOf(K) \subseteq RequestsOf(L)
      /\ \A K, L : K \subseteq L => RepliesOf(K) \subseteq RepliesOf(L)
  BY DEF RequestsOf, RepliesOf
<1> DEFINE ToServer == \/ Shrinks(toServer[x], toServer'[x])
                       \/ \E m \in RequestsOf({"HELLO", "SUBSCRIBE", "PUBLISH"}) :
                             toServer'[x] = Append(toServer[x], m)
           ToClient == \/ Shrinks(toClient[x], toClient'[x])
                       \/ \E m \in RepliesOf({"HELLO_OK", "SUBSCRIBE_OK", "INVALID"}) :
                             toClient'[x] = Append(toClient[x], m)
                       \/ \E d \in Seq(CopiesTo(x)) : toClient'[x] = toClient[x] \o d
<1>1. toServer'[x] = toServer[x] => ToServer
  BY DEF Shrinks
<1>2. toClient'[x] = toClient[x] => ToClient
  BY DEF Shrinks
<1>3. ASSUME NEW K, Takes(x, K)  PROVE ToClient
  BY <1>3 DEF Takes, Shrinks
<1>4. ASSUME NEW m \in RequestsOf({"HELLO"}) \cup RequestsOf({"SUBSCRIBE"}) \cup RequestsOf({"PUBLISH"}),
             toServer'[x] = Append(toServer[x], m)
      PROVE  ToServer
  BY <1>k, <1>4
<1>5. ASSUME NEW k \in {"HELLO_OK", "SUBSCRIBE_OK", "INVALID"}, Answers(x, k)  PROVE ToClient
  <2>1. Plain(k) \in RepliesOf({"HELLO_OK", "SUBSCRIBE_OK", "INVALID"})
    BY <1>k, Kinds
  <2> QED  BY <1>5, <2>1 DEF Answers
<1>6. CASE ClientDoes(x)
  <2>1. CASE Greets(x) \/ Subscribes(x) \/ Publishes(x)
    BY <1>2, <1>4, <2>1, Kinds DEF Greets, Subscribes, Publishes
  <2>2. CASE IsRefused(x)
    BY <1>3, <1>4, <2>2, Kinds DEF IsRefused
  <2>3. CASE Ends(x)
    BY <2>3 DEF Ends, Shrinks
  <2>4. CASE IsAnswered(x) \/ IsGreetedAgain(x) \/ PassesOn(x) \/ Discards(x)
    BY <1>1, <1>3, <2>4 DEF IsAnswered, IsGreetedAgain, PassesOn, Discards
  <2>5. CASE Aborts(x) \/ Calls(x) \/ IsDestroyed(x) \/ TakesStatus(x) \/ Unseen(x)
    BY <1>1, <1>2, <2>5 DEF Aborts, Calls, IsDestroyed, TakesStatus, Unseen
  <2> QED  BY <1>6, <2>1, <2>2, <2>3, <2>4, <2>5 DEF ClientDoes
<1>7. CASE BrokerDoes(x)
  <2>1. ToServer
    BY <1>7 DEF BrokerDoes, Handled, Shrinks
  <2> QED  BY <1>2, <1>5, <1>7, <2>1 DEF BrokerDoes, Welcomes, Confirms, Forwards, Refuses
<1>8. CASE IsSentCopies(x)
  BY <1>1, <1>8 DEF IsSentCopies
<1>9. CASE IsForgotten(x) \/ Loses(x) \/ IsGone(x)
  BY <1>9 DEF IsForgotten, Loses, IsGone, Shrinks
<1> QED  BY <1>6, <1>7, <1>8, <1>9 DEF Moves

(* Nothing but what StreamsSound says gets into the streams.                *)
LEMMA StreamsStep ==
    ASSUME BaseInv, NEW x \in Clients, StreamsSound(x), Moves(x)
    PROVE  StreamsSound(x)'
<1> DEFINE M == Requests \ RequestsOf({"HELLO", "SUBSCRIBE", "PUBLISH"})
           N == Replies \ RepliesOf({"HELLO_OK", "SUBSCRIBE_OK", "INVALID", "DELIVER"})
<1>0. /\ toServer[x] \in Seq(Requests) /\ toClient[x] \in Seq(Replies) /\ StateInv
      /\ ~Has(toServer[x], M) /\ ~Has(toClient[x], N)
  BY DEF BaseInv, ServerInv, NetworkTypeOK, StreamsSound
<1>1. ~Has(toServer'[x], M)
  <2>1. CASE Shrinks(toServer[x], toServer'[x])
    BY <1>0, <2>1, ShrinksHas
  <2>2. ASSUME NEW m \in RequestsOf({"HELLO", "SUBSCRIBE", "PUBLISH"}),
               toServer'[x] = Append(toServer[x], m)
        PROVE  ~Has(toServer'[x], M)
    <3>1. m \in Requests /\ m \notin M
      BY DEF RequestsOf
    <3> QED  BY <1>0, <2>2, <3>1, HasAppend
  <2> QED  BY <2>1, <2>2, StreamMoves
<1>2. ~Has(toClient'[x], N)
  <2>1. CASE Shrinks(toClient[x], toClient'[x])
    BY <1>0, <2>1, ShrinksHas
  <2>2. ASSUME NEW m \in RepliesOf({"HELLO_OK", "SUBSCRIBE_OK", "INVALID"}),
               toClient'[x] = Append(toClient[x], m)
        PROVE  ~Has(toClient'[x], N)
    <3>1. m \in Replies /\ m \notin N
      BY DEF RepliesOf
    <3> QED  BY <1>0, <2>2, <3>1, HasAppend
  <2>3. ASSUME NEW d \in Seq(CopiesTo(x)), toClient'[x] = toClient[x] \o d
        PROVE  ~Has(toClient'[x], N)
    <3>1. CopiesTo(x) \in SUBSET Replies /\ CopiesTo(x) \cap N = {}
      BY DEF CopiesTo, RepliesOf
    <3> HIDE DEF N
    <3>2. Has(toClient[x] \o d, N) <=> Has(toClient[x], N)
      BY <1>0, <3>1, HasCopies
    <3> QED  BY <1>0, <2>3, <3>2
  <2> QED  BY <2>1, <2>2, <2>3, StreamMoves
<1> DEFINE Silent == /\ toServer'[x] = <<>> /\ toClient'[x] = <<>> /\ replies'[x] = <<>>
                     /\ x \notin clients' /\ granted'[x] = {}
<1>3. ASSUME state'[x] = "start"  PROVE Silent
  <2>1. state[x] = "start" => /\ toServer[x] = <<>> /\ toClient[x] = <<>> /\ replies[x] = <<>>
                              /\ x \notin clients /\ granted[x] = {}
    BY DEF StreamsSound
  <2>2. CASE ClientDoes(x) /\ BrokerKeeps(x)
    <3>1. state[x] = "start" /\ (Calls(x) \/ Unseen(x))
      BY <1>3, <2>1, <2>2
         DEF ClientDoes, Greets, Aborts, Subscribes, Publishes, Ends, IsAnswered, IsGreetedAgain,
             IsRefused, PassesOn, Discards, Calls, IsDestroyed, TakesStatus, Unseen, Takes, Alive
    <3> QED  BY <2>1, <2>2, <3>1 DEF Calls, Unseen, BrokerKeeps
  <2>3. CASE ClientKeeps(x) /\ IsSentCopies(x)
    <3>1. /\ state[x] = "start" /\ replies'[x] = <<>> /\ granted'[x] = {} /\ x \notin clients'
          /\ toServer'[x] = <<>>
      BY <1>3, <2>1, <2>3 DEF ClientKeeps, IsSentCopies
    <3>2. CopiesTo(x) = {}
      <4>1. \A i \in DOMAIN patterns : ~Contains(patterns[i].clients, x)
        BY <1>0, <2>1, <3>1, PatternsShape, ContainsIsMembership
           DEF StateInv, ListsSound, SubscribersRegistered
      <4> QED  BY <4>1 DEF CopiesTo, Subscriptions
    <3>3. toClient'[x] = <<>>
      <4>1. PICK d \in Seq(CopiesTo(x)) : toClient'[x] = <<>> \o d
        BY <2>1, <2>3, <3>1 DEF IsSentCopies
      <4>2. d = <<>>
        <5>1. d # <<>> => Head(d) \in CopiesTo(x)
          BY HasTail
        <5> QED  BY <3>2, <5>1
      <4> QED  BY <1>0, <4>1, <4>2, ConcatEmptySeq, EmptySeq
    <3> QED  BY <3>1, <3>3
  <2>4. CASE ClientKeeps(x) /\ (BrokerDoes(x) \/ Loses(x) \/ IsGone(x))
    BY <1>3, <2>1, <2>4 DEF ClientKeeps, BrokerDoes, Handled, Loses, IsGone, Alive
  <2>5. CASE ClientKeeps(x) /\ IsForgotten(x)
    BY <1>3, <2>1, <2>5 DEF ClientKeeps, IsForgotten
  <2> QED  BY <2>2, <2>3, <2>4, <2>5 DEF Moves
<1> QED  BY <1>1, <1>2, <1>3 DEF StreamsSound, RequestsOf, RepliesOf

-----------------------------------------------------------------------------
(* A stream that leads with HELLO has no other, and stays one when its end  *)
(* is lost.                                                                 *)
LEMMA LeadingHello ==
    ASSUME NEW s \in Seq(Requests), LeadsWithHello(s)
    PROVE  /\ s # <<>> => Head(s).id = "HELLO" /\ ~Has(Tail(s), RequestsOf({"HELLO"}))
           /\ \A n \in 0..Len(s) : LeadsWithHello(SubSeq(s, 1, n))
<1>1. ASSUME s # <<>>  PROVE Head(s).id = "HELLO" /\ ~Has(Tail(s), RequestsOf({"HELLO"}))
  <2>1. /\ Head(s) = s[1] /\ Len(s) \in Nat /\ Len(s) # 0 /\ DOMAIN s = 1..Len(s)
        /\ DOMAIN Tail(s) = 1..(Len(s) - 1)
        /\ \A i \in 1..(Len(s) - 1) : Tail(s)[i] = s[i + 1]
    BY <1>1, HeadTailProperties, LenProperties, EmptySeq
  <2>2. Head(s).id = "HELLO"
    BY <2>1 DEF LeadsWithHello
  <2>3. ASSUME NEW i \in 1..(Len(s) - 1)  PROVE Tail(s)[i].id # "HELLO"
    <3>1. i + 1 \in DOMAIN s /\ i + 1 # 1 /\ Tail(s)[i] = s[i + 1]
      BY <2>1
    <3> QED  BY <3>1 DEF LeadsWithHello
  <2> QED  BY <2>1, <2>2, <2>3 DEF Has, RequestsOf
<1>2. ASSUME NEW n \in 0..Len(s)  PROVE LeadsWithHello(SubSeq(s, 1, n))
  BY HasPrefix DEF LeadsWithHello
<1> QED  BY <1>1, <1>2

(* A greeted client stays greeted: the broker's record and the actor's      *)
(* state agree as long as no fault comes between them.                      *)
LEMMA GreetedStep ==
    ASSUME BaseInv, up \/ NoBroker, NEW x \in Kept, x \notin forgotten',
           StreamsSound(x), Greeted(x), Moves(x)
    PROVE  Greeted(x)'
<1> DEFINE H == RequestsOf({"HELLO"})
           I == RepliesOf({"INVALID"})
           O == RepliesOf({"HELLO_OK"})
           Listed == /\ x \in clients' => ~Has(toServer'[x], H)
                     /\ x \notin clients' => LeadsWithHello(toServer'[x])
           Told == ~Has(toClient'[x], I) /\ (Has(toClient'[x], O) => x \in clients')
           Agreed == state'[x] \notin {"terminated", "aborted", "start", "connecting"} =>
                        x \in clients' /\ state'[x] # "reconnecting"
<1>0. /\ x \in Clients /\ up
      /\ toServer[x] \in Seq(Requests) /\ toClient[x] \in Seq(Replies)
      /\ x \in clients => ~Has(toServer[x], H)
      /\ x \notin clients => LeadsWithHello(toServer[x])
      /\ ~Has(toClient[x], I)
      /\ Has(toClient[x], O) => x \in clients
      /\ state[x] \notin {"terminated", "aborted", "start", "connecting"} =>
            x \in clients /\ state[x] # "reconnecting"
  BY DEF BaseInv, ServerInv, NetworkTypeOK, Greeted, Alive, Kept, NoBroker
<1>g. Listed /\ Told /\ Agreed => Greeted(x)'
  BY DEF Greeted, Alive
<1>h. /\ \A m \in H : m \in Requests /\ m.id = "HELLO"
      /\ \A m \in I : m \in Replies /\ m.id = "INVALID"
      /\ \A m \in O : m \in Replies /\ m.id = "HELLO_OK"
      /\ \A m \in Requests : m.id = "HELLO" => m \in H
      /\ \A m \in Replies : (m.id = "INVALID" => m \in I) /\ (m.id = "HELLO_OK" => m \in O)
  BY DEF RequestsOf, RepliesOf
<1>k. /\ Hello(NoIdentifier) \in Requests /\ Hello(NoIdentifier).id = "HELLO"
      /\ \A e \in Exprs : Subscribe(e) \in Requests /\ Subscribe(e).id = "SUBSCRIBE"
      /\ \A a \in Addresses, b \in Contents :
            Publish(a, NoHeaders, b) \in Requests /\ Publish(a, NoHeaders, b).id = "PUBLISH"
      /\ Plain("HELLO_OK") \in Replies /\ Plain("HELLO_OK").id = "HELLO_OK"
      /\ Plain("SUBSCRIBE_OK") \in Replies /\ Plain("SUBSCRIBE_OK").id = "SUBSCRIBE_OK"
      /\ Plain("INVALID") \in Replies /\ Plain("INVALID").id = "INVALID"
  BY Kinds DEF RequestsOf, RepliesOf
<1> HIDE DEF H, I, O
<1>t. Shrinks(toClient[x], toClient'[x]) /\ BrokerKeeps(x) => Told
  BY <1>0, ShrinksHas DEF BrokerKeeps
<1>s. toServer'[x] = toServer[x] /\ BrokerKeeps(x) => Listed
  BY <1>0 DEF BrokerKeeps
<1>u. ASSUME NEW K, Takes(x, K), BrokerKeeps(x)
      PROVE  /\ Told /\ Head(toClient[x]) \in Replies /\ Head(toClient[x]).id \in K
             /\ \A M : Head(toClient[x]) \in M => Has(toClient[x], M)
  BY <1>0, <1>t, <1>u, HasTail DEF Takes, Shrinks
<1>1. ASSUME ClientDoes(x), BrokerKeeps(x)  PROVE Listed /\ Told /\ Agreed
  <2>1. CASE Greets(x)
    <3>1. /\ toServer[x] = <<>> /\ toClient'[x] = toClient[x] /\ x \notin clients
          /\ state'[x] = "connecting" /\ toServer'[x] = Append(<<>>, Hello(NoIdentifier))
      BY <2>1 DEF Greets, StreamsSound
    <3>2. LeadsWithHello(toServer'[x])
      BY <1>k, <3>1 DEF LeadsWithHello
    <3> QED  BY <1>1, <1>t, <3>1, <3>2 DEF Shrinks, BrokerKeeps
  <2>2. CASE Aborts(x)
    BY <1>1, <1>s, <1>t, <2>2 DEF Aborts, Shrinks
  <2>3. CASE Subscribes(x) \/ Publishes(x)
    <3>1. /\ state[x] = "connected" /\ state'[x] \in {"connected", "subscribing"}
          /\ toClient'[x] = toClient[x] /\ x \in clients
      BY <1>0, <2>3 DEF Subscribes, Publishes
    <3>2. PICK m \in Requests : m \notin H /\ toServer'[x] = Append(toServer[x], m)
      <4>1. \A m \in Requests : m.id \in {"SUBSCRIBE", "PUBLISH"} => m \notin H
        BY <1>h
      <4> QED  BY <1>k, <2>3, <4>1 DEF Subscribes, Publishes
    <3>3. ~Has(toServer'[x], H)
      BY <1>0, <3>1, <3>2, HasAppend
    <3> QED  BY <1>1, <1>t, <3>1, <3>3 DEF Shrinks, BrokerKeeps
  <2>4. CASE Ends(x)
    <3>1. PICK n \in 0..Len(toServer[x]) : toServer'[x] = SubSeq(toServer[x], 1, n)
      BY <2>4 DEF Ends
    <3>2. Listed
      <4>1. x \in clients => ~Has(toServer'[x], H)
        BY <1>0, <3>1, ShrinksHas DEF Shrinks
      <4>2. x \notin clients => LeadsWithHello(toServer'[x])
        BY <1>0, <3>1, LeadingHello
      <4> QED  BY <1>1, <4>1, <4>2 DEF BrokerKeeps
    <3> QED  BY <1>1, <1>t, <2>4, <3>2 DEF Ends, Shrinks
  <2>5. CASE IsAnswered(x)
    <3>1. Told /\ Listed
      BY <1>1, <1>s, <1>u, <2>5 DEF IsAnswered
    <3>2. x \in clients /\ state'[x] = "connected"
      <4>1. CASE Takes(x, {"HELLO_OK"})
        BY <1>0, <1>1, <1>h, <1>u, <2>5, <4>1 DEF IsAnswered
      <4>2. CASE state[x] = "subscribing"
        BY <1>0, <2>5, <4>2 DEF IsAnswered
      <4> QED  BY <2>5, <4>1, <4>2 DEF IsAnswered
    <3> QED  BY <1>1, <3>1, <3>2 DEF BrokerKeeps
  <2>6. CASE IsGreetedAgain(x)
    BY <1>0, <2>6 DEF IsGreetedAgain, Takes, Alive
  <2>7. CASE IsRefused(x)
    BY <1>0, <1>1, <1>h, <1>u, <2>7 DEF IsRefused
  <2>8. CASE PassesOn(x) \/ Discards(x)
    <3>1. Told /\ Listed /\ state'[x] = state[x]
      BY <1>1, <1>s, <1>u, <2>8 DEF PassesOn, Discards
    <3> QED  BY <1>0, <1>1, <3>1 DEF BrokerKeeps
  <2>9. CASE Calls(x) \/ IsDestroyed(x) \/ TakesStatus(x) \/ Unseen(x)
    <3>1. toServer'[x] = toServer[x] /\ toClient'[x] = toClient[x] /\ state'[x] = state[x]
      BY <2>9 DEF Calls, IsDestroyed, TakesStatus, Unseen
    <3> QED  BY <1>0, <1>1, <1>s, <1>t, <3>1 DEF BrokerKeeps, Shrinks
  <2> QED  BY <1>1, <2>1, <2>2, <2>3, <2>4, <2>5, <2>6, <2>7, <2>8, <2>9 DEF ClientDoes
<1>2. ASSUME ClientKeeps(x), BrokerDoes(x)  PROVE Listed /\ Told /\ Agreed
  <2>1. /\ toServer[x] # <<>> /\ toServer'[x] = Tail(toServer[x]) /\ state'[x] = state[x]
        /\ Request(x) = Head(toServer[x]) /\ Request(x) \in Requests
    BY <1>2 DEF ClientKeeps, BrokerDoes, Handled, Request
  <2>2. x \notin clients => Request(x).id = "HELLO" /\ ~Has(toServer'[x], H)
    BY <1>0, <2>1, LeadingHello DEF H
  <2>3. x \in clients => Request(x).id # "HELLO" /\ ~Has(toServer'[x], H)
    BY <1>0, <1>h, <2>1, HasTail
  <2>4. CASE Welcomes(x)
    <3>1. Told
      <4>1. Plain("HELLO_OK") \notin I
        BY <1>h, <1>k
      <4> QED  BY <1>0, <1>k, <2>4, <4>1, HasAppend DEF Welcomes, Answers
    <3> QED  BY <1>0, <2>1, <2>2, <2>4, <3>1 DEF Welcomes
  <2>5. CASE Confirms(x)
    <3>1. Told
      <4>1. Plain("SUBSCRIBE_OK") \notin I
        BY <1>h, <1>k
      <4> QED  BY <1>0, <1>k, <2>5, <4>1, HasAppend DEF Confirms, Answers
    <3> QED  BY <1>0, <2>1, <2>3, <2>5, <3>1 DEF Confirms
  <2>6. CASE Forwards(x)
    BY <1>0, <2>1, <2>3, <2>6 DEF Forwards
  <2>7. CASE Refuses(x)
    <3>1. Request(x).id \in {"HELLO", "SUBSCRIBE", "PUBLISH"}
      <4>1. Request(x) \notin Requests \ RequestsOf({"HELLO", "SUBSCRIBE", "PUBLISH"})
        BY <1>0, <2>1, HasTail DEF StreamsSound
      <4> QED  BY <2>1, <4>1 DEF RequestsOf
    <3> QED  BY <2>2, <2>3, <2>7, <3>1 DEF Refuses, Accepted
  <2> QED  BY <1>2, <2>4, <2>5, <2>6, <2>7 DEF BrokerDoes
<1>3. ASSUME ClientKeeps(x), IsSentCopies(x)  PROVE Listed /\ Told /\ Agreed
  <2>1. PICK d \in Seq(CopiesTo(x)) : toClient'[x] = toClient[x] \o d
    BY <1>3 DEF IsSentCopies
  <2>2. /\ CopiesTo(x) \in SUBSET Replies /\ CopiesTo(x) \cap I = {} /\ CopiesTo(x) \cap O = {}
    BY <1>h DEF CopiesTo
  <2>3. /\ Has(toClient'[x], I) <=> Has(toClient[x], I)
        /\ Has(toClient'[x], O) <=> Has(toClient[x], O)
    <3>1. ASSUME NEW M, CopiesTo(x) \cap M = {}
          PROVE  Has(toClient[x] \o d, M) <=> Has(toClient[x], M)
      BY <1>0, <2>2, <3>1, HasCopies
    <3> QED  BY <2>1, <2>2, <3>1
  <2> QED  BY <1>0, <1>3, <2>3 DEF IsSentCopies, ClientKeeps
<1>4. ASSUME ClientKeeps(x), IsGone(x)  PROVE Listed /\ Told /\ Agreed
  BY <1>0, <1>4, <1>s, <1>t DEF IsGone, ClientKeeps, Shrinks, BrokerKeeps
<1> QED  BY <1>0, <1>g, <1>1, <1>2, <1>3, <1>4 DEF Moves, IsForgotten, Loses

(* Whoever agrees with the broker goes on doing so.                         *)
LEMMA GreetingStep == BaseInv /\ GreetingInv /\ [Next]_vars => GreetingInv'
<1> SUFFICES ASSUME BaseInv, GreetingInv, [Next]_vars  PROVE GreetingInv'
  OBVIOUS
<1>0. /\ up \/ NoBroker
      /\ \A c \in Clients : StreamsSound(c)
      /\ \A c \in Kept : Greeted(c)
  BY DEF GreetingInv
<1>1. Kept' \subseteq Kept /\ (up' \/ NoBroker')
  BY <1>0, FaultsAddUp
<1>2. \A c \in Clients : StreamsSound(c)'
  BY <1>0, EveryMove, StreamsStep
<1>3. ASSUME NEW c \in Clients, c \in Kept'  PROVE Greeted(c)'
  <2>1. c \in Kept /\ c \notin forgotten'
    BY <1>1, <1>3 DEF Kept
  <2>2. Moves(c)
    BY <1>0, <2>1, EveryMove
  <2> QED  BY <1>0, <2>1, <2>2, GreetedStep
<1>4. Kept' \subseteq Clients
  BY DEF Kept
<1> QED  BY <1>1, <1>2, <1>3, <1>4 DEF GreetingInv

(* Who is refused is told.                                                  *)
LEMMA RefusalIsTold ==
    ASSUME BaseInv, NEW x \in Clients, Refuses(x)
    PROVE  Has(toClient'[x], RepliesOf({"INVALID"}))
<1>1. toClient[x] \in Seq(Replies) /\ Plain("INVALID") \in Replies
  BY Kinds DEF BaseInv, ServerInv, NetworkTypeOK, RepliesOf
<1> QED  BY <1>1, Kinds, HasAppend DEF Refuses, Answers

-----------------------------------------------------------------------------
(* A subscription is confirmed once, to the call that asked for it, and     *)
(* after the broker has stored it.                                          *)
LEMMA ConfirmedStep ==
    ASSUME BaseInv, up \/ NoBroker, NEW x \in Kept, x \notin forgotten',
           Greeted(x), Greeted(x)', Alive(x) => Confirmed(x), Moves(x), Alive(x)'
    PROVE  Confirmed(x)'
<1> DEFINE S == RequestsOf({"SUBSCRIBE"})
           K == RepliesOf({"SUBSCRIBE_OK"})
           Wrong(k) == {m \in S : k # InSubscribe(m.expression)}
           Heard(k) == k.name = "subscribe" /\ k.expression \in Subscriptions(x)
           HeardNext(k) == k.name = "subscribe" /\ k.expression \in Subscriptions(x)'
           T1 == Has(toServer'[x], S) =>
                    /\ state'[x] = "subscribing" /\ ~Has(toServer'[x], Wrong(call'[x]))
                    /\ ~Has(toClient'[x], K) /\ AtMostOne(toServer'[x], S)
           T2 == Has(toClient'[x], K) =>
                    /\ state'[x] = "subscribing" /\ HeardNext(call'[x])
                    /\ AtMostOne(toClient'[x], K)
           T3 == Has(replies'[x], {Success}) => call'[x].name = "connect" \/ HeardNext(call'[x])
           T4 == granted'[x] \subseteq Subscriptions(x)'
<1>0. /\ x \in Clients /\ up
      /\ toServer[x] \in Seq(Requests) /\ toClient[x] \in Seq(Replies)
      /\ replies[x] \in Seq(ActorReplies)
  BY DEF BaseInv, ServerInv, ClientInv, NetworkTypeOK, ClientTypeOK, Kept, NoBroker
<1>1. Alive(x)
  BY DEF Moves, ClientDoes, ClientKeeps, Alive, Greets, Subscribes, Publishes, Ends, Aborts,
         IsAnswered, IsGreetedAgain, IsRefused, PassesOn, Discards, Takes, Calls, IsDestroyed,
         TakesStatus, Unseen
<1>2. StatusSound(replies[x], call[x], state[x])
  BY <1>0, StatusFormNow DEF BaseInv, ClientInv
<1>3. /\ Has(toServer[x], S) =>
            /\ state[x] = "subscribing" /\ ~Has(toServer[x], Wrong(call[x]))
            /\ ~Has(toClient[x], K) /\ AtMostOne(toServer[x], S)
      /\ Has(toClient[x], K) =>
            state[x] = "subscribing" /\ Heard(call[x]) /\ AtMostOne(toClient[x], K)
      /\ Has(replies[x], {Success}) => call[x].name = "connect" \/ Heard(call[x])
      /\ granted[x] \subseteq Subscriptions(x)
  BY <1>1 DEF Confirmed, Holds
<1>4. /\ state[x] \notin {"start", "connecting"} => state[x] # "reconnecting"
      /\ ~Has(toClient[x], RepliesOf({"INVALID"})) /\ ~Has(toClient'[x], RepliesOf({"INVALID"}))
  BY <1>1 DEF Greeted
<1>g. T1 /\ T2 /\ T3 /\ T4 => Confirmed(x)'
  BY DEF Confirmed, Holds
<1>h. /\ \A m \in S : m \in Requests /\ m.id = "SUBSCRIBE"
      /\ \A m \in Requests : m.id = "SUBSCRIBE" => m \in S
      /\ \A m \in K : m \in Replies /\ m.id = "SUBSCRIBE_OK"
      /\ \A m \in Replies : m.id = "SUBSCRIBE_OK" => m \in K
      /\ \A k : Wrong(k) \subseteq S
      /\ \A k, m : m \in S /\ m \notin Wrong(k) => k = InSubscribe(m.expression)
      /\ \A e \in Exprs : Subscribe(e) \notin Wrong(InSubscribe(e))
  BY DEF RequestsOf, RepliesOf, Subscribe
<1> HIDE DEF S, K, Wrong
<1> DEFINE NoNewAsk == /\ \A M \in SUBSET S : Has(toServer'[x], M) => Has(toServer[x], M)
                       /\ AtMostOne(toServer[x], S) => AtMostOne(toServer'[x], S)
           NoNewOk == /\ Has(toClient'[x], K) => Has(toClient[x], K)
                      /\ AtMostOne(toClient[x], K) => AtMostOne(toClient'[x], K)
<1>a. ASSUME NoNewAsk, NoNewOk, state'[x] = state[x], call'[x] = call[x],
             Subscriptions(x) \subseteq Subscriptions(x)'
      PROVE  T1 /\ T2
  BY <1>3, <1>a, <1>h
<1>b. ASSUME NoNewAsk, NoNewOk, state[x] # "subscribing"  PROVE T1 /\ T2
  BY <1>3, <1>b
<1>c. Shrinks(toServer[x], toServer'[x]) => NoNewAsk
  BY <1>0, ShrinksHas
<1>d. Shrinks(toClient[x], toClient'[x]) => NoNewOk
  BY <1>0, ShrinksHas
<1>e. ASSUME NEW m \in Requests, m \notin S, toServer'[x] = Append(toServer[x], m)  PROVE NoNewAsk
  BY <1>0, <1>e, HasAppend
<1>f. ASSUME replies'[x] = replies[x], call'[x] = call[x], granted'[x] = granted[x],
             Subscriptions(x) \subseteq Subscriptions(x)'
      PROVE  T3 /\ T4
  BY <1>3, <1>f
<1> HIDE DEF NoNewAsk, NoNewOk
<1>5. ASSUME ClientDoes(x), BrokerKeeps(x)  PROVE T1 /\ T2 /\ T3 /\ T4
  <2>0. Subscriptions(x)' = Subscriptions(x)
    BY <1>5 DEF BrokerKeeps
  <2>1. CASE Greets(x) \/ Publishes(x)
    <3>1. /\ state[x] # "subscribing" /\ toClient'[x] = toClient[x] /\ replies'[x] = replies[x]
          /\ call'[x] = call[x] /\ granted'[x] = granted[x]
      BY <2>1 DEF Greets, Publishes
    <3>2. NoNewAsk
      <4>1. /\ Hello(NoIdentifier) \in Requests \ S
            /\ \A a \in Addresses, b \in Contents : Publish(a, NoHeaders, b) \in Requests \ S
        BY <1>h, RequestType DEF Hello, Publish
      <4> QED  BY <1>e, <2>1, <4>1 DEF Greets, Publishes
    <3> QED  BY <1>b, <1>d, <1>f, <2>0, <3>1, <3>2 DEF Shrinks
  <2>2. CASE Subscribes(x)
    <3>1. PICK e \in Exprs : /\ call[x] = InSubscribe(e)
                             /\ toServer'[x] = Append(toServer[x], Subscribe(e))
      BY <2>2 DEF Subscribes
    <3>2. /\ state[x] = "connected" /\ state'[x] = "subscribing" /\ toClient'[x] = toClient[x]
          /\ replies'[x] = replies[x] /\ call'[x] = call[x] /\ granted'[x] = granted[x]
      BY <2>2 DEF Subscribes
    <3>3. ~Has(toServer[x], S) /\ ~Has(toClient[x], K) /\ ~Has(toServer[x], Wrong(call[x]))
      BY <1>3, <1>h, <3>2, HasFewer
    <3>4. /\ AtMostOne(toServer'[x], S) /\ ~Has(toServer'[x], Wrong(call[x]))
      BY <1>0, <1>h, <3>1, <3>3, HasAppend, HasNone, RequestType
    <3> QED  BY <1>f, <2>0, <3>2, <3>3, <3>4
  <2>3. CASE Ends(x) \/ Aborts(x) \/ IsDestroyed(x)
    BY <1>1, <2>3 DEF Ends, Aborts, IsDestroyed, Alive
  <2>t. ASSUME NEW J, Takes(x, J), UNCHANGED toServer[x]
        PROVE  /\ NoNewAsk /\ NoNewOk /\ call'[x] = call[x] /\ granted'[x] = granted[x]
               /\ Head(toClient[x]) \in Replies /\ Head(toClient[x]).id \in J
               /\ \A M : Head(toClient[x]) \in M => Has(toClient[x], M)
               /\ Head(toClient[x]) \in K /\ AtMostOne(toClient[x], K) => ~Has(toClient'[x], K)
    <3>1. /\ toClient[x] # <<>> /\ toClient'[x] = Tail(toClient[x])
          /\ call'[x] = call[x] /\ granted'[x] = granted[x] /\ Head(toClient[x]).id \in J
      BY <2>t DEF Takes
    <3>2. NoNewAsk /\ NoNewOk
      BY <1>c, <1>d, <2>t, <3>1 DEF Shrinks
    <3> QED  BY <1>0, <3>1, <3>2, HasTail
  <2>4. CASE IsAnswered(x) /\ state[x] = "connecting"
    <3>1. T1 /\ T2
      BY <1>b, <2>t, <2>4 DEF IsAnswered
    <3>2. call'[x].name = "connect" /\ granted'[x] = granted[x]
      BY <1>2, <2>4 DEF IsAnswered, Takes, StatusSound
    <3> QED  BY <1>3, <2>0, <3>1, <3>2
  <2>5. CASE IsAnswered(x) /\ state[x] = "subscribing"
    <3>1. Takes(x, {"SUBSCRIBE_OK"}) /\ UNCHANGED toServer[x]
      BY <2>5 DEF IsAnswered
    <3>2. Head(toClient[x]) \in K /\ Has(toClient[x], K)
      BY <1>h, <2>t, <3>1
    <3>3. ~Has(toServer'[x], S) /\ ~Has(toClient'[x], K)
      BY <1>3, <2>t, <3>1, <3>2
    <3> QED  BY <1>3, <2>0, <2>t, <3>1, <3>2, <3>3
  <2>6. CASE IsGreetedAgain(x) \/ IsRefused(x)
    <3>1. CASE IsGreetedAgain(x)
      BY <1>4, <3>1 DEF IsGreetedAgain
    <3>2. CASE IsRefused(x)
      <4>1. toClient[x] # <<>> /\ Head(toClient[x]).id = "INVALID"
        BY <3>2 DEF IsRefused, Takes
      <4> QED  BY <1>0, <1>4, <4>1, HasTail DEF RepliesOf
    <3> QED  BY <2>6, <3>1, <3>2
  <2>7. CASE PassesOn(x)
    <3>1. /\ Takes(x, {"DELIVER"}) /\ state'[x] = state[x] /\ UNCHANGED toServer[x]
          /\ replies'[x] = Append(replies[x], Message(Head(toClient[x])))
      BY <2>7 DEF PassesOn
    <3>2. Message(Head(toClient[x])) \in ActorReplies /\ Message(Head(toClient[x])) # Success
      BY <2>t, <3>1, ActorReplyType DEF Message, Success
    <3>3. Has(replies'[x], {Success}) => Has(replies[x], {Success})
      BY <1>0, <3>1, <3>2, HasAppend
    <3> QED  BY <1>3, <1>a, <2>0, <2>t, <3>1, <3>3
  <2>8. CASE Discards(x)
    BY <1>a, <1>f, <2>0, <2>t, <2>8 DEF Discards
  <2>9. CASE Calls(x)
    <3>1. state[x] # "subscribing" /\ ~Has(replies[x], {Success})
      BY <1>2, <2>9 DEF Calls, StatusSound, In
    <3> QED  BY <1>3, <1>b, <1>c, <1>d, <2>0, <2>9, <3>1 DEF Calls, Shrinks
  <2>10. CASE TakesStatus(x)
    <3>1. /\ replies[x] # <<>> /\ replies'[x] = Tail(replies[x]) /\ state'[x] = state[x]
          /\ NoNewAsk /\ NoNewOk
      BY <1>c, <1>d, <2>10 DEF TakesStatus, Shrinks
    <3>2. /\ Has(replies'[x], {Success}) => Has(replies[x], {Success})
          /\ Head(replies[x]) = Success => Has(replies[x], {Success})
          /\ Head(replies[x]) = Success /\ AtMostOne(replies[x], {Success}) =>
                ~Has(replies'[x], {Success})
      BY <1>0, <3>1, HasTail
    <3>3. CASE UNCHANGED <<call[x], granted[x]>>
      BY <1>3, <1>a, <2>0, <3>1, <3>2, <3>3
    <3>4. CASE /\ call[x].name = "recv" \/ (call[x].name = "connect" /\ Head(replies[x]) = Success)
               /\ UNCHANGED granted[x]
      <4>1. state[x] # "subscribing" /\ ~Has(replies'[x], {Success})
        BY <1>2, <3>2, <3>4 DEF StatusSound
      <4> QED  BY <1>3, <1>b, <2>0, <3>1, <3>4, <4>1
    <3>5. CASE /\ call[x].name = "subscribe" /\ Head(replies[x]) = Success
               /\ granted'[x] = granted[x] \cup {call[x].expression}
      <4>1. state[x] # "subscribing" /\ ~Has(replies'[x], {Success}) /\ Has(replies[x], {Success})
        BY <1>2, <3>2, <3>5 DEF StatusSound
      <4> QED  BY <1>3, <1>b, <2>0, <3>1, <3>5, <4>1
    <3> QED  BY <2>10, <3>3, <3>4, <3>5 DEF TakesStatus
  <2>11. CASE Unseen(x)
    BY <1>a, <1>c, <1>d, <1>f, <2>0, <2>11 DEF Unseen, Shrinks
  <2> QED
    BY <1>5, <2>1, <2>2, <2>3, <2>4, <2>5, <2>6, <2>7, <2>8, <2>9, <2>10, <2>11
       DEF ClientDoes, IsAnswered
<1>6. ASSUME ClientKeeps(x), BrokerDoes(x)  PROVE T1 /\ T2 /\ T3 /\ T4
  <2>1. /\ toServer[x] # <<>> /\ toServer'[x] = Tail(toServer[x]) /\ state'[x] = state[x]
        /\ Request(x) = Head(toServer[x]) /\ Request(x) \in Requests
        /\ replies'[x] = replies[x] /\ call'[x] = call[x] /\ granted'[x] = granted[x]
    BY <1>6 DEF ClientKeeps, BrokerDoes, Handled, Request
  <2>2. NoNewAsk
    BY <1>c, <2>1 DEF Shrinks
  <2>3. ~Refuses(x)
    BY <1>0, <1>4, RefusalIsTold
  <2>4. CASE Welcomes(x)
    <3>1. NoNewOk
      <4>1. Plain("HELLO_OK") \in Replies \ K
        BY <1>h, Kinds DEF RepliesOf
      <4> QED  BY <1>0, <2>4, <4>1, HasAppend DEF Welcomes, Answers, NoNewOk
    <3> QED  BY <1>a, <1>f, <2>1, <2>2, <2>4, <3>1 DEF Welcomes
  <2>5. CASE Forwards(x)
    BY <1>a, <1>d, <1>f, <2>1, <2>2, <2>5 DEF Forwards, Shrinks
  <2>6. CASE Confirms(x)
    <3>1. /\ Request(x) \in S /\ toClient'[x] = Append(toClient[x], Plain("SUBSCRIBE_OK"))
          /\ Subscriptions(x)' = Subscriptions(x) \cup {Request(x).expression}
      BY <1>h, <2>1, <2>6 DEF Confirms, Answers
    <3>2. /\ Has(toServer[x], S)
          /\ AtMostOne(toServer[x], S) => ~Has(toServer'[x], S)
          /\ Request(x) \in Wrong(call[x]) => Has(toServer[x], Wrong(call[x]))
      BY <1>0, <2>1, <3>1, HasTail
    <3>3. /\ state[x] = "subscribing" /\ ~Has(toClient[x], K) /\ ~Has(toServer'[x], S)
          /\ call[x] = InSubscribe(Request(x).expression)
      <4>1. /\ state[x] = "subscribing" /\ ~Has(toClient[x], K) /\ ~Has(toServer'[x], S)
            /\ Request(x) \notin Wrong(call[x])
        BY <1>3, <3>2
      <4> QED  BY <1>h, <3>1, <4>1
    <3>4. AtMostOne(toClient'[x], K)
      <4>1. Plain("SUBSCRIBE_OK") \in Replies
        BY Kinds DEF RepliesOf
      <4> QED  BY <1>0, <3>1, <3>3, <4>1, HasNone, HasAppend
    <3>5. HeardNext(call'[x])
      BY <2>1, <3>1, <3>3 DEF InSubscribe
    <3> QED  BY <1>f, <2>1, <3>1, <3>3, <3>4, <3>5
  <2> QED  BY <1>6, <2>3, <2>4, <2>5, <2>6 DEF BrokerDoes
<1>7. ASSUME ClientKeeps(x), IsSentCopies(x)  PROVE T1 /\ T2 /\ T3 /\ T4
  <2>1. PICK d \in Seq(CopiesTo(x)) : toClient'[x] = toClient[x] \o d
    BY <1>7 DEF IsSentCopies
  <2>2. CopiesTo(x) \in SUBSET Replies /\ CopiesTo(x) \cap K = {}
    BY <1>h DEF CopiesTo
  <2>3. NoNewOk
    <3>1. /\ Has(toClient[x] \o d, K) <=> Has(toClient[x], K)
          /\ AtMostOne(toClient[x], K) => AtMostOne(toClient[x] \o d, K)
      BY <1>0, <2>2, HasCopies
    <3> QED  BY <2>1, <3>1 DEF NoNewOk
  <2>4. NoNewAsk
    BY <1>7, <1>c DEF IsSentCopies, Shrinks
  <2> QED  BY <1>7, <1>a, <1>f, <2>3, <2>4 DEF IsSentCopies, ClientKeeps
<1> QED  BY <1>0, <1>1, <1>g, <1>5, <1>6, <1>7 DEF Moves, IsForgotten, Loses, IsGone

(* What was confirmed is held.                                              *)
LEMMA ConfirmedInvStep ==
    BaseInv /\ GreetingInv /\ GreetingInv' /\ ConfirmedInv /\ [Next]_vars => ConfirmedInv'
<1> SUFFICES ASSUME BaseInv, GreetingInv, GreetingInv', ConfirmedInv, [Next]_vars
             PROVE  ConfirmedInv'
  OBVIOUS
<1>0. /\ up \/ NoBroker
      /\ \A c \in Clients : StreamsSound(c)
      /\ Kept' \subseteq Kept /\ Kept' \subseteq Clients
  BY FaultsAddUp DEF GreetingInv, Kept
<1>1. ASSUME NEW c \in Clients, c \in Kept', Alive(c)'  PROVE Confirmed(c)'
  <2>1. c \in Kept /\ c \notin forgotten'
    BY <1>0, <1>1 DEF Kept
  <2>2. Greeted(c) /\ Greeted(c)' /\ Moves(c)
    BY <1>0, <1>1, <2>1, EveryMove DEF GreetingInv
  <2>3. Alive(c) => Confirmed(c)
    BY <2>1 DEF ConfirmedInv
  <2> QED  BY <1>0, <1>1, <2>1, <2>2, <2>3, ConfirmedStep
<1> QED  BY <1>0, <1>1 DEF ConfirmedInv

-----------------------------------------------------------------------------
(* Who has no record has no subscription.                                   *)
LEMMA Unsubscribed ==
    ASSUME StateInv, NEW x \in Clients, x \notin clients
    PROVE  Subscriptions(x) = {}
<1>1. \A i \in DOMAIN patterns : ~Contains(patterns[i].clients, x)
  BY PatternsShape, ContainsIsMembership DEF StateInv, ListsSound, SubscribersRegistered
<1> QED  BY <1>1 DEF Subscriptions

(* What is stored, sent and passed on for a client is what it asked for.    *)
LEMMA AskedForStep ==
    ASSUME BaseInv, NEW x \in Clients, StreamsSound(x), AskedFor(x), Moves(x)
    PROVE  AskedFor(x)'
<1> DEFINE Of(A) == UNION {Matches[e] : e \in A}
           BadAsk(A) == {m \in RequestsOf({"SUBSCRIBE"}) : m.expression \notin A}
           BadCopy(A) == {m \in RepliesOf({"DELIVER"}) : m.address \notin Of(A)}
           BadMessage(A) == {m \in ActorReplies : m.kind = "MESSAGE" /\ m.address \notin Of(A)}
           B == /\ Subscriptions(x)' \subseteq Asked(x)'
                /\ ~Has(toServer'[x], BadAsk(Asked(x)'))
                /\ ~Has(toClient'[x], BadCopy(Asked(x)'))
                /\ ~Has(replies'[x], BadMessage(Asked(x)'))
           Still == /\ Subscriptions(x)' \subseteq Asked(x)
                    /\ ~Has(toServer'[x], BadAsk(Asked(x)))
                    /\ ~Has(toClient'[x], BadCopy(Asked(x)))
                    /\ ~Has(replies'[x], BadMessage(Asked(x)))
<1>0. /\ toServer[x] \in Seq(Requests) /\ toClient[x] \in Seq(Replies)
      /\ replies[x] \in Seq(ActorReplies) /\ StateInv
  BY DEF BaseInv, ServerInv, ClientInv, NetworkTypeOK, ClientTypeOK
<1>1. /\ Subscriptions(x) \subseteq Asked(x)
      /\ ~Has(toServer[x], BadAsk(Asked(x)))
      /\ ~Has(toClient[x], BadCopy(Asked(x)))
      /\ ~Has(replies[x], BadMessage(Asked(x)))
  BY DEF AskedFor, Wanted
<1>g. B => AskedFor(x)'
  BY DEF AskedFor, Wanted
<1>m. ASSUME Still, Asked(x) \subseteq Asked(x)'  PROVE B
  <2>1. /\ BadAsk(Asked(x)') \subseteq BadAsk(Asked(x))
        /\ BadCopy(Asked(x)') \subseteq BadCopy(Asked(x))
        /\ BadMessage(Asked(x)') \subseteq BadMessage(Asked(x))
    BY <1>m
  <2> HIDE DEF BadAsk, BadCopy, BadMessage
  <2> QED  BY <1>m, <2>1, HasFewer
<1>k. /\ \A A : \A m \in BadAsk(A) : m \in Requests /\ m.id = "SUBSCRIBE" /\ m.expression \notin A
      /\ \A A : \A m \in Requests : m.id = "SUBSCRIBE" /\ m.expression \notin A => m \in BadAsk(A)
      /\ \A A : \A m \in BadCopy(A) : m \in Replies /\ m.id = "DELIVER" /\ m.address \notin Of(A)
      /\ \A A : \A m \in Replies : m.id = "DELIVER" /\ m.address \notin Of(A) => m \in BadCopy(A)
      /\ \A A : \A m \in BadMessage(A) : m \in ActorReplies /\ m.kind = "MESSAGE" /\ m.address \notin Of(A)
  BY DEF RequestsOf, RepliesOf
<1>a. \A c : Asked(c) = granted[c] \cup (IF call[c].name = "subscribe" THEN {call[c].expression}
                                                                       ELSE {})
  BY DEF Asked
<1>b. UNCHANGED <<call[x], granted[x]>> => Asked(x)' = Asked(x)
  BY DEF Asked
<1> HIDE DEF Of, BadAsk, BadCopy, BadMessage
<1>q. Shrinks(toServer[x], toServer'[x]) => ~Has(toServer'[x], BadAsk(Asked(x)))
  BY <1>0, <1>1, ShrinksHas
<1>p. Shrinks(toClient[x], toClient'[x]) => ~Has(toClient'[x], BadCopy(Asked(x)))
  BY <1>0, <1>1, ShrinksHas
<1>r. Shrinks(replies[x], replies'[x]) => ~Has(replies'[x], BadMessage(Asked(x)))
  BY <1>0, <1>1, ShrinksHas
<1>2. ASSUME ClientDoes(x), BrokerKeeps(x)  PROVE B
  <2>0. Subscriptions(x)' = Subscriptions(x) /\ Subscriptions(x)' \subseteq Asked(x)
    BY <1>1, <1>2 DEF BrokerKeeps
  <2>s. ASSUME NEW m \in Requests, m.id # "SUBSCRIBE" \/ m.expression \in Asked(x),
               toServer'[x] = Append(toServer[x], m)
        PROVE  ~Has(toServer'[x], BadAsk(Asked(x)))
    BY <1>0, <1>1, <1>k, <2>s, HasAppend
  <2>t. ASSUME NEW J, Takes(x, J)
        PROVE  /\ ~Has(toClient'[x], BadCopy(Asked(x))) /\ UNCHANGED <<call[x], granted[x]>>
               /\ Head(toClient[x]) \in Replies /\ Head(toClient[x]).id \in J
               /\ Head(toClient[x]) \notin BadCopy(Asked(x))
    <3>1. /\ toClient[x] # <<>> /\ toClient'[x] = Tail(toClient[x])
          /\ UNCHANGED <<call[x], granted[x]>> /\ Head(toClient[x]).id \in J
      BY <2>t DEF Takes
    <3> QED  BY <1>0, <1>1, <3>1, HasTail
  <2>1. CASE Greets(x) \/ Subscribes(x) \/ Publishes(x)
    <3>1. PICK m \in Requests : /\ m.id # "SUBSCRIBE" \/ m.expression \in Asked(x)
                                /\ toServer'[x] = Append(toServer[x], m)
      <4>1. /\ Hello(NoIdentifier).id # "SUBSCRIBE"
            /\ \A a \in Addresses, b \in Contents : Publish(a, NoHeaders, b).id # "SUBSCRIBE"
        BY DEF Hello, Publish
      <4>2. ASSUME NEW e \in Exprs, call[x] = InSubscribe(e)
            PROVE  Subscribe(e).expression \in Asked(x)
        BY <1>a, <4>2 DEF InSubscribe, Subscribe
      <4> QED  BY <2>1, <4>1, <4>2, RequestType DEF Greets, Subscribes, Publishes
    <3>2. UNCHANGED <<toClient[x], replies[x], call[x], granted[x]>>
      BY <2>1 DEF Greets, Subscribes, Publishes
    <3> QED  BY <1>b, <1>m, <1>p, <1>r, <2>0, <2>s, <3>1, <3>2 DEF Shrinks
  <2>2. CASE Aborts(x)
    <3>1. /\ toServer'[x] = <<>> /\ toClient'[x] = <<>> /\ replies'[x] = <<>>
          /\ x \notin clients
      BY <2>2 DEF Aborts, StreamsSound
    <3> QED  BY <1>0, <2>0, <3>1, HasNothing, Unsubscribed
  <2>3. CASE Ends(x)
    BY <1>b, <1>m, <1>p, <1>q, <1>r, <2>0, <2>3 DEF Ends, Shrinks
  <2>4. CASE IsAnswered(x)
    <3>1. /\ ~Has(toClient'[x], BadCopy(Asked(x))) /\ UNCHANGED <<call[x], granted[x]>>
          /\ toServer'[x] = toServer[x] /\ replies'[x] = Append(replies[x], Success)
      BY <2>t, <2>4 DEF IsAnswered
    <3>2. ~Has(replies'[x], BadMessage(Asked(x)))
      <4>1. Success \in ActorReplies /\ Success.kind = "SUCCESS"
        BY ActorReplyType DEF Success
      <4> QED  BY <1>0, <1>1, <1>k, <3>1, <4>1, HasAppend
    <3> QED  BY <1>b, <1>m, <1>q, <2>0, <3>1, <3>2 DEF Shrinks
  <2>5. CASE IsGreetedAgain(x) \/ Discards(x)
    <3>1. /\ ~Has(toClient'[x], BadCopy(Asked(x))) /\ UNCHANGED <<call[x], granted[x]>>
          /\ toServer'[x] = toServer[x] /\ replies'[x] = replies[x]
      BY <2>t, <2>5 DEF IsGreetedAgain, Discards
    <3> QED  BY <1>b, <1>m, <1>q, <1>r, <2>0, <3>1 DEF Shrinks
  <2>6. CASE IsRefused(x)
    <3>1. /\ ~Has(toClient'[x], BadCopy(Asked(x))) /\ UNCHANGED <<call[x], granted[x]>>
          /\ toServer'[x] = Append(toServer[x], Hello(NoIdentifier)) /\ replies'[x] = replies[x]
      BY <2>t, <2>6 DEF IsRefused
    <3>2. Hello(NoIdentifier) \in Requests /\ Hello(NoIdentifier).id # "SUBSCRIBE"
      BY RequestType DEF Hello
    <3> QED  BY <1>b, <1>m, <1>r, <2>0, <2>s, <3>1, <3>2 DEF Shrinks
  <2>7. CASE PassesOn(x)
    <3> DEFINE m == Head(toClient[x])
    <3>1. /\ ~Has(toClient'[x], BadCopy(Asked(x))) /\ UNCHANGED <<call[x], granted[x]>>
          /\ toServer'[x] = toServer[x] /\ replies'[x] = Append(replies[x], Message(m))
          /\ m \in Replies /\ m.id = "DELIVER" /\ m \notin BadCopy(Asked(x))
      BY <2>t, <2>7 DEF PassesOn
    <3> HIDE DEF m
    <3>2. Message(m) \in ActorReplies /\ Message(m).address = m.address
      BY <3>1, ActorReplyType DEF Message
    <3>3. ~Has(replies'[x], BadMessage(Asked(x)))
      <4>1. m.address \in Of(Asked(x))
        BY <1>k, <3>1
      <4>2. Message(m) \notin BadMessage(Asked(x))
        BY <1>k, <3>2, <4>1
      <4> QED  BY <1>0, <1>1, <3>1, <3>2, <4>2, HasAppend
    <3> QED  BY <1>b, <1>m, <1>q, <2>0, <3>1, <3>3 DEF Shrinks
  <2>8. CASE Calls(x) \/ IsDestroyed(x)
    <3>1. /\ UNCHANGED <<toServer[x], toClient[x], granted[x]>>
          /\ call[x].name # "subscribe"
          /\ replies'[x] = replies[x] \/ replies'[x] = <<>>
      BY <2>8 DEF Calls, IsDestroyed, In
    <3>2. Asked(x) \subseteq Asked(x)'
      BY <3>1 DEF Asked
    <3> QED  BY <1>m, <1>p, <1>q, <1>r, <2>0, <3>1, <3>2 DEF Shrinks
  <2>9. CASE TakesStatus(x)
    <3>1. /\ UNCHANGED <<toServer[x], toClient[x]>>
          /\ replies[x] # <<>> /\ replies'[x] = Tail(replies[x])
      BY <2>9 DEF TakesStatus
    <3>2. Asked(x) \subseteq Asked(x)'
      BY <2>9 DEF TakesStatus, Asked, In
    <3> QED  BY <1>m, <1>p, <1>q, <1>r, <2>0, <3>1, <3>2 DEF Shrinks
  <2>10. CASE Unseen(x)
    BY <1>b, <1>m, <1>p, <1>q, <1>r, <2>0, <2>10 DEF Unseen, Shrinks
  <2> QED  BY <1>2, <2>1, <2>2, <2>3, <2>4, <2>5, <2>6, <2>7, <2>8, <2>9, <2>10 DEF ClientDoes
<1>3. ASSUME ClientKeeps(x)
      PROVE  Asked(x)' = Asked(x) /\ ~Has(replies'[x], BadMessage(Asked(x)))
  BY <1>3, <1>b, <1>r DEF ClientKeeps, Shrinks
<1>4. ASSUME ClientKeeps(x), BrokerDoes(x)  PROVE B
  <2>1. /\ toServer[x] # <<>> /\ toServer'[x] = Tail(toServer[x])
        /\ Request(x) = Head(toServer[x]) /\ Request(x) \in Requests
    BY <1>4 DEF BrokerDoes, Handled, Request
  <2>2. ~Has(toServer'[x], BadAsk(Asked(x))) /\ Request(x) \notin BadAsk(Asked(x))
    BY <1>0, <1>1, <2>1, HasTail
  <2>3. ~Has(toClient'[x], BadCopy(Asked(x)))
    <3>1. ASSUME NEW k \in {"HELLO_OK", "SUBSCRIBE_OK", "INVALID"}, Answers(x, k)
          PROVE  ~Has(toClient'[x], BadCopy(Asked(x)))
      <4>1. Plain(k) \in Replies /\ Plain(k).id # "DELIVER"
        BY PlainReplyType DEF PlainReplies, Plain
      <4> QED  BY <1>0, <1>1, <1>k, <3>1, <4>1, HasAppend DEF Answers
    <3>2. toClient'[x] = toClient[x] => ~Has(toClient'[x], BadCopy(Asked(x)))
      BY <1>1
    <3> QED  BY <1>4, <3>1, <3>2 DEF BrokerDoes, Welcomes, Confirms, Forwards, Refuses
  <2>4. Subscriptions(x)' \subseteq Asked(x)
    <3>1. CASE Confirms(x)
      <4>1. Request(x).expression \in Asked(x)
        BY <1>k, <2>1, <2>2, <3>1 DEF Confirms
      <4> QED  BY <1>1, <3>1, <4>1 DEF Confirms
    <3> QED  BY <1>1, <1>4, <3>1 DEF BrokerDoes, Welcomes, Forwards, Refuses
  <2> QED  BY <1>3, <1>4, <2>2, <2>3, <2>4
<1>5. ASSUME ClientKeeps(x), IsSentCopies(x)  PROVE B
  <2>1. PICK d \in Seq(CopiesTo(x)) : toClient'[x] = toClient[x] \o d
    BY <1>5 DEF IsSentCopies
  <2>2. CopiesTo(x) \in SUBSET Replies
    BY DEF CopiesTo
  <2>3. CopiesTo(x) \cap BadCopy(Asked(x)) = {}
    <3>1. ASSUME NEW m \in CopiesTo(x)  PROVE m.address \in Of(Asked(x))
      BY <1>1 DEF CopiesTo, Of
    <3> QED  BY <1>k, <3>1
  <2>4. ~Has(toClient'[x], BadCopy(Asked(x)))
    <3>1. Has(toClient[x] \o d, BadCopy(Asked(x))) <=> Has(toClient[x], BadCopy(Asked(x)))
      BY <1>0, <2>2, <2>3, HasCopies
    <3> QED  BY <1>1, <2>1, <3>1
  <2>5. ~Has(toServer'[x], BadAsk(Asked(x))) /\ Subscriptions(x)' \subseteq Asked(x)
    BY <1>1, <1>5, <1>q DEF IsSentCopies, Shrinks
  <2> QED  BY <1>3, <1>5, <2>4, <2>5
<1>6. ASSUME ClientKeeps(x), IsForgotten(x) \/ Loses(x) \/ IsGone(x)  PROVE B
  <2>1. Subscriptions(x)' \subseteq Asked(x)
    BY <1>1, <1>6 DEF IsForgotten, Loses, IsGone, BrokerKeeps
  <2>2. Shrinks(toServer[x], toServer'[x]) /\ Shrinks(toClient[x], toClient'[x])
    BY <1>6 DEF IsForgotten, Loses, IsGone, Shrinks
  <2> QED  BY <1>3, <1>6, <1>p, <1>q, <2>1, <2>2
<1> QED  BY <1>g, <1>2, <1>4, <1>5, <1>6 DEF Moves

-----------------------------------------------------------------------------
(* An answer that is awaited is on its way, or the request for it is.       *)
Awaits(c) ==
    /\ state[c] \in {"connecting", "reconnecting"} =>
          \/ Has(toServer[c], RequestsOf({"HELLO"}))
          \/ Has(toClient[c], RepliesOf({"HELLO_OK", "INVALID"}))
    /\ state[c] = "subscribing" =>
          \/ Has(toServer[c], RequestsOf({"SUBSCRIBE"}))
          \/ Has(toClient[c], RepliesOf({"SUBSCRIBE_OK", "INVALID"}))

AnswerInv == faults["stop"] = 0 => \A c \in Clients : Awaits(c)

(* Pending, in terms of what a stream has.                                  *)
LEMMA PendingHas ==
    /\ \A K : \A s \in Seq(Requests) : Pending(K, s) <=> Has(s, RequestsOf(K))
    /\ \A K : \A s \in Seq(Replies) : Pending(K, s) <=> Has(s, RepliesOf(K))
<1>1. \A S : \A s \in Seq(S) : \A i \in DOMAIN s : s[i] \in S
  BY ElementOfSeq, LenProperties
<1> QED  BY <1>1 DEF Pending, Has, RequestsOf, RepliesOf

(* Each HELLO and SUBSCRIBE is answered, and the actor never drops its own  *)
(* answer.                                                                  *)
LEMMA AwaitsStep ==
    ASSUME BaseInv, up \/ NoBroker, NEW x \in Clients, faults["stop"] = 0,
           StreamsSound(x), Awaits(x), Moves(x)
    PROVE  Awaits(x)'
<1> DEFINE Hellos == RequestsOf({"HELLO"})
           Subs == RequestsOf({"SUBSCRIBE"})
           Greetings == RepliesOf({"HELLO_OK", "INVALID"})
           Confirmations == RepliesOf({"SUBSCRIBE_OK", "INVALID"})
           A1 == state'[x] \in {"connecting", "reconnecting"} =>
                    Has(toServer'[x], Hellos) \/ Has(toClient'[x], Greetings)
           A2 == state'[x] = "subscribing" =>
                    Has(toServer'[x], Subs) \/ Has(toClient'[x], Confirmations)
<1>0. /\ toServer[x] \in Seq(Requests) /\ toClient[x] \in Seq(Replies) /\ up
      /\ state[x] \in {"connecting", "reconnecting"} =>
            Has(toServer[x], Hellos) \/ Has(toClient[x], Greetings)
      /\ state[x] = "subscribing" => Has(toServer[x], Subs) \/ Has(toClient[x], Confirmations)
  BY DEF BaseInv, ServerInv, NetworkTypeOK, Awaits, NoBroker
<1>g. A1 /\ A2 => Awaits(x)'
  BY DEF Awaits
<1>h. /\ \A m \in Requests : (m \in Hellos <=> m.id = "HELLO") /\ (m \in Subs <=> m.id = "SUBSCRIBE")
      /\ \A m \in Replies : /\ m \in Greetings <=> m.id \in {"HELLO_OK", "INVALID"}
                            /\ m \in Confirmations <=> m.id \in {"SUBSCRIBE_OK", "INVALID"}
  BY DEF RequestsOf, RepliesOf
<1>k. /\ \A k \in {"HELLO_OK", "SUBSCRIBE_OK", "INVALID"} : Plain(k) \in Replies /\ Plain(k).id = k
      /\ Hello(NoIdentifier) \in Requests /\ Hello(NoIdentifier).id = "HELLO"
      /\ \A e \in Exprs : Subscribe(e) \in Requests /\ Subscribe(e).id = "SUBSCRIBE"
  BY PlainReplyType, RequestType DEF PlainReplies, Plain, Hello, Subscribe
<1> HIDE DEF Hellos, Subs, Greetings, Confirmations
<1>a. ASSUME state'[x] = state[x],
             \A M : Has(toServer[x], M) => Has(toServer'[x], M),
             \A M : Has(toClient[x], M) => Has(toClient'[x], M)
      PROVE  A1 /\ A2
  BY <1>0, <1>a
<1>b. state'[x] \notin {"connecting", "reconnecting", "subscribing"} => A1 /\ A2
  OBVIOUS
<1>c. ASSUME NEW m \in Requests, toServer'[x] = Append(toServer[x], m), NEW M
      PROVE  Has(toServer'[x], M) <=> Has(toServer[x], M) \/ m \in M
  BY <1>0, <1>c, HasAppend
<1>1. ASSUME ClientDoes(x)  PROVE A1 /\ A2
  <2>1. CASE Greets(x) \/ IsRefused(x)
    BY <1>c, <1>h, <1>k, <2>1 DEF Greets, IsRefused
  <2>2. CASE Subscribes(x)
    BY <1>c, <1>h, <1>k, <2>2 DEF Subscribes
  <2>3. CASE Publishes(x) \/ Aborts(x) \/ Ends(x) \/ IsAnswered(x) \/ IsGreetedAgain(x) \/ PassesOn(x)
    BY <1>b, <2>3 DEF Publishes, Aborts, Ends, IsAnswered, IsGreetedAgain, PassesOn
  <2>4. CASE Discards(x)
    <3>1. /\ toClient[x] # <<>> /\ toClient'[x] = Tail(toClient[x])
          /\ toServer'[x] = toServer[x] /\ state'[x] = state[x]
          /\ Head(toClient[x]).id \notin Awaited(state[x])
      BY <2>4 DEF Discards, Takes
    <3>2. /\ Head(toClient[x]) \in Replies
          /\ \A M : Has(toClient[x], M) => Has(toClient'[x], M) \/ Head(toClient[x]) \in M
      BY <1>0, <3>1, HasTail
    <3>3. /\ state[x] \in {"connecting", "reconnecting"} => Head(toClient[x]) \notin Greetings
          /\ state[x] = "subscribing" => Head(toClient[x]) \notin Confirmations
      BY <1>h, <3>1, <3>2 DEF Awaited
    <3> QED  BY <1>0, <3>1, <3>2, <3>3
  <2>5. CASE Calls(x) \/ IsDestroyed(x) \/ TakesStatus(x) \/ Unseen(x)
    BY <1>a, <2>5 DEF Calls, IsDestroyed, TakesStatus, Unseen
  <2> QED  BY <1>1, <2>1, <2>2, <2>3, <2>4, <2>5 DEF ClientDoes
<1>2. ASSUME ClientKeeps(x), BrokerDoes(x)  PROVE A1 /\ A2
  <2>1. /\ toServer[x] # <<>> /\ toServer'[x] = Tail(toServer[x]) /\ state'[x] = state[x]
        /\ Request(x) = Head(toServer[x]) /\ Request(x) \in Requests
    BY <1>2 DEF ClientKeeps, BrokerDoes, Handled, Request
  <2>2. \A M : Has(toServer[x], M) => Has(toServer'[x], M) \/ Request(x) \in M
    BY <1>0, <2>1, HasTail
  <2>3. ASSUME NEW k \in {"HELLO_OK", "SUBSCRIBE_OK", "INVALID"}, Answers(x, k), NEW M
        PROVE  Has(toClient'[x], M) <=> Has(toClient[x], M) \/ Plain(k) \in M
    BY <1>0, <1>k, <2>3, HasAppend DEF Answers
  <2>4. CASE Welcomes(x)
    <3>1. Request(x) \notin Subs /\ Plain("HELLO_OK") \in Greetings
      BY <1>h, <1>k, <2>1, <2>4 DEF Welcomes
    <3> QED  BY <1>0, <2>1, <2>2, <2>3, <2>4, <3>1 DEF Welcomes
  <2>5. CASE Confirms(x)
    <3>1. Request(x) \notin Hellos /\ Plain("SUBSCRIBE_OK") \in Confirmations
      BY <1>h, <1>k, <2>1, <2>5 DEF Confirms
    <3> QED  BY <1>0, <2>1, <2>2, <2>3, <2>5, <3>1 DEF Confirms
  <2>6. CASE Forwards(x)
    <3>1. Request(x) \notin Hellos /\ Request(x) \notin Subs
      BY <1>h, <2>1, <2>6 DEF Forwards
    <3> QED  BY <1>0, <2>1, <2>2, <2>6, <3>1 DEF Forwards
  <2>7. CASE Refuses(x)
    <3>1. Plain("INVALID") \in Greetings /\ Plain("INVALID") \in Confirmations
      BY <1>h, <1>k
    <3> QED  BY <2>3, <2>7, <3>1 DEF Refuses
  <2> QED  BY <1>2, <2>4, <2>5, <2>6, <2>7 DEF BrokerDoes
<1>3. ASSUME ClientKeeps(x), IsSentCopies(x)  PROVE A1 /\ A2
  <2>1. PICK d \in Seq(CopiesTo(x)) : toClient'[x] = toClient[x] \o d
    BY <1>3 DEF IsSentCopies
  <2>2. /\ CopiesTo(x) \in SUBSET Replies
        /\ CopiesTo(x) \cap Greetings = {} /\ CopiesTo(x) \cap Confirmations = {}
    BY <1>h DEF CopiesTo
  <2>3. ASSUME NEW M, CopiesTo(x) \cap M = {}
        PROVE  Has(toClient'[x], M) <=> Has(toClient[x], M)
    BY <1>0, <2>1, <2>2, <2>3, HasCopies
  <2>4. /\ Has(toClient'[x], Greetings) <=> Has(toClient[x], Greetings)
        /\ Has(toClient'[x], Confirmations) <=> Has(toClient[x], Confirmations)
    BY <2>2, <2>3
  <2> QED  BY <1>0, <1>3, <2>4 DEF IsSentCopies, ClientKeeps
<1>4. ASSUME ClientKeeps(x), IsForgotten(x)  PROVE A1 /\ A2
  BY <1>a, <1>4 DEF IsForgotten, ClientKeeps
<1>5. ASSUME ClientKeeps(x), IsGone(x)  PROVE A1 /\ A2
  BY <1>b, <1>5 DEF IsGone, ClientKeeps, Alive
<1>6. ~Loses(x)
  BY <1>0 DEF Loses
<1> QED  BY <1>g, <1>1, <1>2, <1>3, <1>4, <1>5, <1>6 DEF Moves

(* As long as no broker took it to its grave.                               *)
LEMMA AnswerInvStep == BaseInv /\ GreetingInv /\ AnswerInv /\ [Next]_vars => AnswerInv'
<1> SUFFICES ASSUME BaseInv, GreetingInv, AnswerInv, [Next]_vars, faults'["stop"] = 0,
                    NEW c \in Clients
             PROVE  Awaits(c)'
  BY DEF AnswerInv
<1>1. \A x \in Clients : StreamsSound(x)
  BY DEF GreetingInv
<1>2. faults["stop"] = 0 /\ Moves(c)
  BY <1>1, FaultsAddUp, EveryMove DEF GreetingInv
<1>3. Awaits(c) /\ StreamsSound(c) /\ (up \/ NoBroker)
  BY <1>2 DEF AnswerInv, GreetingInv
<1> QED  BY <1>2, <1>3, AwaitsStep

(* Whatever the broker forgets, nothing comes that was not asked for.       *)
LEMMA AskedForInvStep == BaseInv /\ GreetingInv /\ AskedForInv /\ [Next]_vars => AskedForInv'
<1> SUFFICES ASSUME BaseInv, GreetingInv, AskedForInv, [Next]_vars, NEW c \in Clients
             PROVE  AskedFor(c)'
  BY DEF AskedForInv
<1>1. \A x \in Clients : StreamsSound(x)
  BY DEF GreetingInv
<1> QED  BY <1>1, EveryMove, AskedForStep DEF AskedForInv

-----------------------------------------------------------------------------
(* The inductive invariant of the system.                                   *)
SystemInv == BaseInv /\ GreetingInv /\ ConfirmedInv /\ AskedForInv /\ AnswerInv

(* It holds at first: the broker has no record, and nothing is under way.   *)
LEMMA SystemInvInit == Init => SystemInv
<1> SUFFICES ASSUME Init  PROVE SystemInv
  OBVIOUS
<1>1. ServerInit /\ NetworkInit /\ ClientInit
  BY DEF Init, ServerInit
<1>2. BaseInv
  <2>1. 0 \in 0..MaxFaults
    BY SystemAssumption
  <2> QED  BY <1>1, <2>1, InvInit, ClientInvInit DEF Init, BaseInv
<1>3. up /\ clients = {} /\ patterns = <<>>
  BY <1>1 DEF ServerInit
<1>4. ASSUME NEW c \in Clients
      PROVE  /\ toServer[c] = <<>> /\ toClient[c] = <<>> /\ replies[c] = <<>>
             /\ state[c] = "start" /\ granted[c] = {} /\ Subscriptions(c) = {}
  BY <1>1, <1>3 DEF NetworkInit, ClientInit, Subscriptions
<1>5. ASSUME NEW c \in Clients  PROVE StreamsSound(c) /\ Greeted(c)
  <2>1. DOMAIN toServer[c] = {}
    BY <1>4
  <2> QED  BY <1>3, <1>4, <2>1, HasNothing DEF StreamsSound, Greeted, LeadsWithHello
<1>6. ASSUME NEW c \in Clients  PROVE Confirmed(c) /\ AskedFor(c) /\ Awaits(c)
  BY <1>4, HasNothing DEF Confirmed, AskedFor, Awaits
<1>7. Kept \subseteq Clients
  BY DEF Kept
<1> QED
  BY <1>2, <1>3, <1>5, <1>6, <1>7
     DEF SystemInv, GreetingInv, ConfirmedInv, AskedForInv, AnswerInv

(* And every step of the broker, of a client, of an application and of a    *)
(* fault preserves it.                                                      *)
THEOREM SystemInvStep == SystemInv /\ [Next]_vars => SystemInv'
<1> SUFFICES ASSUME SystemInv, [Next]_vars  PROVE SystemInv'
  OBVIOUS
<1>1. BaseInv /\ GreetingInv /\ ConfirmedInv /\ AskedForInv /\ AnswerInv
  BY DEF SystemInv
<1>2. BaseInv'
  <2>1. \A x \in Clients : NotPrompted(x)
    BY <1>1, NonePrompted DEF BaseInv, ClientInv, GreetingInv
  <2> QED  BY <1>1, <2>1, BaseStep
<1>3. GreetingInv'
  BY <1>1, GreetingStep
<1>4. ConfirmedInv'
  BY <1>1, <1>3, ConfirmedInvStep
<1>5. AskedForInv' /\ AnswerInv'
  BY <1>1, AskedForInvStep, AnswerInvStep
<1> QED  BY <1>2, <1>3, <1>4, <1>5 DEF SystemInv

(* The invariant holds in every state of the broker and its clients,        *)
(* whatever the applications call and whichever timeouts and restarts       *)
(* happen.                                                                  *)
THEOREM SystemInvAlways == Spec => []SystemInv
BY SystemInvInit, SystemInvStep, PTL DEF Spec

-----------------------------------------------------------------------------
(* Records, lists, pipes and streams hold only what they are meant to.      *)
THEOREM SystemTypeCorrect == Spec => []SystemTypeOK
<1>1. SystemInv => SystemTypeOK
  <2> SUFFICES ASSUME SystemInv  PROVE SystemTypeOK
    OBVIOUS
  <2>1. ServerInv /\ ClientInv /\ faults \in [FaultKinds -> 0..MaxFaults] /\ forgotten \subseteq Clients
    BY DEF SystemInv, BaseInv
  <2>2. ServerTypeOK /\ ClientTypeOK
    BY <2>1 DEF ServerInv, StateInv, ServerTypeOK, ClientInv
  <2> QED  BY <2>1, <2>2 DEF SystemTypeOK
<1> QED  BY <1>1, SystemInvAlways, PTL

(* A client that the broker never forgot is never told INVALID: it and the  *)
(* broker agree on whether it is greeted at every step between.             *)
THEOREM KeptIsNeverRefused == Spec => []NeverRefused
<1>1. SystemInv => NeverRefused
  <2> SUFFICES ASSUME SystemInv, NEW c \in Kept  PROVE ~Pending({"INVALID"}, toClient[c])
    BY DEF NeverRefused
  <2>1. ~Has(toClient[c], RepliesOf({"INVALID"}))
    BY DEF SystemInv, GreetingInv, Greeted
  <2>2. toClient[c] \in Seq(Replies)
    BY DEF Kept, SystemInv, BaseInv, ServerInv, NetworkTypeOK
  <2> QED  BY <2>1, <2>2, PendingHas
<1> QED  BY <1>1, SystemInvAlways, PTL

(* A subscribe call that returned 0 stands for a subscription that the      *)
(* broker holds, as long as it does not forget the client.                  *)
THEOREM ConfirmedIsHeld == Spec => []GrantedIsHeld
<1>1. SystemInv => GrantedIsHeld
  BY DEF SystemInv, ConfirmedInv, Confirmed, GrantedIsHeld
<1> QED  BY <1>1, SystemInvAlways, PTL

(* No actor waits for an answer that is not on its way.                     *)
THEOREM NoneWaitsForNothing == Spec => []AnswerOnTheWay
<1>1. SystemInv => AnswerOnTheWay
  <2> SUFFICES ASSUME SystemInv, faults["stop"] = 0
               PROVE  \A c \in Clients :
                        /\ state[c] \in {"connecting", "reconnecting"} =>
                              \/ Pending({"HELLO"}, toServer[c])
                              \/ Pending({"HELLO_OK", "INVALID"}, toClient[c])
                        /\ state[c] = "subscribing" =>
                              \/ Pending({"SUBSCRIBE"}, toServer[c])
                              \/ Pending({"SUBSCRIBE_OK", "INVALID"}, toClient[c])
    BY DEF AnswerOnTheWay
  <2>1. ASSUME NEW c \in Clients
        PROVE  /\ Awaits(c)
               /\ toServer[c] \in Seq(Requests) /\ toClient[c] \in Seq(Replies)
    BY DEF SystemInv, AnswerInv, BaseInv, ServerInv, NetworkTypeOK
  <2> QED  BY <2>1, PendingHas DEF Awaits
<1> QED  BY <1>1, SystemInvAlways, PTL

(* No copy is under way to an application that did not ask for it.          *)
THEOREM NothingUnasked == Spec => []OnlyAskedFor
<1>1. SystemInv => OnlyAskedFor
  <2> SUFFICES ASSUME SystemInv, NEW c \in Clients
               PROVE  /\ \A i \in DOMAIN toClient[c] :
                            toClient[c][i].id = "DELIVER" => toClient[c][i].address \in Wanted(c)
                      /\ \A i \in DOMAIN replies[c] :
                            replies[c][i].kind = "MESSAGE" => replies[c][i].address \in Wanted(c)
    BY DEF OnlyAskedFor, Wanted
  <2>1. /\ AskedFor(c)
        /\ toClient[c] \in Seq(Replies) /\ replies[c] \in Seq(ActorReplies)
    BY DEF SystemInv, AskedForInv, BaseInv, ServerInv, NetworkTypeOK, ClientInv, ClientTypeOK
  <2>2. /\ \A i \in DOMAIN toClient[c] : toClient[c][i] \in Replies
        /\ \A i \in DOMAIN replies[c] : replies[c][i] \in ActorReplies
    BY <2>1, ElementOfSeq, LenProperties
  <2> QED  BY <2>1, <2>2 DEF AskedFor, Has, RepliesOf
<1> QED  BY <1>1, SystemInvAlways, PTL

(* When the broker handles a publication, every other client that it never  *)
(* forgot and whose subscribe call returned 0 for a matching expression is  *)
(* sent a copy.                                                             *)
THEOREM CopyForEveryKeptSubscriber == Spec => KeptSubscribersGetCopy
<1>1. SystemInv => CopiesGoTo(Kept)
  <2> SUFFICES ASSUME SystemInv, NEW p \in Clients, HandlePublish(p),
                      NEW c \in Kept \ {p}, Interested(c, Request(p).address)
               PROVE  Len(toClient'[c]) > Len(toClient[c])
    BY DEF CopiesGoTo
  <2>1. /\ NetworkTypeOK /\ StateInv /\ c \in Clients /\ c # p
        /\ toClient[c] \in Seq(Replies)
    BY DEF SystemInv, BaseInv, ServerInv, Kept, NetworkTypeOK
  <2>2. /\ Request(p).address \in Addresses /\ Request(p).content \in Contents
        /\ forward_to_subscribers(p, Request(p))
    BY <2>1, TakeRequestType, RequestShape DEF HandlePublish, Handles
  <2>3. granted[c] \subseteq Subscriptions(c)
    BY DEF SystemInv, ConfirmedInv, Confirmed, Interested
  <2>4. Matching(c, Request(p).address) # {}
    BY <2>3 DEF Interested, Matching
  <2>5. PICK d \in Seq(CopiesFor(Request(p).address)) :
            toClient'[c] = toClient[c] \o d /\ d # <<>>
    <3> DEFINE m == Request(p)
    <3>1. /\ m.address \in Addresses /\ m.content \in Contents
          /\ forward_to_subscribers(p, m)
      BY <2>2
    <3> HIDE DEF m
    <3>2. \E d \in Seq(CopiesFor(m.address)) :
             /\ toClient'[c] = toClient[c] \o d
             /\ d # <<>> <=> c # p /\ Matching(c, m.address) # {}
      BY <2>1, <3>1, ForwardEffect
    <3> QED  BY <2>1, <2>4, <3>2 DEF m
  <2>6. Len(toClient'[c]) = Len(toClient[c]) + Len(d) /\ Len(d) \in Nat /\ Len(d) # 0
    <3>1. CopiesFor(Request(p).address) \subseteq Replies
      BY DEF CopiesFor
    <3> QED  BY <2>1, <2>5, <3>1, ConcatProperties, LenProperties, EmptySeq
  <2> QED  BY <2>1, <2>6, LenProperties
<1> QED  BY <1>1, SystemInvAlways, PTL DEF KeptSubscribersGetCopy

-----------------------------------------------------------------------------
(* The boxes of Notifications: sequences of items, made of two sequences of *)
(* messages.                                                                *)

(* Concatenation is associative.                                            *)
Associative(Q) == \A s, t, u \in Q : (s \o t) \o u = s \o (t \o u)

(* So it is for sequences over any set.                                     *)
LEMMA SeqAssociative == \A T : Associative(Seq(T))
BY ConcatAssociative, Zenon DEF Associative

(* What was concatenated can be taken apart again.                          *)
LEMMA PartsOfConcat ==
    ASSUME NEW T, NEW a \in Seq(T), NEW b \in Seq(T)
    PROVE  /\ a \o b \in Seq(T) /\ Len(a \o b) = Len(a) + Len(b)
           /\ Len(a) \in Nat /\ Len(b) \in Nat
           /\ SubSeq(a \o b, 1, Len(a)) = a
           /\ SubSeq(a \o b, Len(a) + 1, Len(a \o b)) = b
<1> DEFINE s == a \o b
           l == Len(a)
           n == Len(b)
           x == SubSeq(s, 1, l)
           y == SubSeq(s, l + 1, l + n)
<1>1. /\ s \in Seq(T) /\ Len(s) = l + n /\ l \in Nat /\ n \in Nat
      /\ \A i \in 1..(l + n) : s[i] = IF i <= l THEN a[i] ELSE b[i - l]
  BY ConcatProperties, LenProperties
<1>2. \A i \in 1..(l + n) : s[i] \in T
  BY <1>1, ElementOfSeq
<1> HIDE DEF s, l, n
<1>3. /\ x \in Seq(T) /\ Len(x) = l
      /\ \A i \in 1..l : x[i] = s[i]
  <2>1. 1 \in Int /\ l \in Int /\ \A i \in 1..l : s[i] \in T
    BY <1>1, <1>2
  <2>2. /\ SubSeq(s, 1, l) \in Seq(T) /\ Len(SubSeq(s, 1, l)) = IF 1 <= l THEN l - 1 + 1 ELSE 0
        /\ \A i \in 1..(l - 1 + 1) : SubSeq(s, 1, l)[i] = s[1 + i - 1]
    BY <2>1, SubSeqProperties
  <2> QED  BY <1>1, <2>2
<1>4. /\ y \in Seq(T) /\ Len(y) = n
      /\ \A i \in 1..n : y[i] = s[i + l]
  <2>1. l + 1 \in Int /\ l + n \in Int /\ \A i \in (l + 1)..(l + n) : s[i] \in T
    BY <1>1, <1>2
  <2> DEFINE p == l + 1
             q == l + n
  <2> HIDE DEF p, q
  <2>2. /\ SubSeq(s, p, q) \in Seq(T) /\ Len(SubSeq(s, p, q)) = IF p <= q THEN q - p + 1 ELSE 0
        /\ \A i \in 1..(q - p + 1) : SubSeq(s, p, q)[i] = s[p + i - 1]
    BY <2>1, SubSeqProperties DEF p, q
  <2>3. q - p + 1 = n /\ (p <= q <=> 1 <= n) /\ \A i \in 1..n : p + i - 1 = i + l
    BY <1>1 DEF p, q
  <2> QED  BY <1>1, <2>2, <2>3 DEF p, q
<1> HIDE DEF x, y
<1>5. x = a
  <2>1. Len(a) = l /\ \A i \in 1..l : x[i] = a[i]
    BY <1>1, <1>3 DEF l
  <2> QED  BY <1>3, <2>1, SeqEqual
<1>6. y = b
  <2>1. \A i \in 1..n : i + l \in 1..(l + n) /\ ~(i + l <= l) /\ i + l - l = i
    BY <1>1
  <2>2. Len(b) = n /\ \A i \in 1..n : y[i] = b[i]
    BY <1>1, <1>4, <2>1 DEF n
  <2> QED  BY <1>4, <2>2, SeqEqual
<1> QED  BY <1>1, <1>5, <1>6 DEF x, y, s, l, n

(* What Thin makes of a box.                                                *)
Thinned(s, t) ==
    \E i, n \in 0..Len(s), r \in Service!Gaps : t = Service!Without(s, i, n, r)

(* A box without a part of it is thinned.                                   *)
LEMMA ThinnedParts ==
    ASSUME NEW a \in Seq(Service!Items), NEW x \in Seq(Service!Items), NEW b \in Seq(Service!Items),
           NEW r \in Service!Gaps
    PROVE  Thinned((a \o x) \o b, a \o r \o b)
<1> DEFINE T == Service!Items
           s == (a \o x) \o b
           i == Len(a)
           n == Len(x)
<1>1. a \o x \in Seq(T) /\ Len(a \o x) = i + n /\ i \in Nat /\ n \in Nat
  BY PartsOfConcat
<1>2. /\ s \in Seq(T) /\ Len(s) = i + n + Len(b) /\ Len(b) \in Nat
      /\ SubSeq(s, i + n + 1, Len(s)) = b
  BY <1>1, PartsOfConcat
<1>3. SubSeq(s, 1, i) = a
  <2>1. s = a \o (x \o b)
    BY SeqAssociative, SMTT(60) DEF Associative
  <2>2. x \o b \in Seq(T)
    BY ConcatProperties
  <2> HIDE DEF s
  <2> QED  BY <2>1, <2>2, PartsOfConcat
<1>4. i \in 0..Len(s) /\ n \in 0..Len(s)
  BY <1>1, <1>2
<1> DEFINE t == a \o r \o b
<1> HIDE DEF s, i, n, t
<1>5. t = Service!Without(s, i, n, r)
  BY <1>2, <1>3 DEF Service!Without, t
<1>6. Thinned(s, t)
  BY <1>4, <1>5 DEF Thinned
<1> QED  BY <1>6 DEF s, t

(* A sequence is what it starts with, and the rest.                         *)
LEMMA CutInTwo ==
    ASSUME NEW S, NEW s \in Seq(S), NEW n \in 0..Len(s)
    PROVE  /\ SubSeq(s, 1, n) \in Seq(S) /\ SubSeq(s, n + 1, Len(s)) \in Seq(S)
           /\ s = SubSeq(s, 1, n) \o SubSeq(s, n + 1, Len(s))
<1> DEFINE l == Len(s)
           p == n + 1
           a == SubSeq(s, 1, n)
           x == SubSeq(s, p, l)
           u == a \o x
<1>1. l \in Nat /\ n \in Nat /\ n <= l /\ p \in Nat /\ p = n + 1 /\ \A i \in 1..l : s[i] \in S
  BY LenProperties, ElementOfSeq
<1>2. /\ a \in Seq(S) /\ Len(a) = n
      /\ \A i \in 1..n : a[i] = s[i]
  <2>1. 1 \in Int /\ n \in Int /\ \A i \in 1..n : s[i] \in S
    BY <1>1
  <2>2. /\ SubSeq(s, 1, n) \in Seq(S) /\ Len(SubSeq(s, 1, n)) = IF 1 <= n THEN n - 1 + 1 ELSE 0
        /\ \A i \in 1..(n - 1 + 1) : SubSeq(s, 1, n)[i] = s[1 + i - 1]
    BY <2>1, SubSeqProperties
  <2> QED  BY <1>1, <2>2
<1> HIDE DEF l, p
<1>3. /\ x \in Seq(S) /\ Len(x) = l - n
      /\ \A i \in 1..(l - n) : x[i] = s[n + i]
  <2>1. p \in Int /\ l \in Int /\ \A i \in p..l : s[i] \in S
    BY <1>1
  <2>2. /\ SubSeq(s, p, l) \in Seq(S) /\ Len(SubSeq(s, p, l)) = IF p <= l THEN l - p + 1 ELSE 0
        /\ \A i \in 1..(l - p + 1) : SubSeq(s, p, l)[i] = s[p + i - 1]
    BY <2>1, SubSeqProperties
  <2>3. l - p + 1 = l - n /\ \A i \in 1..(l - n) : p + i - 1 = n + i
    BY <1>1
  <2> QED  BY <1>1, <2>2, <2>3
<1> HIDE DEF a, x
<1>4. /\ u \in Seq(S) /\ Len(u) = l
      /\ \A i \in 1..l : u[i] = IF i <= n THEN a[i] ELSE x[i - n]
  <2>1. a \in Seq(S) /\ x \in Seq(S)
    BY <1>2, <1>3
  <2>2. /\ a \o x \in Seq(S) /\ Len(a \o x) = Len(a) + Len(x)
        /\ \A i \in 1..(Len(a) + Len(x)) : (a \o x)[i] = IF i <= Len(a) THEN a[i] ELSE x[i - Len(a)]
    BY <2>1, ConcatProperties
  <2> QED  BY <1>1, <1>2, <1>3, <2>2
<1> HIDE DEF u
<1>5. ASSUME NEW i \in 1..l  PROVE s[i] = u[i]
  <2>1. CASE i <= n
    BY <1>1, <1>2, <1>4, <2>1
  <2>2. CASE ~(i <= n)
    <3>1. i - n \in 1..(l - n) /\ n + (i - n) = i
      BY <1>1, <2>2
    <3> QED  BY <1>3, <1>4, <2>2, <3>1
  <2> QED  BY <2>1, <2>2
<1>6. s = u
  BY <1>4, <1>5, SeqEqual DEF l
<1> QED  BY <1>2, <1>3, <1>6 DEF u, a, x, p, l

(* What a sequence of messages stands for, message by message.              *)
ItemByItem(F, s, S, x, T) ==
    /\ x \in Seq(T) /\ Len(x) = Len(s) /\ Len(s) \in Nat
    /\ \A i \in 1..Len(s) : s[i] \in S /\ x[i] = F[s[i]]

(* Images has as many items as there are messages, in their places.         *)
LEMMA ImagesProperties ==
    ASSUME NEW S, NEW T, NEW F, \A m \in S : F[m] \in T, NEW s \in Seq(S)
    PROVE  ItemByItem(F, s, S, Images(F, s), T)
<1> DEFINE n == Len(s)
<1>1. n \in Nat /\ DOMAIN s = 1..n /\ \A i \in 1..n : s[i] \in S
  BY LenProperties, ElementOfSeq
<1> HIDE DEF n
<1>2. Images(F, s) = [i \in 1..n |-> F[s[i]]]
  BY <1>1 DEF Images
<1>3. \A i \in 1..n : F[s[i]] \in T
  BY <1>1
<1>4. Images(F, s) \in Seq(T) /\ Len(Images(F, s)) = n
  BY <1>1, <1>2, <1>3
<1> QED  BY <1>1, <1>2, <1>4 DEF n, ItemByItem

(* No message, no item.                                                     *)
LEMMA ImagesOfNone == \A F : Images(F, <<>>) = <<>>
BY DEF Images

(* Items are appended as messages are ...                                   *)
LEMMA ImagesOfConcat ==
    ASSUME NEW S, NEW F, NEW s \in Seq(S), NEW t \in Seq(S)
    PROVE  Images(F, s \o t) = Images(F, s) \o Images(F, t)
<1> DEFINE T == {F[m] : m \in S}
           u == s \o t
           x == Images(F, u)
           a == Images(F, s)
           b == Images(F, t)
           y == a \o b
           n == Len(s)
           l == Len(t)
<1>1. /\ u \in Seq(S) /\ Len(u) = n + l
      /\ \A i \in 1..(n + l) : u[i] = IF i <= n THEN s[i] ELSE t[i - n]
  BY ConcatProperties
<1>0. \A m \in S : F[m] \in T
  OBVIOUS
<1> HIDE DEF u, T
<1>2. /\ x \in Seq(T) /\ Len(x) = n + l /\ \A i \in 1..(n + l) : x[i] = F[u[i]]
  <2>1. ItemByItem(F, u, S, x, T)
    BY <1>0, <1>1, ImagesProperties
  <2> HIDE DEF x
  <2> QED  BY <1>1, <2>1 DEF ItemByItem
<1>3. /\ a \in Seq(T) /\ Len(a) = n /\ n \in Nat /\ \A i \in 1..n : a[i] = F[s[i]]
      /\ b \in Seq(T) /\ Len(b) = l /\ l \in Nat /\ \A i \in 1..l : b[i] = F[t[i]]
  <2>1. ItemByItem(F, s, S, a, T) /\ ItemByItem(F, t, S, b, T)
    BY <1>0, ImagesProperties
  <2> HIDE DEF a, b
  <2> QED  BY <2>1 DEF ItemByItem
<1> HIDE DEF x, a, b, n, l
<1>4. /\ y \in Seq(T) /\ Len(y) = n + l
      /\ \A i \in 1..(n + l) : y[i] = IF i <= n THEN a[i] ELSE b[i - n]
  <2>1. a \in Seq(T) /\ b \in Seq(T)
    BY <1>3
  <2>2. /\ a \o b \in Seq(T) /\ Len(a \o b) = Len(a) + Len(b)
        /\ \A i \in 1..(Len(a) + Len(b)) : (a \o b)[i] = IF i <= Len(a) THEN a[i] ELSE b[i - Len(a)]
    BY <2>1, ConcatProperties
  <2> QED  BY <1>3, <2>2
<1> HIDE DEF y
<1>5. ASSUME NEW i \in 1..(n + l)  PROVE x[i] = y[i]
  <2>1. CASE i <= n
    <3>1. i \in 1..n
      BY <1>3, <2>1
    <3>2. x[i] = F[s[i]] /\ y[i] = a[i]
      BY <1>1, <1>2, <1>4, <2>1
    <3> QED  BY <1>3, <3>1, <3>2
  <2>2. CASE ~(i <= n)
    <3> DEFINE j == i - n
    <3>1. j \in 1..l
      BY <1>3, <2>2
    <3>2. x[i] = F[t[j]] /\ y[i] = b[j]
      BY <1>1, <1>2, <1>4, <2>2
    <3> HIDE DEF j
    <3> QED  BY <1>3, <3>1, <3>2
  <2> QED  BY <2>1, <2>2
<1>6. x = y
  BY <1>2, <1>4, <1>5, SeqEqual
<1> QED  BY <1>6 DEF x, y, a, b, u

(* One message more, one item more at the end.                              *)
LEMMA ImagesOfAppend ==
    ASSUME NEW S, NEW F, NEW s \in Seq(S), NEW m \in S
    PROVE  Images(F, Append(s, m)) = Images(F, s) \o <<F[m]>>
<1>1. Append(s, m) = s \o <<m>> /\ <<m>> \in Seq(S)
  BY AppendIsConcat
<1> DEFINE t == <<m>>
<1>2. Images(F, t) = <<F[m]>>
  BY DEF Images
<1>3. t \in Seq(S)
  BY <1>1
<1> HIDE DEF t
<1>4. Images(F, s \o t) = Images(F, s) \o Images(F, t)
  BY <1>3, ImagesOfConcat
<1> QED  BY <1>1, <1>2, <1>4 DEF t

(* ... and taken off.                                                       *)
LEMMA HeadAndTail ==
    ASSUME NEW S, NEW s \in Seq(S), s # <<>>
    PROVE  Head(s) \in S /\ Tail(s) \in Seq(S) /\ <<Head(s)>> \in Seq(S) /\ s = <<Head(s)>> \o Tail(s)
<1> DEFINE h == <<Head(s)>>
           t == Tail(s)
           u == h \o t
           n == Len(s)
<1>1. /\ Head(s) \in S /\ Head(s) = s[1] /\ n \in Nat /\ n # 0
      /\ t \in Seq(S) /\ Len(t) = n - 1 /\ \A i \in 1..(n - 1) : t[i] = s[i + 1]
  BY HeadTailProperties, LenProperties, EmptySeq
<1>2. h \in Seq(S) /\ Len(h) = 1 /\ h[1] = s[1]
  BY <1>1
<1> HIDE DEF h, t, n
<1>3. /\ u \in Seq(S) /\ Len(u) = n
      /\ \A i \in 1..n : u[i] = IF i <= 1 THEN h[i] ELSE t[i - 1]
  <2>1. h \in Seq(S) /\ t \in Seq(S)
    BY <1>1, <1>2
  <2>2. /\ h \o t \in Seq(S) /\ Len(h \o t) = Len(h) + Len(t)
        /\ \A i \in 1..(Len(h) + Len(t)) : (h \o t)[i] = IF i <= Len(h) THEN h[i] ELSE t[i - Len(h)]
    BY <2>1, ConcatProperties
  <2> QED  BY <1>1, <1>2, <2>2
<1> HIDE DEF u
<1>4. ASSUME NEW i \in 1..n  PROVE s[i] = u[i]
  <2>1. CASE i = 1
    BY <1>2, <1>3, <2>1
  <2>2. CASE i # 1
    <3>1. i - 1 \in 1..(n - 1) /\ (i - 1) + 1 = i /\ ~(i <= 1)
      BY <1>1, <2>2
    <3> QED  BY <1>1, <1>3, <3>1
  <2> QED  BY <2>1, <2>2
<1>5. s = u
  BY <1>3, <1>4, SeqEqual DEF n
<1> QED  BY <1>1, <1>2, <1>5 DEF u, h, t

-----------------------------------------------------------------------------
(* A box: what the messages of one stream stand for, and behind it what     *)
(* those of the next do.                                                    *)
Joined(F, s, G, k) == Images(F, s) \o Images(G, k)

StandForItems(F, S, G, R) ==
    /\ \A m \in S : F[m] \in Service!Items
    /\ \A m \in R : G[m] \in Service!Items

(* A box holds items.                                                       *)
LEMMA ItemsType ==
    ASSUME NEW S, NEW F, \A m \in S : F[m] \in Service!Items, NEW s \in Seq(S)
    PROVE  Images(F, s) \in Seq(Service!Items)
<1> DEFINE T == Service!Items
           x == Images(F, s)
<1>1. ItemByItem(F, s, S, x, T)
  BY ImagesProperties
<1> HIDE DEF x, T
<1>2. x \in Seq(T)
  BY <1>1 DEF ItemByItem
<1> QED  BY <1>2 DEF x, T

(* The boxes hold items.                                                    *)
LEMMA JoinedType ==
    ASSUME NEW S, NEW R, NEW F, NEW G, StandForItems(F, S, G, R), NEW s \in Seq(S), NEW k \in Seq(R)
    PROVE  /\ Images(F, s) \in Seq(Service!Items) /\ Images(G, k) \in Seq(Service!Items)
           /\ Joined(F, s, G, k) \in Seq(Service!Items)
<1>1. Images(F, s) \in Seq(Service!Items)
  BY ItemsType DEF StandForItems
<1>2. Images(G, k) \in Seq(Service!Items)
  BY ItemsType DEF StandForItems
<1>3. Images(F, s) \o Images(G, k) \in Seq(Service!Items)
  BY <1>1, <1>2, ConcatProperties
<1> QED  BY <1>1, <1>2, <1>3 DEF Joined

(* Four sequences in a row are one sequence, however they are grouped.      *)
Regroups(Q) == \A a, b, c, d \in Q : (a \o b) \o (c \o d) = (a \o (b \o c)) \o d

(* Concatenation is associative, also for four.                             *)
LEMMA Regrouped == \A T : Regroups(Seq(T))
<1> SUFFICES ASSUME NEW T, NEW a \in Seq(T), NEW b \in Seq(T), NEW c \in Seq(T), NEW d \in Seq(T)
             PROVE  (a \o b) \o (c \o d) = (a \o (b \o c)) \o d
  BY Zenon DEF Regroups
<1> DEFINE Q == Seq(T)
           x == c \o d
           y == b \o c
<1>1. x \in Q /\ y \in Q
  BY ConcatProperties
<1>2. Associative(Q)
  BY SeqAssociative, Zenon
<1>3. a \in Q /\ b \in Q /\ c \in Q /\ d \in Q
  OBVIOUS
<1> HIDE DEF Q
<1>4. b \o x = y \o d
  BY <1>2, <1>3, Zenon DEF Associative, x, y
<1> HIDE DEF x, y
<1>5. (a \o b) \o x = a \o (b \o x)
  BY <1>1, <1>2, <1>3, SMTT(60) DEF Associative
<1>6. (a \o y) \o d = a \o (y \o d)
  BY <1>1, <1>2, <1>3, SMTT(60) DEF Associative
<1>7. (a \o b) \o x = (a \o y) \o d
  BY <1>4, <1>5, <1>6
<1> QED  BY <1>7 DEF x, y

(* The end of the first stream and the head of the second go, whether or    *)
(* not something comes in their place.                                      *)
LEMMA CutBetween ==
    ASSUME NEW S, NEW R, NEW F, NEW G, StandForItems(F, S, G, R),
           NEW a \in Seq(S), NEW x \in Seq(S), NEW y \in Seq(R), NEW b \in Seq(R),
           NEW r \in Service!Gaps
    PROVE  Thinned(Joined(F, a \o x, G, y \o b), Images(F, a) \o r \o Images(G, b))
<1> DEFINE A == Images(F, a)
           X == Images(F, x)
           Y == Images(G, y)
           B == Images(G, b)
           T == Service!Items
<1>1. A \in Seq(T) /\ X \in Seq(T) /\ Y \in Seq(T) /\ B \in Seq(T)
  BY JoinedType
<1>2. Images(F, a \o x) = A \o X /\ Images(G, y \o b) = Y \o B
  <2>1. Images(F, a \o x) = Images(F, a) \o Images(F, x)
    BY ImagesOfConcat
  <2>2. Images(G, y \o b) = Images(G, y) \o Images(G, b)
    BY ImagesOfConcat
  <2> QED  BY <2>1, <2>2
<1> HIDE DEF A, X, Y, B, T
<1>3. X \o Y \in Seq(T) /\ Y \o B \in Seq(T) /\ A \o X \in Seq(T)
  BY <1>1, ConcatProperties
<1>4. (A \o X) \o (Y \o B) = (A \o (X \o Y)) \o B
  <2> DEFINE Q == Seq(T)
  <2>1. Regroups(Q) /\ A \in Q /\ X \in Q /\ Y \in Q /\ B \in Q
    BY <1>1, Regrouped
  <2> HIDE DEF Q
  <2>2. \A a_1, b_1, c_1, d_1 \in Q : (a_1 \o b_1) \o (c_1 \o d_1) = (a_1 \o (b_1 \o c_1)) \o d_1
    BY <2>1 DEF Regroups
  <2>3. \A c_1, d_1 \in Q : (A \o X) \o (c_1 \o d_1) = (A \o (X \o c_1)) \o d_1
    BY <2>1, <2>2
  <2> QED  BY <2>1, <2>3
<1>5. Thinned((A \o (X \o Y)) \o B, A \o r \o B)
  <2> DEFINE Z == X \o Y
  <2>1. A \in Seq(Service!Items) /\ Z \in Seq(Service!Items) /\ B \in Seq(Service!Items)
    BY <1>1, <1>3 DEF T
  <2> HIDE DEF Z
  <2>2. Thinned((A \o Z) \o B, A \o r \o B)
    BY <2>1, ThinnedParts
  <2> QED  BY <2>2 DEF Z
<1>6. Joined(F, a \o x, G, y \o b) = (A \o (X \o Y)) \o B
  BY <1>2, <1>4 DEF Joined
<1> QED  BY <1>5, <1>6 DEF A, B

(* The head of the first stream is the head of the box ...                  *)
LEMMA BoxHead ==
    ASSUME NEW S, NEW R, NEW F, NEW G, StandForItems(F, S, G, R),
           NEW s \in Seq(S), s # <<>>, NEW k \in Seq(R)
    PROVE  /\ Head(s) \in S
           /\ Joined(F, s, G, k) = <<F[Head(s)]>> \o Joined(F, Tail(s), G, k)
<1> DEFINE h == <<Head(s)>>
           t == Tail(s)
           H == <<F[Head(s)]>>
           A == Images(F, t)
           B == Images(G, k)
           T == Service!Items
<1>1. Head(s) \in S /\ t \in Seq(S) /\ h \in Seq(S) /\ s = h \o t
  BY HeadAndTail
<1>2. Images(F, h) = H
  BY DEF Images
<1>3. Images(F, h \o t) = Images(F, h) \o A
  <2>1. h \in Seq(S) /\ t \in Seq(S)
    BY <1>1
  <2> HIDE DEF h, t
  <2>2. Images(F, h \o t) = Images(F, h) \o Images(F, t)
    BY <2>1, ImagesOfConcat
  <2> QED  BY <2>2
<1>4. F[Head(s)] \in T
  BY <1>1 DEF StandForItems
<1>5. A \in Seq(T) /\ B \in Seq(T)
  BY <1>1, JoinedType
<1>6. H \in Seq(T)
  BY <1>4
<1> HIDE DEF h, t, H, A, B
<1>7. (H \o A) \o B = H \o (A \o B)
  BY <1>5, <1>6, SeqAssociative, SMTT(60) DEF Associative
<1>8. Joined(F, s, G, k) = (H \o A) \o B
  BY <1>1, <1>2, <1>3 DEF Joined, B
<1>9. Joined(F, t, G, k) = A \o B
  BY DEF Joined, A, B
<1> QED  BY <1>1, <1>7, <1>8, <1>9 DEF H, t

(* ... so that taking it is taking the head of the box,                     *)
LEMMA BoxTaken ==
    ASSUME NEW S, NEW R, NEW F, NEW G, StandForItems(F, S, G, R),
           NEW s \in Seq(S), s # <<>>, NEW k \in Seq(R)
    PROVE  /\ Joined(F, s, G, k) # <<>>
           /\ Head(Joined(F, s, G, k)) = F[Head(s)]
           /\ Tail(Joined(F, s, G, k)) = Joined(F, Tail(s), G, k)
           /\ Thinned(Joined(F, s, G, k), Joined(F, Tail(s), G, k))
<1> DEFINE T == Service!Items
           H == <<F[Head(s)]>>
           x == Joined(F, Tail(s), G, k)
           y == Joined(F, s, G, k)
<1>1. Tail(s) \in Seq(S) /\ Head(s) \in S
  BY HeadAndTail
<1>2. x \in Seq(T) /\ y = H \o x
  <2>1. x \in Seq(T)
    BY <1>1, JoinedType
  <2>2. y = H \o x
    BY BoxHead
  <2> QED  BY <2>1, <2>2
<1>3. F[Head(s)] \in T
  BY <1>1 DEF StandForItems
<1>4. H \in Seq(T) /\ Len(H) = 1 /\ H[1] = F[Head(s)]
  BY <1>3
<1> HIDE DEF H, x, y, T
<1>5. /\ y \in Seq(T) /\ Len(y) = Len(x) + 1 /\ Len(x) \in Nat
      /\ SubSeq(y, 2, Len(y)) = x /\ y[1] = H[1]
  <2>0. H \in Seq(T) /\ x \in Seq(T)
    BY <1>2, <1>4
  <2>1. /\ H \o x \in Seq(T) /\ Len(H \o x) = Len(H) + Len(x) /\ Len(x) \in Nat
        /\ SubSeq(H \o x, Len(H) + 1, Len(H \o x)) = x
    BY <2>0, PartsOfConcat
  <2>2. \A i \in 1..(Len(H) + Len(x)) : (H \o x)[i] = IF i <= Len(H) THEN H[i] ELSE x[i - Len(H)]
    BY <1>2, <1>4, ConcatProperties
  <2> QED  BY <1>2, <1>4, <2>1, <2>2
<1>6. y # <<>> /\ Head(y) = y[1] /\ Tail(y) = x
  <2>1. y # <<>>
    BY <1>5, EmptySeq
  <2>2. Tail(y) = SubSeq(y, 2, Len(y))
    BY <1>5, <2>1
  <2> QED  BY <1>5, <2>1, <2>2
<1>7. Thinned(y, x)
  <2>1. <<>> \in Seq(Service!Items) /\ <<>> \in Service!Gaps
    BY EmptySeq DEF Service!Gaps
  <2>2. Thinned((<<>> \o H) \o x, <<>> \o <<>> \o x)
    BY <1>2, <1>4, <2>1, ThinnedParts DEF T
  <2>3. <<>> \o H = H /\ <<>> \o <<>> = <<>> /\ <<>> \o x = x
    BY <1>2, <1>4, <2>1, ConcatEmptySeq DEF T
  <2> QED  BY <1>2, <2>2, <2>3
<1> QED  BY <1>4, <1>5, <1>6, <1>7 DEF H, x, y
(* Without what is between them, the two parts of a box are a box.          *)
LEMMA BoxCut ==
    ASSUME NEW S, NEW R, NEW F, NEW G, StandForItems(F, S, G, R),
           NEW a \in Seq(S), NEW x \in Seq(S), NEW y \in Seq(R), NEW b \in Seq(R)
    PROVE  Thinned(Joined(F, a \o x, G, y \o b), Joined(F, a, G, b))
<1> DEFINE A == Images(F, a)
           B == Images(G, b)
           J == Joined(F, a \o x, G, y \o b)
<1>1. <<>> \in Service!Gaps
  BY DEF Service!Gaps
<1>2. Thinned(J, A \o <<>> \o B)
  BY <1>1, CutBetween
<1>3. A \in Seq(Service!Items)
  BY JoinedType
<1> HIDE DEF A, B, J
<1>4. A \o <<>> = A
  BY <1>3, ConcatEmptySeq
<1>5. Thinned(J, A \o B)
  BY <1>2, <1>4
<1> QED  BY <1>5 DEF A, B, J, Joined

(* The ways in which streams lose messages: at the head of the second, with *)
(* or without the end of the first; all of one of them; or nothing.         *)
LEMMA BoxLosses ==
    ASSUME NEW S, NEW R, NEW F, NEW G, StandForItems(F, S, G, R),
           NEW s \in Seq(S), NEW k \in Seq(R)
    PROVE  /\ Thinned(Joined(F, s, G, k), Joined(F, s, G, k))
           /\ Thinned(Joined(F, s, G, k), Joined(F, s, G, <<>>))
           /\ Thinned(Joined(F, s, G, k), Joined(F, <<>>, G, k))
           /\ k # <<>> => /\ Thinned(Joined(F, s, G, k), Joined(F, s, G, Tail(k)))
                          /\ \A n \in 0..Len(s) :
                                Thinned(Joined(F, s, G, k), Joined(F, SubSeq(s, 1, n), G, Tail(k)))
<1> DEFINE Cut(a, b) == Thinned(Joined(F, s, G, k), Joined(F, a, G, b))
<1>1. /\ <<>> \in Seq(S) /\ <<>> \in Seq(R) /\ s \o <<>> = s /\ <<>> \o s = s
      /\ k \o <<>> = k /\ <<>> \o k = k
  BY EmptySeq, ConcatEmptySeq
<1>2. ASSUME NEW a \in Seq(S), NEW x \in Seq(S), NEW y \in Seq(R), NEW b \in Seq(R),
             s = a \o x, k = y \o b
      PROVE  Cut(a, b)
  <2>1. Thinned(Joined(F, a \o x, G, y \o b), Joined(F, a, G, b))
    BY BoxCut
  <2> QED  BY <1>2, <2>1
<1> HIDE DEF Cut
<1>3. Cut(s, k) /\ Cut(s, <<>>) /\ Cut(<<>>, k)
  BY <1>1, <1>2
<1>4. ASSUME k # <<>>
      PROVE  Cut(s, Tail(k)) /\ \A n \in 0..Len(s) : Cut(SubSeq(s, 1, n), Tail(k))
  <2> DEFINE h == <<Head(k)>>
             t == Tail(k)
  <2>1. h \in Seq(R) /\ t \in Seq(R) /\ k = h \o t
    BY <1>4, HeadAndTail
  <2> HIDE DEF h, t
  <2>2. Cut(s, t)
    BY <1>1, <1>2, <2>1
  <2>3. ASSUME NEW n \in 0..Len(s)  PROVE Cut(SubSeq(s, 1, n), t)
    <3> DEFINE a == SubSeq(s, 1, n)
               x == SubSeq(s, n + 1, Len(s))
    <3>1. a \in Seq(S) /\ x \in Seq(S) /\ s = a \o x
      BY CutInTwo
    <3> HIDE DEF a, x
    <3>2. Cut(a, t)
      BY <1>2, <2>1, <3>1
    <3> QED  BY <3>2 DEF a
  <2> QED  BY <2>2, <2>3 DEF t
<1> QED  BY <1>3, <1>4 DEF Cut
(* The second stream may lose its end ...                                   *)
LEMMA BoxEndLost ==
    ASSUME NEW S, NEW R, NEW F, NEW G, StandForItems(F, S, G, R),
           NEW s \in Seq(S), NEW k \in Seq(R), NEW n \in 0..Len(k)
    PROVE  Thinned(Joined(F, s, G, k), Joined(F, s, G, SubSeq(k, 1, n)))
<1> DEFINE T == Service!Items
           p == SubSeq(k, 1, n)
           q == SubSeq(k, n + 1, Len(k))
           A == Images(F, s)
           P == Images(G, p)
           Q == Images(G, q)
           J == Joined(F, s, G, k)
<1>1. p \in Seq(R) /\ q \in Seq(R) /\ k = p \o q
  BY CutInTwo
<1> HIDE DEF p, q
<1>2. Images(G, k) = P \o Q
  BY <1>1, ImagesOfConcat
<1>3. A \in Seq(T) /\ P \in Seq(T) /\ Q \in Seq(T)
  BY <1>1, JoinedType
<1>4. J = A \o (P \o Q) /\ Joined(F, s, G, p) = A \o P
  BY <1>2 DEF Joined
<1> HIDE DEF A, P, Q, J, T
<1> DEFINE B == A \o P
<1>5. B \in Seq(T) /\ <<>> \in Seq(T) /\ <<>> \in Service!Gaps
  BY <1>3, ConcatProperties, EmptySeq DEF Service!Gaps
<1>6. A \o (P \o Q) = B \o Q
  BY <1>3, SeqAssociative, SMTT(60) DEF Associative
<1> HIDE DEF B
<1>7. B \o Q \in Seq(T)
  BY <1>3, <1>5, ConcatProperties
<1>8. Thinned((B \o Q) \o <<>>, B \o <<>> \o <<>>)
  BY <1>3, <1>5, ThinnedParts DEF T
<1>9. (B \o Q) \o <<>> = B \o Q /\ B \o <<>> = B
  BY <1>5, <1>7, ConcatEmptySeq
<1>10. Thinned(J, B)
  BY <1>4, <1>6, <1>8, <1>9
<1> QED  BY <1>4, <1>10 DEF B, J, p

(* ... and the first gain a greeting, which stands for nothing.             *)
LEMMA BoxGreeting ==
    ASSUME NEW S, NEW R, NEW F, NEW G, StandForItems(F, S, G, R),
           NEW s \in Seq(S), NEW k \in Seq(R), NEW m \in S, F[m] = Service!Nothing
    PROVE  Thinned(Joined(F, s, G, k), Joined(F, Append(s, m), G, k))
<1> DEFINE r == <<F[m]>>
           A == Images(F, s)
           B == Images(G, k)
           J == Joined(F, s, G, k)
<1>1. /\ <<>> \in Seq(S) /\ <<>> \in Seq(R) /\ s \o <<>> = s /\ <<>> \o k = k
      /\ r \in Service!Gaps
  BY EmptySeq, ConcatEmptySeq DEF Service!Gaps
<1>2. Images(F, Append(s, m)) = A \o r
  BY ImagesOfAppend
<1> HIDE DEF A, B, r
<1>3. Thinned(Joined(F, s \o <<>>, G, <<>> \o k), A \o r \o B)
  BY <1>1, CutBetween DEF A, B
<1>4. Thinned(J, A \o r \o B)
  BY <1>1, <1>3
<1>5. Joined(F, Append(s, m), G, k) = A \o r \o B
  BY <1>2 DEF Joined, B
<1> QED  BY <1>4, <1>5 DEF J

(* What is passed on from the second stream to the first stays in its place. *)
LEMMA BoxPassedOn ==
    ASSUME NEW S, NEW R, NEW F, NEW G, StandForItems(F, S, G, R),
           NEW s \in Seq(S), NEW k \in Seq(R), k # <<>>, NEW m \in S, F[m] = G[Head(k)]
    PROVE  Joined(F, Append(s, m), G, Tail(k)) = Joined(F, s, G, k)
<1> DEFINE T == Service!Items
           t == Tail(k)
           h == <<Head(k)>>
           r == <<F[m]>>
           A == Images(F, s)
           B == Images(G, t)
<1>1. Head(k) \in R /\ t \in Seq(R) /\ h \in Seq(R) /\ k = h \o t
  BY HeadAndTail
<1>2. Images(G, h) = r
  BY DEF Images
<1>3. Images(G, h \o t) = Images(G, h) \o B
  <2>1. h \in Seq(R) /\ t \in Seq(R)
    BY <1>1
  <2> HIDE DEF h, t
  <2>2. Images(G, h \o t) = Images(G, h) \o Images(G, t)
    BY <2>1, ImagesOfConcat
  <2> QED  BY <2>2
<1>4. A \in Seq(T) /\ B \in Seq(T)
  BY <1>1, JoinedType
<1>5. F[m] \in T
  BY DEF StandForItems
<1>6. r \in Seq(T)
  BY <1>5
<1>7. Images(F, Append(s, m)) = A \o r
  BY ImagesOfAppend
<1> HIDE DEF h, t, r, A, B
<1>8. (A \o r) \o B = A \o (r \o B)
  <2>1. A \in Seq(T) /\ r \in Seq(T) /\ B \in Seq(T)
    BY <1>4, <1>6
  <2> QED  BY <2>1, SeqAssociative, SMTT(60) DEF Associative
<1>9. Joined(F, Append(s, m), G, t) = (A \o r) \o B
  BY <1>7 DEF Joined, B
<1>10. Joined(F, s, G, k) = A \o (r \o B)
  BY <1>1, <1>2, <1>3 DEF Joined, A
<1> QED  BY <1>8, <1>9, <1>10 DEF t

(* What the second stream gains, the box gains.                             *)
LEMMA BoxGains ==
    ASSUME NEW S, NEW R, NEW F, NEW G, StandForItems(F, S, G, R),
           NEW s \in Seq(S), NEW k \in Seq(R), NEW d \in Seq(R)
    PROVE  Joined(F, s, G, k \o d) = Joined(F, s, G, k) \o Images(G, d)
<1> DEFINE T == Service!Items
           A == Images(F, s)
           B == Images(G, k)
           D == Images(G, d)
<1>1. A \in Seq(T) /\ B \in Seq(T) /\ D \in Seq(T)
  BY JoinedType
<1>2. Images(G, k \o d) = B \o D
  BY ImagesOfConcat
<1> HIDE DEF A, B, D
<1>3. (A \o B) \o D = A \o (B \o D)
  BY <1>1, SeqAssociative, SMTT(60) DEF Associative
<1> QED  BY <1>2, <1>3 DEF Joined, A, B, D

(* A message that joins the end of the pipe joins the end of the box.       *)
LEMMA BoxGainsOne ==
    ASSUME NEW S, NEW R, NEW F, NEW G, StandForItems(F, S, G, R),
           NEW s \in Seq(S), NEW k \in Seq(R), NEW m \in R
    PROVE  /\ G[m] \in Service!Items
           /\ Joined(F, s, G, Append(k, m)) = Append(Joined(F, s, G, k), G[m])
<1> DEFINE d == <<m>>
           D == <<G[m]>>
           J == Joined(F, s, G, k)
<1>1. G[m] \in Service!Items
  BY DEF StandForItems
<1>2. d \in Seq(R) /\ Append(k, m) = k \o d
  BY AppendIsConcat
<1>3. Images(G, d) = D
  BY DEF Images
<1> HIDE DEF d
<1>4. Joined(F, s, G, k \o d) = J \o D
  <2>1. Joined(F, s, G, k \o d) = J \o Images(G, d)
    BY <1>2, BoxGains
  <2> QED  BY <1>3, <2>1
<1>5. J \in Seq(Service!Items)
  BY JoinedType
<1> HIDE DEF J
<1>6. J \o D = Append(J, G[m])
  BY <1>1, <1>5, AppendIsConcat
<1> QED  BY <1>1, <1>2, <1>4, <1>6 DEF J

-----------------------------------------------------------------------------
(* What each message stands for.                                            *)
LEMMA RequestItem ==
    ASSUME NEW m \in Requests
    PROVE  /\ OfRequest[m] \in Service!Items
           /\ m.id = "PUBLISH" => OfRequest[m] = Service!Publication(m.address, m.content)
           /\ m.id = "SUBSCRIBE" => OfRequest[m] = Service!Subscription(m.expression)
           /\ m.id \notin {"PUBLISH", "SUBSCRIBE"} => OfRequest[m] = Service!Nothing
<1>1. /\ m.id = "PUBLISH" => OfRequest[m] = Service!Publication(m.address, m.content)
      /\ m.id = "SUBSCRIBE" => OfRequest[m] = Service!Subscription(m.expression)
      /\ m.id \notin {"PUBLISH", "SUBSCRIBE"} => OfRequest[m] = Service!Nothing
  BY DEF OfRequest, Service!Publication, Service!Subscription, Service!Nothing
<1>2. m.id = "PUBLISH" => Service!Publication(m.address, m.content) \in Service!Items
  BY RequestShape DEF Service!Publication, Service!Items
<1>3. m.id = "SUBSCRIBE" => Service!Subscription(m.expression) \in Service!Items
  BY RequestShape DEF Service!Subscription, Service!Items
<1>4. Service!Nothing \in Service!Items
  BY DEF Service!Items
<1> QED  BY <1>1, <1>2, <1>3, <1>4

(* The requests that a client makes, and what they are to its application.  *)
LEMMA ConstructedItem ==
    /\ Hello(NoIdentifier) \in Requests /\ OfRequest[Hello(NoIdentifier)] = Service!Nothing
    /\ \A e \in Exprs : /\ Subscribe(e) \in Requests
                        /\ OfRequest[Subscribe(e)] = Service!Subscription(e)
                        /\ OfRequest[Subscribe(e)] \in Service!Items
    /\ \A a \in Addresses, b \in Contents :
          /\ Publish(a, NoHeaders, b) \in Requests
          /\ OfRequest[Publish(a, NoHeaders, b)] = Service!Publication(a, b)
          /\ OfRequest[Publish(a, NoHeaders, b)] \in Service!Items
    /\ Service!Nothing \in Service!Items
<1>1. /\ Hello(NoIdentifier) \in Requests
      /\ Hello(NoIdentifier).id \notin {"PUBLISH", "SUBSCRIBE"}
  BY RequestType DEF Hello
<1>2. OfRequest[Hello(NoIdentifier)] = Service!Nothing
  BY <1>1, RequestItem
<1>3. ASSUME NEW e \in Exprs
      PROVE  /\ Subscribe(e) \in Requests
             /\ OfRequest[Subscribe(e)] = Service!Subscription(e)
             /\ OfRequest[Subscribe(e)] \in Service!Items
  <2> DEFINE m == Subscribe(e)
  <2>1. m \in Requests /\ m.id = "SUBSCRIBE" /\ m.expression = e
    BY RequestType DEF Subscribe
  <2> HIDE DEF m
  <2>2. OfRequest[m] = Service!Subscription(m.expression) /\ OfRequest[m] \in Service!Items
    BY <2>1, RequestItem
  <2> QED  BY <2>1, <2>2 DEF m
<1>4. ASSUME NEW a \in Addresses, NEW b \in Contents
      PROVE  /\ Publish(a, NoHeaders, b) \in Requests
             /\ OfRequest[Publish(a, NoHeaders, b)] = Service!Publication(a, b)
             /\ OfRequest[Publish(a, NoHeaders, b)] \in Service!Items
  <2> DEFINE m == Publish(a, NoHeaders, b)
  <2>1. m \in Requests /\ m.id = "PUBLISH" /\ m.address = a /\ m.content = b
    BY RequestType DEF Publish
  <2> HIDE DEF m
  <2>2. OfRequest[m] = Service!Publication(m.address, m.content) /\ OfRequest[m] \in Service!Items
    BY <2>1, RequestItem
  <2> QED  BY <2>1, <2>2 DEF m
<1>5. Service!Nothing \in Service!Items
  BY DEF Service!Items
<1> QED  BY <1>1, <1>2, <1>3, <1>4, <1>5

(* A command counts in the outbox as the request that the actor makes of    *)
(* it.                                                                      *)
LEMMA CommandItem ==
    ASSUME NEW m \in Commands
    PROVE  /\ OfCommand[m] \in Service!Items
           /\ m.method = "CONNECT" => OfCommand[m] = OfRequest[Hello(NoIdentifier)]
           /\ m.method = "SUBSCRIBE" => OfCommand[m] = OfRequest[Subscribe(m.expression)]
           /\ m.method = "PUBLISH" => OfCommand[m] = OfRequest[Publish(m.address, NoHeaders, m.content)]
<1>1. /\ m.method = "PUBLISH" => OfCommand[m] = OfRequest[Publish(m.address, NoHeaders, m.content)]
      /\ m.method = "SUBSCRIBE" => OfCommand[m] = OfRequest[Subscribe(m.expression)]
      /\ m.method \notin {"PUBLISH", "SUBSCRIBE"} => OfCommand[m] = Service!Nothing
  BY DEF OfCommand, Service!Nothing
<1>2. m.method = "SUBSCRIBE" => OfRequest[Subscribe(m.expression)] \in Service!Items
  BY CommandShape, ConstructedItem
<1>3. m.method = "PUBLISH" => OfRequest[Publish(m.address, NoHeaders, m.content)] \in Service!Items
  BY CommandShape, ConstructedItem
<1> QED  BY <1>1, <1>2, <1>3, ConstructedItem

(* A DELIVER counts in the inbox as the MESSAGE that the actor makes of it; *)
(* any other reply is nothing to the application.                           *)
LEMMA ReplyItem ==
    ASSUME NEW m \in Replies
    PROVE  /\ OfReply[m] \in Service!Items
           /\ m.id = "DELIVER" => /\ OfReply[m] = Service!Publication(m.address, m.content)
                                  /\ OfActorReply[Message(m)] = OfReply[m]
           /\ m.id # "DELIVER" => OfReply[m] = Service!Nothing
<1>1. /\ m.id = "DELIVER" => OfReply[m] = OfRequest[Publish(m.address, NoHeaders, m.content)]
      /\ m.id # "DELIVER" => OfReply[m] = Service!Nothing
  BY DEF OfReply, Service!Nothing
<1>2. m.id = "DELIVER" => m.address \in Addresses /\ m.content \in Contents
  BY DEF Replies, PlainReplies
<1>3. m.id = "DELIVER" => OfActorReply[Message(m)] = OfRequest[Publish(m.address, NoHeaders, m.content)]
  <2> SUFFICES ASSUME m.id = "DELIVER"
               PROVE  OfActorReply[Message(m)] = OfRequest[Publish(m.address, NoHeaders, m.content)]
    OBVIOUS
  <2> DEFINE r == Message(m)
  <2>1. r \in ActorReplies /\ r.kind = "MESSAGE" /\ r.address = m.address /\ r.content = m.content
    BY ActorReplyType DEF Message
  <2> HIDE DEF r
  <2>2. OfActorReply[r] = OfRequest[Publish(r.address, NoHeaders, r.content)]
    BY <2>1 DEF OfActorReply
  <2> QED  BY <2>1, <2>2 DEF r
<1>4. m.id = "DELIVER" => /\ OfRequest[Publish(m.address, NoHeaders, m.content)] \in Service!Items
                          /\ OfRequest[Publish(m.address, NoHeaders, m.content)]
                               = Service!Publication(m.address, m.content)
  BY <1>2, ConstructedItem
<1> QED  BY <1>1, <1>3, <1>4, ConstructedItem

(* A status is nothing to the application beyond the return of its call.    *)
LEMMA StatusItem ==
    /\ OfActorReply[Success] = Service!Nothing
    /\ \A m \in ActorReplies : OfActorReply[m] \in Service!Items
<1>1. OfActorReply[Success] = Service!Nothing
  <2>1. Success \in ActorReplies /\ Success.kind # "MESSAGE"
    BY ActorReplyType DEF Success
  <2> QED  BY <2>1 DEF OfActorReply, Service!Nothing
<1>2. ASSUME NEW m \in ActorReplies  PROVE OfActorReply[m] \in Service!Items
  <2>1. m.kind = "MESSAGE" => m.address \in Addresses /\ m.content \in Contents
    BY DEF ActorReplies, Success
  <2>2. OfActorReply[m] = IF m.kind = "MESSAGE" THEN OfRequest[Publish(m.address, NoHeaders, m.content)]
                          ELSE Service!Nothing
    BY DEF OfActorReply, Service!Nothing
  <2> QED  BY <2>1, <2>2, ConstructedItem
<1> QED  BY <1>1, <1>2

(* All that is under way stands for an item of the service.                 *)
LEMMA BoxItems ==
    /\ StandForItems(OfRequest, Requests, OfCommand, Commands)
    /\ StandForItems(OfActorReply, ActorReplies, OfReply, Replies)
<1>1. /\ \A m \in Requests : OfRequest[m] \in Service!Items
      /\ \A m \in Commands : OfCommand[m] \in Service!Items
  BY RequestItem, CommandItem
<1>2. /\ \A m \in ActorReplies : OfActorReply[m] \in Service!Items
      /\ \A m \in Replies : OfReply[m] \in Service!Items
  BY StatusItem, ReplyItem
<1> QED  BY <1>1, <1>2 DEF StandForItems

-----------------------------------------------------------------------------
(* What a step can be to the boxes of one application.                      *)
Submits(c) ==
    /\ \E m \in Service!Items : Outbox(c)' = Append(Outbox(c), m)
    /\ Inbox(c)' = Inbox(c)

Thins(c) == Thinned(Outbox(c), Outbox(c)') /\ Thinned(Inbox(c), Inbox(c)')

(* The boxes of an application whose pipe and streams are these.            *)
BoxOut(s, k) == Joined(OfRequest, s, OfCommand, k)
BoxIn(r, t) == Joined(OfActorReply, r, OfReply, t)

(* All that a client does with its pipe and streams is to pass things on,   *)
(* to let things go or to greet, and all that its application does is to    *)
(* submit or to take.                                                       *)
LEMMA ClientBoxes ==
    ASSUME BaseInv, NEW c \in Clients, StreamsSound(c), StepOf(c)
    PROVE  Submits(c) \/ Thins(c)
<1> DEFINE s == toServer[c]
           k == commands[c]
           r == replies[c]
           t == toClient[c]
<1>0. /\ NetworkTypeOK /\ ClientTypeOK
      /\ toServer \in [Clients -> Seq(Requests)] /\ toClient \in [Clients -> Seq(Replies)]
      /\ commands \in [Clients -> Seq(Commands)] /\ replies \in [Clients -> Seq(ActorReplies)]
      /\ s \in Seq(Requests) /\ k \in Seq(Commands) /\ r \in Seq(ActorReplies) /\ t \in Seq(Replies)
  BY DEF BaseInv, ClientInv, NetworkTypeOK, ClientTypeOK
<1>b. /\ Outbox(c) = BoxOut(s, k) /\ Outbox(c)' = BoxOut(toServer'[c], commands'[c])
      /\ Inbox(c) = BoxIn(r, t) /\ Inbox(c)' = BoxIn(replies'[c], toClient'[c])
  BY DEF Outbox, Inbox, BoxOut, BoxIn, Joined
<1>h. /\ k # <<>> => Head(k) \in Commands
      /\ t # <<>> => Head(t) \in Replies
  BY <1>0, HeadAndTail
<1> HIDE DEF s, k, r, t
<1>1. /\ Thinned(BoxOut(s, k), BoxOut(s, k))
      /\ Thinned(BoxOut(s, k), BoxOut(s, <<>>))
      /\ k # <<>> => /\ Thinned(BoxOut(s, k), BoxOut(s, Tail(k)))
                     /\ \A n \in 0..Len(s) : Thinned(BoxOut(s, k), BoxOut(SubSeq(s, 1, n), Tail(k)))
  BY <1>0, BoxItems, BoxLosses DEF BoxOut
<1>2. /\ Thinned(BoxIn(r, t), BoxIn(r, t))
      /\ Thinned(BoxIn(r, t), BoxIn(r, <<>>))
      /\ Thinned(BoxIn(r, t), BoxIn(<<>>, t))
      /\ t # <<>> => Thinned(BoxIn(r, t), BoxIn(r, Tail(t)))
  BY <1>0, BoxItems, BoxLosses DEF BoxIn
<1>3. r # <<>> => Thinned(BoxIn(r, t), BoxIn(Tail(r), t))
  BY <1>0, BoxItems, BoxTaken DEF BoxIn
<1>4. ASSUME NEW m \in Requests, OfRequest[m] = Service!Nothing
      PROVE  Thinned(BoxOut(s, k), BoxOut(Append(s, m), k))
  BY <1>0, <1>4, BoxItems, BoxGreeting DEF BoxOut
<1>5. ASSUME k # <<>>, NEW m \in Requests, OfRequest[m] = OfCommand[Head(k)]
      PROVE  BoxOut(Append(s, m), Tail(k)) = BoxOut(s, k)
  BY <1>0, <1>5, BoxItems, BoxPassedOn DEF BoxOut
<1>6. ASSUME t # <<>>, NEW m \in ActorReplies, OfActorReply[m] = OfReply[Head(t)]
      PROVE  BoxIn(Append(r, m), Tail(t)) = BoxIn(r, t)
  BY <1>0, <1>6, BoxItems, BoxPassedOn DEF BoxIn
<1>7. ASSUME NEW m \in Commands
      PROVE  /\ OfCommand[m] \in Service!Items
             /\ BoxOut(s, Append(k, m)) = Append(BoxOut(s, k), OfCommand[m])
  BY <1>0, <1>7, BoxItems, BoxGainsOne DEF BoxOut
<1>8. ASSUME Thinned(BoxOut(s, k), BoxOut(toServer'[c], commands'[c])),
             Thinned(BoxIn(r, t), BoxIn(replies'[c], toClient'[c]))
      PROVE  Thins(c)
  BY <1>b, <1>8 DEF Thins
<1>9. replies'[c] = r /\ toClient'[c] = t => Thinned(BoxIn(r, t), BoxIn(replies'[c], toClient'[c]))
  BY <1>2
<1>10. toServer'[c] = s /\ commands'[c] = k => Thinned(BoxOut(s, k), BoxOut(toServer'[c], commands'[c]))
  BY <1>1
(* Passed on from the pipe to the stream.                                   *)
<1>11. ASSUME NEW m \in Requests, SendRequest(c, m), k # <<>>, commands'[c] = Tail(k),
              UNCHANGED <<replies, toClient>>, OfRequest[m] = OfCommand[Head(k)]
       PROVE  Thins(c)
  <2>1. toServer'[c] = Append(s, m)
    BY <1>0, <1>11, SendRequestEffect DEF s
  <2>2. BoxOut(toServer'[c], commands'[c]) = BoxOut(s, k)
    BY <1>5, <1>11, <2>1
  <2>3. replies'[c] = r /\ toClient'[c] = t
    BY <1>11 DEF r, t
  <2> QED  BY <1>1, <1>8, <1>9, <2>2, <2>3
<1>12. ASSUME NEW m \in Commands, commands'[c] = Append(k, m),
              UNCHANGED <<replies, channels>>
       PROVE  Submits(c)
  <2>1. toServer'[c] = s /\ replies'[c] = r /\ toClient'[c] = t
    BY <1>12 DEF s, r, t, channels
  <2> QED  BY <1>7, <1>b, <1>12, <2>1 DEF Submits
<1>13. CASE ActorConnect(c)
  <2>1. /\ TakesCommand(c, "CONNECT") /\ SendRequest(c, Hello(NoIdentifier))
    BY <1>13 DEF ActorConnect
  <2>2. /\ k # <<>> /\ Head(k) \in Commands /\ Head(k).method = "CONNECT"
        /\ commands'[c] = Tail(k) /\ UNCHANGED <<replies, toClient>>
    BY <1>0, <2>1, TakesCommandEffect DEF k
  <2> QED  BY <1>11, <2>1, <2>2, CommandItem, ConstructedItem
<1>14. CASE ActorAborts(c) \/ ActorIgnoresCommand(c)
  <2>1. /\ \E m \in {"CONNECT", "SUBSCRIBE", "PUBLISH"} : TakesCommand(c, m)
        /\ UNCHANGED toServer
    BY <1>14 DEF ActorAborts, ActorIgnoresCommand
  <2>2. /\ k # <<>> /\ commands'[c] = Tail(k) /\ UNCHANGED <<replies, toClient>>
    BY <1>0, <2>1, TakesCommandEffect DEF k
  <2>3. toServer'[c] = s /\ replies'[c] = r /\ toClient'[c] = t
    BY <2>1, <2>2 DEF s, r, t
  <2> QED  BY <1>1, <1>8, <1>9, <2>2, <2>3
<1>15. CASE ActorSubscribe(c)
  <2>1. TakesCommand(c, "SUBSCRIBE") /\ SendRequest(c, Subscribe(Command(c).expression))
    BY <1>15 DEF ActorSubscribe
  <2>2. /\ k # <<>> /\ Head(k) \in Commands /\ Head(k).method = "SUBSCRIBE" /\ Command(c) = Head(k)
        /\ commands'[c] = Tail(k) /\ UNCHANGED <<replies, toClient>>
    BY <1>0, <2>1, TakesCommandEffect DEF k
  <2>3. /\ Head(k).expression \in Exprs
        /\ OfCommand[Head(k)] = OfRequest[Subscribe(Head(k).expression)]
    BY <2>2, CommandItem, CommandShape
  <2> QED  BY <1>11, <2>1, <2>2, <2>3, RequestType
<1>16. CASE ActorPublish(c)
  <2>1. /\ TakesCommand(c, "PUBLISH")
        /\ SendRequest(c, Publish(Command(c).address, NoHeaders, Command(c).content))
    BY <1>16 DEF ActorPublish
  <2>2. /\ k # <<>> /\ Head(k) \in Commands /\ Head(k).method = "PUBLISH" /\ Command(c) = Head(k)
        /\ commands'[c] = Tail(k) /\ UNCHANGED <<replies, toClient>>
    BY <1>0, <2>1, TakesCommandEffect DEF k
  <2>3. /\ Head(k).address \in Addresses /\ Head(k).content \in Contents
        /\ OfCommand[Head(k)] = OfRequest[Publish(Head(k).address, NoHeaders, Head(k).content)]
    BY <2>2, CommandItem, CommandShape
  <2> QED  BY <1>11, <2>1, <2>2, <2>3, RequestType
<1>17. CASE ActorTerminates(c)
  <2>1. /\ k # <<>> /\ commands'[c] = Tail(k) /\ replies'[c] = r /\ toClient'[c] = <<>>
        /\ \E n \in 0..Len(s) : toServer'[c] = SubSeq(s, 1, n)
    BY <1>0, <1>17 DEF ActorTerminates, s, k, r
  <2> QED  BY <1>1, <1>2, <1>8, <2>1
(* A message from the broker: taken, and passed on or not.                  *)
<1>18. ASSUME NEW K, TakesReply(c, K)
       PROVE  /\ t # <<>> /\ Head(t) \in Replies /\ Head(t).id = K /\ toClient'[c] = Tail(t)
              /\ commands'[c] = k
              /\ K \in {"HELLO_OK", "SUBSCRIBE_OK", "INVALID", "DELIVER"}
  <2>1. TakeReply(c) /\ Head(toClient[c]).id = K /\ UNCHANGED commands
    BY <1>18 DEF TakesReply
  <2>2. /\ t # <<>> /\ Head(t) \in Replies /\ toClient'[c] = Tail(t)
    BY <1>0, <2>1, TakesReplyEffect DEF t
  <2>3. Head(t) \notin Replies \ RepliesOf({"HELLO_OK", "SUBSCRIBE_OK", "INVALID", "DELIVER"})
    BY <1>0, <2>2, HasTail DEF StreamsSound, t
  <2> QED  BY <2>1, <2>2, <2>3 DEF RepliesOf, t, k
<1>19. ASSUME NEW m \in ActorReplies, Signal(c, m), t # <<>>, toClient'[c] = Tail(t),
              commands'[c] = k, UNCHANGED toServer, OfActorReply[m] = OfReply[Head(t)]
       PROVE  Thins(c)
  <2>1. replies'[c] = Append(r, m) /\ toServer'[c] = s
    BY <1>0, <1>19, SignalEffect DEF r, s
  <2>2. BoxIn(replies'[c], toClient'[c]) = BoxIn(r, t)
    BY <1>6, <1>19, <2>1
  <2> QED  BY <1>2, <1>8, <1>10, <1>19, <2>1, <2>2
<1>20. ASSUME t # <<>>, toClient'[c] = Tail(t), commands'[c] = k, UNCHANGED <<toServer, replies>>
       PROVE  Thins(c)
  <2>1. toServer'[c] = s /\ replies'[c] = r
    BY <1>20 DEF s, r
  <2> QED  BY <1>2, <1>8, <1>10, <1>20, <2>1
<1>21. CASE ActorHelloOk(c)
  <2>1. /\ TakesReply(c, "HELLO_OK") /\ UNCHANGED toServer
        /\ Signal(c, Success) \/ UNCHANGED replies
    BY <1>21 DEF ActorHelloOk
  <2>2. OfActorReply[Success] = OfReply[Head(t)]
    BY <1>18, <2>1, ReplyItem, StatusItem
  <2> QED  BY <1>18, <1>19, <1>20, <2>1, <2>2, ActorReplyType
<1>22. CASE ActorSubscribeOk(c)
  <2>1. TakesReply(c, "SUBSCRIBE_OK") /\ UNCHANGED toServer /\ Signal(c, Success)
    BY <1>22 DEF ActorSubscribeOk
  <2>2. OfActorReply[Success] = OfReply[Head(t)]
    BY <1>18, <2>1, ReplyItem, StatusItem
  <2> QED  BY <1>18, <1>19, <2>1, <2>2, ActorReplyType
<1>23. CASE deliver_message_to_application(c)
  <2>1. TakesReply(c, "DELIVER") /\ UNCHANGED toServer /\ Signal(c, Message(Head(t)))
    BY <1>23 DEF deliver_message_to_application, t
  <2>2. Message(Head(t)) \in ActorReplies /\ OfActorReply[Message(Head(t))] = OfReply[Head(t)]
    BY <1>18, <2>1, ReplyItem, ActorReplyType
  <2> QED  BY <1>18, <1>19, <2>1, <2>2
<1>24. CASE \/ ActorPing(c) \/ ActorHalts(c)
            \/ ActorSubscribesUnasked(c) \/ ActorPublishesUnasked(c) \/ ActorDirectsUnasked(c)
  <2>1. \E K \in {"PING", "UNDECODABLE", "SUBSCRIBE", "PUBLISH", "DIRECT"} : TakesReply(c, K)
    BY <1>24 DEF ActorPing, ActorHalts, ActorSubscribesUnasked, ActorPublishesUnasked,
                 ActorDirectsUnasked
  <2>2. \E K \in {"PING", "UNDECODABLE", "SUBSCRIBE", "PUBLISH", "DIRECT"} :
           K \in {"HELLO_OK", "SUBSCRIBE_OK", "INVALID", "DELIVER"}
    BY <1>18, <2>1
  <2>3. FALSE
    BY <2>2
  <2> QED  BY <2>3
<1>25. CASE ActorInvalid(c)
  <2>1. /\ TakesReply(c, "INVALID") /\ SendRequest(c, Hello(NoIdentifier)) /\ UNCHANGED replies
    BY <1>25 DEF ActorInvalid
  <2>2. toServer'[c] = Append(s, Hello(NoIdentifier)) /\ replies'[c] = r
    BY <1>0, <2>1, SendRequestEffect, RequestType DEF s, r
  <2>3. t # <<>> /\ toClient'[c] = Tail(t) /\ commands'[c] = k
    BY <1>18, <2>1
  <2>4. Thinned(BoxOut(s, k), BoxOut(Append(s, Hello(NoIdentifier)), k))
    BY <1>4, ConstructedItem
  <2> QED  BY <1>2, <1>8, <2>2, <2>3, <2>4
<1>26. CASE ActorIgnoresReply(c)
  <2>1. TakeReply(c) /\ UNCHANGED <<commands, replies, toServer>>
    BY <1>26 DEF ActorIgnoresReply, clientState
  <2>2. t # <<>> /\ toClient'[c] = Tail(t) /\ commands'[c] = k
    BY <1>0, <2>1, TakesReplyEffect DEF t, k
  <2> QED  BY <1>20, <2>1, <2>2
(* The calls of the application.                                            *)
<1>27. ASSUME NEW m \in Commands, NEW q \in ApiCalls, EnterCall(c, <<m>>, q)
       PROVE  Submits(c)
  <2>1. <<m>> \in Seq(Commands) /\ Append(k, m) = k \o <<m>>
    BY <1>0, AppendIsConcat
  <2>2. commands'[c] = k \o <<m>> /\ UNCHANGED <<replies, channels>>
    BY <1>0, <1>27, <2>1, EnterCallEffect DEF k
  <2> QED  BY <1>12, <2>1, <2>2
<1>28. CASE zccp_client_connect(c)
  <2>1. EnterCall(c, <<Connect>>, In("connect"))
    BY <1>28 DEF zccp_client_connect
  <2>2. Connect \in Commands /\ In("connect") \in ApiCalls
    BY DEF Commands, ApiCalls, In
  <2> QED  BY <1>27, <2>1, <2>2
<1>29. ASSUME NEW e \in Exprs, zccp_client_subscribe(c, e)  PROVE Submits(c)
  <2>1. EnterCall(c, <<SubscribeTo(e)>>, InSubscribe(e))
    BY <1>29 DEF zccp_client_subscribe
  <2>2. SubscribeTo(e) \in Commands /\ InSubscribe(e) \in ApiCalls
    BY DEF Commands, ApiCalls, SubscribeTo, InSubscribe
  <2> QED  BY <1>27, <2>1, <2>2
<1>30. ASSUME NEW a \in Addresses, NEW b \in Contents, zccp_client_publish(c, a, b)  PROVE Submits(c)
  <2>1. EnterCall(c, <<PublishTo(a, b)>>, In("none"))
    BY <1>30 DEF zccp_client_publish
  <2>2. PublishTo(a, b) \in Commands /\ In("none") \in ApiCalls
    BY DEF Commands, ApiCalls, PublishTo, In
  <2> QED  BY <1>27, <2>1, <2>2
<1>31. CASE zccp_client_recv(c)
  <2>1. EnterCall(c, <<>>, In("recv"))
    BY <1>31 DEF zccp_client_recv
  <2>2. <<>> \in Seq(Commands) /\ In("recv") \in ApiCalls
    BY EmptySeq DEF ApiCalls, In
  <2>3. commands'[c] = k \o <<>> /\ UNCHANGED <<replies, channels>>
    BY <1>0, <2>1, <2>2, EnterCallEffect DEF k
  <2>4. k \o <<>> = k
    BY <1>0, ConcatEmptySeq
  <2>5. toServer'[c] = s /\ replies'[c] = r /\ toClient'[c] = t
    BY <2>3 DEF s, r, t, channels
  <2> QED  BY <1>8, <1>9, <1>10, <2>3, <2>4, <2>5
<1>32. CASE zccp_client_destroy(c)
  <2>1. CASE /\ commands' = [commands EXCEPT ![c] = Append(commands[c], Term)]
             /\ UNCHANGED <<replies, channels>>
    <3>1. commands'[c] = Append(k, Term) /\ Term \in Commands
      BY <1>0, <2>1, CommandType DEF k
    <3> QED  BY <1>12, <2>1, <3>1
  <2>2. CASE /\ commands' = [commands EXCEPT ![c] = <<>>] /\ replies' = [replies EXCEPT ![c] = <<>>]
             /\ UNCHANGED channels
    <3>1. commands'[c] = <<>> /\ replies'[c] = <<>> /\ toServer'[c] = s /\ toClient'[c] = t
      BY <1>0, <2>2 DEF s, t, channels
    <3> QED  BY <1>1, <1>2, <1>8, <3>1
  <2> QED  BY <1>32, <2>1, <2>2 DEF zccp_client_destroy
<1>33. CASE s_accept_reply(c)
  <2>1. r # <<>> /\ replies'[c] = Tail(r) /\ commands'[c] = k /\ toServer'[c] = s /\ toClient'[c] = t
    BY <1>0, <1>33 DEF s_accept_reply, channels, s, k, r, t
  <2> QED  BY <1>3, <1>8, <1>10, <2>1
<1> QED
  BY <1>13, <1>14, <1>15, <1>16, <1>17, <1>21, <1>22, <1>23, <1>24, <1>25, <1>26, <1>28, <1>29,
     <1>30, <1>31, <1>32, <1>33 DEF StepOf, ActorPipe, ActorProtocol, Application

-----------------------------------------------------------------------------
(* The boxes of the other applications stay.                                *)
OthersSame(c) ==
    \A x \in Clients : x # c => Outbox(x)' = Outbox(x) /\ Inbox(x)' = Inbox(x)

(* A client that submits, while all else stays, is a step of the service.   *)
LEMMA SubmitsIsSubmit ==
    ASSUME NEW c \in Clients, Submits(c), OthersSame(c), UNCHANGED <<heldOf, forgotten>>
    PROVE  Service!Submit(c)
<1>1. PICK m \in Service!Items : Outbox(c)' = Append(Outbox(c), m)
  BY DEF Submits
<1>2. outboxOf' = [outboxOf EXCEPT ![c] = Append(Outbox(c), m)]
  BY <1>1 DEF outboxOf, OthersSame
<1>3. inboxOf' = inboxOf
  BY DEF inboxOf, OthersSame, Submits
<1>4. outboxOf[c] = Outbox(c)
  BY DEF outboxOf
<1> QED  BY <1>2, <1>3, <1>4 DEF Service!Submit

(* So is one that takes or loses things.                                    *)
LEMMA ThinsIsThin ==
    ASSUME NEW c \in Clients, Thins(c), OthersSame(c), UNCHANGED <<heldOf, forgotten>>
    PROVE  Service!Thin(c)
<1>1. PICK i, n \in 0..Len(Outbox(c)), r \in Service!Gaps :
         Outbox(c)' = Service!Without(Outbox(c), i, n, r)
  BY DEF Thins, Thinned
<1>2. PICK j, l \in 0..Len(Inbox(c)), q \in Service!Gaps :
         Inbox(c)' = Service!Without(Inbox(c), j, l, q)
  BY DEF Thins, Thinned
<1>3. outboxOf[c] = Outbox(c) /\ inboxOf[c] = Inbox(c)
  BY DEF outboxOf, inboxOf
<1>4. outboxOf' = [outboxOf EXCEPT ![c] = Service!Without(Outbox(c), i, n, r)]
  BY <1>1 DEF outboxOf, OthersSame
<1>5. inboxOf' = [inboxOf EXCEPT ![c] = Service!Without(Inbox(c), j, l, q)]
  BY <1>2 DEF inboxOf, OthersSame
<1>6. /\ outboxOf' = [outboxOf EXCEPT ![c] = Service!Without(outboxOf[c], i, n, r)]
      /\ inboxOf' = [inboxOf EXCEPT ![c] = Service!Without(inboxOf[c], j, l, q)]
  BY <1>3, <1>4, <1>5
<1>7. i \in 0..Len(outboxOf[c]) /\ n \in 0..Len(outboxOf[c]) /\ j \in 0..Len(inboxOf[c])
      /\ l \in 0..Len(inboxOf[c])
  BY <1>3
<1> QED  BY <1>6, <1>7 DEF Service!Thin
(* The broker takes a request off the outbox of the client that sent it.    *)
LEMMA TakenIsServed ==
    ASSUME BaseInv, NEW c \in Clients, TakeRequest(c), UNCHANGED <<commands, forgotten>>, NEW K,
           OfRequest[Request(c)].kind \in K
    PROVE  Service!Serves(c, K) /\ Request(c) \in Requests /\ Head(outboxOf[c]) = OfRequest[Request(c)]
<1> DEFINE s == toServer[c]
           k == commands[c]
<1>0. /\ toServer \in [Clients -> Seq(Requests)] /\ commands \in [Clients -> Seq(Commands)]
      /\ s \in Seq(Requests) /\ k \in Seq(Commands)
  BY DEF BaseInv, ClientInv, NetworkTypeOK, ClientTypeOK
<1>1. s # <<>> /\ toServer' = [toServer EXCEPT ![c] = Tail(s)]
  BY DEF TakeRequest
<1>2. toServer'[c] = Tail(s) /\ commands'[c] = k
  BY <1>0, <1>1
<1>3. Head(s) \in Requests /\ Request(c) = Head(s)
  BY <1>0, <1>1, HeadAndTail DEF Request
<1> DEFINE o == BoxOut(s, k)
<1>b. outboxOf[c] = o /\ Outbox(c)' = BoxOut(Tail(s), k) /\ Outbox(c) = o
  BY <1>2 DEF outboxOf, Outbox, BoxOut, Joined
<1> HIDE DEF s, k
<1>4. o # <<>> /\ Head(o) = OfRequest[Head(s)] /\ Tail(o) = BoxOut(Tail(s), k)
  BY <1>0, <1>1, BoxItems, BoxTaken DEF BoxOut
<1>5. \A x \in Clients : Outbox(x)' = IF x = c THEN Tail(o) ELSE Outbox(x)
  <2>1. ASSUME NEW x \in Clients, x # c  PROVE Outbox(x)' = Outbox(x)
    <3>1. toServer'[x] = toServer[x]
      BY <1>0, <1>1, <2>1
    <3> QED  BY <3>1 DEF Outbox
  <2> QED  BY <1>b, <1>4, <2>1
<1> HIDE DEF o
<1>6. outboxOf' = [outboxOf EXCEPT ![c] = Tail(o)]
  BY <1>5 DEF outboxOf
<1> QED  BY <1>3, <1>4, <1>6, <1>b DEF Service!Serves

(* Its answer is nothing to the application.                                *)
LEMMA AnswerIsAnswer ==
    ASSUME BaseInv, NEW c \in Clients, NEW k \in {"HELLO_OK", "SUBSCRIBE_OK", "INVALID"},
           SendReply(c, Plain(k)), UNCHANGED replies
    PROVE  Service!Answer(c)
<1> DEFINE r == replies[c]
           t == toClient[c]
           m == Plain(k)
<1>0. /\ toClient \in [Clients -> Seq(Replies)] /\ replies \in [Clients -> Seq(ActorReplies)]
      /\ t \in Seq(Replies) /\ r \in Seq(ActorReplies)
  BY DEF BaseInv, ClientInv, NetworkTypeOK, ClientTypeOK
<1>1. toClient' = [toClient EXCEPT ![c] = Append(t, m)]
  BY DEF SendReply
<1>2. toClient'[c] = Append(t, m) /\ replies'[c] = r
  BY <1>0, <1>1
<1>3. m \in Replies /\ m.id # "DELIVER"
  BY DEF Plain, Replies, PlainReplies
<1> HIDE DEF m
<1>4. OfReply[m] = Service!Nothing
  BY <1>3, ReplyItem
<1>b. Inbox(c) = BoxIn(r, t) /\ Inbox(c)' = BoxIn(r, Append(t, m))
  BY <1>2 DEF Inbox, BoxIn, Joined
<1> HIDE DEF r, t
<1>5. BoxIn(r, Append(t, m)) = Append(BoxIn(r, t), OfReply[m])
  BY <1>0, <1>3, BoxItems, BoxGainsOne DEF BoxIn
<1>6. \A x \in Clients : Inbox(x)' = IF x = c THEN Append(Inbox(x), Service!Nothing) ELSE Inbox(x)
  <2>1. ASSUME NEW x \in Clients, x # c  PROVE Inbox(x)' = Inbox(x)
    <3>1. toClient'[x] = toClient[x]
      BY <1>0, <1>1, <2>1
    <3> QED  BY <3>1 DEF Inbox
  <2> QED  BY <1>b, <1>4, <1>5, <2>1
<1>7. inboxOf' = [inboxOf EXCEPT ![c] = Append(@, Service!Nothing)]
  BY <1>6 DEF inboxOf
<1> QED  BY <1>7 DEF Service!Answer

(* forward_to_subscribers puts into each inbox but the publisher's the      *)
(* publication, once for each subscription that matches.                    *)
LEMMA ForwardIsNotify ==
    ASSUME BaseInv, NEW c \in Clients, NEW m \in Requests, m.id = "PUBLISH",
           forward_to_subscribers(c, m), UNCHANGED replies
    PROVE  inboxOf' = [x \in Clients |->
                         IF x = c THEN inboxOf[x]
                         ELSE inboxOf[x] \o [k \in 1..Service!CopiesTo(x, m.address) |-> OfRequest[m]]]
<1>0. /\ toClient \in [Clients -> Seq(Replies)] /\ replies \in [Clients -> Seq(ActorReplies)]
      /\ StateInv /\ m.address \in Addresses /\ m.content \in Contents
  BY RequestShape DEF BaseInv, ServerInv, ClientInv, NetworkTypeOK, ClientTypeOK
<1> DEFINE copy == get_content_to_publish(c, m)
<1>1. /\ copy \in Replies /\ copy.id = "DELIVER"
      /\ copy.address = m.address /\ copy.content = m.content
  BY <1>0, NetworkAssumption DEF get_content_to_publish, Deliver, Replies, StateInv
<1>2. toClient' = [x \in Clients |->
                     IF x = c THEN toClient[x]
                     ELSE toClient[x] \o [k \in 1..Cardinality(Places(x, m.address)) |-> copy]]
  BY DEF forward_to_subscribers
<1> HIDE DEF copy
<1>3. OfReply[copy] = OfRequest[m]
  BY <1>1, ReplyItem, RequestItem
<1>4. ASSUME NEW x \in Clients
      PROVE  Inbox(x)' = IF x = c THEN Inbox(x)
                         ELSE Inbox(x) \o [k \in 1..Service!CopiesTo(x, m.address) |-> OfRequest[m]]
  <2> DEFINE n == Cardinality(Places(x, m.address))
             d == [k \in 1..n |-> copy]
             r == replies[x]
             t == toClient[x]
  <2>1. n \in Nat /\ n = Service!CopiesTo(x, m.address)
    <3>1. n \in Nat /\ n = Cardinality(Matching(x, m.address))
      BY <1>0, PlacesCount
    <3>2. Service!CopiesTo(x, m.address) = Cardinality(Matching(x, m.address))
      <4>1. heldOf[x] = Subscriptions(x)
        BY DEF heldOf
      <4>2. \A S : Service!Cardinality(S) = Cardinality(S)
        BY DEF Service!Cardinality, Cardinality
      <4>3. {e \in heldOf[x] : m.address \in Matches[e]} = Matching(x, m.address)
        BY <4>1 DEF Matching
      <4>4. Service!CopiesTo(x, m.address) = Service!Cardinality(Matching(x, m.address))
        BY <4>3 DEF Service!CopiesTo
      <4> QED  BY <4>2, <4>4
    <3> QED  BY <3>1, <3>2
  <2>2. CASE x = c
    <3>1. toClient'[x] = toClient[x]
      BY <1>2, <2>2
    <3>2. Inbox(x)' = Inbox(x)
      BY <3>1 DEF Inbox
    <3> QED  BY <2>2, <3>2
  <2>3. CASE x # c
    <3>1. toClient'[x] = t \o d /\ replies'[x] = r
      BY <1>2, <2>3
    <3>2. t \in Seq(Replies) /\ r \in Seq(ActorReplies)
      BY <1>0
    <3> HIDE DEF n
    <3>3. d \in Seq(Replies)
      BY <1>1, <2>1, SeqDef
    <3>4. Images(OfReply, d) = [k \in 1..n |-> OfRequest[m]]
      BY <1>3 DEF Images
    <3>b. Inbox(x) = BoxIn(r, t) /\ Inbox(x)' = BoxIn(r, t \o d)
      BY <3>1 DEF Inbox, BoxIn, Joined
    <3> HIDE DEF d, r, t
    <3>5. BoxIn(r, t \o d) = BoxIn(r, t) \o Images(OfReply, d)
      BY <3>2, <3>3, BoxItems, BoxGains DEF BoxIn
    <3> QED  BY <2>1, <2>3, <3>4, <3>5, <3>b
  <2> QED  BY <2>2, <2>3
<1> QED  BY <1>4 DEF inboxOf

(* A handler of the broker greets, grants, notifies or refuses, and refuses *)
(* only whom it has forgotten.                                              *)
LEMMA BrokerServes ==
    ASSUME SystemInv, NEW c \in Clients, BrokerHandles(c)
    PROVE  Service!Greet(c) \/ Service!Grant(c) \/ Service!Notify(c) \/ Service!Refuse(c)
<1>0. /\ BaseInv /\ StateInv /\ StreamsSound(c) /\ (c \notin forgotten => Greeted(c))
      /\ toServer[c] \in Seq(Requests)
  BY DEF SystemInv, GreetingInv, Kept, BaseInv, ServerInv, NetworkTypeOK
<1>1. /\ HandleMessage(c) /\ UNCHANGED <<commands, replies, forgotten>>
  BY DEF BrokerHandles, clientState, faultState
<1>2. ASSUME UNCHANGED patterns  PROVE UNCHANGED heldOf
  BY <1>2 DEF heldOf, Subscriptions
<1>3. ASSUME TakeRequest(c)
      PROVE  /\ Request(c) \in RequestsOf({"HELLO", "SUBSCRIBE", "PUBLISH"})
             /\ toServer[c] # <<>> /\ Request(c) = Head(toServer[c]) /\ Request(c) = toServer[c][1]
             /\ 1 \in DOMAIN toServer[c]
  <2>1. toServer[c] # <<>> /\ Request(c) = Head(toServer[c])
    BY <1>3 DEF TakeRequest, Request
  <2>2. /\ Head(toServer[c]) \in Requests
        /\ Head(toServer[c]) \notin Requests \ RequestsOf({"HELLO", "SUBSCRIBE", "PUBLISH"})
    BY <1>0, <2>1, HasTail DEF StreamsSound
  <2>3. Head(toServer[c]) = toServer[c][1] /\ 1 \in DOMAIN toServer[c]
    BY <1>0, <2>1, HeadTailProperties, LenProperties, EmptySeq
  <2> QED  BY <2>1, <2>2, <2>3
<1>4. CASE HandleHello(c)
  <2>1. /\ TakeRequest(c) /\ Request(c).id = "HELLO" /\ SendReply(c, Plain("HELLO_OK"))
        /\ UNCHANGED patterns
    BY <1>4 DEF HandleHello, Handles
  <2>2. Request(c) \in Requests
    BY <1>3, <2>1 DEF RequestsOf
  <2>3. OfRequest[Request(c)].kind \in {"nothing"}
    BY <2>1, <2>2, RequestItem DEF Service!Nothing
  <2>4. Service!Serves(c, {"nothing"}) /\ Service!Answer(c) /\ UNCHANGED heldOf
    BY <1>0, <1>1, <1>2, <2>1, <2>3, TakenIsServed, AnswerIsAnswer
  <2> QED  BY <2>4 DEF Service!Greet
<1>5. CASE HandleSubscribe(c)
  <2>1. /\ TakeRequest(c) /\ Request(c).id = "SUBSCRIBE" /\ SendReply(c, Plain("SUBSCRIBE_OK"))
        /\ store_new_subscription(c, Request(c).expression)
        /\ UNCHANGED <<up, clients, identifier>> /\ c \in clients
    BY <1>5 DEF HandleSubscribe, Handles
  <2>2. Request(c) \in Requests /\ Request(c).expression \in Exprs
    BY <1>3, <2>1, RequestShape DEF RequestsOf
  <2>3. /\ OfRequest[Request(c)].kind \in {"subscription"}
        /\ OfRequest[Request(c)].expression = Request(c).expression
    <3>1. OfRequest[Request(c)] = Service!Subscription(Request(c).expression)
      BY <2>1, <2>2, RequestItem
    <3> QED  BY <3>1 DEF Service!Subscription
  <2>4. /\ Service!Serves(c, {"subscription"}) /\ Service!Answer(c)
        /\ Head(outboxOf[c]) = OfRequest[Request(c)]
    BY <1>0, <1>1, <2>1, <2>3, TakenIsServed, AnswerIsAnswer
  <2> DEFINE e == Request(c).expression
  <2>5. \A x \in Clients : Subscriptions(x)' = Subscriptions(x) \cup (IF x = c THEN {e} ELSE {})
    BY <1>0, <2>1, <2>2, StoreEffect
  <2> HIDE DEF e
  <2>6. heldOf' = [heldOf EXCEPT ![c] = @ \cup {e}]
    BY <2>5 DEF heldOf
  <2> QED  BY <2>3, <2>4, <2>6 DEF Service!Grant, e
<1>6. CASE HandlePublish(c)
  <2>1. /\ TakeRequest(c) /\ Request(c).id = "PUBLISH"
        /\ forward_to_subscribers(c, Request(c)) /\ UNCHANGED patterns
    BY <1>6 DEF HandlePublish, Handles, serverState
  <2>2. Request(c) \in Requests
    BY <1>3, <2>1 DEF RequestsOf
  <2>3. /\ OfRequest[Request(c)].kind \in {"publication"}
        /\ OfRequest[Request(c)].address = Request(c).address
    <3>1. OfRequest[Request(c)] = Service!Publication(Request(c).address, Request(c).content)
      BY <2>1, <2>2, RequestItem
    <3> QED  BY <3>1 DEF Service!Publication
  <2>4. Service!Serves(c, {"publication"}) /\ Head(outboxOf[c]) = OfRequest[Request(c)]
    BY <1>0, <1>1, <2>1, <2>3, TakenIsServed
  <2> DEFINE m == Request(c)
             i == OfRequest[m]
  <2>5. inboxOf' = [x \in Clients |->
                      IF x = c THEN inboxOf[x]
                      ELSE inboxOf[x] \o [k \in 1..Service!CopiesTo(x, m.address) |-> i]]
    <3>1. m \in Requests /\ m.id = "PUBLISH" /\ forward_to_subscribers(c, m) /\ UNCHANGED replies
      BY <1>1, <2>1, <2>2
    <3> HIDE DEF m
    <3> QED  BY <1>0, <3>1, ForwardIsNotify
  <2>6. UNCHANGED heldOf
    BY <1>2, <2>1
  <2>7. Head(outboxOf[c]) = i /\ i.address = m.address
    BY <2>3, <2>4
  <2> HIDE DEF m, i
  <2> QED  BY <2>4, <2>5, <2>6, <2>7 DEF Service!Notify
<1>7. CASE HandleInvalid(c)
  <2>1. /\ TakeRequest(c) /\ Request(c).id \notin Accepted(c)
        /\ SendReply(c, Plain("INVALID")) /\ s_client_destroy(c)
    BY <1>7 DEF HandleInvalid
  <2>2. /\ Request(c) \in Requests /\ Request(c).id \in {"HELLO", "SUBSCRIBE", "PUBLISH"}
        /\ Request(c) = toServer[c][1] /\ 1 \in DOMAIN toServer[c]
    BY <1>3, <2>1 DEF RequestsOf
  <2>3. c \in forgotten
    <3> SUFFICES ASSUME c \notin forgotten  PROVE FALSE
      OBVIOUS
    <3>1. CASE c \in clients
      <4>1. Request(c).id = "HELLO"
        BY <2>1, <2>2, <3>1 DEF Accepted
      <4>2. Has(toServer[c], RequestsOf({"HELLO"}))
        BY <2>2, <4>1 DEF Has, RequestsOf
      <4> QED  BY <1>0, <3>1, <4>2 DEF Greeted
    <3>2. CASE c \notin clients
      <4>1. Request(c).id = "HELLO"
        BY <1>0, <2>2, <3>2 DEF Greeted, LeadsWithHello
      <4> QED  BY <2>1, <3>2, <4>1 DEF Accepted
    <3> QED  BY <3>1, <3>2
  <2>4. OfRequest[Request(c)].kind \in {"nothing", "subscription", "publication"}
    <3>1. \/ OfRequest[Request(c)] = Service!Nothing
          \/ OfRequest[Request(c)] = Service!Subscription(Request(c).expression)
          \/ OfRequest[Request(c)] = Service!Publication(Request(c).address, Request(c).content)
      BY <2>2, RequestItem
    <3> QED  BY <3>1 DEF Service!Nothing, Service!Subscription, Service!Publication
  <2>5. Service!Serves(c, {"nothing", "subscription", "publication"}) /\ Service!Answer(c)
    BY <1>0, <1>1, <2>1, <2>4, TakenIsServed, AnswerIsAnswer
  <2>6. \A x \in Clients : Subscriptions(x)' = IF x = c THEN {} ELSE Subscriptions(x)
    BY <1>0, <2>1, DestroyEffect
  <2>7. heldOf' = [heldOf EXCEPT ![c] = {}]
    BY <2>6 DEF heldOf
  <2> QED  BY <2>3, <2>5, <2>7 DEF Service!Refuse
<1>8. CASE HandleDirect(c) \/ HandleGoodbye(c) \/ HandleUndecodable(c)
  <2>1. TakeRequest(c) /\ Request(c).id \in {"DIRECT", "GOODBYE", "UNDECODABLE"}
    BY <1>8 DEF HandleDirect, HandleGoodbye, HandleUndecodable, Handles
  <2> QED  BY <1>3, <2>1 DEF RequestsOf
<1> QED  BY <1>1, <1>4, <1>5, <1>6, <1>7, <1>8 DEF HandleMessage

(* What a message lost in a stream, or dropped for a peer that is gone,     *)
(* does to the boxes.                                                       *)
LEMMA LossThins ==
    ASSUME BaseInv, NEW c \in Clients, LoseRequest(c) \/ LoseReply(c) \/ PeerGone(c),
           UNCHANGED <<commands, replies>>
    PROVE  Thins(c) /\ OthersSame(c)
<1> DEFINE s == toServer[c]
           k == commands[c]
           r == replies[c]
           t == toClient[c]
<1>0. /\ toServer \in [Clients -> Seq(Requests)] /\ toClient \in [Clients -> Seq(Replies)]
      /\ s \in Seq(Requests) /\ k \in Seq(Commands) /\ r \in Seq(ActorReplies) /\ t \in Seq(Replies)
  BY DEF BaseInv, ClientInv, NetworkTypeOK, ClientTypeOK
<1>b. /\ Outbox(c) = BoxOut(s, k) /\ Outbox(c)' = BoxOut(toServer'[c], k)
      /\ Inbox(c) = BoxIn(r, t) /\ Inbox(c)' = BoxIn(r, toClient'[c])
  BY DEF Outbox, Inbox, BoxOut, BoxIn, Joined
<1>1. \A x \in Clients : x # c => toServer'[x] = toServer[x] /\ toClient'[x] = toClient[x]
  BY <1>0 DEF LoseRequest, LoseReply, TakeRequest, PeerGone
<1>2. OthersSame(c)
  BY <1>1 DEF OthersSame, Outbox, Inbox
<1>3. \/ s # <<>> /\ toServer'[c] = Tail(s) /\ toClient'[c] = t
      \/ /\ t # <<>> /\ toServer'[c] = s
         /\ toClient'[c] = SubSeq(t, 1, Len(t) - 1) \/ toClient'[c] = <<>>
  BY <1>0 DEF LoseRequest, LoseReply, TakeRequest, PeerGone
<1> HIDE DEF s, k, r, t
<1>4. Thinned(BoxOut(s, k), BoxOut(s, k)) /\ (s # <<>> => Thinned(BoxOut(s, k), BoxOut(Tail(s), k)))
  BY <1>0, BoxItems, BoxLosses, BoxTaken DEF BoxOut
<1>5. /\ Thinned(BoxIn(r, t), BoxIn(r, t)) /\ Thinned(BoxIn(r, t), BoxIn(r, <<>>))
  BY <1>0, BoxItems, BoxLosses DEF BoxIn
<1>6. t # <<>> => Thinned(BoxIn(r, t), BoxIn(r, SubSeq(t, 1, Len(t) - 1)))
  <2> SUFFICES ASSUME t # <<>>  PROVE Thinned(BoxIn(r, t), BoxIn(r, SubSeq(t, 1, Len(t) - 1)))
    OBVIOUS
  <2> DEFINE n == Len(t) - 1
  <2>1. n \in 0..Len(t)
    BY <1>0, LenProperties, EmptySeq
  <2> HIDE DEF n
  <2>2. Thinned(BoxIn(r, t), BoxIn(r, SubSeq(t, 1, n)))
    BY <1>0, <2>1, BoxItems, BoxEndLost DEF BoxIn
  <2> QED  BY <2>2 DEF n
<1> QED  BY <1>2, <1>3, <1>4, <1>5, <1>6, <1>b DEF Thins

-----------------------------------------------------------------------------
(* The broker and its clients start as the service does ...                 *)
THEOREM SystemServiceInit == Init => Service!NotificationsInit
<1> SUFFICES ASSUME Init  PROVE Service!NotificationsInit
  OBVIOUS
<1>1. ASSUME NEW c \in Clients
      PROVE  Outbox(c) = <<>> /\ Inbox(c) = <<>> /\ Subscriptions(c) = {}
  <2>1. /\ toServer[c] = <<>> /\ toClient[c] = <<>> /\ commands[c] = <<>> /\ replies[c] = <<>>
        /\ patterns = <<>>
    BY DEF Init, ServerInit, ClientInit, NetworkInit
  <2>2. /\ Images(OfRequest, <<>>) = <<>> /\ Images(OfCommand, <<>>) = <<>>
        /\ Images(OfActorReply, <<>>) = <<>> /\ Images(OfReply, <<>>) = <<>>
    BY ImagesOfNone
  <2>3. <<>> \o <<>> = <<>>
    OBVIOUS
  <2> QED  BY <2>1, <2>2, <2>3 DEF Outbox, Inbox, Subscriptions
<1>2. forgotten = {}
  BY DEF Init
<1> QED  BY <1>1, <1>2 DEF outboxOf, inboxOf, heldOf, Service!NotificationsInit

(* ... and each step of theirs, faults included, is one of the service, or  *)
(* changes nothing that the applications can tell.                          *)
THEOREM SystemServiceStep ==
    SystemInv /\ [Next]_vars => [Service!NotificationsNext]_Service!notificationVars
<1> SUFFICES ASSUME SystemInv, [Next]_vars
             PROVE  [Service!NotificationsNext]_Service!notificationVars
  OBVIOUS
<1>0. BaseInv /\ StateInv /\ \A c \in Clients : StreamsSound(c)
  BY DEF SystemInv, GreetingInv, BaseInv, ServerInv
<1>1. UNCHANGED patterns => UNCHANGED heldOf
  BY DEF heldOf, Subscriptions
<1>2. ASSUME NEW c \in Clients, BrokerHandles(c)  PROVE Service!NotificationsNext
  BY <1>2, BrokerServes DEF Service!NotificationsNext
<1>3. ASSUME NEW c \in Clients, ActorSteps(c) \/ ApplicationSteps(c)
      PROVE  Service!NotificationsNext
  <2>1. StepOf(c) /\ UNCHANGED <<serverState, faultState>>
    BY <1>3 DEF ActorSteps, ApplicationSteps, StepOf
  <2>2. Submits(c) \/ Thins(c)
    BY <1>0, <2>1, ClientBoxes
  <2>3. OthersSame(c)
    <3>1. \A x \in Clients : x # c => UNCHANGED ActorState(x)
      BY <1>0, <2>1, StepTypes DEF BaseInv, ClientInv
    <3> QED  BY <3>1 DEF ActorState, OthersSame, Outbox, Inbox
  <2>4. UNCHANGED <<heldOf, forgotten>>
    BY <1>1, <2>1 DEF serverState, faultState
  <2>5. Service!Submit(c) \/ Service!Thin(c)
    BY <2>2, <2>3, <2>4, SubmitsIsSubmit, ThinsIsThin
  <2> QED  BY <2>5 DEF Service!NotificationsNext
<1>4. ASSUME NEW c \in Clients, StreamLoses(c) \/ PeerGone(c)  PROVE Service!NotificationsNext
  <2>1. /\ LoseRequest(c) \/ LoseReply(c) \/ PeerGone(c)
        /\ UNCHANGED serverState /\ UNCHANGED clientState /\ UNCHANGED faultState
    BY <1>4 DEF StreamLoses, MessageLost, PeerGone
  <2>2. UNCHANGED <<commands, replies>> /\ UNCHANGED <<heldOf, forgotten>>
    BY <1>1, <2>1 DEF serverState, clientState, faultState
  <2>3. Service!Thin(c)
    BY <1>0, <2>1, <2>2, LossThins, ThinsIsThin
  <2> QED  BY <2>3 DEF Service!NotificationsNext
<1>5. ASSUME UNCHANGED <<clientState, channels>>  PROVE UNCHANGED <<outboxOf, inboxOf>>
  BY <1>5 DEF clientState, channels, outboxOf, inboxOf, Outbox, Inbox
<1>6. ASSUME NEW c \in Clients, ClientExpires(c)  PROVE Service!NotificationsNext
  <2>1. /\ s_client_destroy(c) /\ UNCHANGED <<clientState, channels>>
        /\ forgotten' = forgotten \cup {c}
    BY <1>6 DEF ClientExpires, HandleTimeout, Fault
  <2>2. \A x \in Clients : Subscriptions(x)' = IF x \in {c} THEN {} ELSE Subscriptions(x)
    BY <1>0, <2>1, DestroyEffect
  <2>3. Service!Forget({c})
    BY <1>5, <2>1, <2>2 DEF heldOf, Service!Forget
  <2> QED  BY <2>3 DEF Service!NotificationsNext
<1>7. CASE BrokerStops
  <2>1. /\ ReactorEnds /\ UNCHANGED <<clientState, channels>>
        /\ forgotten' = forgotten \cup Clients
    BY <1>7 DEF BrokerStops, ServerStop, Fault
  <2>2. \A x \in Clients : Subscriptions(x)' = {}
    BY <2>1, ReactorEndsEffect
  <2>3. Service!Forget(Clients)
    BY <1>5, <2>1, <2>2 DEF heldOf, Service!Forget
  <2> QED  BY <2>3 DEF Service!NotificationsNext
<1>8. CASE BrokerStarts
  <2>1. UNCHANGED <<patterns, channels, clientState, faultState>>
    BY <1>8 DEF BrokerStarts, ServerStart
  <2> QED  BY <1>1, <1>5, <2>1 DEF faultState, Service!notificationVars
<1>9. CASE UNCHANGED vars
  BY <1>1, <1>5, <1>9 DEF vars, serverState, faultState, Service!notificationVars
<1> QED
  BY <1>2, <1>3, <1>4, <1>6, <1>7, <1>8, <1>9 DEF Next

(* The broker and its clients, whatever their applications call and         *)
(* whichever timeouts and restarts happen, are the service of               *)
(* Notifications: what an application is sent is what others published, in  *)
(* their order, as often as it has expressions in force that match, and it  *)
(* is refused only when a fault made the broker forget it.                  *)
THEOREM SystemImplementsNotifications == Spec => ImplementsNotifications
<1> QED  BY SystemInvAlways, SystemServiceInit, SystemServiceStep, PTL
         DEF Spec, ImplementsNotifications, Service!NotificationsSpec
=============================================================================
