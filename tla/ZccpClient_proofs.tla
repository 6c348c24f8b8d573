-------------------------- MODULE ZccpClient_proofs --------------------------
(***************************************************************************)
(* Proofs about the client facing an arbitrary server (ZccpClientPeer),    *)
(* for any sets of clients, expressions, addresses and contents, and any   *)
(* number of calls in any order.                                           *)
(***************************************************************************)
EXTENDS ZccpClientPeer, ZccpClientLemmas

(* No SUBSCRIBE is on its way to a client that was never sent one, and its  *)
(* statuses and askings are those of its call.                              *)
Prompts == {m \in Replies : m.id = "SUBSCRIBE"}

PeerInv ==
    /\ NetworkTypeOK /\ ClientTypeOK
    /\ \A c \in Clients \ prompted :
          /\ StatusBelongs(c) /\ AskingBelongs(c)
          /\ ~Has(toClient[c], Prompts)

(* What is not on its way is not next.                                      *)
LEMMA NextIsNoPrompt ==
    ASSUME NetworkTypeOK, NEW c \in Clients, ~Has(toClient[c], Prompts)
    PROVE  NotPrompted(c)
<1> SUFFICES ASSUME toClient[c] # <<>>  PROVE Head(toClient[c]).id # "SUBSCRIBE"
  BY DEF NotPrompted
<1>1. toClient[c] \in Seq(Replies)
  BY DEF NetworkTypeOK
<1>2. Head(toClient[c]) \in Replies /\ Head(toClient[c]) \notin Prompts
  BY <1>1, HasTail
<1> QED  BY <1>2 DEF Prompts

(* The actor takes messages off the stream from the server, or drops it.    *)
LEMMA ActorSendsNoPrompt ==
    ASSUME NetworkTypeOK, ClientTypeOK, NEW c \in Clients, StepOf(c),
           NEW x \in Clients, ~Has(toClient[x], Prompts)
    PROVE  ~Has(toClient'[x], Prompts)
<1>1. CASE TakeReply(c)
  <2>1. /\ toClient[c] \in Seq(Replies) /\ toClient[c] # <<>>
        /\ toClient'[c] = Tail(toClient[c])
        /\ x # c => toClient'[x] = toClient[x]
    BY <1>1, TakesReplyEffect
  <2> QED  BY <2>1, HasTail
<1>2. CASE toClient' = [toClient EXCEPT ![c] = <<>>]
  <2>1. toClient'[x] = toClient[x] \/ toClient'[x] = <<>>
    BY <1>2 DEF NetworkTypeOK
  <2> QED  BY <2>1, HasNothing
<1>3. CASE UNCHANGED toClient
  BY <1>3
<1>4. ActorPipe(c) => \/ UNCHANGED toClient
                      \/ toClient' = [toClient EXCEPT ![c] = <<>>]
  BY DEF ActorPipe, ActorConnect, ActorAborts, ActorSubscribe, ActorPublish, ActorIgnoresCommand,
         ActorTerminates, TakesCommand
<1>5. ActorProtocol(c) => TakeReply(c)
  BY DEF ActorProtocol, ActorHelloOk, ActorSubscribeOk, deliver_message_to_application,
         ActorSubscribesUnasked, ActorPublishesUnasked, ActorDirectsUnasked, ActorPing,
         ActorInvalid, ActorIgnoresReply, ActorHalts, TakesReply
<1>6. Application(c) => UNCHANGED toClient
  BY DEF Application, zccp_client_connect, zccp_client_subscribe, zccp_client_publish,
         zccp_client_recv, zccp_client_destroy, s_accept_reply, EnterCall, channels
<1> QED  BY <1>1, <1>2, <1>3, <1>4, <1>5, <1>6 DEF StepOf

(* A step of a client preserves the invariant.                              *)
LEMMA ClientKeeps ==
    ASSUME PeerInv, NEW c \in Clients, StepOf(c), UNCHANGED prompted
    PROVE  PeerInv'
<1>1. NetworkTypeOK /\ ClientTypeOK
  BY DEF PeerInv
<1>2. NetworkTypeOK' /\ ClientTypeOK'
  BY <1>1, StepTypes
<1>3. ASSUME NEW x \in Clients \ prompted
      PROVE  StatusBelongs(x)' /\ AskingBelongs(x)' /\ ~Has(toClient'[x], Prompts)
  <2>1. StatusBelongs(x) /\ AskingBelongs(x) /\ ~Has(toClient[x], Prompts)
    BY DEF PeerInv
  <2>2. NotPrompted(x)
    BY <1>1, <2>1, NextIsNoPrompt
  <2>3. StatusBelongs(x)' /\ AskingBelongs(x)'
    BY <1>1, <2>1, <2>2, StepBelongs
  <2>4. ~Has(toClient'[x], Prompts)
    BY <1>1, <2>1, ActorSendsNoPrompt
  <2> QED  BY <2>3, <2>4
<1> QED  BY <1>2, <1>3 DEF PeerInv, Prompts

(* The server only adds to or takes off the streams, and whom it sends a    *)
(* SUBSCRIBE is remembered.                                                 *)
LEMMA ServerKeeps ==
    ASSUME PeerInv, NEW c \in Clients, ServerSends(c) \/ ServerReceives(c)
    PROVE  PeerInv'
<1>1. /\ NetworkTypeOK /\ ClientTypeOK
      /\ \A x \in Clients \ prompted :
            StatusBelongs(x) /\ AskingBelongs(x) /\ ~Has(toClient[x], Prompts)
  BY DEF PeerInv
<1>2. UNCHANGED clientState
  BY DEF ServerSends, ServerReceives
<1>3. ClientTypeOK'
  BY <1>1, <1>2 DEF ClientTypeOK, clientState
<1>4. ASSUME NEW x \in Clients \ prompted  PROVE StatusBelongs(x)' /\ AskingBelongs(x)'
  BY <1>1, <1>2 DEF clientState, StatusBelongs, Successes, AskingBelongs
<1>5. ASSUME NEW m \in Replies, SendReply(c, m), UNCHANGED toServer,
             prompted' = IF m.id = "SUBSCRIBE" THEN prompted \cup {c} ELSE prompted
      PROVE  PeerInv'
  <2>1. /\ toClient \in [Clients -> Seq(Replies)] /\ toClient[c] \in Seq(Replies)
        /\ toClient' = [toClient EXCEPT ![c] = Append(toClient[c], m)]
    BY <1>1, <1>5 DEF NetworkTypeOK, SendReply
  <2>2. /\ Append(toClient[c], m) \in Seq(Replies)
        /\ Has(Append(toClient[c], m), Prompts) <=> Has(toClient[c], Prompts) \/ m \in Prompts
    BY <2>1, HasAppend
  <2>3. NetworkTypeOK'
    BY <1>1, <1>5, <2>1, <2>2 DEF NetworkTypeOK
  <2>4. ASSUME NEW x \in Clients \ prompted'
        PROVE  x \in Clients \ prompted /\ ~Has(toClient'[x], Prompts)
    <3>1. x \in Clients \ prompted /\ (x = c => m \notin Prompts)
      BY <1>5, <2>4 DEF Prompts
    <3> QED  BY <1>1, <2>1, <2>2, <3>1
  <2> QED  BY <1>3, <1>4, <2>3, <2>4 DEF PeerInv, Prompts
<1>6. CASE ServerReceives(c)
  <2>1. /\ toServer \in [Clients -> Seq(Requests)] /\ toServer[c] \in Seq(Requests)
        /\ toServer[c] # <<>> /\ toServer' = [toServer EXCEPT ![c] = Tail(toServer[c])]
        /\ UNCHANGED <<toClient, prompted>>
    BY <1>1, <1>6 DEF NetworkTypeOK, ServerReceives, TakeRequest
  <2>2. Tail(toServer[c]) \in Seq(Requests)
    BY <2>1, HasTail
  <2>3. NetworkTypeOK'
    BY <1>1, <2>1, <2>2 DEF NetworkTypeOK
  <2> QED  BY <1>1, <1>3, <1>4, <2>1, <2>3 DEF PeerInv, Prompts
<1> QED  BY <1>5, <1>6 DEF ServerSends

(* Every step of a client and of the server preserves the invariant.        *)
THEOREM PeerInvStep == PeerInv /\ [Next]_peerVars => PeerInv'
<1> SUFFICES ASSUME PeerInv, [Next]_peerVars  PROVE PeerInv'
  OBVIOUS
<1>1. CASE ClientNext /\ UNCHANGED prompted
  BY <1>1, ClientKeeps DEF ClientNext, StepOf
<1>2. CASE \E c \in Clients : ServerSends(c) \/ ServerReceives(c)
  BY <1>2, ServerKeeps
<1>3. CASE UNCHANGED peerVars
  <2>1. UNCHANGED <<clientState, toServer, toClient, prompted>>
    BY <1>3 DEF peerVars, clientVars, channels
  <2>2. NetworkTypeOK' /\ ClientTypeOK'
    BY <2>1 DEF PeerInv, NetworkTypeOK, ClientTypeOK, clientState
  <2>3. \A x \in Clients \ prompted :
           StatusBelongs(x)' /\ AskingBelongs(x)' /\ ~Has(toClient'[x], Prompts)
    BY <2>1 DEF PeerInv, clientState, StatusBelongs, Successes, AskingBelongs
  <2> QED  BY <2>1, <2>2, <2>3 DEF PeerInv, Prompts
<1> QED  BY <1>1, <1>2, <1>3 DEF Next

(* The invariant of the client holds throughout.                            *)
THEOREM PeerInvAlways == ClientSpec => []PeerInv
<1>1. Init => PeerInv
  <2> SUFFICES ASSUME Init  PROVE PeerInv
    OBVIOUS
  <2>1. ClientInv
    BY ClientInvInit DEF Init
  <2>2. \A c \in Clients : ~Has(toClient[c], Prompts)
    BY HasNothing DEF Init, NetworkInit
  <2> QED  BY <2>1, <2>2 DEF ClientInv, PeerInv
<1> QED  BY <1>1, PeerInvStep, PTL DEF ClientSpec

(* Whatever the server sends, SUBSCRIBE, PUBLISH and DIRECT among it, the   *)
(* pipe and the streams hold only commands, statuses, messages and requests *)
(* of the forms that zccp_client makes, and the machine is in one of its    *)
(* states.                                                                  *)
THEOREM ClientTypeCorrect == ClientSpec => []ClientTypeOK
<1>1. PeerInv => ClientTypeOK
  BY DEF PeerInv
<1> QED  BY <1>1, PeerInvAlways, PTL

(* The status that s_accept_reply takes for the answer to connect or        *)
(* subscribe is the answer to that call, never to an earlier one, whatever  *)
(* a server sends and in whatever order, as long as it has not sent this    *)
(* client a SUBSCRIBE.                                                      *)
THEOREM StatusIsOfCall == ClientSpec => []StatusBelongsToCall
<1>1. PeerInv => StatusBelongsToCall
  BY DEF PeerInv, StatusBelongsToCall
<1> QED  BY <1>1, PeerInvAlways, PTL
=============================================================================
