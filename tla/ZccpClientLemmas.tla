--------------------------- MODULE ZccpClientLemmas ---------------------------
(***************************************************************************)
(* What the actor and the application of a client (ZccpClient) do to its   *)
(* pipe and streams, whoever the server is: shared by the proofs about the *)
(* client alone and about the whole system.                                *)
(***************************************************************************)
EXTENDS ZccpClient, SequenceTheorems, TLAPS

(* Message streams are looked at through sets of messages: one of M is in   *)
(* s; at most one is.                                                       *)
Has(s, M) == \E i \in DOMAIN s : s[i] \in M
AtMostOne(s, M) == \A i, j \in DOMAIN s : s[i] \in M /\ s[j] \in M => i = j

(* The commands that are answered by a status.                              *)
Askings == {m \in Commands : m.method \in {"CONNECT", "SUBSCRIBE"}}

(* The inductive invariant of a client.  StatusBelongs needs it: a command  *)
(* that is still in the pipe of a live actor will bring a status, so it     *)
(* must be the only one, be that of the call, and find no status in the     *)
(* pipe and none about to come.                                             *)
AskingSound(m, r, k, s) ==
    s \notin {"terminated", "aborted"} /\ Has(m, Askings) =>
        /\ ~Has(r, {Success}) /\ s \notin {"connecting", "subscribing"}
        /\ AtMostOne(m, Askings)
        /\ \/ k = In("connect") /\ ~Has(m, Askings \ {Connect})
           \/ \E e \in Exprs : k = InSubscribe(e) /\ ~Has(m, Askings \ {SubscribeTo(e)})

AskingBelongs(c) == AskingSound(commands[c], replies[c], call[c], state[c])

(* The next message is not one that the actor would take for a SUBSCRIBE of *)
(* its application.                                                         *)
NotPrompted(c) == toClient[c] # <<>> => Head(toClient[c]).id # "SUBSCRIBE"

ClientInv ==
    /\ NetworkTypeOK /\ ClientTypeOK
    /\ \A c \in Clients : StatusBelongs(c) /\ AskingBelongs(c)

-----------------------------------------------------------------------------
(* What Append, Tail, SubSeq and \o do to what a stream has; an empty one   *)
(* has nothing.                                                             *)
LEMMA HasNothing == \A M : ~Has(<<>>, M) /\ AtMostOne(<<>>, M)
BY DEF Has, AtMostOne

(* What has nothing of M has at most one of M.                              *)
LEMMA HasNone ==
    ASSUME NEW s, NEW M, ~Has(s, M)
    PROVE  AtMostOne(s, M)
BY DEF Has, AtMostOne

(* What has nothing of M has nothing of a part of M.                        *)
LEMMA HasFewer ==
    ASSUME NEW s, NEW M, NEW N, N \subseteq M, ~Has(s, M)
    PROVE  ~Has(s, N)
BY DEF Has

(* A message appended is one more.                                          *)
LEMMA HasAppend ==
    ASSUME NEW S, NEW s \in Seq(S), NEW m \in S, NEW M
    PROVE  /\ Append(s, m) \in Seq(S)
           /\ Has(Append(s, m), M) <=> Has(s, M) \/ m \in M
           /\ AtMostOne(s, M) /\ (m \in M => ~Has(s, M)) => AtMostOne(Append(s, m), M)
<1>1. Len(s) \in Nat /\ DOMAIN s = 1..Len(s)
  BY LenProperties
<1>2. /\ Append(s, m) \in Seq(S) /\ DOMAIN Append(s, m) = 1..(Len(s) + 1)
      /\ \A i \in 1..Len(s) : Append(s, m)[i] = s[i]
      /\ Append(s, m)[Len(s) + 1] = m
  BY <1>1, AppendProperties, LenProperties
<1> DEFINE t == Append(s, m)
<1> HIDE DEF t
<1>3. /\ DOMAIN t = 1..(Len(s) + 1) /\ t[Len(s) + 1] = m
      /\ \A i \in 1..Len(s) : t[i] = s[i]
  BY <1>2 DEF t
<1>4. Has(t, M) <=> Has(s, M) \/ m \in M
  BY <1>1, <1>3 DEF Has
<1>5. AtMostOne(s, M) /\ (m \in M => ~Has(s, M)) => AtMostOne(t, M)
  BY <1>1, <1>3 DEF Has, AtMostOne
<1> QED  BY <1>2, <1>4, <1>5 DEF t

(* The head taken off is one less.                                          *)
LEMMA HasTail ==
    ASSUME NEW S, NEW s \in Seq(S), s # <<>>, NEW M
    PROVE  /\ Tail(s) \in Seq(S) /\ Head(s) \in S
           /\ Has(s, M) <=> Has(Tail(s), M) \/ Head(s) \in M
           /\ AtMostOne(s, M) => /\ AtMostOne(Tail(s), M)
                                 /\ Head(s) \in M => ~Has(Tail(s), M)
<1>1. /\ Tail(s) \in Seq(S) /\ Head(s) \in S /\ Head(s) = s[1]
      /\ Len(s) \in Nat /\ Len(s) # 0 /\ DOMAIN s = 1..Len(s)
      /\ DOMAIN Tail(s) = 1..(Len(s) - 1)
      /\ \A i \in 1..(Len(s) - 1) : Tail(s)[i] = s[i + 1]
  BY HeadTailProperties, LenProperties, EmptySeq
<1> DEFINE t == Tail(s)
<1> HIDE DEF t
<1>2. /\ DOMAIN t = 1..(Len(s) - 1)
      /\ \A i \in 1..(Len(s) - 1) : t[i] = s[i + 1]
  BY <1>1 DEF t
<1>3. ASSUME Has(s, M)  PROVE Has(t, M) \/ s[1] \in M
  <2>1. PICK i \in 1..Len(s) : s[i] \in M
    BY <1>1, <1>3 DEF Has
  <2>2. CASE i # 1
    <3>1. i - 1 \in 1..(Len(s) - 1) /\ t[i - 1] = s[i]
      BY <1>1, <1>2, <2>2
    <3> QED  BY <1>2, <2>1, <3>1 DEF Has
  <2> QED  BY <2>1, <2>2
<1>4. ASSUME Has(t, M) \/ s[1] \in M  PROVE Has(s, M)
  BY <1>1, <1>2, <1>4 DEF Has
<1>5. ASSUME AtMostOne(s, M)  PROVE AtMostOne(t, M) /\ (s[1] \in M => ~Has(t, M))
  <2>1. \A i \in 1..(Len(s) - 1) : i + 1 \in DOMAIN s /\ i + 1 # 1
    BY <1>1
  <2>2. 1 \in DOMAIN s
    BY <1>1
  <2>3. AtMostOne(t, M)
    <3> SUFFICES ASSUME NEW i \in DOMAIN t, NEW j \in DOMAIN t, t[i] \in M, t[j] \in M
                 PROVE  i = j
      BY DEF AtMostOne
    <3>1. i \in Int /\ j \in Int
      BY <1>1, <1>2
    <3>2. i + 1 \in DOMAIN s /\ j + 1 \in DOMAIN s /\ s[i + 1] = t[i] /\ s[j + 1] = t[j]
      BY <1>2, <2>1
    <3>3. i + 1 = j + 1
      BY <1>5, <3>2 DEF AtMostOne
    <3> QED  BY <3>1, <3>3
  <2>4. s[1] \in M => ~Has(t, M)
    BY <1>1, <1>2, <1>5, <2>1, <2>2 DEF AtMostOne, Has
  <2> QED  BY <2>3, <2>4
<1> QED  BY <1>1, <1>3, <1>4, <1>5 DEF t

(* A stream with nothing of M appended changes nothing about M.             *)
LEMMA HasConcat ==
    ASSUME NEW S, NEW s \in Seq(S), NEW d \in Seq(S), NEW M, ~Has(d, M)
    PROVE  /\ s \o d \in Seq(S)
           /\ Has(s \o d, M) <=> Has(s, M)
           /\ AtMostOne(s, M) => AtMostOne(s \o d, M)
<1>1. /\ Len(s) \in Nat /\ DOMAIN s = 1..Len(s)
      /\ Len(d) \in Nat /\ DOMAIN d = 1..Len(d)
  BY LenProperties
<1>2. /\ s \o d \in Seq(S) /\ DOMAIN (s \o d) = 1..(Len(s) + Len(d))
      /\ \A i \in 1..(Len(s) + Len(d)) :
            (s \o d)[i] = IF i <= Len(s) THEN s[i] ELSE d[i - Len(s)]
  BY <1>1, ConcatProperties, LenProperties
<1> DEFINE t == s \o d
<1> HIDE DEF t
<1>3. /\ \A i \in 1..Len(s) : i \in DOMAIN t /\ t[i] = s[i]
      /\ \A i \in DOMAIN t : i \notin 1..Len(s) => t[i] \notin M
  <2>1. ASSUME NEW i \in DOMAIN t, i \notin 1..Len(s)  PROVE t[i] \notin M
    <3>1. i - Len(s) \in 1..Len(d) /\ t[i] = d[i - Len(s)]
      BY <1>1, <1>2, <2>1 DEF t
    <3> QED  BY <1>1, <3>1 DEF Has
  <2> QED  BY <1>1, <1>2, <2>1 DEF t
<1>4. Has(t, M) <=> Has(s, M)
  BY <1>1, <1>3 DEF Has
<1>5. AtMostOne(s, M) => AtMostOne(t, M)
  BY <1>1, <1>3 DEF AtMostOne
<1> QED  BY <1>2, <1>4, <1>5 DEF t

(* ... and so does one of messages of a kind D that M does not have.        *)
LEMMA HasCopies ==
    ASSUME NEW S, NEW s \in Seq(S), NEW D \in SUBSET S, NEW d \in Seq(D), NEW M, D \cap M = {}
    PROVE  /\ s \o d \in Seq(S)
           /\ Has(s \o d, M) <=> Has(s, M)
           /\ AtMostOne(s, M) => AtMostOne(s \o d, M)
<1>1. \A i \in DOMAIN d : d[i] \in D
  BY ElementOfSeq, LenProperties
<1>2. d \in Seq(S)
  <2>1. Len(d) \in Nat /\ DOMAIN d = 1..Len(d) /\ d \in [1..Len(d) -> D]
    BY LenProperties
  <2>2. d \in [1..Len(d) -> S]
    BY <2>1
  <2> QED  BY <2>1, <2>2, SeqDef
<1>3. ~Has(d, M)
  BY <1>1 DEF Has
<1> QED  BY <1>2, <1>3, HasConcat

(* The start of a stream is of the same messages at the same places.        *)
LEMMA HasPrefix ==
    ASSUME NEW S, NEW s \in Seq(S), NEW n \in 0..Len(s)
    PROVE  /\ SubSeq(s, 1, n) \in Seq(S)
           /\ DOMAIN SubSeq(s, 1, n) \subseteq DOMAIN s
           /\ \A i \in DOMAIN SubSeq(s, 1, n) : SubSeq(s, 1, n)[i] = s[i]
<1>1. Len(s) \in Nat /\ DOMAIN s = 1..Len(s)
  BY LenProperties
<1>2. \A i \in 1..n : s[i] \in S
  BY <1>1, ElementOfSeq
<1>3. /\ SubSeq(s, 1, n) \in Seq(S) /\ Len(SubSeq(s, 1, n)) = n
      /\ \A i \in 1..n : SubSeq(s, 1, n)[i] = s[i]
  BY <1>1, <1>2, SubSeqProperties
<1>4. DOMAIN SubSeq(s, 1, n) = 1..n
  BY <1>3, LenProperties
<1> QED  BY <1>1, <1>3, <1>4

-----------------------------------------------------------------------------
(* Commands, by method.                                                     *)
LEMMA CommandShape ==
    ASSUME NEW m \in Commands
    PROVE  /\ m.method = "CONNECT" => m = Connect
           /\ m.method = "SUBSCRIBE" => m.expression \in Exprs /\ m = SubscribeTo(m.expression)
           /\ m.method = "PUBLISH" => m.address \in Addresses /\ m.content \in Contents
BY DEF Commands, Connect, Term, SubscribeTo

(* What the constructors make is well formed.                               *)
LEMMA CommandType ==
    /\ Connect \in Askings /\ Term \in Commands \ Askings
    /\ \A e \in Exprs : SubscribeTo(e) \in Askings
    /\ \A a \in Addresses, b \in Contents : PublishTo(a, b) \in Commands \ Askings
BY DEF Commands, Askings, Connect, Term, SubscribeTo, PublishTo

(* What the actor sends to the broker is well formed ...                    *)
LEMMA RequestType ==
    /\ Hello(NoIdentifier) \in Requests
    /\ Plain("PING_OK") \in Requests /\ Plain("DIRECT") \in Requests
    /\ \A e \in Exprs : Subscribe(e) \in Requests
    /\ \A a \in Addresses, b \in Contents : Publish(a, NoHeaders, b) \in Requests
BY NetworkAssumption DEF Requests, PlainRequests, Hello, Plain, Subscribe, Publish

(* ... and so is what it passes on to the application.                      *)
LEMMA ActorReplyType ==
    /\ Success \in ActorReplies
    /\ \A m \in Replies : m.id = "DELIVER" => Message(m) \in ActorReplies
<1>1. \A m \in Replies : m.id = "DELIVER" =>
         m.sender \in Identifiers /\ m.address \in Addresses /\ m.content \in Contents
  BY DEF Replies, PlainReplies
<1> QED  BY <1>1 DEF ActorReplies, Success, Message

-----------------------------------------------------------------------------
ActorState(c) == <<state[c], commands[c], replies[c], call[c], granted[c], toServer[c], toClient[c]>>

StepOf(c) == ActorPipe(c) \/ ActorProtocol(c) \/ Application(c)

(* Taking a command off the pipe.                                           *)
LEMMA TakesCommandEffect ==
    ASSUME ClientTypeOK, NEW c \in Clients, NEW k, TakesCommand(c, k)
    PROVE  /\ Alive(c) /\ commands[c] \in Seq(Commands) /\ commands[c] # <<>>
           /\ Command(c) = Head(commands[c]) /\ Command(c) \in Commands /\ Command(c).method = k
           /\ commands' \in [Clients -> Seq(Commands)] /\ commands'[c] = Tail(commands[c])
           /\ \A x \in Clients : x # c => commands'[x] = commands[x]
           /\ UNCHANGED <<replies, calls, granted, toClient>>
<1>1. /\ commands \in [Clients -> Seq(Commands)] /\ commands[c] # <<>>
      /\ commands' = [commands EXCEPT ![c] = Tail(commands[c])]
  BY DEF TakesCommand, ClientTypeOK
<1>2. Tail(commands[c]) \in Seq(Commands) /\ Head(commands[c]) \in Commands
  BY <1>1, HasTail
<1> QED  BY <1>1, <1>2 DEF TakesCommand, Command

(* Taking a message off the stream from the broker.                         *)
LEMMA TakesReplyEffect ==
    ASSUME NetworkTypeOK, NEW c \in Clients, TakeReply(c)
    PROVE  /\ toClient[c] \in Seq(Replies) /\ toClient[c] # <<>> /\ Head(toClient[c]) \in Replies
           /\ toClient' \in [Clients -> Seq(Replies)] /\ toClient'[c] = Tail(toClient[c])
           /\ \A x \in Clients : x # c => toClient'[x] = toClient[x]
<1>1. /\ toClient \in [Clients -> Seq(Replies)] /\ toClient[c] # <<>>
      /\ toClient' = [toClient EXCEPT ![c] = Tail(toClient[c])]
  BY DEF TakeReply, NetworkTypeOK
<1>2. Tail(toClient[c]) \in Seq(Replies) /\ Head(toClient[c]) \in Replies
  BY <1>1, HasTail
<1> QED  BY <1>1, <1>2

(* Sending a request.                                                       *)
LEMMA SendRequestEffect ==
    ASSUME NetworkTypeOK, NEW c \in Clients, NEW m \in Requests, SendRequest(c, m)
    PROVE  /\ toServer[c] \in Seq(Requests)
           /\ toServer' \in [Clients -> Seq(Requests)] /\ toServer'[c] = Append(toServer[c], m)
           /\ \A x \in Clients : x # c => toServer'[x] = toServer[x]
<1>1. /\ toServer \in [Clients -> Seq(Requests)]
      /\ toServer' = [toServer EXCEPT ![c] = Append(toServer[c], m)]
  BY DEF SendRequest, NetworkTypeOK
<1>2. Append(toServer[c], m) \in Seq(Requests)
  BY <1>1, HasAppend
<1> QED  BY <1>1, <1>2

(* Sending the application a status or a message.                           *)
LEMMA SignalEffect ==
    ASSUME ClientTypeOK, NEW c \in Clients, NEW r \in ActorReplies, Signal(c, r)
    PROVE  /\ replies[c] \in Seq(ActorReplies)
           /\ replies' \in [Clients -> Seq(ActorReplies)] /\ replies'[c] = Append(replies[c], r)
           /\ \A x \in Clients : x # c => replies'[x] = replies[x]
<1>1. /\ replies \in [Clients -> Seq(ActorReplies)]
      /\ replies' = [replies EXCEPT ![c] = Append(replies[c], r)]
  BY DEF Signal, ClientTypeOK
<1>2. Append(replies[c], r) \in Seq(ActorReplies)
  BY <1>1, HasAppend
<1> QED  BY <1>1, <1>2

(* Entering a state.                                                        *)
LEMMA EnterEffect ==
    ASSUME ClientTypeOK, NEW c \in Clients, NEW s \in States, Enter(c, s)
    PROVE  /\ state' \in [Clients -> States] /\ state'[c] = s
           /\ \A x \in Clients : x # c => state'[x] = state[x]
BY DEF Enter, ClientTypeOK

(* Entering a call.                                                         *)
LEMMA EnterCallEffect ==
    ASSUME ClientTypeOK, NEW c \in Clients, NEW m \in Seq(Commands), NEW k \in ApiCalls,
           EnterCall(c, m, k)
    PROVE  /\ call[c] = In("none") /\ commands[c] \in Seq(Commands)
           /\ commands' \in [Clients -> Seq(Commands)] /\ commands'[c] = commands[c] \o m
           /\ call' \in [Clients -> ApiCalls] /\ call'[c] = k
           /\ calls' \in [Clients -> 0..MaxCalls]
           /\ \A x \in Clients : x # c => commands'[x] = commands[x] /\ call'[x] = call[x]
           /\ UNCHANGED <<state, replies, granted, channels>>
<1>1. /\ commands \in [Clients -> Seq(Commands)]
      /\ commands' = [commands EXCEPT ![c] = commands[c] \o m]
      /\ call \in [Clients -> ApiCalls] /\ call' = [call EXCEPT ![c] = k]
      /\ calls \in [Clients -> 0..MaxCalls] /\ calls[c] < MaxCalls
      /\ calls' = [calls EXCEPT ![c] = calls[c] + 1]
  BY DEF EnterCall, ClientTypeOK
<1>2. commands[c] \o m \in Seq(Commands)
  BY <1>1, ConcatProperties
<1>3. calls[c] + 1 \in 0..MaxCalls
  BY <1>1, ClientAssumption
<1>4. calls' \in [Clients -> 0..MaxCalls]
  BY <1>1, <1>3
<1> QED  BY <1>1, <1>2, <1>4 DEF EnterCall

(* A step of a client keeps everything well formed, and touches only what   *)
(* is its own.                                                              *)
LEMMA StepTypes ==
    ASSUME NetworkTypeOK, ClientTypeOK, NEW c \in Clients, StepOf(c)
    PROVE  /\ NetworkTypeOK' /\ ClientTypeOK'
           /\ \A x \in Clients : x # c => UNCHANGED ActorState(x)
<1> DEFINE Good == /\ NetworkTypeOK' /\ ClientTypeOK'
                   /\ \A x \in Clients : x # c => UNCHANGED ActorState(x)
<1>0. /\ toServer \in [Clients -> Seq(Requests)] /\ toClient \in [Clients -> Seq(Replies)]
      /\ state \in [Clients -> States] /\ commands \in [Clients -> Seq(Commands)]
      /\ replies \in [Clients -> Seq(ActorReplies)] /\ call \in [Clients -> ApiCalls]
      /\ calls \in [Clients -> 0..MaxCalls] /\ granted \in [Clients -> SUBSET Exprs]
  BY DEF NetworkTypeOK, ClientTypeOK
<1>c. \A k \in {"none", "connect", "recv", "destroy", "destroyed"} : In(k) \in ApiCalls
  BY DEF In, ApiCalls
<1> USE DEF NetworkTypeOK, ClientTypeOK, ActorState
<1>1. CASE ActorConnect(c)
  BY <1>0, <1>1, TakesCommandEffect, SendRequestEffect, RequestType, EnterEffect
     DEF ActorConnect, States
<1>2. CASE ActorAborts(c)
  <2>1. PICK k : TakesCommand(c, k) /\ Enter(c, "aborted") /\ UNCHANGED toServer
                 /\ call' = [call EXCEPT ![c] = In("destroyed")]
    BY <1>2 DEF ActorAborts
  <2>2. /\ state' \in [Clients -> States]
        /\ \A x \in Clients : x # c => state'[x] = state[x]
    BY <1>0, <2>1, EnterEffect DEF States
  <2>3. /\ call' \in [Clients -> ApiCalls]
        /\ \A x \in Clients : x # c => call'[x] = call[x]
    BY <1>0, <1>c, <2>1
  <2> QED  BY <1>0, <2>1, <2>2, <2>3, TakesCommandEffect
<1>3. CASE ActorSubscribe(c)
  <2>1. TakesCommand(c, "SUBSCRIBE") /\ Enter(c, "subscribing") /\ UNCHANGED call
        /\ SendRequest(c, Subscribe(Command(c).expression))
    BY <1>3 DEF ActorSubscribe
  <2>2. Subscribe(Command(c).expression) \in Requests
    BY <2>1, TakesCommandEffect, CommandShape, RequestType
  <2>3. /\ state' \in [Clients -> States]
        /\ \A x \in Clients : x # c => state'[x] = state[x]
    BY <1>0, <2>1, EnterEffect DEF States
  <2>4. /\ toServer' \in [Clients -> Seq(Requests)]
        /\ \A x \in Clients : x # c => toServer'[x] = toServer[x]
    BY <1>0, <2>1, <2>2, SendRequestEffect
  <2> QED  BY <1>0, <2>1, <2>3, <2>4, TakesCommandEffect
<1>4. CASE ActorPublish(c)
  <2>1. TakesCommand(c, "PUBLISH") /\ UNCHANGED <<state, call>>
        /\ SendRequest(c, Publish(Command(c).address, NoHeaders, Command(c).content))
    BY <1>4 DEF ActorPublish
  <2>2. Publish(Command(c).address, NoHeaders, Command(c).content) \in Requests
    BY <2>1, TakesCommandEffect, CommandShape, RequestType
  <2> QED  BY <1>0, <2>1, <2>2, TakesCommandEffect, SendRequestEffect
<1>5. CASE ActorIgnoresCommand(c)
  <2>1. PICK k : TakesCommand(c, k) /\ UNCHANGED <<state, call, toServer>>
    BY <1>5 DEF ActorIgnoresCommand
  <2> QED  BY <1>0, <2>1, TakesCommandEffect
<1>6. CASE ActorTerminates(c)
  <2>1. commands[c] # <<>> /\ Enter(c, "terminated")
        /\ commands' = [commands EXCEPT ![c] = Tail(commands[c])]
        /\ toClient' = [toClient EXCEPT ![c] = <<>>]
        /\ UNCHANGED <<replies, call, calls, granted>>
    BY <1>6 DEF ActorTerminates
  <2>2. PICK n \in 0..Len(toServer[c]) :
           toServer' = [toServer EXCEPT ![c] = SubSeq(toServer[c], 1, n)]
    BY <1>6 DEF ActorTerminates
  <2>3. SubSeq(toServer[c], 1, n) \in Seq(Requests)
    BY <1>0, HasPrefix
  <2>4. Tail(commands[c]) \in Seq(Commands)
    BY <1>0, <2>1, HasTail
  <2>5. <<>> \in Seq(Replies)
    BY EmptySeq
  <2> QED  BY <1>0, <2>1, <2>2, <2>3, <2>4, <2>5, EnterEffect DEF States
<1>7. CASE ActorHelloOk(c)
  <2>1. /\ TakeReply(c) /\ Enter(c, "connected")
        /\ UNCHANGED <<commands, call, calls, granted, toServer>>
        /\ Signal(c, Success) \/ UNCHANGED replies
    BY <1>7 DEF ActorHelloOk, TakesReply
  <2>2. /\ replies' \in [Clients -> Seq(ActorReplies)]
        /\ \A x \in Clients : x # c => replies'[x] = replies[x]
    BY <1>0, <2>1, SignalEffect, ActorReplyType
  <2>3. /\ toClient' \in [Clients -> Seq(Replies)]
        /\ \A x \in Clients : x # c => toClient'[x] = toClient[x]
    BY <1>0, <2>1, TakesReplyEffect
  <2>4. /\ state' \in [Clients -> States]
        /\ \A x \in Clients : x # c => state'[x] = state[x]
    BY <1>0, <2>1, EnterEffect DEF States
  <2> QED  BY <1>0, <2>1, <2>2, <2>3, <2>4
<1>8. CASE ActorSubscribeOk(c)
  <2>1. /\ TakeReply(c) /\ Enter(c, "connected") /\ Signal(c, Success)
        /\ UNCHANGED <<commands, call, calls, granted, toServer>>
    BY <1>8 DEF ActorSubscribeOk, TakesReply
  <2>2. /\ replies' \in [Clients -> Seq(ActorReplies)]
        /\ \A x \in Clients : x # c => replies'[x] = replies[x]
    BY <1>0, <2>1, SignalEffect, ActorReplyType
  <2>3. /\ toClient' \in [Clients -> Seq(Replies)]
        /\ \A x \in Clients : x # c => toClient'[x] = toClient[x]
    BY <1>0, <2>1, TakesReplyEffect
  <2>4. /\ state' \in [Clients -> States]
        /\ \A x \in Clients : x # c => state'[x] = state[x]
    BY <1>0, <2>1, EnterEffect DEF States
  <2> QED  BY <1>0, <2>1, <2>2, <2>3, <2>4
<1>9. CASE deliver_message_to_application(c)
  <2>1. TakeReply(c) /\ Head(toClient[c]).id = "DELIVER" /\ Signal(c, Message(Head(toClient[c])))
        /\ UNCHANGED <<state, commands, call, calls, granted, toServer>>
    BY <1>9 DEF deliver_message_to_application, TakesReply
  <2>2. Message(Head(toClient[c])) \in ActorReplies
    BY <2>1, TakesReplyEffect, ActorReplyType
  <2> QED  BY <1>0, <2>1, <2>2, TakesReplyEffect, SignalEffect
<1>10. CASE ActorPing(c)
  BY <1>0, <1>10, TakesReplyEffect, SendRequestEffect, RequestType DEF ActorPing, TakesReply
<1>11. CASE ActorInvalid(c)
  BY <1>0, <1>11, TakesReplyEffect, SendRequestEffect, RequestType, EnterEffect
     DEF ActorInvalid, TakesReply, States
<1>12. CASE ActorIgnoresReply(c)
  BY <1>0, <1>12, TakesReplyEffect DEF ActorIgnoresReply, clientState
<1>13. CASE ActorHalts(c)
  BY <1>0, <1>13, TakesReplyEffect, EnterEffect DEF ActorHalts, TakesReply, States
<1>14. ASSUME NEW m \in Seq(Commands), NEW k \in ApiCalls, EnterCall(c, m, k)  PROVE Good
  BY <1>0, <1>14, EnterCallEffect DEF channels
<1>15. CASE zccp_client_connect(c)
  <2>1. <<Connect>> \in Seq(Commands)
    BY CommandType DEF Askings
  <2> QED  BY <1>c, <1>14, <1>15, <2>1 DEF zccp_client_connect
<1>16. ASSUME NEW e \in Exprs, zccp_client_subscribe(c, e)  PROVE Good
  <2>1. <<SubscribeTo(e)>> \in Seq(Commands) /\ InSubscribe(e) \in ApiCalls
    BY CommandType DEF Askings, InSubscribe, ApiCalls
  <2> QED  BY <1>14, <1>16, <2>1 DEF zccp_client_subscribe
<1>17. ASSUME NEW a \in Addresses, NEW b \in Contents, zccp_client_publish(c, a, b)  PROVE Good
  <2>1. <<PublishTo(a, b)>> \in Seq(Commands)
    BY CommandType
  <2> QED  BY <1>c, <1>14, <1>17, <2>1 DEF zccp_client_publish
<1>18. CASE zccp_client_recv(c)
  <2>1. <<>> \in Seq(Commands)
    BY EmptySeq
  <2> QED  BY <1>c, <1>14, <1>18, <2>1 DEF zccp_client_recv
<1>19. CASE zccp_client_destroy(c)
  <2>1. Append(commands[c], Term) \in Seq(Commands)
    BY <1>0, CommandType, HasAppend
  <2>2. <<>> \in Seq(Commands) /\ <<>> \in Seq(ActorReplies)
    BY EmptySeq
  <2>3. UNCHANGED <<state, calls, granted, toServer, toClient>>
    BY <1>19 DEF zccp_client_destroy, channels
  <2>4. /\ call' \in [Clients -> ApiCalls]
        /\ \A x \in Clients : x # c => call'[x] = call[x]
    BY <1>0, <1>c, <1>19 DEF zccp_client_destroy
  <2>5. /\ commands' \in [Clients -> Seq(Commands)]
        /\ \A x \in Clients : x # c => commands'[x] = commands[x]
    BY <1>0, <1>19, <2>1, <2>2 DEF zccp_client_destroy
  <2>6. /\ replies' \in [Clients -> Seq(ActorReplies)]
        /\ \A x \in Clients : x # c => replies'[x] = replies[x]
    BY <1>0, <1>19, <2>2 DEF zccp_client_destroy
  <2> QED  BY <1>0, <2>3, <2>4, <2>5, <2>6
<1>20. CASE s_accept_reply(c)
  <2>1. replies[c] # <<>> /\ replies' = [replies EXCEPT ![c] = Tail(replies[c])]
        /\ UNCHANGED <<state, commands, calls, channels>>
    BY <1>20 DEF s_accept_reply
  <2>2. Tail(replies[c]) \in Seq(ActorReplies)
    BY <1>0, <2>1, HasTail
  <2>3. \/ UNCHANGED <<call, granted>>
        \/ /\ call' = [call EXCEPT ![c] = In("none")]
           /\ granted' = [granted EXCEPT ![c] =
                 IF call[c].name = "subscribe" THEN granted[c] \cup {call[c].expression}
                                               ELSE granted[c]]
    BY <1>20 DEF s_accept_reply
  <2>4. call[c].name = "subscribe" => call[c].expression \in Exprs
    BY <1>0 DEF ApiCalls
  <2>5. /\ call' \in [Clients -> ApiCalls]
        /\ \A x \in Clients : x # c => call'[x] = call[x]
    BY <1>0, <1>c, <2>3
  <2>6. /\ granted' \in [Clients -> SUBSET Exprs]
        /\ \A x \in Clients : x # c => granted'[x] = granted[x]
    <3>1. CASE UNCHANGED granted
      BY <1>0, <3>1
    <3>2. CASE granted' = [granted EXCEPT ![c] =
                 IF call[c].name = "subscribe" THEN granted[c] \cup {call[c].expression}
                                               ELSE granted[c]]
      <4>1. (IF call[c].name = "subscribe" THEN granted[c] \cup {call[c].expression}
                                           ELSE granted[c]) \in SUBSET Exprs
        BY <1>0, <2>4
      <4> QED  BY <1>0, <3>2, <4>1
    <3> QED  BY <2>3, <3>1, <3>2
  <2> QED  BY <1>0, <2>1, <2>2, <2>5, <2>6 DEF channels
<1>21. CASE ActorSubscribesUnasked(c)
  <2>1. PICK e \in Exprs : SendRequest(c, Subscribe(e))
    BY <1>21 DEF ActorSubscribesUnasked
  <2> QED  BY <1>0, <1>21, <2>1, TakesReplyEffect, SendRequestEffect, RequestType, EnterEffect
              DEF ActorSubscribesUnasked, TakesReply, States
<1>22. CASE ActorPublishesUnasked(c)
  <2>1. PICK a \in Addresses, b \in Contents : SendRequest(c, Publish(a, NoHeaders, b))
    BY <1>22 DEF ActorPublishesUnasked
  <2> QED  BY <1>0, <1>22, <2>1, TakesReplyEffect, SendRequestEffect, RequestType
              DEF ActorPublishesUnasked, TakesReply
<1>23. CASE ActorDirectsUnasked(c)
  BY <1>0, <1>23, TakesReplyEffect, SendRequestEffect, RequestType
     DEF ActorDirectsUnasked, TakesReply
<1> QED
  BY <1>1, <1>2, <1>3, <1>4, <1>5, <1>6, <1>7, <1>8, <1>9, <1>10, <1>11, <1>12, <1>13, <1>15,
     <1>16, <1>17, <1>18, <1>19, <1>20, <1>21, <1>22, <1>23
     DEF StepOf, ActorPipe, ActorProtocol, Application

-----------------------------------------------------------------------------
(* The statuses in a pipe, as messages of a stream.                         *)
LEMMA StatusForm ==
    ASSUME NEW r \in Seq(ActorReplies), NEW N, N = {i \in DOMAIN r : r[i].kind = "SUCCESS"}
    PROVE  /\ N # {} <=> Has(r, {Success})
           /\ (\A i, j \in N : i = j) <=> AtMostOne(r, {Success})
<1>1. \A i \in DOMAIN r : r[i] \in ActorReplies
  BY ElementOfSeq, LenProperties
<1>2. \A m \in ActorReplies : m.kind = "SUCCESS" <=> m \in {Success}
  BY DEF ActorReplies, Success
<1>3. \A i : i \in N <=> i \in DOMAIN r /\ r[i] \in {Success}
  BY <1>1, <1>2
<1> QED  BY <1>3 DEF Has, AtMostOne

(* StatusBelongs, so put.                                                   *)
StatusSound(r, k, s) ==
    /\ Has(r, {Success}) => /\ k.name \in {"connect", "subscribe"}
                            /\ AtMostOne(r, {Success})
                            /\ s \notin {"start", "connecting", "subscribing"}
    /\ s = "connecting" => k.name = "connect"
    /\ s = "subscribing" => k.name = "subscribe"

(* The property that a run checks says of the client's variables what       *)
(* StatusSound says of its values.                                          *)
LEMMA StatusFormNow ==
    ASSUME ClientTypeOK, NEW c \in Clients
    PROVE  StatusBelongs(c) <=> StatusSound(replies[c], call[c], state[c])
<1>1. replies[c] \in Seq(ActorReplies)
  BY DEF ClientTypeOK
<1>2. /\ Successes(c) # {} <=> Has(replies[c], {Success})
      /\ (\A i, j \in Successes(c) : i = j) <=> AtMostOne(replies[c], {Success})
  BY <1>1, StatusForm DEF Successes
<1> QED  BY <1>2 DEF StatusBelongs, StatusSound

(* A step in which the actor or the application takes a command that asks  *)
(* nothing, or adds one, leaves what AskingSound says.                      *)
LEMMA AskingFewer ==
    ASSUME NEW m, NEW n, NEW r, NEW k, NEW s, AskingSound(m, r, k, s),
           \A M \in SUBSET Askings : /\ Has(n, M) => Has(m, M)
                                     /\ AtMostOne(m, M) => AtMostOne(n, M)
    PROVE  AskingSound(n, r, k, s)
<1>1. \A x : Askings \ {x} \in SUBSET Askings
  OBVIOUS
<1>2. Askings \in SUBSET Askings
  OBVIOUS
<1> QED  BY <1>1, <1>2 DEF AskingSound

(* A step of a client keeps the statuses and askings of its call sound,     *)
(* unless it is to take the server's SUBSCRIBE for one of its application.  *)
LEMMA StepStatus ==
    ASSUME NetworkTypeOK, ClientTypeOK, NEW c \in Clients, StepOf(c), NotPrompted(c),
           StatusSound(replies[c], call[c], state[c]), AskingBelongs(c)
    PROVE  StatusSound(replies'[c], call'[c], state'[c]) /\ AskingBelongs(c)'
<1> DEFINE Sound(m, r, k, s) == StatusSound(r, k, s) /\ AskingSound(m, r, k, s)
<1> DEFINE Good == Sound(commands'[c], replies'[c], call'[c], state'[c])
<1>0. /\ state \in [Clients -> States] /\ commands \in [Clients -> Seq(Commands)]
      /\ replies \in [Clients -> Seq(ActorReplies)] /\ call \in [Clients -> ApiCalls]
      /\ commands[c] \in Seq(Commands) /\ replies[c] \in Seq(ActorReplies)
      /\ Sound(commands[c], replies[c], call[c], state[c])
  BY DEF ClientTypeOK, AskingBelongs
<1>a. ASSUME NEW m \in Seq(Commands), m # <<>>, NEW r, NEW k, NEW s, AskingSound(m, r, k, s)
      PROVE  AskingSound(Tail(m), r, k, s)
  BY <1>a, HasTail, AskingFewer
<1>b. ASSUME commands[c] # <<>>, Head(commands[c]) \in Askings, Alive(c)
      PROVE  ~Has(Tail(commands[c]), Askings) /\ ~Has(replies[c], {Success})
  <2>1. /\ Has(commands[c], Askings)
        /\ AtMostOne(commands[c], Askings) => ~Has(Tail(commands[c]), Askings)
    BY <1>0, <1>b, HasTail
  <2> QED  BY <1>0, <1>b, <2>1 DEF AskingSound, Alive
<1>1. CASE ActorConnect(c)
  <2>1. /\ Alive(c) /\ commands[c] # <<>> /\ Head(commands[c]) = Connect
        /\ commands'[c] = Tail(commands[c]) /\ UNCHANGED <<replies, call>>
        /\ state'[c] = "connecting"
    BY <1>0, <1>1, TakesCommandEffect, CommandShape, EnterEffect DEF ActorConnect, States
  <2>2. ~Has(Tail(commands[c]), Askings) /\ ~Has(replies[c], {Success})
    BY <1>b, <2>1, CommandType
  <2>3. call[c] = In("connect")
    <3>1. /\ Has(commands[c], Askings)
          /\ \A e \in Exprs : Has(commands[c], Askings \ {SubscribeTo(e)})
      <4>1. \A e \in Exprs : Connect \in Askings \ {SubscribeTo(e)}
        BY CommandType DEF Connect, SubscribeTo
      <4> QED  BY <1>0, <2>1, <4>1, HasTail, CommandType
    <3> QED  BY <1>0, <2>1, <3>1 DEF AskingSound, Alive
  <2> QED  BY <2>1, <2>2, <2>3 DEF StatusSound, AskingSound, AskingBelongs, In
<1>2. CASE ActorAborts(c)
  <2>1. state[c] = "start" /\ state'[c] = "aborted" /\ UNCHANGED replies
    BY <1>0, <1>2, EnterEffect DEF ActorAborts, States, TakesCommand
  <2> QED  BY <1>0, <2>1 DEF StatusSound, AskingSound, AskingBelongs
<1>3. CASE ActorSubscribe(c)
  <2>1. /\ Alive(c) /\ commands[c] # <<>> /\ Command(c) = Head(commands[c])
        /\ Command(c) = SubscribeTo(Command(c).expression) /\ Command(c).expression \in Exprs
        /\ commands'[c] = Tail(commands[c]) /\ UNCHANGED <<replies, call>>
        /\ state'[c] = "subscribing"
    BY <1>0, <1>3, TakesCommandEffect, CommandShape, EnterEffect DEF ActorSubscribe, States
  <2>2. ~Has(Tail(commands[c]), Askings) /\ ~Has(replies[c], {Success})
    BY <1>b, <2>1, CommandType
  <2>3. call[c].name = "subscribe"
    <3>1. Has(commands[c], Askings) /\ Has(commands[c], Askings \ {Connect})
      <4>1. Command(c) \in Askings \ {Connect}
        BY <2>1, CommandType DEF Connect, SubscribeTo
      <4> QED  BY <1>0, <2>1, <4>1, HasTail
    <3>2. PICK e \in Exprs : call[c] = InSubscribe(e)
      BY <1>0, <2>1, <3>1 DEF AskingSound, Alive
    <3> QED  BY <3>2 DEF InSubscribe
  <2> QED  BY <2>1, <2>2, <2>3 DEF StatusSound, AskingSound, AskingBelongs
<1>4. CASE ActorPublish(c) \/ ActorIgnoresCommand(c)
  <2>1. /\ commands[c] # <<>> /\ commands'[c] = Tail(commands[c])
        /\ UNCHANGED <<replies, call, state>>
    BY <1>4, TakesCommandEffect DEF ActorPublish, ActorIgnoresCommand
  <2>2. AskingSound(commands'[c], replies[c], call[c], state[c])
    BY <1>0, <1>a, <2>1
  <2> QED  BY <1>0, <2>1, <2>2 DEF AskingBelongs
<1>5. CASE ActorTerminates(c) \/ ActorHalts(c)
  <2>1. state'[c] = "terminated" /\ UNCHANGED <<replies, call>>
    BY <1>0, <1>5, EnterEffect DEF ActorTerminates, ActorHalts, TakesReply, States
  <2> QED  BY <1>0, <2>1 DEF StatusSound, AskingSound, AskingBelongs
<1>6. ASSUME UNCHANGED <<commands, call>>, state[c] \in {"connecting", "subscribing"},
             Signal(c, Success), Enter(c, "connected"), Alive(c)
      PROVE  Good
  <2>1. state'[c] = "connected" /\ replies'[c] = Append(replies[c], Success)
    BY <1>6, SignalEffect, ActorReplyType, EnterEffect DEF States
  <2>2. ~Has(replies[c], {Success}) /\ call[c].name \in {"connect", "subscribe"}
        /\ ~Has(commands[c], Askings)
    BY <1>0, <1>6 DEF StatusSound, AskingSound, Alive
  <2>3. AtMostOne(replies'[c], {Success})
    BY <1>0, <2>1, <2>2, HasAppend, HasNone, ActorReplyType
  <2> QED  BY <1>6, <2>1, <2>2, <2>3 DEF StatusSound, AskingSound
<1>7. CASE ActorHelloOk(c)
  <2>1. CASE state[c] = "connecting"
    BY <1>6, <1>7, <2>1 DEF ActorHelloOk, TakesReply, AskingBelongs
  <2>2. CASE state[c] = "reconnecting"
    <3>1. state'[c] = "connected" /\ UNCHANGED <<replies, commands, call>>
      BY <1>7, <2>2, EnterEffect DEF ActorHelloOk, TakesReply, States
    <3> QED  BY <1>0, <2>2, <3>1 DEF StatusSound, AskingSound, AskingBelongs
  <2> QED  BY <1>7, <2>1, <2>2 DEF ActorHelloOk
<1>8. CASE ActorSubscribeOk(c)
  BY <1>6, <1>8 DEF ActorSubscribeOk, TakesReply, AskingBelongs
<1>9. CASE deliver_message_to_application(c)
  <2>1. /\ TakeReply(c) /\ Head(toClient[c]).id = "DELIVER" /\ Signal(c, Message(Head(toClient[c])))
        /\ UNCHANGED <<state, commands, call>>
    BY <1>9 DEF deliver_message_to_application, TakesReply
  <2> DEFINE m == Message(Head(toClient[c]))
  <2>2. m \in ActorReplies /\ m \notin {Success}
    BY <2>1, TakesReplyEffect, ActorReplyType DEF Message, Success
  <2> HIDE DEF m
  <2>3. /\ replies'[c] = Append(replies[c], m)
        /\ Has(replies'[c], {Success}) <=> Has(replies[c], {Success})
        /\ AtMostOne(replies[c], {Success}) => AtMostOne(replies'[c], {Success})
    <3>1. replies'[c] = Append(replies[c], m)
      BY <2>1, <2>2, SignalEffect DEF m
    <3> QED  BY <1>0, <2>2, <3>1, HasAppend
  <2> QED  BY <1>0, <2>1, <2>3 DEF StatusSound, AskingSound, AskingBelongs
<1>10. CASE ActorPing(c) \/ ActorPublishesUnasked(c) \/ ActorDirectsUnasked(c)
            \/ ActorIgnoresReply(c)
  BY <1>0, <1>10 DEF ActorPing, ActorPublishesUnasked, ActorDirectsUnasked, ActorIgnoresReply,
                     TakesReply, clientState, AskingBelongs
<1>11. CASE ActorInvalid(c)
  <2>1. /\ state'[c] = "reconnecting" /\ state[c] # "start" /\ Alive(c)
        /\ UNCHANGED <<replies, commands, call>>
    BY <1>11, EnterEffect DEF ActorInvalid, TakesReply, States
  <2> QED  BY <1>0, <2>1 DEF StatusSound, AskingSound, AskingBelongs, Alive
<1>12. ASSUME NEW m \in Seq(Commands), NEW k \in ApiCalls, EnterCall(c, m, k)
       PROVE  /\ commands'[c] = commands[c] \o m /\ call'[c] = k
              /\ UNCHANGED <<state, replies>> /\ call[c] = In("none")
              /\ ~Has(replies[c], {Success}) /\ state[c] \notin {"connecting", "subscribing"}
              /\ Alive(c) => ~Has(commands[c], Askings)
  <2>1. /\ commands'[c] = commands[c] \o m /\ call'[c] = k
        /\ UNCHANGED <<state, replies>> /\ call[c] = In("none")
    BY <1>12, EnterCallEffect
  <2>2. call[c].name = "none" /\ call[c] # In("connect") /\ \A e : call[c] # InSubscribe(e)
    BY <2>1 DEF In, InSubscribe
  <2> QED  BY <1>0, <2>1, <2>2 DEF StatusSound, AskingSound, Alive
<1>13. ASSUME NEW m \in Askings, NEW k \in ApiCalls, EnterCall(c, <<m>>, k),
              \/ m = Connect /\ k = In("connect")
              \/ \E e \in Exprs : m = SubscribeTo(e) /\ k = InSubscribe(e)
       PROVE  Good
  <2>1. m \in Commands /\ <<m>> \in Seq(Commands)
    BY DEF Askings
  <2>2. commands'[c] = Append(commands[c], m)
    <3>1. commands'[c] = commands[c] \o <<m>>
      BY <1>12, <1>13, <2>1
    <3> QED  BY <1>0, <2>1, <3>1, AppendIsConcat
  <2>3. /\ call'[c] = k /\ UNCHANGED <<state, replies>>
        /\ ~Has(replies[c], {Success}) /\ state[c] \notin {"connecting", "subscribing"}
        /\ Alive(c) => ~Has(commands[c], Askings)
    BY <1>12, <1>13, <2>1
  <2>4. /\ ~Has(commands[c], Askings) => AtMostOne(commands'[c], Askings)
        /\ Has(commands'[c], Askings \ {m}) => Has(commands[c], Askings \ {m})
    BY <1>0, <2>1, <2>2, HasAppend, HasNone
  <2>5. Has(commands[c], Askings \ {m}) => Has(commands[c], Askings)
    BY HasFewer
  <2> QED  BY <1>13, <2>3, <2>4, <2>5 DEF StatusSound, AskingSound, Alive
<1>14. CASE zccp_client_connect(c)
  <2>1. In("connect") \in ApiCalls
    BY DEF In, ApiCalls
  <2> QED  BY <1>13, <1>14, <2>1, CommandType DEF zccp_client_connect, AskingBelongs
<1>15. ASSUME NEW e \in Exprs, zccp_client_subscribe(c, e)  PROVE Good
  <2>1. InSubscribe(e) \in ApiCalls
    BY DEF InSubscribe, ApiCalls
  <2> QED  BY <1>13, <1>15, <2>1, CommandType DEF zccp_client_subscribe
<1>16. ASSUME NEW m \in Seq(Commands), NEW k \in {In("none"), In("recv")}, EnterCall(c, m, k),
              ~Has(m, Askings)
       PROVE  Good
  <2>1. k \in ApiCalls
    BY DEF In, ApiCalls
  <2>2. Has(commands'[c], Askings) => Has(commands[c], Askings)
    <3>1. commands'[c] = commands[c] \o m
      BY <1>12, <1>16, <2>1
    <3> QED  BY <1>0, <1>16, <3>1, HasConcat
  <2> QED  BY <1>12, <1>16, <2>1, <2>2 DEF StatusSound, AskingSound, Alive
<1>17. ASSUME NEW a \in Addresses, NEW b \in Contents, zccp_client_publish(c, a, b)  PROVE Good
  <2>1. <<PublishTo(a, b)>> \in Seq(Commands) /\ ~Has(<<PublishTo(a, b)>>, Askings)
    BY CommandType DEF Has
  <2> QED  BY <1>16, <1>17, <2>1 DEF zccp_client_publish
<1>18. CASE zccp_client_recv(c)
  <2>1. <<>> \in Seq(Commands)
    BY EmptySeq
  <2> QED  BY <1>16, <1>18, <2>1, HasNothing DEF zccp_client_recv, AskingBelongs
<1>19. CASE zccp_client_destroy(c)
  <2>1. CASE call[c] = In("none") /\ commands' = [commands EXCEPT ![c] = Append(commands[c], Term)]
             /\ call' = [call EXCEPT ![c] = In("destroy")] /\ UNCHANGED <<state, replies>>
    <3>1. call[c].name = "none" /\ call[c] # In("connect") /\ \A e : call[c] # InSubscribe(e)
      BY <2>1 DEF In, InSubscribe
    <3>2. Has(commands'[c], Askings) => Has(commands[c], Askings)
      BY <1>0, <2>1, HasAppend, CommandType
    <3> QED  BY <1>0, <2>1, <3>1, <3>2 DEF StatusSound, AskingSound, AskingBelongs
  <2>2. CASE ~Alive(c) /\ replies' = [replies EXCEPT ![c] = <<>>] /\ UNCHANGED state
    <3>1. replies'[c] = <<>>
      BY <1>0, <2>2
    <3> QED  BY <2>2, <3>1, HasNothing DEF StatusSound, AskingSound, AskingBelongs, Alive
  <2> QED  BY <1>19, <2>1, <2>2 DEF zccp_client_destroy
<1>20. CASE s_accept_reply(c)
  <2>1. /\ call[c].name \in {"connect", "subscribe", "recv"} /\ replies[c] # <<>>
        /\ replies'[c] = Tail(replies[c]) /\ UNCHANGED <<state, commands>>
    BY <1>0, <1>20 DEF s_accept_reply
  <2>2. /\ Head(replies[c]) \in ActorReplies
        /\ Has(replies[c], {Success}) <=> Has(replies'[c], {Success}) \/ Head(replies[c]) = Success
        /\ AtMostOne(replies[c], {Success}) =>
              /\ AtMostOne(replies'[c], {Success})
              /\ Head(replies[c]) = Success => ~Has(replies'[c], {Success})
    BY <1>0, <2>1, HasTail
  <2>3. CASE UNCHANGED call
    BY <1>0, <2>1, <2>2, <2>3 DEF StatusSound, AskingSound, AskingBelongs
  <2>4. CASE /\ Head(replies[c]).kind \in Filters(call[c].name)
             /\ call' = [call EXCEPT ![c] = In("none")]
    <3>1. \/ Head(replies[c]) = Success /\ call[c].name \in {"connect", "subscribe"}
          \/ call[c].name = "recv"
      BY <2>1, <2>2, <2>4 DEF Filters, ActorReplies, Success
    <3>2. /\ ~Has(replies'[c], {Success}) /\ state[c] \notin {"connecting", "subscribing"}
          /\ Alive(c) => ~Has(commands[c], Askings)
      <4>1. CASE Head(replies[c]) = Success
        BY <1>0, <2>1, <2>2, <4>1 DEF StatusSound, AskingSound, Alive
      <4>2. CASE call[c].name = "recv"
        <5>1. call[c] # In("connect") /\ \A e : call[c] # InSubscribe(e)
          BY <4>2 DEF In, InSubscribe
        <5> QED  BY <1>0, <2>2, <4>2, <5>1 DEF StatusSound, AskingSound, Alive
      <4> QED  BY <3>1, <4>1, <4>2
    <3> QED  BY <1>0, <2>1, <2>4, <3>2 DEF StatusSound, AskingSound, AskingBelongs, Alive
  <2> QED  BY <1>20, <2>3, <2>4 DEF s_accept_reply
<1>21. ~ActorSubscribesUnasked(c)
  BY DEF ActorSubscribesUnasked, TakesReply, TakeReply, NotPrompted
<1> QED
  BY <1>1, <1>2, <1>3, <1>4, <1>5, <1>7, <1>8, <1>9, <1>10, <1>11, <1>14, <1>15, <1>17, <1>18,
     <1>19, <1>20, <1>21 DEF StepOf, ActorPipe, ActorProtocol, Application, AskingBelongs

(* A step of a client c keeps the status and asking of every client x that  *)
(* is not prompted.                                                         *)
LEMMA StepBelongs ==
    ASSUME NetworkTypeOK, ClientTypeOK, NEW c \in Clients, StepOf(c),
           NEW x \in Clients, NotPrompted(x), StatusBelongs(x), AskingBelongs(x)
    PROVE  StatusBelongs(x)' /\ AskingBelongs(x)'
<1>1. /\ NetworkTypeOK' /\ ClientTypeOK'
      /\ x # c => UNCHANGED ActorState(x)
  BY StepTypes
<1>2. CASE x # c
  BY <1>1, <1>2 DEF ActorState, StatusBelongs, Successes, AskingBelongs
<1>3. CASE x = c
  <2>1. StatusSound(replies[x], call[x], state[x])
    BY StatusFormNow
  <2>2. StatusSound(replies'[x], call'[x], state'[x]) /\ AskingBelongs(x)'
    BY <1>3, <2>1, StepStatus
  <2>3. replies'[x] \in Seq(ActorReplies)
    BY <1>1 DEF ClientTypeOK
  <2> DEFINE N == {i \in DOMAIN replies'[x] : replies'[x][i].kind = "SUCCESS"}
  <2>4. /\ N # {} <=> Has(replies'[x], {Success})
        /\ (\A i, j \in N : i = j) <=> AtMostOne(replies'[x], {Success})
    BY <2>3, StatusForm
  <2> QED  BY <2>2, <2>4 DEF StatusBelongs, Successes, StatusSound
<1> QED  BY <1>2, <1>3

(* A step of a client preserves the invariant of all clients, when none is  *)
(* prompted.                                                                *)
LEMMA ClientStep ==
    ASSUME ClientInv, NEW c \in Clients, StepOf(c), \A x \in Clients : NotPrompted(x)
    PROVE  ClientInv'
BY StepTypes, StepBelongs DEF ClientInv

(* What the application and the actor have when nothing has been said.      *)
LEMMA ClientInvInit == ClientInit /\ NetworkInit => ClientInv
<1> SUFFICES ASSUME ClientInit, NetworkInit  PROVE ClientInv
  OBVIOUS
<1>1. /\ In("none") \in ApiCalls /\ 0 \in 0..MaxCalls
      /\ <<>> \in Seq(Commands) /\ <<>> \in Seq(ActorReplies)
      /\ <<>> \in Seq(Requests) /\ <<>> \in Seq(Replies)
  BY EmptySeq, ClientAssumption DEF In, ApiCalls
<1>2. NetworkTypeOK /\ ClientTypeOK
  BY <1>1 DEF ClientInit, NetworkInit, NetworkTypeOK, ClientTypeOK, States
<1>3. ASSUME NEW c \in Clients  PROVE StatusBelongs(c) /\ AskingBelongs(c)
  <2>1. replies[c] = <<>> /\ commands[c] = <<>> /\ state[c] = "start"
    BY DEF ClientInit
  <2>2. StatusSound(replies[c], call[c], state[c]) /\ AskingBelongs(c)
    BY <2>1, HasNothing DEF StatusSound, AskingBelongs, AskingSound
  <2> QED  BY <1>2, <2>2, StatusFormNow
<1> QED  BY <1>2, <1>3 DEF ClientInv
=============================================================================
