-------------------------- MODULE ZccpForward_proofs --------------------------
(***************************************************************************)
(* Proofs about the broker that walks its lists (ZccpForward): each walk   *)
(* meets live records only, and amounts to one step of the broker whose    *)
(* handlers are atomic.                                                    *)
(***************************************************************************)
EXTENDS ZccpForward, ZccpServer_proofs

(* The cursors of a walk, and what the walk is about.                       *)
WalkInv ==
    /\ ~Walking => patternCursor = 0 /\ clientCursor = 0
    /\ Walking => /\ up /\ publisher \in clients
                  /\ message \in Requests /\ message.id = "PUBLISH"
    /\ patternCursor \in 0..Len(patterns)
    /\ clientCursor # 0 =>
          /\ patternCursor # 0
          /\ clientCursor \in DOMAIN patterns[patternCursor].clients
          /\ message.address \in Matches[patterns[patternCursor].expression]

ForwardInv == ServerInv /\ WalkInv

-----------------------------------------------------------------------------
(* zlist_first and zlist_next stay within a list, or leave it.              *)
LEMMA CursorRange ==
    ASSUME NEW S, NEW list \in Seq(S), NEW cursor \in 0..Len(list)
    PROVE  /\ zlist_first(list) \in 0..Len(list)
           /\ zlist_next(list, cursor) \in 0..Len(list)
BY LenProperties, EmptySeq DEF zlist_first, zlist_next

(* What is copied is a reply.                                               *)
copyAtHand == get_content_to_publish(publisher, message)

(* What get_content_to_publish makes of the publication at hand is a reply. *)
LEMMA CopyType ==
    ASSUME StateInv, WalkInv, Walking
    PROVE  copyAtHand \in Replies /\ message.address \in Addresses
<1>1. message \in Requests /\ message.id = "PUBLISH" /\ publisher \in Clients
  BY DEF WalkInv, StateInv
<1>2. message.address \in Addresses /\ message.content \in Contents
  BY <1>1, RequestShape
<1> QED
  BY <1>1, <1>2, NetworkAssumption DEF copyAtHand, get_content_to_publish, Deliver, Replies, StateInv

-----------------------------------------------------------------------------
(* The steps of a walk, one by one.                                         *)
LEMMA BeginKeeps ==
    ASSUME ForwardInv, NEW c \in Clients, BeginForward(c)
    PROVE  ForwardInv'
<1>0. NetworkTypeOK /\ StateInv
  BY DEF ForwardInv, ServerInv
<1>1. /\ up /\ TakeRequest(c) /\ Request(c).id = "PUBLISH" /\ c \in clients
      /\ publisher' = c /\ message' = Request(c)
      /\ patternCursor' = zlist_first(patterns) /\ clientCursor' = 0
      /\ UNCHANGED <<up, clients, identifier, patterns, toClient>>
  BY DEF BeginForward, Handles, serverState
<1>2. toServer' \in [Clients -> Seq(Requests)] /\ Request(c) \in Requests
  BY <1>0, <1>1, TakeRequestType
<1>3. ServerInv'
  BY <1>0, <1>1, <1>2, StateUnchanged DEF ServerInv, NetworkTypeOK
<1>4. 0 \in 0..Len(patterns) /\ zlist_first(patterns) \in 0..Len(patterns)
  BY <1>0, CursorRange, LenProperties DEF StateInv
<1>5. c # NoClient
  BY ForwardAssumption
<1> QED  BY <1>1, <1>2, <1>3, <1>4, <1>5 DEF ForwardInv, WalkInv, Walking

(* The test of one expression with zrex, and the start of the inner loop,   *)
(* keep the invariant.                                                      *)
LEMMA VisitPatternKeeps ==
    ASSUME ForwardInv, VisitPattern
    PROVE  ForwardInv'
<1> DEFINE list == patterns[patternCursor].clients
           matches == message.address \in Matches[patterns[patternCursor].expression]
           first == IF matches THEN zlist_first(list) ELSE 0
<1>0. NetworkTypeOK /\ StateInv /\ WalkInv
  BY DEF ForwardInv, ServerInv
<1>1. /\ Walking /\ patternCursor # 0 /\ clientCursor = 0
      /\ clientCursor' = first
      /\ patternCursor' = IF first = 0 THEN zlist_next(patterns, patternCursor)
                                       ELSE patternCursor
      /\ UNCHANGED <<publisher, message, up, clients, identifier, patterns, toServer, toClient>>
  BY DEF VisitPattern, NextPattern, serverVars, serverState, channels
<1>2. ServerInv'
  BY <1>0, <1>1, StateUnchanged DEF ServerInv, NetworkTypeOK
<1>3. /\ patternCursor \in DOMAIN patterns /\ list \in Seq(Clients)
      /\ patternCursor \in 0..Len(patterns)
  BY <1>0, <1>1, PatternsShape DEF WalkInv
<1>4. zlist_next(patterns, patternCursor) \in 0..Len(patterns)
  BY <1>0, <1>3, CursorRange DEF StateInv
<1>5. first # 0 => matches /\ first \in DOMAIN list
  BY <1>3, LenProperties, EmptySeq DEF zlist_first
<1> HIDE DEF list, matches, first
<1>6. WalkInv'
  BY <1>0, <1>1, <1>3, <1>4, <1>5 DEF WalkInv, Walking, list, matches
<1> QED  BY <1>2, <1>6 DEF ForwardInv

(* What the cursor is at in a walk.                                         *)
visited == patterns[patternCursor].clients[clientCursor]

(* The inner cursor is at a client whose record is still there.             *)
LEMMA VisitedHasRecord ==
    ASSUME StateInv, WalkInv, clientCursor # 0
    PROVE  /\ Walking /\ patternCursor \in DOMAIN patterns
           /\ patterns[patternCursor].clients \in Seq(Clients)
           /\ clientCursor \in 1..Len(patterns[patternCursor].clients)
           /\ visited \in clients /\ visited \in Clients
<1>1. Walking /\ patternCursor \in DOMAIN patterns
  BY PatternsShape DEF WalkInv
<1>2. /\ patterns[patternCursor].clients \in Seq(Clients)
      /\ clientCursor \in 1..Len(patterns[patternCursor].clients)
  BY <1>1, PatternsShape DEF WalkInv
<1>3. visited \in ToSet(patterns[patternCursor].clients)
  BY <1>2, LenProperties DEF visited, ToSet
<1>4. visited \in clients /\ clients \subseteq Clients
  BY <1>1, <1>3 DEF StateInv, ListsSound, SubscribersRegistered
<1> QED  BY <1>1, <1>2, <1>4

(* One turn of the inner loop keeps the invariant: the recipient's handler  *)
(* changes no list.                                                         *)
LEMMA VisitClientKeeps ==
    ASSUME ForwardInv, VisitClient
    PROVE  ForwardInv'
<1> DEFINE list == patterns[patternCursor].clients
<1>0. NetworkTypeOK /\ StateInv /\ WalkInv
  BY DEF ForwardInv, ServerInv
<1>1. /\ Walking /\ clientCursor # 0
      /\ \/ UNCHANGED toClient
         \/ SendReply(visited, copyAtHand)
      /\ clientCursor' = zlist_next(list, clientCursor)
      /\ patternCursor' = IF clientCursor' = 0 THEN zlist_next(patterns, patternCursor)
                                               ELSE patternCursor
      /\ UNCHANGED <<publisher, message, up, clients, identifier, patterns, toServer>>
  BY DEF VisitClient, NextClient, NextPattern, engine_send_event, visited, copyAtHand, serverState
<1>2. /\ patternCursor \in DOMAIN patterns /\ list \in Seq(Clients)
      /\ clientCursor \in 1..Len(list) /\ visited \in Clients
  BY <1>0, <1>1, VisitedHasRecord
<1>3. toClient' \in [Clients -> Seq(Replies)]
  <2>1. copyAtHand \in Replies
    BY <1>0, <1>1, CopyType
  <2> QED  BY <1>0, <1>1, <1>2, <2>1, SendReplyType DEF NetworkTypeOK
<1>4. ServerInv'
  BY <1>0, <1>1, <1>3, StateUnchanged DEF ServerInv, NetworkTypeOK
<1>5. /\ zlist_next(patterns, patternCursor) \in 0..Len(patterns)
      /\ patternCursor \in 0..Len(patterns)
  BY <1>0, <1>2, PatternsShape, CursorRange DEF StateInv
<1>6. clientCursor' # 0 => clientCursor' \in DOMAIN list
  BY <1>1, <1>2, LenProperties DEF zlist_next
<1>7. message.address \in Matches[patterns[patternCursor].expression]
  BY <1>0, <1>1 DEF WalkInv
<1> HIDE DEF list
<1>8. WalkInv'
  BY <1>0, <1>1, <1>2, <1>5, <1>6, <1>7 DEF WalkInv, Walking, list
<1> QED  BY <1>4, <1>8 DEF ForwardInv

(* Every step preserves the invariant: only a walk moves the cursors, and   *)
(* no other handler runs before it ends.                                    *)
THEOREM ForwardInvStep == ForwardInv /\ [ForwardNext]_forwardVars => ForwardInv'
<1> SUFFICES ASSUME ForwardInv, [ForwardNext]_forwardVars  PROVE ForwardInv'
  OBVIOUS
<1>0. ServerInv /\ StateInv /\ WalkInv
  BY DEF ForwardInv, ServerInv
<1>1. ASSUME UNCHANGED walk, ServerInv', ~Walking \/ UNCHANGED serverState  PROVE ForwardInv'
  <2>1. CASE ~Walking
    <3>1. Len(patterns') \in Nat
      BY <1>1, LenProperties DEF ServerInv, StateInv
    <3> QED  BY <1>0, <1>1, <2>1, <3>1 DEF walk, Walking, WalkInv, ForwardInv
  <2>2. CASE UNCHANGED serverState
    BY <1>0, <1>1, <2>2 DEF walk, serverState, Walking, WalkInv, ForwardInv
  <2> QED  BY <1>1, <2>1, <2>2
<1>2. ASSUME NEW c \in Clients, OtherHandler(c) /\ Between  PROVE ForwardInv'
  <2>1. HandleMessage(c) \/ HandleTimeout(c)
    BY <1>2 DEF OtherHandler, HandleMessage
  <2> QED  BY <1>0, <1>1, <1>2, <2>1, BrokerStep DEF ServerNext, Between
<1>3. CASE (ServerStop \/ ServerStart) /\ Between
  BY <1>0, <1>1, <1>3, BrokerStep DEF ServerNext, Between
<1>4. ASSUME NEW c \in Clients, PeerSends(c) \/ PeerReceives(c) \/ MessageLost(c), UNCHANGED walk
      PROVE  ForwardInv'
  <2>1. Next /\ UNCHANGED serverState
    BY <1>4 DEF PeerSends, PeerReceives, MessageLost, Next
  <2> QED  BY <1>0, <1>1, <1>4, <2>1, InvStep
<1>5. CASE EndForward
  <2>1. /\ Walking /\ patternCursor = 0 /\ publisher' = NoClient
        /\ UNCHANGED <<patternCursor, clientCursor, up, clients, identifier, patterns,
                       toServer, toClient>>
    BY <1>5 DEF EndForward, serverVars, serverState, channels
  <2>2. ServerInv'
    BY <1>0, <2>1, StateUnchanged DEF ServerInv, NetworkTypeOK
  <2> QED  BY <1>0, <2>1, <2>2 DEF ForwardInv, WalkInv, Walking
<1>6. CASE UNCHANGED forwardVars
  <2>1. UNCHANGED <<up, clients, identifier, patterns, toServer, toClient>>
    BY <1>6 DEF forwardVars, serverVars, serverState, channels
  <2>2. ServerInv'
    BY <1>0, <2>1, StateUnchanged DEF ServerInv, NetworkTypeOK
  <2> QED  BY <1>1, <1>6, <2>2 DEF forwardVars, serverVars
<1> QED
  BY <1>2, <1>3, <1>4, <1>5, <1>6, BeginKeeps, VisitPatternKeeps, VisitClientKeeps DEF ForwardNext

(* The invariant holds throughout.                                          *)
THEOREM ForwardInvAlways == ForwardSpec => []ForwardInv
<1>1. ForwardInit => ForwardInv
  <2> SUFFICES ASSUME ForwardInit  PROVE ForwardInv
    OBVIOUS
  <2>1. ServerInv
    BY InvInit DEF ForwardInit
  <2>2. Len(patterns) \in Nat
    BY <2>1, LenProperties DEF ServerInv, StateInv
  <2> QED  BY <2>1, <2>2 DEF ForwardInit, ForwardInv, WalkInv, Walking
<1> QED  BY <1>1, ForwardInvStep, PTL DEF ForwardSpec

(* No walk of forward_to_subscribers meets a list or a record that has      *)
(* gone, and each client it comes to takes the forward_event.               *)
THEOREM WalkMeetsRecords == ForwardSpec => []WalkSound
<1>1. ForwardInv => WalkSound
  BY VisitedHasRecord DEF ForwardInv, ServerInv, WalkInv, WalkSound, visited
<1> QED  BY <1>1, ForwardInvAlways, PTL

-----------------------------------------------------------------------------
(* The broker that walks implements the broker whose handlers are atomic.   *)

(* What the atomic broker has sent: the copies to come are counted.         *)
sent == [s \in Clients |-> toClient[s] \o ToCome(s)]

(* A number of equal messages.                                              *)
Copies(n, m) == [k \in 1..n |-> m]

(* How long a sequence of equal messages is.                                *)
LEMMA CopiesProperties ==
    ASSUME NEW S, NEW m \in S, NEW n \in Nat
    PROVE  /\ Copies(n, m) \in Seq(S) /\ Len(Copies(n, m)) = n
           /\ n = 0 => Copies(n, m) = <<>>
<1>1. Copies(n, m) \in [1..n -> S]
  BY DEF Copies
<1>2. Copies(n, m) \in Seq(S)
  BY <1>1, SeqDef
<1>3. Len(Copies(n, m)) = n
  BY <1>1, <1>2, LenProperties DEF Copies
<1> QED  BY <1>2, <1>3, EmptySeq

(* The first of the copies may be sent before the others.                   *)
LEMMA CopySent ==
    ASSUME NEW S, NEW s \in Seq(S), NEW m \in S, NEW n \in Nat
    PROVE  Append(s, m) \o Copies(n, m) = s \o Copies(n + 1, m)
<1> DEFINE a == Append(s, m)
           few == Copies(n, m)
           more == Copies(n + 1, m)
           t == a \o few
           u == s \o more
<1>0. n + 1 \in Nat
  OBVIOUS
<1>1. /\ few \in Seq(S) /\ Len(few) = n
      /\ more \in Seq(S) /\ Len(more) = n + 1
  BY <1>0, CopiesProperties
<1>2. /\ \A i \in 1..n : few[i] = m
      /\ \A i \in 1..(n + 1) : more[i] = m
  BY DEF Copies
<1>3. /\ a \in Seq(S) /\ Len(a) = Len(s) + 1 /\ Len(s) \in Nat
      /\ \A i \in 1..Len(s) : a[i] = s[i]
      /\ a[Len(s) + 1] = m
  BY AppendProperties, LenProperties
<1> HIDE DEF a, few, more
<1>4. /\ t \in Seq(S) /\ Len(t) = Len(a) + Len(few)
      /\ \A i \in 1..(Len(a) + Len(few)) :
            t[i] = IF i <= Len(a) THEN a[i] ELSE few[i - Len(a)]
  BY <1>1, <1>3, ConcatProperties
<1>5. /\ u \in Seq(S) /\ Len(u) = Len(s) + Len(more)
      /\ \A i \in 1..(Len(s) + Len(more)) :
            u[i] = IF i <= Len(s) THEN s[i] ELSE more[i - Len(s)]
  BY <1>1, <1>3, ConcatProperties
<1> HIDE DEF t, u
<1>6. ASSUME NEW i \in 1..Len(t)  PROVE t[i] = u[i]
  <2>1. CASE i <= Len(s)
    <3>1. i \in 1..Len(s) /\ i <= Len(a) /\ i \in 1..(Len(a) + Len(few))
          /\ i \in 1..(Len(s) + Len(more))
      BY <1>1, <1>3, <1>4, <2>1
    <3>2. t[i] = a[i] /\ u[i] = s[i]
      BY <1>4, <1>5, <2>1, <3>1
    <3> QED  BY <1>3, <3>1, <3>2
  <2>2. CASE i = Len(s) + 1
    <3>1. i - Len(s) = 1
      BY <1>3, <2>2
    <3> QED  BY <1>1, <1>2, <1>3, <1>4, <1>5, <2>2, <3>1
  <2>3. CASE i > Len(s) + 1
    <3>1. i - (Len(s) + 1) \in 1..n /\ i - Len(s) \in 1..(n + 1)
      BY <1>1, <1>3, <1>4, <2>3
    <3> QED  BY <1>1, <1>2, <1>3, <1>4, <1>5, <2>3, <3>1
  <2> QED  BY <1>1, <1>3, <1>4, <2>1, <2>2, <2>3
<1>7. t = u
  <2>1. t \in Seq(S) /\ u \in Seq(S) /\ Len(t) = Len(u)
    BY <1>1, <1>3, <1>4, <1>5
  <2> QED  BY <1>6, <2>1, SeqEqual
<1> QED  BY <1>7 DEF t, u, a, few, more

(* Taking the first message off a stream commutes with adding at its end.   *)
LEMMA TailOfConcat ==
    ASSUME NEW S, NEW s \in Seq(S), NEW t \in Seq(S), s # <<>>
    PROVE  s \o t # <<>> /\ Tail(s \o t) = Tail(s) \o t
<1>1. /\ Tail(s) \in Seq(S) /\ Len(Tail(s)) = Len(s) - 1 /\ Len(s) \in Nat /\ Len(s) # 0
      /\ Len(t) \in Nat
      /\ \A i \in 1..Len(Tail(s)) : Tail(s)[i] = s[i + 1]
  BY HeadTailProperties, LenProperties, EmptySeq
<1>2. /\ s \o t \in Seq(S) /\ Len(s \o t) = Len(s) + Len(t)
      /\ \A i \in 1..(Len(s) + Len(t)) :
            (s \o t)[i] = IF i <= Len(s) THEN s[i] ELSE t[i - Len(s)]
  BY ConcatProperties
<1>3. s \o t # <<>>
  BY <1>1, <1>2, EmptySeq
<1>4. /\ Tail(s \o t) \in Seq(S) /\ Len(Tail(s \o t)) = Len(s) + Len(t) - 1
      /\ \A i \in 1..(Len(s) + Len(t) - 1) : Tail(s \o t)[i] = (s \o t)[i + 1]
  BY <1>2, <1>3, HeadTailProperties
<1>5. /\ Tail(s) \o t \in Seq(S) /\ Len(Tail(s) \o t) = Len(s) - 1 + Len(t)
      /\ \A i \in 1..(Len(s) - 1 + Len(t)) :
            (Tail(s) \o t)[i] = IF i <= Len(s) - 1 THEN Tail(s)[i] ELSE t[i - (Len(s) - 1)]
  BY <1>1, ConcatProperties
<1>6. ASSUME NEW i \in 1..(Len(s) + Len(t) - 1)
      PROVE  Tail(s \o t)[i] = (Tail(s) \o t)[i]
  <2>1. i + 1 \in 1..(Len(s) + Len(t)) /\ (i + 1) - Len(s) = i - (Len(s) - 1)
    BY <1>1
  <2> QED  BY <1>1, <1>2, <1>4, <1>5, <2>1
<1>7. Tail(s \o t) = Tail(s) \o t
  BY <1>1, <1>4, <1>5, <1>6, SeqEqual
<1> QED  BY <1>3, <1>7

-----------------------------------------------------------------------------
(* What is still to come, now and after a step of a walk.                   *)
LEMMA ToComeNow ==
    ASSUME ServerInv, WalkInv, NEW s \in Clients
    PROVE  /\ ToCome(s) \in Seq(Replies)
           /\ Len(ToCome(s)) \in Nat
           /\ Len(ToCome(s)) <= Cardinality(Exprs)
           /\ ~Walking => ToCome(s) = <<>>
<1>0. StateInv
  BY DEF ServerInv
<1>1. /\ IsFiniteSet(Ahead(s))
      /\ Cardinality(Ahead(s)) \in Nat
      /\ Cardinality(Ahead(s)) <= Cardinality(Exprs)
      /\ Cardinality(Exprs) \in Nat
  <2> DEFINE P == Places(s, message.address)
             M == Matching(s, message.address)
  <2>1. IsFiniteSet(P) /\ Cardinality(P) \in Nat /\ Cardinality(P) = Cardinality(M)
    BY <1>0, PlacesCount
  <2>2. M \subseteq Exprs
    BY <1>0, PatternsShape DEF Matching, Subscriptions
  <2>3. IsFiniteSet(M) /\ Cardinality(M) <= Cardinality(Exprs) /\ Cardinality(Exprs) \in Nat
    BY <2>2, FS_Subset, FS_CardinalityType, ForwardAssumption
  <2>4. Ahead(s) \subseteq P
    BY DEF Ahead
  <2> HIDE DEF P, M
  <2>5. /\ IsFiniteSet(Ahead(s)) /\ Cardinality(Ahead(s)) <= Cardinality(P)
        /\ Cardinality(Ahead(s)) \in Nat
    BY <2>1, <2>4, FS_Subset, FS_CardinalityType
  <2> QED  BY <2>1, <2>3, <2>5
<1>2. CASE ~Walking \/ patternCursor = 0 \/ s = publisher
  <2>1. ToCome(s) = <<>>
    BY <1>2 DEF ToCome
  <2> QED  BY <1>1, <2>1, EmptySeq
<1>3. CASE ~(~Walking \/ patternCursor = 0 \/ s = publisher)
  <2>1. ToCome(s) = Copies(Cardinality(Ahead(s)), copyAtHand)
    BY <1>3 DEF ToCome, Copies, copyAtHand
  <2>2. copyAtHand \in Replies
    BY <1>0, <1>3, CopyType
  <2> QED  BY <1>1, <1>3, <2>1, <2>2, CopiesProperties
<1> QED  BY <1>2, <1>3

(* What a client is still to be sent after a step of the walk follows from  *)
(* the places then ahead of the cursors.                                    *)
LEMMA ToComeAfter ==
    ASSUME Walking, UNCHANGED <<publisher, message, identifier>>,
           NEW s \in Clients, s # publisher, NEW R, copyAtHand \in Replies,
           IF patternCursor' = 0 THEN R = {} ELSE Ahead(s)' = R
    PROVE  ToCome(s)' = Copies(Cardinality(R), copyAtHand)
<1>1. Walking' /\ copyAtHand' = copyAtHand
  BY DEF Walking, copyAtHand, get_content_to_publish
<1>2. CASE patternCursor' = 0
  <2>1. Cardinality(R) = 0
    BY <1>2, FS_EmptySet
  <2>2. Copies(Cardinality(R), copyAtHand) = <<>>
    BY <2>1, CopiesProperties
  <2>3. ToCome(s)' = <<>>
    BY <1>2 DEF ToCome
  <2> QED  BY <2>2, <2>3
<1>3. CASE patternCursor' # 0
  <2>1. ToCome(s)' = Copies(Cardinality(Ahead(s)'), copyAtHand)
    BY <1>1, <1>3 DEF ToCome, Copies, copyAtHand
  <2> QED  BY <1>3, <2>1
<1> QED  BY <1>2, <1>3

(* The list positions of a client under matching patterns.                  *)
LEMMA PlacesShape ==
    ASSUME StateInv, NEW s \in Clients, NEW a, NEW q \in Places(s, a)
    PROVE  /\ q = <<q[1], q[2]>>
           /\ q[1] \in 1..Len(patterns) /\ q[1] \in DOMAIN patterns
           /\ q[2] \in 1..Len(patterns[q[1]].clients)
           /\ a \in Matches[patterns[q[1]].expression]
           /\ patterns[q[1]].clients[q[2]] = s
<1>1. /\ q = <<q[1], q[2]>> /\ q[1] \in DOMAIN patterns
      /\ q[2] \in DOMAIN patterns[q[1]].clients
      /\ a \in Matches[patterns[q[1]].expression]
      /\ patterns[q[1]].clients[q[2]] = s
  BY DEF Places
<1> QED  BY <1>1, PatternsShape

(* While no list changes, the places ahead depend on the cursors alone.     *)
LEMMA AheadAfter ==
    ASSUME UNCHANGED <<patterns, message>>, NEW s \in Clients
    PROVE  Ahead(s)' = {q \in Places(s, message.address) :
                           \/ q[1] > patternCursor'
                           \/ q[1] = patternCursor' /\ q[2] >= clientCursor'}
<1>1. Places(s, message.address)' = Places(s, message.address)
  BY DEF Places
<1> QED  BY <1>1 DEF Ahead

(* Moving on to the next list leaves nothing behind, when nothing is left   *)
(* in this one.                                                             *)
LEMMA NextPatternAfter ==
    ASSUME StateInv, UNCHANGED <<patterns, message>>, NEW s \in Clients,
           patternCursor \in DOMAIN patterns, NextPattern, clientCursor' = 0
    PROVE  LET R == {q \in Places(s, message.address) : q[1] > patternCursor}
           IN  IF patternCursor' = 0 THEN R = {} ELSE Ahead(s)' = R
<1> DEFINE P == Places(s, message.address)
           R == {q \in P : q[1] > patternCursor}
<1> SUFFICES IF patternCursor' = 0 THEN R = {} ELSE Ahead(s)' = R
  OBVIOUS
<1>1. Len(patterns) \in Nat /\ patternCursor \in 1..Len(patterns)
  BY PatternsShape
<1>2. patternCursor' = IF patternCursor < Len(patterns) THEN patternCursor + 1 ELSE 0
  BY DEF NextPattern, zlist_next
<1>3. \A q \in P : /\ q[1] \in 1..Len(patterns) /\ q[1] \in Nat
                   /\ q[2] \in Nat
  <2> TAKE q \in P
  <2>1. /\ q[1] \in 1..Len(patterns) /\ q[1] \in DOMAIN patterns
        /\ q[2] \in 1..Len(patterns[q[1]].clients)
    BY PlacesShape
  <2> QED  BY <1>1, <2>1, PatternsShape
<1>4. Ahead(s)' = {q \in P : \/ q[1] > patternCursor'
                             \/ q[1] = patternCursor' /\ q[2] >= clientCursor'}
  BY AheadAfter
<1> HIDE DEF P
<1>5. CASE patternCursor' = 0
  BY <1>1, <1>2, <1>3, <1>5
<1>6. CASE patternCursor' # 0
  <2>1. patternCursor' = patternCursor + 1 /\ patternCursor \in Nat
    BY <1>1, <1>2, <1>6
  <2>2. \A q \in P : (\/ q[1] > patternCursor'
                      \/ q[1] = patternCursor' /\ q[2] >= clientCursor')
                     <=> q[1] > patternCursor
    BY <1>3, <2>1
  <2> QED  BY <1>4, <1>6, <2>2
<1> QED  BY <1>5, <1>6

-----------------------------------------------------------------------------
(* The steps of a walk change nothing of what the atomic broker has sent:   *)
(* coming to a list,                                                        *)
LEMMA VisitPatternStutters ==
    ASSUME ForwardInv, VisitPattern
    PROVE  sent' = sent
<1> DEFINE list == patterns[patternCursor].clients
           matches == message.address \in Matches[patterns[patternCursor].expression]
           first == IF matches THEN zlist_first(list) ELSE 0
<1>0. StateInv /\ WalkInv
  BY DEF ForwardInv, ServerInv
<1>1. /\ Walking /\ patternCursor # 0 /\ clientCursor = 0 /\ clientCursor' = first
      /\ IF first = 0 THEN NextPattern ELSE patternCursor' = patternCursor
      /\ UNCHANGED <<publisher, message, patterns, identifier, toClient>>
  BY DEF VisitPattern, serverVars, serverState, channels
<1>2. /\ patternCursor \in DOMAIN patterns /\ list \in Seq(Clients)
      /\ patternCursor \in 1..Len(patterns) /\ Len(patterns) \in Nat
  BY <1>0, <1>1, PatternsShape DEF WalkInv
<1>3. /\ first # 0 => first = 1
      /\ first = 0 => ~matches \/ list = <<>>
  BY DEF zlist_first
<1>4. copyAtHand \in Replies
  BY <1>0, <1>1, CopyType
<1>5. ASSUME NEW s \in Clients, s # publisher  PROVE ToCome(s)' = ToCome(s)
  <2> DEFINE P == Places(s, message.address)
  <2>1. \A q \in P : /\ q[1] \in Nat /\ q[2] \in Nat /\ q[2] # 0
                     /\ q[1] = patternCursor => matches /\ list # <<>>
    <3> TAKE q \in P
    <3>1. /\ q[1] \in 1..Len(patterns) /\ q[1] \in DOMAIN patterns
          /\ q[2] \in 1..Len(patterns[q[1]].clients)
          /\ message.address \in Matches[patterns[q[1]].expression]
      BY <1>0, PlacesShape
    <3>2. Len(patterns[q[1]].clients) \in Nat
      BY <1>0, <3>1, PatternsShape
    <3>3. q[1] \in Nat /\ q[2] \in Nat /\ q[2] # 0 /\ Len(patterns[q[1]].clients) # 0
      BY <1>2, <3>1, <3>2
    <3>4. q[1] = patternCursor => list # <<>>
      BY <3>3, EmptySeq
    <3> QED  BY <3>1, <3>3, <3>4
  <2>2. Ahead(s) = {q \in P : \/ q[1] > patternCursor
                              \/ q[1] = patternCursor /\ q[2] >= 0}
    BY <1>1 DEF Ahead
  <2>3. ToCome(s) = Copies(Cardinality(Ahead(s)), copyAtHand)
    BY <1>1, <1>5 DEF ToCome, Copies, copyAtHand
  <2>4. IF patternCursor' = 0 THEN Ahead(s) = {} ELSE Ahead(s)' = Ahead(s)
    <3>1. CASE first = 0
      <4>1. Ahead(s) = {q \in P : q[1] > patternCursor}
        <5> HIDE DEF P, list, matches, first
        <5> QED  BY <1>3, <2>1, <2>2, <3>1
      <4> QED  BY <1>0, <1>1, <1>2, <3>1, <4>1, NextPatternAfter
    <3>2. CASE first # 0
      <4>1. patternCursor' = patternCursor /\ clientCursor' = 1
        BY <1>1, <1>3, <3>2
      <4>2. Ahead(s)' = {q \in P : \/ q[1] > patternCursor'
                                   \/ q[1] = patternCursor' /\ q[2] >= clientCursor'}
        BY <1>1, AheadAfter
      <4> HIDE DEF P
      <4>3. Ahead(s)' = Ahead(s)
        BY <2>1, <2>2, <4>1, <4>2
      <4> QED  BY <1>1, <4>1, <4>3
    <3> QED  BY <3>1, <3>2
  <2>5. ToCome(s)' = Copies(Cardinality(Ahead(s)), copyAtHand)
    BY <1>1, <1>4, <1>5, <2>4, ToComeAfter
  <2> QED  BY <2>3, <2>5
<1>6. ASSUME NEW s \in Clients, s = publisher  PROVE ToCome(s)' = ToCome(s)
  BY <1>1, <1>6 DEF ToCome
<1>7. \A s \in Clients : toClient'[s] \o ToCome(s)' = toClient[s] \o ToCome(s)
  BY <1>1, <1>5, <1>6
<1> QED  BY <1>7 DEF sent

(* and sending a copy, which was counted before.                            *)
LEMMA VisitClientStutters ==
    ASSUME ForwardInv, VisitClient
    PROVE  sent' = sent
<1> DEFINE list == patterns[patternCursor].clients
<1>0. StateInv /\ WalkInv /\ ServerInv /\ NetworkTypeOK
  BY DEF ForwardInv, ServerInv
<1>1. /\ Walking /\ clientCursor # 0
      /\ IF visited = publisher THEN UNCHANGED toClient ELSE SendReply(visited, copyAtHand)
      /\ clientCursor' = zlist_next(list, clientCursor)
      /\ IF clientCursor' = 0 THEN NextPattern ELSE patternCursor' = patternCursor
      /\ UNCHANGED <<publisher, message, patterns, identifier>>
  BY DEF VisitClient, NextClient, engine_send_event, visited, copyAtHand, serverState
<1>2. /\ patternCursor \in DOMAIN patterns /\ list \in Seq(Clients)
      /\ clientCursor \in 1..Len(list) /\ visited \in Clients
      /\ patternCursor \in 1..Len(patterns) /\ Len(patterns) \in Nat /\ Len(list) \in Nat
  BY <1>0, <1>1, VisitedHasRecord, PatternsShape
<1>3. copyAtHand \in Replies /\ message.address \in Matches[patterns[patternCursor].expression]
  BY <1>0, <1>1, CopyType DEF WalkInv
<1>4. ASSUME NEW s \in Clients, s # publisher
      PROVE  toClient'[s] \o ToCome(s)' = toClient[s] \o ToCome(s)
  <2> DEFINE P == Places(s, message.address)
             here == <<patternCursor, clientCursor>>
             R == {q \in P : \/ q[1] > patternCursor
                             \/ q[1] = patternCursor /\ q[2] > clientCursor}
  <2>1. \A q \in P : /\ q = <<q[1], q[2]>> /\ q[1] \in Nat /\ q[2] \in Nat
                     /\ q[1] = patternCursor => q[2] <= Len(list) /\ list[q[2]] = s
    <3> TAKE q \in P
    <3>1. /\ q = <<q[1], q[2]>> /\ q[1] \in 1..Len(patterns) /\ q[1] \in DOMAIN patterns
          /\ q[2] \in 1..Len(patterns[q[1]].clients) /\ patterns[q[1]].clients[q[2]] = s
      BY <1>0, PlacesShape
    <3>2. Len(patterns[q[1]].clients) \in Nat
      BY <1>0, <3>1, PatternsShape
    <3> QED  BY <1>2, <3>1, <3>2
  <2>2. Ahead(s) = {q \in P : \/ q[1] > patternCursor
                              \/ q[1] = patternCursor /\ q[2] >= clientCursor}
    BY DEF Ahead
  <2>3. ToCome(s) = Copies(Cardinality(Ahead(s)), copyAtHand)
    <3>1. patternCursor # 0
      BY <1>2
    <3> QED  BY <1>1, <1>4, <3>1 DEF ToCome, Copies, copyAtHand
  <2>4. ToCome(s)' = Copies(Cardinality(R), copyAtHand)
    <3>1. CASE clientCursor' = 0
      <4>1. clientCursor = Len(list)
        BY <1>1, <1>2, <3>1 DEF zlist_next
      <4>2. R = {q \in P : q[1] > patternCursor}
        <5> HIDE DEF P, list
        <5> QED  BY <1>2, <2>1, <4>1
      <4>3. IF patternCursor' = 0 THEN R = {} ELSE Ahead(s)' = R
        BY <1>0, <1>1, <1>2, <3>1, <4>2, NextPatternAfter
      <4> HIDE DEF P, R
      <4> QED  BY <1>1, <1>3, <1>4, <4>3, ToComeAfter
    <3>2. CASE clientCursor' # 0
      <4>1. clientCursor' = clientCursor + 1 /\ patternCursor' = patternCursor
            /\ patternCursor' # 0 /\ clientCursor \in Nat
        BY <1>1, <1>2, <3>2 DEF zlist_next
      <4>2. Ahead(s)' = {q \in P : \/ q[1] > patternCursor'
                                   \/ q[1] = patternCursor' /\ q[2] >= clientCursor'}
        BY <1>1, AheadAfter
      <4> HIDE DEF P
      <4>3. Ahead(s)' = R
        BY <2>1, <4>1, <4>2
      <4> HIDE DEF R
      <4> QED  BY <1>1, <1>3, <1>4, <4>1, <4>3, ToComeAfter
    <3> QED  BY <3>1, <3>2
  <2>5. CASE s # visited
    <3>1. toClient'[s] = toClient[s]
      BY <1>0, <1>1, <1>2, <2>5 DEF SendReply, NetworkTypeOK
    <3>2. \A q \in P : ~(q[1] = patternCursor /\ q[2] = clientCursor)
      BY <2>1, <2>5 DEF visited
    <3>3. Ahead(s) = R
      <4> HIDE DEF P
      <4> QED  BY <1>2, <2>1, <2>2, <3>2
    <3> QED  BY <2>3, <2>4, <3>1, <3>3
  <2>6. CASE s = visited
    <3>1. toClient'[s] = Append(toClient[s], copyAtHand) /\ toClient[s] \in Seq(Replies)
      BY <1>0, <1>1, <1>2, <1>4, <2>6 DEF SendReply, NetworkTypeOK
    <3>2. here \in P
      BY <1>2, <1>3, <2>6 DEF Places, visited
    <3>3. R = Ahead(s) \ {here} /\ here \in Ahead(s)
      <4>1. here[1] = patternCursor /\ here[2] = clientCursor
        OBVIOUS
      <4>2. \A q \in P : q # here <=> ~(q[1] = patternCursor /\ q[2] = clientCursor)
        BY <2>1
      <4> HIDE DEF P, here
      <4> QED  BY <1>2, <2>1, <2>2, <3>2, <4>1, <4>2
    <3>4. IsFiniteSet(Ahead(s)) /\ Cardinality(Ahead(s)) \in Nat
      <4>1. IsFiniteSet(P)
        BY <1>0, PlacesCount
      <4>2. Ahead(s) \subseteq P
        BY DEF Ahead
      <4> QED  BY <4>1, <4>2, FS_Subset, FS_CardinalityType
    <3>5. Cardinality(R) \in Nat /\ Cardinality(Ahead(s)) = Cardinality(R) + 1
      <4> HIDE DEF R, here
      <4>1. IsFiniteSet(R) /\ Cardinality(R) = Cardinality(Ahead(s)) - 1
        BY <3>3, <3>4, FS_RemoveElement
      <4> QED  BY <3>4, <4>1, FS_CardinalityType
    <3> HIDE DEF R
    <3>6. Append(toClient[s], copyAtHand) \o Copies(Cardinality(R), copyAtHand)
             = toClient[s] \o Copies(Cardinality(R) + 1, copyAtHand)
      BY <1>3, <3>1, <3>5, CopySent
    <3> QED  BY <2>3, <2>4, <3>1, <3>5, <3>6
  <2> QED  BY <2>5, <2>6
<1>5. ASSUME NEW s \in Clients, s = publisher
      PROVE  toClient'[s] \o ToCome(s)' = toClient[s] \o ToCome(s)
  <2>1. ToCome(s) = <<>> /\ ToCome(s)' = <<>>
    BY <1>1, <1>5 DEF ToCome
  <2>2. toClient'[s] = toClient[s]
    BY <1>0, <1>1, <1>2, <1>5 DEF SendReply, NetworkTypeOK
  <2> QED  BY <2>1, <2>2
<1>6. \A s \in Clients : toClient'[s] \o ToCome(s)' = toClient[s] \o ToCome(s)
  BY <1>4, <1>5
<1> QED  BY <1>6 DEF sent

-----------------------------------------------------------------------------
(* What the atomic broker shares with this one, and what differs: the       *)
(* streams that its handlers send to.                                       *)
LEMMA SameParts ==
    /\ UNCHANGED Atomic!serverState <=> UNCHANGED serverState
    /\ UNCHANGED Atomic!channels <=> UNCHANGED <<toServer, sent>>
    /\ Atomic!Requests = Requests
    /\ Atomic!ReactorEnds <=> ReactorEnds
    /\ Atomic!ServerStart <=> ~up /\ up' = TRUE /\ UNCHANGED <<clients, identifier, patterns>>
                              /\ UNCHANGED Atomic!channels
    /\ \A k : Atomic!Plain(k) = Plain(k)
    /\ \A c : /\ Atomic!Request(c) = Request(c)
              /\ Atomic!Accepted(c) = Accepted(c)
              /\ Atomic!TakeRequest(c) <=> TakeRequest(c)
              /\ Atomic!s_client_destroy(c) <=> s_client_destroy(c)
    /\ \A c, k : Atomic!Handles(c, k) <=> Handles(c, k)
    /\ \A c, e : Atomic!store_new_subscription(c, e) <=> store_new_subscription(c, e)
    /\ \A c, m : /\ Atomic!get_content_to_publish(c, m) = get_content_to_publish(c, m)
                 /\ Atomic!SendRequest(c, m) <=> SendRequest(c, m)
                 /\ Atomic!SendReply(c, m) <=> sent' = [sent EXCEPT ![c] = Append(@, m)]
    /\ \A s, a : Atomic!Places(s, a) = Places(s, a)
<1>1. /\ UNCHANGED Atomic!serverState <=> UNCHANGED serverState
      /\ UNCHANGED Atomic!channels <=> UNCHANGED <<toServer, sent>>
      /\ Atomic!Requests = Requests
      /\ Atomic!ReactorEnds <=> ReactorEnds
      /\ \A k : Atomic!Plain(k) = Plain(k)
  BY DEF Atomic!serverState, serverState, Atomic!channels, sent, Atomic!Requests, Requests,
         Atomic!PlainRequests, PlainRequests, Atomic!ReactorEnds, ReactorEnds, Atomic!Plain, Plain
<1>2. Atomic!ServerStart <=> ~up /\ up' = TRUE /\ UNCHANGED <<clients, identifier, patterns>>
                             /\ UNCHANGED Atomic!channels
  BY DEF Atomic!ServerStart, Atomic!channels
<1>3. \A c : /\ Atomic!Request(c) = Request(c)
             /\ Atomic!Accepted(c) = Accepted(c)
             /\ Atomic!TakeRequest(c) <=> TakeRequest(c)
  BY DEF Atomic!Request, Request, Atomic!Accepted, Accepted, Atomic!TakeRequest, TakeRequest
<1>4. \A c : Atomic!s_client_destroy(c) <=> s_client_destroy(c)
  BY DEF Atomic!s_client_destroy, s_client_destroy, Atomic!client_terminate, client_terminate,
         Atomic!RemoveFirst, RemoveFirst, Atomic!RemoveAt, RemoveAt,
         Atomic!SelectInSeq, SelectInSeq, Atomic!Min, Min
<1>5. \A c, k : Atomic!Handles(c, k) <=> Handles(c, k)
  BY <1>3 DEF Atomic!Handles, Handles
<1>6. \A c, e : Atomic!store_new_subscription(c, e) <=> store_new_subscription(c, e)
  BY DEF Atomic!store_new_subscription, store_new_subscription,
         Atomic!IsPatternOf, IsPatternOf, Atomic!Contains, Contains
<1>7. \A c, m : /\ Atomic!get_content_to_publish(c, m) = get_content_to_publish(c, m)
                /\ Atomic!SendRequest(c, m) <=> SendRequest(c, m)
  BY DEF Atomic!get_content_to_publish, get_content_to_publish, Atomic!Deliver, Deliver,
         Atomic!SendRequest, SendRequest
<1>8. \A c, m : Atomic!SendReply(c, m) <=> sent' = [sent EXCEPT ![c] = Append(@, m)]
  BY DEF Atomic!SendReply, sent
<1>9. \A s, a : Atomic!Places(s, a) = Places(s, a)
  BY DEF Atomic!Places, Places
<1> QED  BY <1>1, <1>2, <1>3, <1>4, <1>5, <1>6, <1>7, <1>8, <1>9

(* Between walks the two have sent the same.                                *)
LEMMA BetweenWalks ==
    ASSUME ServerInv, ServerInv', ~Walking, UNCHANGED walk
    PROVE  sent = toClient /\ sent' = toClient'
<1>1. toClient \in [Clients -> Seq(Replies)] /\ toClient' \in [Clients -> Seq(Replies)]
  BY DEF ServerInv, NetworkTypeOK
<1>2. \A s \in Clients : ToCome(s) = <<>> /\ ToCome(s)' = <<>>
  BY DEF walk, Walking, ToCome
<1>3. \A s \in Clients : /\ toClient[s] \o ToCome(s) = toClient[s]
                         /\ toClient'[s] \o ToCome(s)' = toClient'[s]
  BY <1>1, <1>2, ConcatEmptySeq
<1> QED  BY <1>1, <1>3 DEF sent

(* The first step of a walk is the atomic handler of PUBLISH.               *)
LEMMA BeginIsHandling ==
    ASSUME ForwardInv, NEW c \in Clients, BeginForward(c)
    PROVE  Atomic!HandlePublish(c)
<1> DEFINE m == Request(c)
           copy == get_content_to_publish(c, m)
<1>0. ServerInv /\ StateInv /\ WalkInv /\ toClient \in [Clients -> Seq(Replies)]
  BY DEF ForwardInv, ServerInv, NetworkTypeOK
<1>1. /\ ~Walking /\ Handles(c, "PUBLISH") /\ c \in clients
      /\ publisher' = c /\ message' = m
      /\ patternCursor' = zlist_first(patterns) /\ clientCursor' = 0
      /\ UNCHANGED <<up, clients, identifier, patterns, toClient>>
  BY DEF BeginForward, serverState
<1>2. \A s \in Clients : sent[s] = toClient[s]
  <2>1. \A s \in Clients : ToCome(s) = <<>>
    BY <1>1 DEF ToCome
  <2> QED  BY <1>0, <2>1, ConcatEmptySeq DEF sent
<1>3. ASSUME NEW s \in Clients
      PROVE  ToCome(s)' = IF s = c THEN <<>> ELSE Copies(Cardinality(Places(s, m.address)), copy)
  <2> DEFINE P == Places(s, m.address)
  <2>1. CASE s = c
    BY <1>1, <2>1 DEF ToCome
  <2>2. CASE s # c
    <3>1. publisher' # NoClient
      BY <1>1, ForwardAssumption
    <3>2. copyAtHand' = copy
      BY <1>1 DEF copyAtHand, get_content_to_publish
    <3>3. \A q \in P : q[1] \in 1..Len(patterns) /\ q[1] \in Nat /\ q[2] \in Nat
      <4> TAKE q \in P
      <4>1. /\ q[1] \in 1..Len(patterns) /\ q[1] \in DOMAIN patterns
            /\ q[2] \in 1..Len(patterns[q[1]].clients)
        BY <1>0, PlacesShape
      <4> QED  BY <1>0, <4>1, PatternsShape
    <3>4. Places(s, message.address)' = P
      BY <1>1 DEF Places
    <3>5. Ahead(s)' = {q \in P : \/ q[1] > patternCursor'
                                 \/ q[1] = patternCursor' /\ q[2] >= clientCursor'}
      BY <3>4 DEF Ahead
    <3>6. CASE patterns = <<>>
      <4>1. patternCursor' = 0 /\ Len(patterns) = 0
        BY <1>1, <3>6, EmptySeq DEF zlist_first
      <4>2. P = {}
        <5> HIDE DEF P
        <5> QED  BY <3>3, <4>1
      <4>3. Cardinality(P) = 0
        BY <4>2, FS_EmptySet
      <4>4. Copies(Cardinality(P), copy) = <<>>
        BY <4>3, CopiesProperties
      <4> QED  BY <2>2, <4>1, <4>4 DEF ToCome
    <3>7. CASE patterns # <<>>
      <4>1. patternCursor' = 1 /\ patternCursor' # 0
        BY <1>1, <3>7 DEF zlist_first
      <4>2. Ahead(s)' = P
        <5> HIDE DEF P
        <5>1. \A q \in P : \/ q[1] > patternCursor'
                           \/ q[1] = patternCursor' /\ q[2] >= clientCursor'
          BY <1>1, <3>3, <4>1
        <5> QED  BY <3>5, <5>1
      <4>3. ToCome(s)' = Copies(Cardinality(Ahead(s)'), copyAtHand')
        BY <1>1, <2>2, <3>1, <4>1 DEF ToCome, Walking, Copies, copyAtHand
      <4> QED  BY <2>2, <3>2, <4>2, <4>3
    <3> QED  BY <3>6, <3>7
  <2> QED  BY <2>1, <2>2
<1>4. sent' = [s \in Clients |->
                 IF s = c THEN sent[s]
                 ELSE sent[s] \o [k \in 1..Cardinality(Places(s, m.address)) |-> copy]]
  <2>1. sent' = [s \in Clients |-> toClient[s] \o ToCome(s)']
    BY <1>1 DEF sent
  <2>2. ASSUME NEW s \in Clients
        PROVE  toClient[s] \o ToCome(s)' =
                 IF s = c THEN sent[s]
                 ELSE sent[s] \o [k \in 1..Cardinality(Places(s, m.address)) |-> copy]
    <3>1. toClient[s] \o <<>> = toClient[s]
      BY <1>0, ConcatEmptySeq
    <3> QED  BY <1>2, <1>3, <3>1 DEF Copies
  <2> HIDE DEF m, copy
  <2> QED  BY <2>1, <2>2
<1>5. Atomic!forward_to_subscribers(c, Atomic!Request(c))
  <2>1. \A S : Atomic!Cardinality(S) = Cardinality(S)
    BY DEF Atomic!Cardinality, Cardinality
  <2>2. sent' = [s \in Clients |->
                 IF s = c THEN sent[s]
                 ELSE sent[s] \o [k \in 1..Atomic!Cardinality(Atomic!Places(s, m.address)) |->
                                    Atomic!get_content_to_publish(c, m)]]
    <3> HIDE DEF m
    <3> QED  BY <1>4, <2>1, SameParts
  <2>3. Atomic!Request(c) = m
    BY SameParts
  <2> HIDE DEF m
  <2> QED  BY <2>2, <2>3 DEF Atomic!forward_to_subscribers, sent
<1>6. UNCHANGED Atomic!serverState
  BY <1>1, SameParts DEF serverState
<1> QED  BY <1>1, <1>5, <1>6, SameParts DEF Atomic!HandlePublish

(* The handlers that do not walk are those of the atomic broker.            *)
LEMMA OthersAreAtomic ==
    ASSUME ForwardInv, ServerInv', Between,
           (\E c \in Clients : OtherHandler(c)) \/ ServerStop \/ ServerStart
    PROVE  Atomic!ServerNext
<1>1. sent = toClient /\ sent' = toClient'
  BY BetweenWalks DEF ForwardInv, Between
<1>2. \A c, m : Atomic!SendReply(c, m) <=> SendReply(c, m)
  BY <1>1, SameParts DEF SendReply
<1>3. UNCHANGED Atomic!channels <=> UNCHANGED channels
  BY <1>1, SameParts DEF channels
<1>4. UNCHANGED toClient => UNCHANGED sent
  BY <1>1
<1>5. ASSUME NEW c \in Clients, OtherHandler(c)
      PROVE  Atomic!HandleMessage(c) \/ Atomic!HandleTimeout(c)
  <2>1. HandleHello(c) => Atomic!HandleHello(c)
    BY <1>2, SameParts DEF HandleHello, Atomic!HandleHello
  <2>2. HandleSubscribe(c) => Atomic!HandleSubscribe(c)
    BY <1>2, SameParts DEF HandleSubscribe, Atomic!HandleSubscribe
  <2>3. HandleDirect(c) => Atomic!HandleDirect(c)
    BY <1>4, SameParts DEF HandleDirect, Atomic!HandleDirect, serverState, sent
  <2>4. HandleGoodbye(c) => Atomic!HandleGoodbye(c)
    BY <1>2, SameParts DEF HandleGoodbye, Atomic!HandleGoodbye
  <2>5. HandleInvalid(c) => Atomic!HandleInvalid(c)
    BY <1>2, SameParts DEF HandleInvalid, Atomic!HandleInvalid
  <2>6. HandleUndecodable(c) => Atomic!HandleUndecodable(c)
    BY <1>4, SameParts DEF HandleUndecodable, Atomic!HandleUndecodable, sent
  <2>7. HandleTimeout(c) => Atomic!HandleTimeout(c)
    BY <1>3, SameParts DEF HandleTimeout, Atomic!HandleTimeout
  <2> QED  BY <1>5, <2>1, <2>2, <2>3, <2>4, <2>5, <2>6, <2>7 DEF OtherHandler, Atomic!HandleMessage
<1>6. ServerStop => Atomic!ServerStop
  BY <1>3, SameParts DEF ServerStop, Atomic!ServerStop
<1>7. ServerStart => Atomic!ServerStart
  BY <1>3, SameParts DEF ServerStart, channels
<1> QED  BY <1>5, <1>6, <1>7 DEF Atomic!ServerNext

(* The peers move as among the atomic broker, whose copies may all wait.    *)
LEMMA PeersAreAtomic ==
    ASSUME ForwardInv, ServerInv', NEW c \in Clients,
           PeerSends(c) \/ PeerReceives(c) \/ MessageLost(c), UNCHANGED walk
    PROVE  Atomic!PeerSends(c) \/ Atomic!PeerReceives(c) \/ Atomic!MessageLost(c)
<1>0. /\ ServerInv /\ WalkInv /\ UNCHANGED serverState
      /\ toClient \in [Clients -> Seq(Replies)]
  BY DEF ForwardInv, ServerInv, NetworkTypeOK, PeerSends, PeerReceives, MessageLost
<1>1. \A s \in Clients : /\ ToCome(s) \in Seq(Replies) /\ ToCome(s)' = ToCome(s)
                         /\ Len(ToCome(s)) \in Nat /\ Len(ToCome(s)) <= Cardinality(Exprs)
  <2> TAKE s \in Clients
  <2>1. ToCome(s)' = ToCome(s)
    BY <1>0 DEF ToCome, Ahead, Places, Walking, walk, serverState, get_content_to_publish
  <2> QED  BY <1>0, <2>1, ToComeNow
<1>2. CASE PeerSends(c)
  <2>1. /\ Len(toServer[c]) < MaxRequests /\ \A s \in Clients : Len(toClient[s]) <= MaxReplies
        /\ \E m \in Requests : SendRequest(c, m)
        /\ UNCHANGED serverState /\ UNCHANGED toClient
    BY <1>2 DEF PeerSends
  <2>2. sent' = sent
    BY <1>1, <2>1 DEF sent
  <2>3. \A s \in Clients : Len(sent[s]) <= MaxReplies + Cardinality(Exprs)
    <3> TAKE s \in Clients
    <3>1. /\ Len(toClient[s]) <= MaxReplies /\ Len(toClient[s]) \in Nat
          /\ Len(ToCome(s)) <= Cardinality(Exprs) /\ Len(ToCome(s)) \in Nat
          /\ MaxReplies \in Nat /\ Cardinality(Exprs) \in Nat
      BY <1>0, <1>1, <2>1, LenProperties, ForwardAssumption, FS_CardinalityType
    <3>2. Len(sent[s]) = Len(toClient[s]) + Len(ToCome(s))
      BY <1>0, <1>1, ConcatProperties DEF sent
    <3> QED  BY <3>1, <3>2
  <2>4. Atomic!Cardinality(Exprs) = Cardinality(Exprs)
    BY DEF Atomic!Cardinality, Cardinality
  <2> QED  BY <2>1, <2>2, <2>3, SameParts DEF Atomic!PeerSends, sent
<1>3. CASE PeerReceives(c)
  <2>1. /\ toClient[c] # <<>> /\ toClient' = [toClient EXCEPT ![c] = Tail(toClient[c])]
        /\ UNCHANGED serverState /\ UNCHANGED toServer
    BY <1>3 DEF PeerReceives, TakeReply
  <2>2. /\ toClient[c] \o ToCome(c) # <<>>
        /\ Tail(toClient[c] \o ToCome(c)) = Tail(toClient[c]) \o ToCome(c)
    BY <1>0, <1>1, <2>1, TailOfConcat
  <2>3. sent[c] # <<>> /\ sent' = [sent EXCEPT ![c] = Tail(sent[c])]
    BY <1>0, <1>1, <2>1, <2>2 DEF sent
  <2>4. Atomic!TakeReply(c)
    BY <2>3 DEF Atomic!TakeReply, sent
  <2> QED  BY <2>1, <2>4, SameParts DEF Atomic!PeerReceives
<1>4. CASE MessageLost(c)
  <2>1. ~up /\ (LoseRequest(c) \/ LoseReply(c)) /\ UNCHANGED serverState
    BY <1>4 DEF MessageLost
  <2>2. sent = toClient /\ sent' = toClient'
    BY <1>0, <2>1, BetweenWalks DEF WalkInv
  <2>3. LoseRequest(c) => Atomic!LoseRequest(c)
    BY <2>2, SameParts DEF LoseRequest, Atomic!LoseRequest, sent
  <2>4. LoseReply(c) => Atomic!LoseReply(c)
    <3>1. LoseReply(c) =>
             /\ sent[c] # <<>>
             /\ sent' = [sent EXCEPT ![c] = SubSeq(@, 1, Len(@) - 1)]
             /\ UNCHANGED toServer
      BY <2>2 DEF LoseReply
    <3> QED  BY <3>1 DEF Atomic!LoseReply, sent
  <2> QED  BY <2>1, <2>3, <2>4, SameParts DEF Atomic!MessageLost
<1> QED  BY <1>2, <1>3, <1>4

(* Every step of the broker that walks is one of the atomic broker, or one  *)
(* that leaves it as it is.                                                 *)
THEOREM WalkStep == ForwardInv /\ [ForwardNext]_forwardVars => [Atomic!Next]_Atomic!serverVars
<1> SUFFICES ASSUME ForwardInv, [ForwardNext]_forwardVars
             PROVE  [Atomic!Next]_Atomic!serverVars
  OBVIOUS
<1>0. ServerInv /\ ForwardInv' /\ ServerInv'
  <2>1. ForwardInv'
    BY ForwardInvStep
  <2> QED  BY <2>1 DEF ForwardInv
<1>s. ASSUME UNCHANGED <<serverState, toServer>>, sent' = sent
      PROVE  UNCHANGED Atomic!serverVars
  BY <1>s, SameParts DEF Atomic!serverVars
<1>1. ASSUME NEW c \in Clients, BeginForward(c)  PROVE Atomic!Next
  BY <1>1, BeginIsHandling DEF Atomic!Next, Atomic!ServerNext, Atomic!HandleMessage
<1>2. CASE VisitPattern \/ VisitClient
  <2>1. UNCHANGED <<serverState, toServer>>
    BY <1>2 DEF VisitPattern, VisitClient, serverVars, channels
  <2> QED  BY <1>2, <1>s, <2>1, VisitPatternStutters, VisitClientStutters
<1>3. CASE EndForward
  <2>1. /\ UNCHANGED <<serverState, toServer, toClient, patternCursor>> /\ patternCursor = 0
    BY <1>3 DEF EndForward, serverVars, channels
  <2>2. \A s \in Clients : ToCome(s) = <<>> /\ ToCome(s)' = <<>>
    BY <2>1 DEF ToCome
  <2>3. sent' = sent
    BY <2>1, <2>2 DEF sent
  <2> QED  BY <1>s, <2>1, <2>3
<1>4. ASSUME NEW c \in Clients, OtherHandler(c) /\ Between  PROVE Atomic!Next
  BY <1>0, <1>4, OthersAreAtomic DEF Atomic!Next
<1>5. CASE (ServerStop \/ ServerStart) /\ Between
  BY <1>0, <1>5, OthersAreAtomic DEF Atomic!Next
<1>6. ASSUME NEW c \in Clients, PeerSends(c) \/ PeerReceives(c) \/ MessageLost(c), UNCHANGED walk
      PROVE  Atomic!Next
  BY <1>0, <1>6, PeersAreAtomic DEF Atomic!Next
<1>7. CASE UNCHANGED forwardVars
  <2>1. UNCHANGED <<serverState, toServer, toClient, walk>>
    BY <1>7 DEF forwardVars, serverVars, channels
  <2>2. \A s \in Clients : ToCome(s)' = ToCome(s)
    BY <2>1 DEF ToCome, Ahead, Places, Walking, walk, serverState, get_content_to_publish
  <2>3. sent' = sent
    BY <2>1, <2>2 DEF sent
  <2> QED  BY <1>s, <2>1, <2>3
<1> QED
  BY <1>1, <1>2, <1>3, <1>4, <1>5, <1>6, <1>7 DEF ForwardNext

(* It starts as the atomic broker does.                                     *)
THEOREM WalkInit == ForwardInit => Atomic!ServerInit
<1> SUFFICES ASSUME ForwardInit  PROVE Atomic!ServerInit
  OBVIOUS
<1>1. ServerInit /\ NetworkInit /\ ~Walking
  BY DEF ForwardInit, ServerInit, Walking
<1>2. sent = [c \in Clients |-> <<>>]
  <2>1. \A s \in Clients : toClient[s] \o ToCome(s) = <<>>
    <3> TAKE s \in Clients
    <3>1. toClient[s] = <<>> /\ ToCome(s) = <<>>
      BY <1>1 DEF NetworkInit, ToCome
    <3> QED  BY <3>1, ConcatEmptySeq, EmptySeq
  <2> QED  BY <2>1 DEF sent
<1>3. Atomic!NetworkInit
  BY <1>1, <1>2 DEF NetworkInit, Atomic!NetworkInit, sent
<1> QED  BY <1>1, <1>3 DEF ServerInit, Atomic!ServerInit

(* The two loops of forward_to_subscribers, with all that the peers do      *)
(* meanwhile, are as good as one step.                                      *)
THEOREM WalkIsAtomic == ForwardSpec => ImplementsHandlers
BY ForwardInvAlways, WalkInit, WalkStep, PTL
   DEF ForwardSpec, ImplementsHandlers, Atomic!ServerSpec
=============================================================================
