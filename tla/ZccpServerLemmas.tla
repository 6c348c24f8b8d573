--------------------------- MODULE ZccpServerLemmas ---------------------------
(***************************************************************************)
(* What the handlers and operations of the broker (ZccpServer) do to its   *)
(* records, lists and streams, whoever its peers are: shared by the proofs *)
(* about the broker alone and about the whole system.                      *)
(***************************************************************************)
EXTENDS ZccpServer, SequenceTheorems, FiniteSetTheorems, TLAPS

(* The inductive invariant: the three facts about the pattern lists need    *)
(* each other.  A destroyed record leaves no pointer behind only because it *)
(* is on each list once, and the search of store_new_subscription, which    *)
(* stops at the first pattern, sees all entries of an expression only       *)
(* because expressions are distinct.                                        *)
ListsSound == SubscribersRegistered /\ DistinctPatterns /\ NoDuplicateSubscribers

StateInv ==
    /\ up \in BOOLEAN
    /\ clients \subseteq Clients
    /\ identifier \in [Clients -> Identifiers]
    /\ patterns \in Seq(Pattern)
    /\ ListsSound

ServerInv == NetworkTypeOK /\ StateInv

-----------------------------------------------------------------------------
(* zlist_remove on a list without duplicates removes exactly its argument.  *)
LEMMA RemoveFirstProperties ==
    ASSUME NEW S, NEW s \in Seq(S), NEW e, IsInjective(s)
    PROVE  /\ RemoveFirst(s, e) \in Seq(S)
           /\ IsInjective(RemoveFirst(s, e))
           /\ ToSet(RemoveFirst(s, e)) = ToSet(s) \ {e}
<1>1. CASE ~ \E i \in 1..Len(s) : s[i] = e
  <2>1. RemoveFirst(s, e) = s
    BY <1>1 DEF RemoveFirst
  <2>2. e \notin ToSet(s)
    BY <1>1 DEF ToSet
  <2> QED  BY <2>1, <2>2
<1>2. CASE \E i \in 1..Len(s) : s[i] = e
  <2>1. PICK i \in 1..Len(s) : s[i] = e
    BY <1>2
  <2> DEFINE t == RemoveAt(s, i)
  <2>2. RemoveFirst(s, e) = t
    <3>1. {j \in 1..Len(s) : s[j] = e} = {i}
      BY <2>1 DEF IsInjective
    <3>2. SelectInSeq(s, LAMBDA v : v = e) = i
      BY <3>1 DEF SelectInSeq, Min
    <3> QED  BY <1>2, <3>2 DEF RemoveFirst
  <2> DEFINE left == SubSeq(s, 1, i - 1)
             right == SubSeq(s, i + 1, Len(s))
  <2>3. /\ left \in Seq(S) /\ Len(left) = i - 1
        /\ \A j \in 1..(i - 1) : left[j] = s[j]
    BY SubSeqProperties, LenProperties
  <2>4. /\ right \in Seq(S) /\ Len(right) = Len(s) - i
        /\ \A j \in 1..(Len(s) - i) : right[j] = s[j + i]
    BY SubSeqProperties, LenProperties
  <2>5. /\ t \in Seq(S) /\ Len(t) = Len(s) - 1 /\ DOMAIN t = 1..(Len(s) - 1)
        /\ \A j \in 1..(Len(s) - 1) : t[j] = IF j < i THEN s[j] ELSE s[j + 1]
    <3>1. t = left \o right
      BY DEF RemoveAt
    <3>2. Len(s) \in Nat /\ i \in 1..Len(s)
      BY LenProperties
    <3> HIDE DEF t, left, right
    <3>3. /\ t \in Seq(S)
          /\ Len(t) = Len(left) + Len(right)
          /\ \A j \in 1..(Len(left) + Len(right)) :
                t[j] = IF j <= Len(left) THEN left[j] ELSE right[j - Len(left)]
      BY <3>1, <2>3, <2>4, ConcatProperties
    <3>4. Len(t) = Len(s) - 1 /\ DOMAIN t = 1..(Len(s) - 1)
      BY <3>2, <3>3, <2>3, <2>4, LenProperties
    <3>5. ASSUME NEW j \in 1..(Len(s) - 1)
          PROVE  t[j] = IF j < i THEN s[j] ELSE s[j + 1]
      <4>. i \in Int /\ j \in Int /\ Len(s) \in Int /\ 1 <= j /\ j <= Len(s) - 1
           /\ 1 <= i /\ i <= Len(s)
        BY <3>2
      <4>a. t[j] = IF j <= i - 1 THEN left[j] ELSE right[j - (i - 1)]
        <5>1. j \in 1..(Len(left) + Len(right))
          BY <2>3, <2>4
        <5> QED  BY <5>1, <3>3, <2>3
      <4>1. CASE j < i
        <5>1. j \in 1..(i - 1) /\ j <= i - 1
          BY <4>1
        <5> QED  BY <4>1, <5>1, <4>a, <2>3
      <4>2. CASE j >= i
        <5>1. t[j] = right[j - (i - 1)] /\ j - (i - 1) \in 1..(Len(s) - i)
          BY <4>2, <4>a
        <5>2. right[j - (i - 1)] = s[(j - (i - 1)) + i]
          BY <5>1, <2>4
        <5>3. (j - (i - 1)) + i = j + 1
          BY <3>2
        <5> QED  BY <4>2, <5>1, <5>2, <5>3, <3>2
      <4> QED  BY <4>1, <4>2, <3>2
    <3> QED  BY <3>3, <3>4, <3>5
  <2> HIDE DEF t
  <2>6. IsInjective(t)
    <3>1. Len(s) \in Nat /\ DOMAIN s = 1..Len(s)
      BY LenProperties
    <3>2. SUFFICES ASSUME NEW a \in 1..(Len(s) - 1), NEW b \in 1..(Len(s) - 1),
                          t[a] = t[b]
                   PROVE  a = b
      BY <2>5 DEF IsInjective
    <3> DEFINE place(j) == IF j < i THEN j ELSE j + 1
    <3>3. s[place(a)] = s[place(b)] /\ place(a) \in 1..Len(s) /\ place(b) \in 1..Len(s)
      BY <2>5, <3>1, <3>2
    <3>4. place(a) = place(b)
      BY <3>1, <3>3 DEF IsInjective
    <3> QED  BY <3>4, <3>1
  <2>7. ToSet(t) = ToSet(s) \ {e}
    <3>1. ASSUME NEW x \in ToSet(t)  PROVE x \in ToSet(s) \ {e}
      BY <3>1, <2>1, <2>5, LenProperties DEF ToSet, IsInjective
    <3>2. ASSUME NEW x \in ToSet(s) \ {e}  PROVE x \in ToSet(t)
      <4>1. PICK j \in 1..Len(s) : s[j] = x
        BY <3>2 DEF ToSet
      <4>2. CASE j < i
        BY <4>1, <4>2, <2>1, <2>5, LenProperties DEF ToSet
      <4>3. CASE j > i
        <5>1. j - 1 \in 1..Len(t) /\ t[j - 1] = x
          BY <4>1, <4>3, <2>1, <2>5, LenProperties
        <5> QED  BY <5>1, <2>5, LenProperties DEF ToSet
      <4> QED  BY <4>1, <4>2, <4>3, <3>2, <2>1, LenProperties
    <3> QED  BY <3>1, <3>2
  <2> QED  BY <2>2, <2>5, <2>6, <2>7
<1> QED  BY <1>1, <1>2

-----------------------------------------------------------------------------
(* Contains, by which zlist_exists is modelled, is membership.              *)
LEMMA ContainsIsMembership ==
    ASSUME NEW S, NEW s \in Seq(S), NEW x
    PROVE  Contains(s, x) <=> x \in ToSet(s)
BY LenProperties DEF Contains, ToSet

(* The lists, entry by entry.                                               *)
LEMMA PatternsShape ==
    ASSUME StateInv
    PROVE  /\ Len(patterns) \in Nat /\ DOMAIN patterns = 1..Len(patterns)
           /\ \A i \in DOMAIN patterns :
                 /\ patterns[i] \in Pattern /\ patterns[i].expression \in Exprs
                 /\ patterns[i].clients \in Seq(Clients)
                 /\ Len(patterns[i].clients) \in Nat
                 /\ DOMAIN patterns[i].clients = 1..Len(patterns[i].clients)
<1>1. patterns \in Seq(Pattern)
  BY DEF StateInv
<1>2. Len(patterns) \in Nat /\ DOMAIN patterns = 1..Len(patterns)
  BY <1>1, LenProperties
<1>3. ASSUME NEW i \in DOMAIN patterns
      PROVE  /\ patterns[i] \in Pattern /\ patterns[i].expression \in Exprs
             /\ patterns[i].clients \in Seq(Clients)
             /\ Len(patterns[i].clients) \in Nat
             /\ DOMAIN patterns[i].clients = 1..Len(patterns[i].clients)
  <2>1. patterns[i] \in Pattern
    BY <1>1, <1>2, ElementOfSeq
  <2>2. patterns[i].expression \in Exprs /\ patterns[i].clients \in Seq(Clients)
    BY <2>1 DEF Pattern
  <2> QED  BY <2>1, <2>2, LenProperties
<1> QED  BY <1>2, <1>3

(* client_terminate and the removal from the table keep the lists sound,    *)
(* and take the client's own subscriptions away, nobody else's.             *)
LEMMA DestroyEffect ==
    ASSUME StateInv, NEW c \in Clients, s_client_destroy(c)
    PROVE  /\ StateInv'
           /\ \A x \in Clients : Subscriptions(x)' = IF x = c THEN {} ELSE Subscriptions(x)
<1> DEFINE kept(i) == RemoveFirst(patterns[i].clients, c)
<1>1. /\ Len(patterns) \in Nat /\ DOMAIN patterns = 1..Len(patterns)
      /\ \A i \in DOMAIN patterns :
            /\ patterns[i] \in Pattern /\ patterns[i].expression \in Exprs
            /\ patterns[i].clients \in Seq(Clients)
            /\ Len(patterns[i].clients) \in Nat
            /\ DOMAIN patterns[i].clients = 1..Len(patterns[i].clients)
  BY PatternsShape
<1>2. \A i \in DOMAIN patterns :
         /\ kept(i) \in Seq(Clients)
         /\ IsInjective(kept(i))
         /\ ToSet(kept(i)) = ToSet(patterns[i].clients) \ {c}
  BY <1>1, RemoveFirstProperties DEF StateInv, ListsSound, NoDuplicateSubscribers
<1> HIDE DEF kept
<1>3. patterns' = [i \in DOMAIN patterns |-> [patterns[i] EXCEPT !.clients = kept(i)]]
  BY DEF s_client_destroy, client_terminate, kept
<1>4. /\ DOMAIN patterns' = DOMAIN patterns
      /\ \A i \in DOMAIN patterns :
            /\ patterns'[i] \in Pattern
            /\ patterns'[i].expression = patterns[i].expression
            /\ patterns'[i].clients = kept(i)
  BY <1>1, <1>2, <1>3 DEF Pattern
<1>5. patterns' \in Seq(Pattern)
  <2>1. patterns' \in [1..Len(patterns) -> Pattern]
    BY <1>1, <1>3, <1>4
  <2> QED  BY <1>1, <2>1, SeqDef
<1>6. SubscribersRegistered'
  BY <1>2, <1>4 DEF SubscribersRegistered, StateInv, ListsSound, s_client_destroy
<1>7. DistinctPatterns'
  BY <1>4 DEF DistinctPatterns, StateInv, ListsSound
<1>8. NoDuplicateSubscribers'
  BY <1>2, <1>4 DEF NoDuplicateSubscribers
<1>9. StateInv'
  <2>1. up' \in BOOLEAN /\ clients' \subseteq Clients
    BY DEF StateInv, s_client_destroy
  <2>2. identifier' \in [Clients -> Identifiers]
    BY NetworkAssumption DEF StateInv, s_client_destroy
  <2> QED  BY <2>1, <2>2, <1>5, <1>6, <1>7, <1>8 DEF StateInv, ListsSound
<1>10. ASSUME NEW x \in Clients
       PROVE  Subscriptions(x)' = IF x = c THEN {} ELSE Subscriptions(x)
  <2>1. \A i \in DOMAIN patterns :
           Contains(patterns'[i].clients, x) <=> Contains(patterns[i].clients, x) /\ x # c
    BY <1>1, <1>2, <1>4, ContainsIsMembership
  <2> QED  BY <2>1, <1>4 DEF Subscriptions
<1> QED  BY <1>9, <1>10

(* store_new_subscription adds one subscription and keeps the lists sound.  *)
LEMMA StoreEffect ==
    ASSUME StateInv, NEW c \in clients, NEW e \in Exprs,
           store_new_subscription(c, e), UNCHANGED <<up, clients, identifier>>
    PROVE  /\ StateInv'
           /\ \A x \in Clients :
                 Subscriptions(x)' = Subscriptions(x) \cup (IF x = c THEN {e} ELSE {})
<1>1. /\ Len(patterns) \in Nat /\ DOMAIN patterns = 1..Len(patterns)
      /\ \A i \in DOMAIN patterns :
            /\ patterns[i] \in Pattern /\ patterns[i].expression \in Exprs
            /\ patterns[i].clients \in Seq(Clients)
            /\ Len(patterns[i].clients) \in Nat
            /\ DOMAIN patterns[i].clients = 1..Len(patterns[i].clients)
      /\ c \in Clients
  BY PatternsShape DEF StateInv
<1>2. CASE /\ \A i \in DOMAIN patterns : patterns[i].expression # e
           /\ patterns' = Append(patterns, [expression |-> e, clients |-> <<c>>])
  <2> DEFINE new == [expression |-> e, clients |-> <<c>>]
  <2>1. new \in Pattern /\ IsInjective(new.clients) /\ ToSet(new.clients) = {c}
    BY <1>1 DEF Pattern, IsInjective, ToSet
  <2>2. \A x : Contains(new.clients, x) <=> x = c
    BY DEF Contains
  <2>3. new.expression = e
    OBVIOUS
  <2> HIDE DEF new
  <2>4. /\ patterns' \in Seq(Pattern)
        /\ DOMAIN patterns' = 1..(Len(patterns) + 1)
        /\ \A i \in DOMAIN patterns : patterns'[i] = patterns[i]
        /\ patterns'[Len(patterns) + 1] = new
    BY <1>1, <1>2, <2>1, AppendProperties, LenProperties DEF StateInv, new
  <2>5. SubscribersRegistered'
    BY <1>1, <2>1, <2>4 DEF SubscribersRegistered, StateInv, ListsSound
  <2>6. DistinctPatterns'
    BY <1>1, <1>2, <2>3, <2>4 DEF DistinctPatterns, StateInv, ListsSound
  <2>7. NoDuplicateSubscribers'
    BY <1>1, <2>1, <2>4 DEF NoDuplicateSubscribers, StateInv, ListsSound
  <2>8. ASSUME NEW x \in Clients
        PROVE  Subscriptions(x)' = Subscriptions(x) \cup (IF x = c THEN {e} ELSE {})
    BY <1>1, <2>2, <2>3, <2>4 DEF Subscriptions
  <2> QED  BY <2>4, <2>5, <2>6, <2>7, <2>8 DEF StateInv, ListsSound
<1>3. CASE \E i \in DOMAIN patterns :
              /\ IsPatternOf(i, e)
              /\ IF Contains(patterns[i].clients, c)
                 THEN UNCHANGED patterns
                 ELSE patterns' = [patterns EXCEPT ![i].clients = Append(@, c)]
  <2>1. PICK i \in DOMAIN patterns :
              /\ patterns[i].expression = e
              /\ IF Contains(patterns[i].clients, c)
                 THEN UNCHANGED patterns
                 ELSE patterns' = [patterns EXCEPT ![i].clients = Append(@, c)]
    BY <1>3 DEF IsPatternOf
  <2>2. CASE Contains(patterns[i].clients, c) /\ UNCHANGED patterns
    <3>1. \A x \in Clients : Subscriptions(x)' = Subscriptions(x)
      BY <2>2 DEF Subscriptions
    <3>2. e \in Subscriptions(c)
      BY <2>1, <2>2 DEF Subscriptions
    <3>3. StateInv'
      BY <2>2 DEF StateInv, ListsSound, SubscribersRegistered, DistinctPatterns,
                  NoDuplicateSubscribers
    <3> QED  BY <3>1, <3>2, <3>3
  <2>3. CASE /\ ~ Contains(patterns[i].clients, c)
             /\ patterns' = [patterns EXCEPT ![i].clients = Append(@, c)]
    <3> DEFINE old == patterns[i].clients
               longer == Append(old, c)
    <3>1. /\ longer \in Seq(Clients)
          /\ DOMAIN longer = 1..(Len(old) + 1)
          /\ \A j \in 1..Len(old) : longer[j] = old[j]
          /\ longer[Len(old) + 1] = c
      BY <1>1, <2>1, AppendProperties, LenProperties
    <3>1a. Len(longer) = Len(old) + 1
      BY <1>1, <2>1, AppendProperties
    <3>2. ToSet(longer) = ToSet(old) \cup {c}
      BY <1>1, <2>1, <3>1 DEF ToSet
    <3>3. IsInjective(longer)
      <4>1. IsInjective(old)
        BY <2>1 DEF StateInv, ListsSound, NoDuplicateSubscribers
      <4>2. \A j \in 1..Len(old) : old[j] # c
        BY <2>3 DEF Contains
      <4>3. Len(old) \in Nat /\ DOMAIN old = 1..Len(old)
        BY <1>1, <2>1
      <4> HIDE DEF old, longer
      <4> SUFFICES ASSUME NEW a \in 1..(Len(old) + 1), NEW b \in 1..(Len(old) + 1),
                          longer[a] = longer[b]
                   PROVE  a = b
        BY <3>1 DEF IsInjective
      <4>4. CASE a \in 1..Len(old) /\ b \in 1..Len(old)
        BY <3>1, <4>1, <4>3, <4>4 DEF IsInjective
      <4>5. CASE a = Len(old) + 1 \/ b = Len(old) + 1
        <5>1. longer[a] = c /\ longer[b] = c
          BY <3>1, <4>5
        <5> QED  BY <5>1, <3>1, <4>2, <4>3
      <4> QED  BY <4>3, <4>4, <4>5
    <3>4. \A x : Contains(longer, x) <=> Contains(old, x) \/ x = c
      BY <1>1, <2>1, <3>1, <3>1a DEF Contains
    <3> HIDE DEF longer
    <3>5. /\ DOMAIN patterns' = DOMAIN patterns
          /\ patterns' = [patterns EXCEPT ![i] = [patterns[i] EXCEPT !.clients = longer]]
          /\ patterns'[i].clients = longer
          /\ patterns'[i].expression = patterns[i].expression
          /\ patterns'[i] \in Pattern
          /\ \A j \in DOMAIN patterns : j # i => patterns'[j] = patterns[j]
      BY <1>1, <2>1, <2>3, <3>1 DEF Pattern, longer
    <3>6. patterns' \in Seq(Pattern)
      BY <1>1, <3>5, ExceptSeq DEF StateInv
    <3>7. SubscribersRegistered'
      BY <3>2, <3>5 DEF SubscribersRegistered, StateInv, ListsSound
    <3>8. DistinctPatterns'
      BY <3>5 DEF DistinctPatterns, StateInv, ListsSound
    <3>9. NoDuplicateSubscribers'
      BY <3>3, <3>5 DEF NoDuplicateSubscribers, StateInv, ListsSound
    <3>10. ASSUME NEW x \in Clients
           PROVE  Subscriptions(x)' = Subscriptions(x) \cup (IF x = c THEN {e} ELSE {})
      <4>1. \A j \in DOMAIN patterns :
               /\ patterns'[j].expression = patterns[j].expression
               /\ Contains(patterns'[j].clients, x) <=>
                    Contains(patterns[j].clients, x) \/ (j = i /\ x = c)
        BY <3>4, <3>5
      <4> QED  BY <2>1, <3>5, <4>1 DEF Subscriptions
    <3> QED  BY <3>6, <3>7, <3>8, <3>9, <3>10 DEF StateInv, ListsSound
  <2> QED  BY <2>1, <2>2, <2>3
<1> QED  BY <1>2, <1>3 DEF store_new_subscription

-----------------------------------------------------------------------------
(* The number of forward_events that forward_to_subscribers executes on     *)
(* client s is the number of its subscriptions that match: the map from     *)
(* list positions to expressions is one to one, as expressions are distinct *)
(* and lists have no duplicates.                                            *)
Matching(s, a) == {e \in Subscriptions(s) : a \in Matches[e]}

(* The list positions of s under matching patterns are as many as its       *)
(* matching subscriptions: forward_to_subscribers sends one copy for each.  *)
LEMMA PlacesCount ==
    ASSUME StateInv, NEW s \in Clients, NEW a
    PROVE  /\ IsFiniteSet(Places(s, a))
           /\ Cardinality(Places(s, a)) \in Nat
           /\ Cardinality(Places(s, a)) = Cardinality(Matching(s, a))
<1> DEFINE P == Places(s, a)
           D == DOMAIN patterns
           listed(i, j) == /\ i \in D /\ a \in Matches[patterns[i].expression]
                           /\ j \in DOMAIN patterns[i].clients
                           /\ patterns[i].clients[j] = s
<1>1. \A p \in P : /\ p = <<p[1], p[2]>> /\ listed(p[1], p[2])
  BY DEF Places
<1>2. \A i, j : listed(i, j) => <<i, j>> \in P
  BY DEF Places
<1>3. \A i, j, k : listed(i, j) /\ listed(i, k) => j = k
  BY DEF StateInv, ListsSound, NoDuplicateSubscribers, IsInjective
<1>4. \A i, j, k, l : /\ listed(i, j) /\ listed(k, l)
                      /\ patterns[i].expression = patterns[k].expression
                      => i = k
  BY DEF StateInv, ListsSound, DistinctPatterns
<1>5. \A e : e \in Matching(s, a) <=> \E i, j : listed(i, j) /\ patterns[i].expression = e
  BY PatternsShape DEF Matching, Subscriptions, Contains
<1> HIDE DEF P, listed
<1>6. IsFiniteSet(P)
  <2> DEFINE first == [p \in P |-> p[1]]
  <2>1. first \in [P -> D]
    BY <1>1 DEF listed
  <2>2. \A p, q \in P : first[p] = first[q] => p = q
    BY <1>1, <1>3
  <2>3. first \in Injection(P, D)
    BY <2>1, <2>2 DEF Injection, IsInjective
  <2>4. IsFiniteSet(D)
    BY PatternsShape, FS_Interval
  <2> QED  BY <2>3, <2>4, FS_Injection
<1>7. Cardinality(P) = Cardinality(Matching(s, a))
  <2> DEFINE named == [p \in P |-> patterns[p[1]].expression]
  <2>1. named \in [P -> Matching(s, a)]
    BY <1>1, <1>5
  <2>2. \A p, q \in P : named[p] = named[q] => p = q
    BY <1>1, <1>3, <1>4
  <2>3. \A e \in Matching(s, a) : \E p \in P : named[p] = e
    <3> TAKE e \in Matching(s, a)
    <3>1. PICK i, j : listed(i, j) /\ patterns[i].expression = e
      BY <1>5
    <3>2. <<i, j>> \in P /\ named[<<i, j>>] = e
      BY <1>2, <3>1
    <3> QED  BY <3>2
  <2>4. named \in Bijection(P, Matching(s, a))
    BY <2>1, <2>2, <2>3 DEF Bijection, Injection, Surjection, IsInjective
  <2>5. ExistsBijection(P, Matching(s, a))
    BY <2>4 DEF ExistsBijection
  <2> QED  BY <1>6, <2>5, FS_Bijection
<1> QED  BY <1>6, <1>7, FS_CardinalityType DEF P

-----------------------------------------------------------------------------
(* The streams keep their types.                                            *)
LEMMA RequestShape ==
    ASSUME NEW m \in Requests
    PROVE  /\ m.id = "HELLO" => m.identifier \in Identifiers
           /\ m.id = "SUBSCRIBE" => m.expression \in Exprs
           /\ m.id = "PUBLISH" => m.address \in Addresses /\ m.content \in Contents
BY DEF Requests, PlainRequests

(* A request that the broker takes off a stream is well formed.             *)
LEMMA TakeRequestType ==
    ASSUME NetworkTypeOK, NEW c \in Clients, TakeRequest(c)
    PROVE  /\ toServer' \in [Clients -> Seq(Requests)]
           /\ Request(c) \in Requests
<1>1. toServer[c] \in Seq(Requests) /\ toServer[c] # <<>>
  BY DEF NetworkTypeOK, TakeRequest
<1>2. Tail(toServer[c]) \in Seq(Requests) /\ Head(toServer[c]) \in Requests
  BY <1>1, HeadTailProperties
<1> QED  BY <1>2 DEF NetworkTypeOK, TakeRequest, Request

(* Sending a well-formed reply keeps the reply streams well formed.         *)
LEMMA SendReplyType ==
    ASSUME NetworkTypeOK, NEW c \in Clients, NEW m \in Replies, SendReply(c, m)
    PROVE  toClient' \in [Clients -> Seq(Replies)]
<1>1. Append(toClient[c], m) \in Seq(Replies)
  BY AppendProperties DEF NetworkTypeOK
<1> QED  BY <1>1 DEF NetworkTypeOK, SendReply

(* The replies without fields are well formed.                              *)
LEMMA PlainReplyType ==
    \A k \in PlainReplies : Plain(k) \in Replies
BY DEF Plain, Replies

(* The copies made by forward_to_subscribers are well formed.               *)
LEMMA ForwardType ==
    ASSUME NetworkTypeOK, StateInv, NEW c \in Clients, NEW m,
           m.address \in Addresses, m.content \in Contents,
           forward_to_subscribers(c, m)
    PROVE  toClient' \in [Clients -> Seq(Replies)]
<1> DEFINE copy == get_content_to_publish(c, m)
           copies(s) == [k \in 1..Cardinality(Places(s, m.address)) |-> copy]
<1>1. copy \in Replies
  BY NetworkAssumption DEF get_content_to_publish, Deliver, Replies, StateInv
<1> HIDE DEF copy
<1>2. ASSUME NEW s \in Clients
      PROVE  toClient[s] \o copies(s) \in Seq(Replies)
  <2>1. Cardinality(Places(s, m.address)) \in Nat
    BY PlacesCount
  <2>2. copies(s) \in Seq(Replies)
    BY <1>1, <2>1, SeqDef
  <2> QED  BY <2>2, ConcatProperties DEF NetworkTypeOK
<1> QED  BY <1>2 DEF NetworkTypeOK, forward_to_subscribers, copy

(* A client is sent something for address a exactly if it has a matching    *)
(* subscription.                                                            *)
LEMMA PlacesMatch ==
    ASSUME StateInv, NEW s \in Clients, NEW a
    PROVE  Cardinality(Places(s, a)) # 0 <=> Matching(s, a) # {}
<1>1. Cardinality(Places(s, a)) = 0 <=> Places(s, a) = {}
  BY PlacesCount, FS_EmptySet
<1>2. ASSUME Places(s, a) # {}  PROVE Matching(s, a) # {}
  <2>1. PICK i \in DOMAIN patterns :
           /\ a \in Matches[patterns[i].expression]
           /\ \E j \in DOMAIN patterns[i].clients : patterns[i].clients[j] = s
    BY <1>2 DEF Places
  <2>2. Contains(patterns[i].clients, s)
    BY <2>1, PatternsShape DEF Contains
  <2> QED  BY <2>1, <2>2 DEF Matching, Subscriptions
<1>3. ASSUME Matching(s, a) # {}  PROVE Places(s, a) # {}
  <2>1. PICK i \in DOMAIN patterns :
           Contains(patterns[i].clients, s) /\ a \in Matches[patterns[i].expression]
    BY <1>3 DEF Matching, Subscriptions
  <2>2. PICK j \in DOMAIN patterns[i].clients : patterns[i].clients[j] = s
    BY <2>1, PatternsShape DEF Contains
  <2>3. <<i, j>> \in Places(s, a)
    BY <2>1, <2>2 DEF Places
  <2> QED  BY <2>3
<1> QED  BY <1>1, <1>2, <1>3

(* forward_to_subscribers sends to whoever has a matching subscription, but *)
(* for the publisher, copies for that address and nothing else.             *)
CopiesFor(a) == {m \in Replies : m.id = "DELIVER" /\ m.address = a}

(* forward_to_subscribers appends to the stream of every other client       *)
(* copies of this publication, at least one exactly when a subscription of  *)
(* it matches, and nothing to the publisher's.                              *)
LEMMA ForwardEffect ==
    ASSUME NetworkTypeOK, StateInv, NEW c \in Clients, NEW m,
           m.address \in Addresses, m.content \in Contents,
           forward_to_subscribers(c, m), NEW s \in Clients
    PROVE  \E d \in Seq(CopiesFor(m.address)) :
              /\ toClient'[s] = toClient[s] \o d
              /\ d # <<>> <=> s # c /\ Matching(s, m.address) # {}
<1> DEFINE copy == get_content_to_publish(c, m)
           n == Cardinality(Places(s, m.address))
           d == [k \in 1..n |-> copy]
<1>1. copy \in CopiesFor(m.address)
  BY NetworkAssumption DEF get_content_to_publish, Deliver, Replies, StateInv, CopiesFor
<1>2. n \in Nat /\ (n # 0 <=> Matching(s, m.address) # {})
  BY PlacesCount, PlacesMatch
<1>3. s # c => toClient'[s] = toClient[s] \o d
  BY DEF forward_to_subscribers
<1>4. s = c => toClient'[s] = toClient[s] /\ toClient[s] \in Seq(Replies)
  BY DEF forward_to_subscribers, NetworkTypeOK
<1> HIDE DEF copy, n
<1>5. d \in Seq(CopiesFor(m.address)) /\ (d # <<>> <=> n # 0)
  <2>1. d \in [1..n -> CopiesFor(m.address)]
    BY <1>1
  <2>2. d \in Seq(CopiesFor(m.address)) /\ Len(d) = n
    BY <1>2, <2>1, SeqDef, LenProperties
  <2> QED  BY <1>2, <2>2, EmptySeq
<1> HIDE DEF d
<1>6. s = c => toClient'[s] = toClient[s] \o <<>>
  BY <1>4, ConcatEmptySeq
<1> QED  BY <1>2, <1>3, <1>5, <1>6, EmptySeq

-----------------------------------------------------------------------------
(* The broker starts with empty lists.                                      *)
LEMMA InvInit == ServerInit => ServerInv
<1> SUFFICES ASSUME ServerInit PROVE ServerInv
  OBVIOUS
<1>1. NetworkTypeOK
  BY EmptySeq DEF ServerInit, NetworkInit, NetworkTypeOK
<1>2. patterns \in Seq(Pattern) /\ DOMAIN patterns = {}
  BY EmptySeq DEF ServerInit
<1>3. ListsSound
  BY <1>2 DEF ListsSound, SubscribersRegistered, DistinctPatterns, NoDuplicateSubscribers
<1> QED  BY <1>1, <1>2, <1>3, NetworkAssumption DEF ServerInit, ServerInv, StateInv

(* A step that leaves the records and lists alone leaves them sound.        *)
LEMMA StateUnchanged ==
    ASSUME StateInv, UNCHANGED <<up, clients, identifier, patterns>>
    PROVE  StateInv' /\ \A x \in Clients : Subscriptions(x)' = Subscriptions(x)
BY DEF StateInv, ListsSound, SubscribersRegistered, DistinctPatterns, NoDuplicateSubscribers,
       Subscriptions

(* s_server_destroy leaves the empty lists and table.                       *)
LEMMA ReactorEndsEffect ==
    ASSUME ReactorEnds
    PROVE  StateInv' /\ \A x \in Clients : Subscriptions(x)' = {}
<1>1. patterns' \in Seq(Pattern) /\ DOMAIN patterns' = {}
  BY EmptySeq DEF ReactorEnds
<1>2. ListsSound'
  BY <1>1 DEF ListsSound, SubscribersRegistered, DistinctPatterns, NoDuplicateSubscribers
<1>3. \A x \in Clients : Subscriptions(x)' = {}
  BY <1>1 DEF Subscriptions
<1> QED  BY <1>1, <1>2, <1>3, NetworkAssumption DEF ReactorEnds, StateInv

(* Every handler, the end and the start of a broker, and the loss of a      *)
(* message preserve the invariant.                                          *)
LEMMA BrokerStep ==
    ASSUME ServerInv, ServerNext \/ \E c \in Clients : MessageLost(c)
    PROVE  ServerInv'
<1>0. NetworkTypeOK /\ StateInv
  BY DEF ServerInv
<1>1. ASSUME NEW c \in Clients, HandleHello(c)  PROVE ServerInv'
  <2>1. Request(c).identifier \in Identifiers /\ toServer' \in [Clients -> Seq(Requests)]
    BY <1>0, <1>1, TakeRequestType, RequestShape DEF HandleHello, Handles
  <2>2. toClient' \in [Clients -> Seq(Replies)]
    BY <1>0, <1>1, SendReplyType, PlainReplyType DEF HandleHello, PlainReplies
  <2>3. ListsSound'
    BY <1>0, <1>1 DEF HandleHello, StateInv, ListsSound, SubscribersRegistered,
                      DistinctPatterns, NoDuplicateSubscribers
  <2> QED  BY <1>0, <1>1, <2>1, <2>2, <2>3 DEF HandleHello, ServerInv, StateInv, NetworkTypeOK
<1>2. ASSUME NEW c \in Clients, HandleSubscribe(c)  PROVE ServerInv'
  <2>1. Request(c).expression \in Exprs /\ toServer' \in [Clients -> Seq(Requests)]
    BY <1>0, <1>2, TakeRequestType, RequestShape DEF HandleSubscribe, Handles
  <2>2. toClient' \in [Clients -> Seq(Replies)]
    BY <1>0, <1>2, SendReplyType, PlainReplyType DEF HandleSubscribe, PlainReplies
  <2>3. StateInv'
    BY <1>0, <1>2, <2>1, StoreEffect DEF HandleSubscribe
  <2> QED  BY <2>1, <2>2, <2>3 DEF ServerInv, NetworkTypeOK
<1>3. ASSUME NEW c \in Clients, HandlePublish(c)  PROVE ServerInv'
  <2>1. /\ Request(c).address \in Addresses /\ Request(c).content \in Contents
        /\ toServer' \in [Clients -> Seq(Requests)]
    BY <1>0, <1>3, TakeRequestType, RequestShape DEF HandlePublish, Handles
  <2>2. toClient' \in [Clients -> Seq(Replies)]
    BY <1>0, <1>3, <2>1, ForwardType DEF HandlePublish
  <2>3. StateInv'
    BY <1>0, <1>3, StateUnchanged DEF HandlePublish, serverState
  <2> QED  BY <2>1, <2>2, <2>3 DEF ServerInv, NetworkTypeOK
<1>4. ASSUME NEW c \in Clients, HandleDirect(c)  PROVE ServerInv'
  <2>1. toServer' \in [Clients -> Seq(Requests)]
    BY <1>0, <1>4, TakeRequestType DEF HandleDirect, Handles
  <2>2. StateInv'
    BY <1>0, <1>4, StateUnchanged DEF HandleDirect, serverState
  <2> QED  BY <1>0, <1>4, <2>1, <2>2 DEF HandleDirect, ServerInv, NetworkTypeOK
<1>5. ASSUME NEW c \in Clients, NEW k \in PlainReplies,
             TakeRequest(c), SendReply(c, Plain(k)), s_client_destroy(c)
      PROVE  ServerInv'
  <2>1. toServer' \in [Clients -> Seq(Requests)]
    BY <1>0, <1>5, TakeRequestType
  <2>2. toClient' \in [Clients -> Seq(Replies)]
    BY <1>0, <1>5, SendReplyType, PlainReplyType
  <2>3. StateInv'
    BY <1>0, <1>5, DestroyEffect
  <2> QED  BY <2>1, <2>2, <2>3 DEF ServerInv, NetworkTypeOK
<1>6. ASSUME NEW c \in Clients, HandleGoodbye(c) \/ HandleInvalid(c)  PROVE ServerInv'
  BY <1>5, <1>6 DEF HandleGoodbye, HandleInvalid, Handles, PlainReplies
<1>7. ASSUME NEW c \in Clients, HandleUndecodable(c)  PROVE ServerInv'
  <2>1. toServer' \in [Clients -> Seq(Requests)]
    BY <1>0, <1>7, TakeRequestType DEF HandleUndecodable, Handles
  <2> QED  BY <1>0, <1>7, <2>1, ReactorEndsEffect
           DEF HandleUndecodable, ServerInv, NetworkTypeOK
<1>8. ASSUME NEW c \in Clients, HandleTimeout(c)  PROVE ServerInv'
  BY <1>0, <1>8, DestroyEffect DEF HandleTimeout, channels, ServerInv, NetworkTypeOK
<1>9. CASE ServerStop
  BY <1>0, <1>9, ReactorEndsEffect DEF ServerStop, channels, ServerInv, NetworkTypeOK
<1>10. CASE ServerStart
  BY <1>0, <1>10 DEF ServerStart, channels, ServerInv, NetworkTypeOK, StateInv, ListsSound,
                     SubscribersRegistered, DistinctPatterns, NoDuplicateSubscribers
<1>11. ASSUME NEW c \in Clients, MessageLost(c)  PROVE ServerInv'
  <2>1. StateInv'
    BY <1>0, <1>11, StateUnchanged DEF MessageLost, serverState
  <2>2. CASE LoseRequest(c)
    BY <1>0, <2>1, <2>2, TakeRequestType DEF LoseRequest, ServerInv, NetworkTypeOK
  <2>3. CASE LoseReply(c)
    <3>1. toClient[c] \in Seq(Replies) /\ Len(toClient[c]) \in Nat
      BY <1>0, LenProperties DEF NetworkTypeOK
    <3>2. SubSeq(toClient[c], 1, Len(toClient[c]) - 1) \in Seq(Replies)
      <4>1. \A i \in 1..(Len(toClient[c]) - 1) : toClient[c][i] \in Replies
        BY <3>1, ElementOfSeq
      <4> QED  BY <3>1, <4>1, SubSeqProperties
    <3> QED  BY <1>0, <2>1, <2>3, <3>2 DEF LoseReply, ServerInv, NetworkTypeOK
  <2> QED  BY <1>11, <2>2, <2>3 DEF MessageLost
<1> QED
  BY <1>1, <1>2, <1>3, <1>4, <1>6, <1>7, <1>8, <1>9, <1>10, <1>11 DEF ServerNext, HandleMessage
=============================================================================
