---------------------------- MODULE Notifications ----------------------------
(***************************************************************************)
(* The service of ZCCP as applications see it, without sessions, protocol  *)
(* messages or threads.  Each application puts what it publishes and what  *)
(* it subscribes to in an outbox and takes notices out of an inbox.  The   *)
(* service takes each outbox from its head.  It may miss things, but what  *)
(* it does not miss keeps its order: nothing is made up, repeated or       *)
(* overtaken, and a subscription is in force until the service admits to   *)
(* have forgotten the client.                                              *)
(***************************************************************************)
EXTENDS Integers, Sequences, FiniteSets

CONSTANTS Clients, Exprs, Addresses, Contents, Matches

VARIABLES
    outbox,     \* what each application has submitted, and awaits the service
    inbox,      \* what awaits each application
    held,       \* held[c]: the expressions that are in force for client c
    forgotten   \* the clients the service has ever forgotten

notificationVars == <<outbox, inbox, held, forgotten>>

Publication(a, b) == [kind |-> "publication", address |-> a, content |-> b]
Subscription(e)   == [kind |-> "subscription", expression |-> e]
Nothing           == [kind |-> "nothing"]   \* whatever else passes: greetings, answers

Items == {Nothing} \cup [kind : {"subscription"}, expression : Exprs]
           \cup [kind : {"publication"}, address : Addresses, content : Contents]

NotificationsInit ==
    /\ outbox = [c \in Clients |-> <<>>]
    /\ inbox = [c \in Clients |-> <<>>]
    /\ held = [c \in Clients |-> {}]
    /\ forgotten = {}

Submit(c) ==
    /\ \E m \in Items : outbox' = [outbox EXCEPT ![c] = Append(@, m)]
    /\ UNCHANGED <<inbox, held, forgotten>>

(* A box with a stretch of it gone, and nothing or Nothing in its place.    *)
Gaps == {<<>>, <<Nothing>>}
Without(s, i, n, r) == SubSeq(s, 1, i) \o r \o SubSeq(s, i + n + 1, Len(s))

(* The application takes a notice, or what its client or a stream loses is  *)
(* missed.                                                                  *)
Thin(c) ==
    /\ \E i, n \in 0..Len(outbox[c]), r \in Gaps :
          outbox' = [outbox EXCEPT ![c] = Without(@, i, n, r)]
    /\ \E i, n \in 0..Len(inbox[c]), r \in Gaps :
          inbox' = [inbox EXCEPT ![c] = Without(@, i, n, r)]
    /\ UNCHANGED <<held, forgotten>>

Serves(c, K) ==
    /\ outbox[c] # <<>> /\ Head(outbox[c]).kind \in K
    /\ outbox' = [outbox EXCEPT ![c] = Tail(@)]
    /\ UNCHANGED forgotten

Answer(c) == inbox' = [inbox EXCEPT ![c] = Append(@, Nothing)]

Greet(c) == Serves(c, {"nothing"}) /\ Answer(c) /\ UNCHANGED held

Grant(c) ==
    /\ Serves(c, {"subscription"}) /\ Answer(c)
    /\ held' = [held EXCEPT ![c] = @ \cup {Head(outbox[c]).expression}]

(* One copy for each expression that is in force, to all but the publisher. *)
CopiesTo(x, a) == Cardinality({e \in held[x] : a \in Matches[e]})

Notify(c) ==
    LET m == Head(outbox[c])
    IN  /\ Serves(c, {"publication"})
        /\ inbox' = [x \in Clients |->
                       IF x = c THEN inbox[x]
                       ELSE inbox[x] \o [k \in 1..CopiesTo(x, m.address) |-> m]]
        /\ UNCHANGED held

(* Only a client that was forgotten is refused.                             *)
Refuse(c) ==
    /\ c \in forgotten
    /\ Serves(c, {"nothing", "subscription", "publication"}) /\ Answer(c)
    /\ held' = [held EXCEPT ![c] = {}]

Forget(S) ==
    /\ held' = [c \in Clients |-> IF c \in S THEN {} ELSE held[c]]
    /\ forgotten' = forgotten \cup S
    /\ UNCHANGED <<outbox, inbox>>

NotificationsNext ==
    \/ \E c \in Clients :
          Submit(c) \/ Thin(c) \/ Greet(c) \/ Grant(c) \/ Notify(c) \/ Refuse(c) \/ Forget({c})
    \/ Forget(Clients)

NotificationsSpec == NotificationsInit /\ [][NotificationsNext]_notificationVars
=============================================================================
