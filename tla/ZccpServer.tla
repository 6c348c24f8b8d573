------------------------------ MODULE ZccpServer ------------------------------
(***************************************************************************)
(* The ZCCP broker: zccp_server_engine.inc with the application actions of *)
(* zccp_server.c.  The broker is one thread that runs one reactor handler  *)
(* at a time, so a handler is one action.  A client record that a handler  *)
(* creates in start_state has, by the end of that handler, either moved to *)
(* connected_state or been destroyed: the table `clients` holds records in *)
(* connected_state only, and their mailboxes are empty.                    *)
(***************************************************************************)
EXTENDS ZccpNetwork, SequencesExt

VARIABLES
    up,             \* the reactor of the zccp_server actor is running
    clients,        \* keys of the hash table of client records
    identifier,     \* client_t.identifier of each record
    patterns        \* server_t.patterns: list of pattern_t, with its lists

serverState == <<up, clients, identifier, patterns>>
serverVars == <<serverState, channels>>

Pattern == [expression : Exprs, clients : Seq(Clients)]

ServerTypeOK ==
    /\ NetworkTypeOK
    /\ up \in BOOLEAN
    /\ clients \subseteq Clients
    /\ identifier \in [Clients -> Identifiers]
    /\ patterns \in Seq(Pattern)

ServerInit ==
    /\ NetworkInit
    /\ up = TRUE
    /\ clients = {}
    /\ identifier = [c \in Clients |-> NoIdentifier]
    /\ patterns = <<>>

-----------------------------------------------------------------------------
(* The request at hand, when it is of kind k.  A record is looked up, or    *)
(* created, under the routing id, and its inactivity timer is armed anew.   *)
Request(c) == Head(toServer[c])
Handles(c, k) == up /\ TakeRequest(c) /\ Request(c).id = k

(* First pattern that has expression e; the search stops at it.             *)
IsPatternOf(i, e) ==
    /\ patterns[i].expression = e
    /\ \A j \in 1..(i - 1) : patterns[j].expression # e

(* Mutants of the next definition: no search for the expression, no search  *)
(* for the client, no client added to an expression that is known.          *)
StoreNoPatternSearch(c, e) ==
    patterns' = Append(patterns, [expression |-> e, clients |-> <<c>>])

StoreNoClientSearch(c, e) ==
    \/ (\A i \in DOMAIN patterns : patterns[i].expression # e) /\ StoreNoPatternSearch(c, e)
    \/ \E i \in DOMAIN patterns :
          /\ IsPatternOf(i, e)
          /\ patterns' = [patterns EXCEPT ![i].clients = Append(@, c)]

StoreFirstClientOnly(c, e) ==
    IF \E i \in DOMAIN patterns : IsPatternOf(i, e)
    THEN UNCHANGED patterns
    ELSE StoreNoPatternSearch(c, e)

store_new_subscription(c, e) ==
    \/ /\ \A i \in DOMAIN patterns : patterns[i].expression # e
       /\ patterns' = Append(patterns, [expression |-> e, clients |-> <<c>>])
    \/ \E i \in DOMAIN patterns :
          /\ IsPatternOf(i, e)
          /\ IF Contains(patterns[i].clients, c)
             THEN UNCHANGED patterns
             ELSE patterns' = [patterns EXCEPT ![i].clients = Append(@, c)]

(* Mutants of the next definition: only the head of each list is served;    *)
(* every list is, whether it matches or not.                                *)
PlacesAtHead(s, a) ==
    {i \in DOMAIN patterns : /\ a \in Matches[patterns[i].expression]
                            /\ patterns[i].clients # <<>> /\ Head(patterns[i].clients) = s}

PlacesUnmatched(s, a) == {i \in DOMAIN patterns : Contains(patterns[i].clients, s)}

(* The list positions at which client s will be sent a forward_event.       *)
Places(s, a) ==
    UNION { {i} \X {j \in DOMAIN patterns[i].clients : patterns[i].clients[j] = s} :
              i \in {k \in DOMAIN patterns : a \in Matches[patterns[k].expression]} }

(* Mutant of the next definition: the request is passed on as it came.      *)
PassOnRequest(c, m) == m

(* get_content_to_publish and send DELIVER, in the recipient.  server_t's   *)
(* headers are never set, so a copy carries none.                           *)
get_content_to_publish(c, m) ==
    Deliver(identifier[c], m.address, NoHeaders, m.content)

forward_to_subscribers(c, m) ==
    toClient' = [s \in Clients |->
        IF s = c THEN toClient[s]
        ELSE toClient[s] \o [k \in 1..Cardinality(Places(s, m.address)) |->
                                get_content_to_publish(c, m)]]

(* Mutants of the next definition: the loop ends after one list; a list     *)
(* goes with any of its clients.                                            *)
TerminateInFirstList(c) ==
    patterns' = [i \in DOMAIN patterns |->
                   [patterns[i] EXCEPT !.clients = IF i = 1 THEN RemoveFirst(@, c) ELSE @]]

TerminateWholeLists(c) == patterns' = SelectSeq(patterns, LAMBDA p : ~Contains(p.clients, c))

(* zlist_remove takes the client off each list, once.                       *)
client_terminate(c) ==
    patterns' = [i \in DOMAIN patterns |->
                   [patterns[i] EXCEPT !.clients = RemoveFirst(@, c)]]

(* terminate_event: the record leaves the hash table and is destroyed.      *)
s_client_destroy(c) ==
    /\ clients' = clients \ {c}
    /\ identifier' = [identifier EXCEPT ![c] = NoIdentifier]
    /\ client_terminate(c)
    /\ UNCHANGED up

-----------------------------------------------------------------------------
(* s_server_client_message, by request and state of the record.             *)

(* Mutant of the next definition: the record is not kept.                   *)
HelloForgotten(c) ==
    /\ Handles(c, "HELLO") /\ c \notin clients
    /\ SendReply(c, Plain("HELLO_OK"))
    /\ UNCHANGED serverState

HandleHello(c) ==
    /\ Handles(c, "HELLO") /\ c \notin clients
    /\ clients' = clients \cup {c}
    /\ identifier' = [identifier EXCEPT ![c] = Request(c).identifier]
    /\ SendReply(c, Plain("HELLO_OK"))
    /\ UNCHANGED <<up, patterns>>

HandleSubscribe(c) ==
    /\ Handles(c, "SUBSCRIBE") /\ c \in clients
    /\ store_new_subscription(c, Request(c).expression)
    /\ SendReply(c, Plain("SUBSCRIBE_OK"))
    /\ UNCHANGED <<up, clients, identifier>>

HandlePublish(c) ==
    /\ Handles(c, "PUBLISH") /\ c \in clients
    /\ forward_to_subscribers(c, Request(c))
    /\ UNCHANGED serverState

(* direct_event has an empty body.                                          *)
HandleDirect(c) ==
    /\ Handles(c, "DIRECT") /\ c \in clients
    /\ UNCHANGED <<serverState, toClient>>

HandleGoodbye(c) ==
    /\ Handles(c, "GOODBYE")
    /\ SendReply(c, Plain("GOODBYE_OK"))
    /\ s_client_destroy(c)

(* "All other protocol messages are invalid": a HELLO of a greeted client,  *)
(* any other request of an unknown one, and what a client never sends.      *)
Accepted(c) == IF c \in clients THEN {"SUBSCRIBE", "PUBLISH", "DIRECT", "GOODBYE"}
                                ELSE {"HELLO", "GOODBYE"}

HandleInvalid(c) ==
    /\ up /\ TakeRequest(c)
    /\ Request(c).id \notin Accepted(c) \cup {"UNDECODABLE"}
    /\ SendReply(c, Plain("INVALID"))
    /\ s_client_destroy(c)

(* s_client_handle_timeout: nothing is sent to the client.                  *)
HandleTimeout(c) ==
    /\ up /\ c \in clients
    /\ s_client_destroy(c)
    /\ UNCHANGED channels

(* The reactor ends and s_server_destroy frees every record and list.       *)
ReactorEnds ==
    /\ up' = FALSE
    /\ clients' = {}
    /\ identifier' = [c \in Clients |-> NoIdentifier]
    /\ patterns' = <<>>

(* zccp_msg_recv returned NULL: the handler returns -1.                     *)
HandleUndecodable(c) ==
    /\ Handles(c, "UNDECODABLE")
    /\ ReactorEnds
    /\ UNCHANGED toClient

(* "$TERM" on the actor's pipe, or an interrupt; and a new broker.          *)
ServerStop == up /\ ReactorEnds /\ UNCHANGED channels
ServerStart == ~up /\ up' = TRUE /\ UNCHANGED <<clients, identifier, patterns, channels>>

HandleMessage(c) ==
    \/ HandleHello(c) \/ HandleSubscribe(c) \/ HandlePublish(c) \/ HandleDirect(c)
    \/ HandleGoodbye(c) \/ HandleInvalid(c) \/ HandleUndecodable(c)

ServerNext ==
    \/ \E c \in Clients : HandleMessage(c) \/ HandleTimeout(c)
    \/ ServerStop
    \/ ServerStart

(* Between the end of one broker and the peers' connection to the next.     *)
MessageLost(c) ==
    /\ ~up
    /\ LoseRequest(c) \/ LoseReply(c)
    /\ UNCHANGED serverState

-----------------------------------------------------------------------------
(* The expressions client c is on the list of.                              *)
Subscriptions(c) ==
    {patterns[i].expression : i \in {k \in DOMAIN patterns : Contains(patterns[k].clients, c)}}

(* Whoever is on a pattern's list has a record: forward_to_subscribers      *)
(* follows the list's pointers and would otherwise execute an event on a    *)
(* destroyed record.                                                        *)
SubscribersRegistered ==
    \A i \in DOMAIN patterns : ToSet(patterns[i].clients) \subseteq clients

(* store_new_subscription keeps one pattern per expression ...              *)
DistinctPatterns ==
    \A i, j \in DOMAIN patterns : patterns[i].expression = patterns[j].expression => i = j

(* ... and a client at most once on its list.  Since client_terminate takes *)
(* a client off each list once, a second entry would outlive the record.    *)
NoDuplicateSubscribers ==
    \A i \in DOMAIN patterns : IsInjective(patterns[i].clients)
=============================================================================
