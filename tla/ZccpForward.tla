------------------------------ MODULE ZccpForward ------------------------------
(***************************************************************************)
(* The broker with forward_to_subscribers taken apart: the two loops move  *)
(* list cursors and execute forward_event in one recipient after another,  *)
(* while the peers go on sending and receiving.  ZccpServer's HandlePublish *)
(* is what it amounts to.                                                  *)
(***************************************************************************)
EXTENDS ZccpServerPeers

CONSTANT NoClient

(* The length of an expression is one octet: there are finitely many.       *)
ASSUME ForwardAssumption ==
    NoClient \notin Clients /\ IsFiniteSet(Exprs) /\ MaxReplies \in Nat

VARIABLES
    publisher,      \* the client whose publish_event is executed, or NoClient
    message,        \* its request, which server_t's fields point into
    patternCursor,  \* cursor of the list of patterns, 0 when it is at no item
    clientCursor    \* cursor of that pattern's list of clients

walk == <<publisher, message, patternCursor, clientCursor>>
forwardVars == <<serverVars, walk>>

Walking == publisher # NoClient

ForwardInit ==
    /\ ServerInit
    /\ publisher = NoClient /\ message = Plain("DIRECT")
    /\ patternCursor = 0 /\ clientCursor = 0

-----------------------------------------------------------------------------
zlist_first(list) == IF list = <<>> THEN 0 ELSE 1
zlist_next(list, cursor) == IF cursor < Len(list) THEN cursor + 1 ELSE 0

(* publish_event: the publication is noted, and the outer loop begins.      *)
BeginForward(c) ==
    /\ ~Walking
    /\ Handles(c, "PUBLISH") /\ c \in clients
    /\ publisher' = c /\ message' = Request(c)
    /\ patternCursor' = zlist_first(patterns) /\ clientCursor' = 0
    /\ UNCHANGED <<serverState, toClient>>

NextPattern == patternCursor' = zlist_next(patterns, patternCursor)

(* The pattern at the cursor: the inner loop begins, if it has anything to   *)
(* visit.                                                                   *)
VisitPattern ==
    LET p == patterns[patternCursor]
        first == IF message.address \in Matches[p.expression] THEN zlist_first(p.clients) ELSE 0
    IN  /\ Walking /\ patternCursor # 0 /\ clientCursor = 0
        /\ clientCursor' = first
        /\ IF first = 0 THEN NextPattern ELSE UNCHANGED patternCursor
        /\ UNCHANGED <<publisher, message, serverVars>>

(* forward_event, in the connected_state of the recipient.                  *)
engine_send_event(s) ==
    /\ s \in clients
    /\ SendReply(s, get_content_to_publish(publisher, message))

(* The next turn of the inner loop, or the next pattern at its end.         *)
NextClient(list) ==
    /\ clientCursor' = zlist_next(list, clientCursor)
    /\ IF clientCursor' = 0 THEN NextPattern ELSE UNCHANGED patternCursor

(* Mutant of the next definition: the loop ends at the publisher.           *)
VisitClientUpToPublisher ==
    LET list == patterns[patternCursor].clients
        s == list[clientCursor]
    IN  /\ Walking /\ clientCursor # 0
        /\ IF s = publisher THEN clientCursor' = 0 /\ NextPattern /\ UNCHANGED toClient
                            ELSE engine_send_event(s) /\ NextClient(list)
        /\ UNCHANGED <<publisher, message, serverState, toServer>>

VisitClient ==
    LET list == patterns[patternCursor].clients
        s == list[clientCursor]
    IN  /\ Walking /\ clientCursor # 0
        /\ IF s = publisher THEN UNCHANGED toClient ELSE engine_send_event(s)
        /\ NextClient(list)
        /\ UNCHANGED <<publisher, message, serverState, toServer>>

EndForward ==
    /\ Walking /\ patternCursor = 0
    /\ publisher' = NoClient /\ message' = Plain("DIRECT")
    /\ UNCHANGED <<patternCursor, clientCursor, serverVars>>

-----------------------------------------------------------------------------
(* The other handlers, which the reactor does not run during a walk.        *)
OtherHandler(c) ==
    \/ HandleHello(c) \/ HandleSubscribe(c) \/ HandleDirect(c) \/ HandleGoodbye(c)
    \/ HandleInvalid(c) \/ HandleUndecodable(c) \/ HandleTimeout(c)

Between == ~Walking /\ UNCHANGED walk

ForwardNext ==
    \/ \E c \in Clients :
          \/ BeginForward(c)
          \/ OtherHandler(c) /\ Between
          \/ (PeerSends(c) \/ PeerReceives(c) \/ MessageLost(c)) /\ UNCHANGED walk
    \/ VisitPattern \/ VisitClient \/ EndForward
    \/ (ServerStop \/ ServerStart) /\ Between

ForwardSpec == ForwardInit /\ [][ForwardNext]_forwardVars

-----------------------------------------------------------------------------
(* The list positions of client s that the walk has still to visit.         *)
Ahead(s) ==
    {q \in Places(s, message.address) :
        \/ q[1] > patternCursor
        \/ q[1] = patternCursor /\ q[2] >= clientCursor}

ToCome(s) ==
    IF ~Walking \/ patternCursor = 0 \/ s = publisher THEN <<>>
    ELSE [k \in 1..Cardinality(Ahead(s)) |-> get_content_to_publish(publisher, message)]

(* The walk is as good as atomic: the broker with its cursors implements    *)
(* the broker whose handler of PUBLISH is one step, taken when the request  *)
(* is, if the copies still to come are counted as sent.                     *)
Atomic == INSTANCE ZccpServerPeers WITH
    toClient <- [s \in Clients |-> toClient[s] \o ToCome(s)],
    MaxReplies <- MaxReplies + Cardinality(Exprs)

ImplementsHandlers == Atomic!ServerSpec

(* Whoever the cursor is at has a record in connected_state, so that        *)
(* forward_event is executed there and nowhere else: no walk gets stuck,    *)
(* and none meets a record that has gone.                                   *)
WalkSound ==
    /\ Walking => publisher \in clients
    /\ patternCursor \in 0..Len(patterns)
    /\ clientCursor # 0 =>
          /\ Walking /\ patternCursor # 0
          /\ clientCursor \in DOMAIN patterns[patternCursor].clients
          /\ patterns[patternCursor].clients[clientCursor] \in clients
=============================================================================
