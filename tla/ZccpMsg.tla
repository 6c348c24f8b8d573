-------------------------------- MODULE ZccpMsg --------------------------------
(***************************************************************************)
(* Two applications that compose, send, receive and pass on zccp_msg_t     *)
(* objects over a DEALER and a ROUTER, as zccp_msg_test does.  Each has    *)
(* one object at hand; stream[e] holds the zmsg_t under way to end e.      *)
(***************************************************************************)
EXTENDS ZccpCodec

CONSTANTS
    Strings,        \* what applications set as strings: C strings
    Names, Values,  \* ... as entries of the headers
    Dictionaries,   \* ... as headers
    Bodies,         \* ... as content
    Foreign,        \* zmsg_t that other programs send
    RoutingId,      \* the routing id of the DEALER
    MaxFields       \* no object has more fields set by its application

(* The setters of strings and zccp_msg_headers_insert take a printf format, *)
(* for which a text stands for itself only without a percent sign (37).     *)
ASSUME MsgAssumption ==
    /\ Strings \cup Values \subseteq Seq((1..255) \ {37}) /\ Names \subseteq Seq(1..255)
    /\ \A d \in Dictionaries :
         /\ IsFiniteSet(DOMAIN d) /\ d = [k \in DOMAIN d |-> d[k]]
         /\ \A k \in DOMAIN d : k \in Seq(1..255) /\ d[k] \in Seq(1..255)
    /\ Bodies \subseteq Seq(Seq(Octet))
    /\ Foreign \subseteq Seq(Seq(Octet)) \ {<<>>}

VARIABLES object, stream

msgVars == <<object, stream>>

Ends == {"dealer", "router"}
Other(e) == IF e = "dealer" THEN "router" ELSE "dealer"

IsCString(s) == s = NULL \/ s \in Seq(1..255)

MsgTypeOK ==
    /\ \A e \in Ends : object[e] # NULL =>
         LET m == object[e]
         IN  /\ m.id \in MessageIds \cup {0}
             /\ m.routing_id \in {NULL, RoutingId}
             /\ \A f \in StringFields : IsCString(m[f])
             /\ m.headers # NULL =>
                   \A k \in DOMAIN m.headers : IsCString(k) /\ IsCString(m.headers[k])
             /\ m.content = NULL \/ m.content \in Seq(Seq(Octet))
    /\ stream \in [Ends -> Seq(Seq(Seq(Octet)))]

MsgInit ==
    /\ object = [e \in Ends |-> NULL]
    /\ stream = [e \in Ends |-> <<>>]

-----------------------------------------------------------------------------
(* Composing a message.  Applications compose only while no message is      *)
(* under way and the other has no object at hand.                           *)
Idle == \A e \in Ends : stream[e] = <<>>
Alone(e) == Idle /\ object[Other(e)] = NULL

Compose(e, m) ==
    /\ object' = [object EXCEPT ![e] = m]
    /\ UNCHANGED stream

New(e, id) ==
    /\ Alone(e) /\ object[e] = NULL
    /\ Compose(e, zccp_msg_new(id))

Destroy(e) == object[e] # NULL /\ Compose(e, NULL)

SetId(e, id) == Alone(e) /\ object[e] # NULL /\ Compose(e, [object[e] EXCEPT !.id = id])

(* At the ROUTER, for a DEALER drops it when it sends.                      *)
zccp_msg_set_routing_id(e) ==
    /\ e = "router" /\ Alone(e) /\ object[e] # NULL
    /\ Compose(e, [object[e] EXCEPT !.routing_id = RoutingId])

(* The fields that are set, and a setter: it replaces what the field held.  *)
FieldsSet(m) == {f \in StringFields \cup {"headers", "content"} : m[f] # NULL}

SetField(e, f, value) ==
    /\ Alone(e) /\ object[e] # NULL
    /\ Cardinality(FieldsSet(object[e]) \cup {f}) <= MaxFields
    /\ Compose(e, [object[e] EXCEPT ![f] = value])

zccp_msg_set_identifier(e, s) == SetField(e, "identifier", s)
zccp_msg_set_expression(e, s) == SetField(e, "expression", s)
zccp_msg_set_address(e, s)    == SetField(e, "address", s)
zccp_msg_set_sender(e, s)     == SetField(e, "sender", s)
zccp_msg_set_headers(e, d)    == SetField(e, "headers", d)
zccp_msg_set_content(e, b)    == SetField(e, "content", b)

zccp_msg_headers_insert(e, k, v) ==
    LET d == object[e].headers
    IN  SetField(e, "headers", zhash_update(IF d = NULL THEN <<>> ELSE d, k, v))

(* The field is handed over to the caller.                                  *)
HandOver(e, f) ==
    /\ Alone(e) /\ object[e] # NULL /\ object[e][f] # NULL
    /\ Compose(e, [object[e] EXCEPT ![f] = NULL])

zccp_msg_get_headers(e) == HandOver(e, "headers")
zccp_msg_get_content(e) == HandOver(e, "content")

Duplicate(e) == Alone(e) /\ object[e] # NULL /\ Compose(e, zccp_msg_dup(object[e]))

-----------------------------------------------------------------------------
(* Sending.  A ROUTER needs a routing id; an id without a message is fatal. *)
Sendable(e, m) == m.id \in MessageIds /\ (e = "router" => m.routing_id # NULL)

Transmit(e, m) ==
    \E order \in Orders(m) :
        stream' = [stream EXCEPT ![Other(e)] = Append(@, zccp_msg_encode(m, order))]

zccp_msg_send(e) ==
    /\ object[e] # NULL /\ Sendable(e, object[e])
    /\ Transmit(e, object[e])
    /\ object' = [object EXCEPT ![e] = NULL]

(* A duplicate is sent.  Bound: with nothing under way.                     *)
zccp_msg_send_again(e) ==
    /\ Alone(e) /\ object[e] # NULL /\ Sendable(e, object[e])
    /\ Transmit(e, zccp_msg_dup(object[e]))
    /\ UNCHANGED object

(* zccp_msg_encode_hello etc.: a new object gets copies of the arguments.   *)
EncodeFields(id, args) == [f \in DOMAIN zccp_msg_new(id) |->
                             IF f \in FieldsOf(id) THEN args[f] ELSE zccp_msg_new(id)[f]]

(* zccp_msg_send_hello etc., in one step, on a DEALER.                      *)
SendFields(id, args) ==
    /\ Alone("dealer") /\ object["dealer"] = NULL
    /\ Transmit("dealer", EncodeFields(id, args))
    /\ UNCHANGED object

ForeignSends(e, z) ==
    /\ Alone(e) /\ object[e] = NULL
    /\ stream' = [stream EXCEPT ![e] = Append(@, z)]
    /\ UNCHANGED object

-----------------------------------------------------------------------------
(* Receiving.  A ROUTER puts the routing id of the DEALER first.            *)
zccp_msg_recv(e) ==
    /\ object[e] = NULL /\ stream[e] # <<>>
    /\ LET m == zccp_msg_decode(Head(stream[e]))
       IN  object' = [object EXCEPT ![e] =
              IF m # NULL /\ e = "router" THEN [m EXCEPT !.routing_id = RoutingId] ELSE m]
    /\ stream' = [stream EXCEPT ![e] = Tail(@)]

Next ==
    \/ \E e \in Ends :
          \/ \E id \in MessageIds \cup {0} : New(e, id) \/ SetId(e, id)
          \/ \E s \in Strings :
                \/ zccp_msg_set_identifier(e, s) \/ zccp_msg_set_expression(e, s)
                \/ zccp_msg_set_address(e, s) \/ zccp_msg_set_sender(e, s)
          \/ \E d \in Dictionaries : zccp_msg_set_headers(e, d)
          \/ \E b \in Bodies : zccp_msg_set_content(e, b)
          \/ \E k \in Names, v \in Values : zccp_msg_headers_insert(e, k, v)
          \/ zccp_msg_get_headers(e) \/ zccp_msg_get_content(e)
          \/ zccp_msg_set_routing_id(e) \/ Duplicate(e) \/ Destroy(e)
          \/ zccp_msg_send(e) \/ zccp_msg_send_again(e) \/ zccp_msg_recv(e)
          \/ \E z \in Foreign : ForeignSends(e, z)
    \/ \E id \in MessageIds, s, t \in Strings, d \in Dictionaries \cup {NULL},
          b \in Bodies \cup {NULL} :
          SendFields(id, [identifier |-> s, expression |-> s, address |-> s, sender |-> t,
                          headers |-> d, content |-> b])

MsgSpec == MsgInit /\ [][Next]_msgVars

-----------------------------------------------------------------------------
(* What the receiver of message m is meant to get: the fields of its id,    *)
(* absent ones empty, and nothing else the object may hold.                 *)
Meant(m) ==
    [f \in DOMAIN m |->
        IF f = "id" THEN m.id
        ELSE IF f \notin FieldsOf(m.id) THEN NULL
        ELSE IF m[f] # NULL THEN m[f]
        ELSE IF f = "content" THEN << <<>> >> ELSE <<>>]

(* A message arrives as it was meant, whatever the object was used for      *)
(* before: every send puts octets on the stream that the decoder reads back *)
(* as the fields the application set, in whichever order the hash table     *)
(* yields its entries.                                                      *)
ArrivesAsMeant ==
    [][\A e \in Ends :
          (object[e] # NULL /\ Len(stream'[Other(e)]) > Len(stream[Other(e)]))
              => zccp_msg_decode(Last(stream'[Other(e)])) = Meant(object[e])]_msgVars

(* The first pass of zccp_msg_encode adds up what the second pass writes:   *)
(* nothing is written past the frame, and no octet of it is left unset.     *)
FrameFits ==
    \A e \in Ends : (object[e] # NULL /\ object[e].id \in MessageIds) =>
        \A order \in Orders(object[e]) : Len(Serialized(object[e], order)) = frame_size(object[e])

(* What is accepted from any program can be passed on: encoded again, it    *)
(* decodes to itself.                                                       *)
PassedOnUnchanged ==
    \A e \in Ends : \A i \in DOMAIN stream[e] :
        LET m == zccp_msg_decode(stream[e][i])
        IN  m # NULL =>
              \A order \in Orders(m) : zccp_msg_decode(zccp_msg_encode(m, order)) = m

(* A frame that was cut short anywhere is never accepted as a message.      *)
CutFrameRefused ==
    \A e \in Ends : (object[e] # NULL /\ object[e].id \in MessageIds) =>
        \A order \in Orders(object[e]) :
            LET o == Serialized(object[e], order)
            IN  \A n \in 0..(Len(o) - 1) : zccp_msg_decode(<<SubSeq(o, 1, n)>>) = NULL
=============================================================================
