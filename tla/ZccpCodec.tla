------------------------------- MODULE ZccpCodec -------------------------------
(***************************************************************************)
(* The format of ZCCP messages: what zccp_msg_encode writes and            *)
(* zccp_msg_decode reads.  An octet is a number in 0..255, a C string the  *)
(* sequence of its octets before the final zero, a dictionary a function   *)
(* from names to values, a zmsg_t the sequence of its frames.  NULL is an  *)
(* absent string, dictionary, content or object.                           *)
(***************************************************************************)
EXTENDS Integers, Sequences, FiniteSets, SequencesExt

CONSTANT NULL

Octet == 0..255

(* The fields of each message, in their order, by message id: HELLO = 1,    *)
(* HELLO_OK, SUBSCRIBE, SUBSCRIBE_OK, PUBLISH, DIRECT, DELIVER, GOODBYE,    *)
(* GOODBYE_OK, PING, PING_OK, INVALID = 12.                                 *)
Layout == << <<"identifier", "headers">>,
             <<"headers">>,
             <<"expression", "headers">>,
             <<>>,
             <<"address", "headers", "content">>,
             <<"address", "headers", "content">>,
             <<"sender", "address", "headers", "content">>,
             <<>>, <<"headers">>, <<>>, <<>>, <<>> >>

MessageIds == DOMAIN Layout
FieldsOf(id) == IF id \in MessageIds THEN ToSet(Layout[id]) ELSE {}
StringFields == {"identifier", "expression", "address", "sender"}

zccp_msg_new(id) ==
    [routing_id |-> NULL, id |-> id, identifier |-> NULL, headers |-> NULL,
     expression |-> NULL, address |-> NULL, content |-> NULL, sender |-> NULL]

(* Mutant of the next definition: the content is not copied.                *)
DupWithoutContent(m) ==
    [f \in DOMAIN m |-> IF f \in {"id", "routing_id"} \cup (FieldsOf(m.id) \ {"content"})
                        THEN m[f] ELSE NULL]

(* Only the fields of the message's id are copied.                          *)
zccp_msg_dup(m) ==
    [f \in DOMAIN m |-> IF f \in {"id", "routing_id"} \cup FieldsOf(m.id) THEN m[f] ELSE NULL]

(* To insert keeps the entry of a name that is there, to update replaces it. *)
zhash_insert(d, key, item) == [k \in DOMAIN d \cup {key} |-> IF k \in DOMAIN d THEN d[k] ELSE item]
zhash_update(d, key, item) == [k \in DOMAIN d \cup {key} |-> IF k = key THEN item ELSE d[k]]

-----------------------------------------------------------------------------
(* Writing.                                                                 *)

PUT_NUMBER1(n) == <<n % 256>>
PUT_NUMBER2(n) == <<(n \div 256) % 256, n % 256>>
PUT_NUMBER4(n) ==
    <<(n \div 16777216) % 256, (n \div 65536) % 256, (n \div 256) % 256, n % 256>>

PUT_STRING(s)  == PUT_NUMBER1(Len(s)) \o s
PUT_LONGSTR(s) == PUT_NUMBER4(Len(s)) \o s

Signature == PUT_NUMBER2(43690)     \* 0xAAA0 | 10

(* The entries of a dictionary, in the order zhash_next yields them.        *)
PutEntries(d, order) ==
    PUT_NUMBER4(Len(order))
      \o FlattenSeq([i \in DOMAIN order |-> PUT_STRING(order[i]) \o PUT_LONGSTR(d[order[i]])])

(* Mutant of the next definition: an empty string is left out.              *)
PutFieldSkipsEmpty(m, f, order) ==
    CASE f = "headers" -> IF m.headers = NULL THEN PUT_NUMBER4(0)
                                              ELSE PutEntries(m.headers, order)
      [] f = "content" -> <<>>
      [] OTHER         -> IF m[f] \in {NULL, <<>>} THEN <<>> ELSE PUT_STRING(m[f])

PutField(m, f, order) ==
    CASE f = "headers" -> IF m.headers = NULL THEN PUT_NUMBER4(0)
                                              ELSE PutEntries(m.headers, order)
      [] f = "content" -> <<>>
      [] OTHER         -> IF m[f] = NULL THEN PUT_NUMBER1(0) ELSE PUT_STRING(m[f])

Serialized(m, order) ==
    Signature \o PUT_NUMBER1(m.id)
      \o FlattenSeq([i \in DOMAIN Layout[m.id] |-> PutField(m, Layout[m.id][i], order)])

(* The orders in which zhash_first and zhash_next may walk the headers.     *)
Orders(m) == IF m.headers = NULL THEN {<<>>} ELSE SetToSeqs(DOMAIN m.headers)

headers_bytes(d) == MapThenSumSet(LAMBDA k : 1 + Len(k) + 4 + Len(d[k]), DOMAIN d)

(* Mutant of the next definition: the length octets of the values are not   *)
(* counted.                                                                 *)
FieldSizeShort(m, f) ==
    CASE f = "headers" -> 4 + (IF m.headers = NULL THEN 0
                               ELSE headers_bytes(m.headers) - 4 * Cardinality(DOMAIN m.headers))
      [] f = "content" -> 0
      [] OTHER         -> 1 + (IF m[f] = NULL THEN 0 ELSE Len(m[f]))

FieldSize(m, f) ==
    CASE f = "headers" -> 4 + (IF m.headers = NULL THEN 0 ELSE headers_bytes(m.headers))
      [] f = "content" -> 0
      [] OTHER         -> 1 + (IF m[f] = NULL THEN 0 ELSE Len(m[f]))

(* The frame is allocated with the size that a first pass adds up.          *)
frame_size(m) == 2 + 1 + MapThenSumSet(LAMBDA f : FieldSize(m, f), FieldsOf(m.id))

(* Content that was never set goes as one empty frame.                      *)
ContentFrames(m) ==
    IF "content" \notin FieldsOf(m.id) THEN <<>>
    ELSE IF m.content = NULL THEN << <<>> >> ELSE m.content

zccp_msg_encode(m, order) == <<Serialized(m, order)>> \o ContentFrames(m)

-----------------------------------------------------------------------------
(* Reading.  A reader is the octets between needle and ceiling, with what   *)
(* has been read so far; NULL is the jump to `malformed'.                   *)

GET_NUMBER1(o) == o[1]
GET_NUMBER4(o) == o[1] * 16777216 + o[2] * 65536 + o[3] * 256 + o[4]

(* A C string ends at its first zero octet.                                 *)
CString(s) ==
    LET end == SelectInSeq(s, LAMBDA b : b = 0)
    IN  IF end = 0 THEN s ELSE SubSeq(s, 1, end - 1)

(* Mutant of the next definition: no check against the ceiling.             *)
TextUpToCeiling(o, k, n) ==
    [value |-> CString(SubSeq(o, k + 1, Min({k + n, Len(o)}))),
     rest |-> SubSeq(o, k + n + 1, Len(o))]

(* The string of n octets that follows the k octets of its length.          *)
Text(o, k, n) ==
    IF k + n > Len(o) THEN NULL
    ELSE [value |-> CString(SubSeq(o, k + 1, k + n)), rest |-> SubSeq(o, k + n + 1, Len(o))]

GET_STRING(o)  == IF 1 > Len(o) THEN NULL ELSE Text(o, 1, GET_NUMBER1(o))
GET_LONGSTR(o) == IF 4 > Len(o) THEN NULL ELSE Text(o, 4, GET_NUMBER4(o))

(* The first of several entries with one name is kept.                      *)
GetEntry(r) ==
    IF r = NULL THEN NULL
    ELSE LET key == GET_STRING(r.rest)
         IN  IF key = NULL THEN NULL
             ELSE LET value == GET_LONGSTR(key.rest)
                  IN  IF value = NULL THEN NULL
                      ELSE [value |-> zhash_insert(r.value, key.value, value.value),
                            rest |-> value.rest]

(* An entry takes five octets or more, so with a larger count the reader    *)
(* has failed before that many entries are read.                            *)
GetEntries(o) ==
    IF 4 > Len(o) THEN NULL
    ELSE FoldLeft(LAMBDA r, i : GetEntry(r),
                  [value |-> <<>>, rest |-> SubSeq(o, 5, Len(o))],
                  [i \in 1..Min({GET_NUMBER4(o), 1 + Len(o) \div 5}) |-> i])

(* The next field f, into r.value[f]; content is the frames that follow.    *)
GetField(r, f, content) ==
    IF r = NULL THEN NULL
    ELSE LET got == CASE f = "headers" -> GetEntries(r.rest)
                      [] f = "content" -> [value |-> content, rest |-> r.rest]
                      [] OTHER         -> GET_STRING(r.rest)
         IN  IF got = NULL THEN NULL
             ELSE [value |-> [r.value EXCEPT ![f] = got.value], rest |-> got.rest]

(* Mutant of the next definition: an unknown id is no error.                *)
DecodeAnyId(frames) ==
    IF Len(Head(frames)) < 3 THEN NULL ELSE zccp_msg_new(Head(frames)[3])

(* Octets after the last field, and frames where none belong, are ignored.  *)
zccp_msg_decode(frames) ==
    LET o == Head(frames)
        id == o[3]
        read == FoldLeft(LAMBDA r, f : GetField(r, f, Tail(frames)),
                         [value |-> zccp_msg_new(id), rest |-> SubSeq(o, 4, Len(o))],
                         Layout[id])
    IN  IF \/ frames = <<>>
           \/ Len(o) < 3 \/ SubSeq(o, 1, 2) # Signature
           \/ id \notin MessageIds
           \/ read = NULL
        THEN NULL
        ELSE read.value
=============================================================================
