-------------------------------- MODULE MCMsg ----------------------------------
(* Instances of ZccpMsg for TLC.                                            *)
EXTENDS ZccpMsg

CONSTANTS rid

a == <<97>>
Letters(n) == [i \in 1..n |-> 97]

(* The longest string that one length octet can state, and one beyond.      *)
MCStrings == {<<>>, a, Letters(255)}
MCLongStrings == {a, Letters(256)}

MCNames == {a}
MCValues == {<<>>, a}

(* Names are strings, values long strings.                                  *)
MCDictionaries == {<<>>, (a :> Letters(256)) @@ (<<98>> :> <<>>)}
MCDictionariesOne == {(a :> a)}

MCBodiesNone == {<<>>}
MCBodies == {<<>>, << <<>>, <<0, 255>> >>}

(* A SUBSCRIBE with this expression and these entries, whatever they say.   *)
Raw(expression, count, entries) ==
    << Signature \o <<3>> \o expression \o PUT_NUMBER4(count) \o entries >>

Entry(k, v) == PUT_STRING(k) \o PUT_LONGSTR(v)

MCForeign == {
    << <<>> >>, << <<170>> >>, << Signature >>,         \* cut before the id
    << <<170, 171, 12>> >>,                              \* another protocol
    << Signature \o <<0>> >>, << Signature \o <<13>> >>, \* no such message
    << Signature \o <<4, 1>>, a >>,                      \* octets and frames to spare
    Raw(<<3, 97, 0, 98>>, 0, <<>>),                      \* a zero within a string
    Raw(<<2, 97>>, 0, <<>>), Raw(<<255>>, 0, <<>>),      \* lengths that lie
    Raw(<<0>>, 2, Entry(a, a) \o Entry(a, <<>>)),        \* one name twice
    Raw(<<0>>, 2, Entry(<<97, 0>>, <<98, 0, 98>>) \o Entry(a, a)),
    Raw(<<0>>, 1, Entry(<<>>, <<>>) \o Entry(a, a)),     \* more than counted
    Raw(<<0>>, 2, Entry(a, a)),                          \* less than counted
    Raw(<<0>>, 1, PUT_STRING(a) \o <<96, 0, 0, 0>>),
    << Signature \o <<5, 0, 0, 0, 0, 0>> >>,             \* content without a frame
    << Signature \o <<7, 0, 0, 0, 0, 0, 0>>, <<>>, a >> }
=============================================================================
