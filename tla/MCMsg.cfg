\* Strings of 0, 1 and 255 octets, dictionaries with long values, and what
\* other programs may send.
SPECIFICATION MsgSpec
CONSTANTS
    NULL = NULL
    rid = rid
    RoutingId = rid
    Strings <- MCStrings
    Names <- MCNames
    Values <- MCValues
    Dictionaries <- MCDictionaries
    Bodies <- MCBodies
    Foreign <- MCForeign
    MaxFields = 2
INVARIANTS
    MsgTypeOK
    FrameFits
    PassedOnUnchanged
    CutFrameRefused
PROPERTIES
    ArrivesAsMeant
