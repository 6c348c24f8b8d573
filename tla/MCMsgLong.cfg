\* A string of 256 octets.
SPECIFICATION MsgSpec
CONSTANTS
    NULL = NULL
    rid = rid
    RoutingId = rid
    Strings <- MCLongStrings
    Names <- MCNames
    Values <- MCValues
    Dictionaries <- MCDictionariesOne
    Bodies <- MCBodiesNone
    Foreign = {}
    MaxFields = 1
PROPERTIES
    ArrivesAsMeant
