\* One client, four calls in any order, any server.
SPECIFICATION ClientSpec
CONSTANTS
    c1 = c1
    cpu = cpu
    cpu1 = cpu1
    noId = noId
    noHdr = noHdr
    body = body
    Clients = {c1}
    Exprs = {cpu}
    Addresses = {cpu1}
    Matches <- MCMatchesOne
    Identifiers = {noId}
    NoIdentifier = noId
    Headers = {noHdr}
    NoHeaders = noHdr
    Contents = {body}
    MaxCalls = 4
    Orderly = FALSE
    MaxQueue = 2
    MaxPipe = 2
INVARIANTS
    ClientTypeOK
    StatusBelongsToCall
CHECK_DEADLOCK FALSE
