\* The broker stops while a client connects.
SPECIFICATION FairSpec
CONSTANTS
    c1 = c1
    c2 = c2
    cpu = cpu
    any = any
    cpu1 = cpu1
    disk1 = disk1
    noId = noId
    noHdr = noHdr
    body = body
    Clients = {c1}
    Exprs = {cpu}
    Addresses = {cpu1}
    Matches <- MCMatchesOne
    Identifiers = {noId}
    NoIdentifier = noId
    Headers = {noHdr}
    NoHeaders = noHdr
    Contents = {body}
    MaxCalls = 1
    Orderly = TRUE
    Faults = {"stop"}
    MaxFaults = 1
    HighWater = 1
PROPERTIES
    ConnectReturns
CHECK_DEADLOCK FALSE
