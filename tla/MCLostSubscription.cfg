\* A subscription does not survive a timeout.
SPECIFICATION Spec
CONSTANTS
    c1 = c1
    c2 = c2
    cpu = cpu
    any = any
    cpu1 = cpu1
    disk1 = disk1
    noId = noId
    noHdr = noHdr
    body = body
    Clients = {c1, c2}
    Exprs = {cpu}
    Addresses = {cpu1}
    Matches <- MCMatchesOne
    Identifiers = {noId}
    NoIdentifier = noId
    Headers = {noHdr}
    NoHeaders = noHdr
    Contents = {body}
    MaxCalls = 3
    Orderly = TRUE
    Faults = {"timeout"}
    MaxFaults = 1
    HighWater = 2
PROPERTIES
    SubscribersGetCopy
CHECK_DEADLOCK FALSE
