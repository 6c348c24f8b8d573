\* Publications walk two matching patterns, whose lists hold the publisher too.
SPECIFICATION ForwardSpec
CONSTANTS
    c1 = c1
    c2 = c2
    noClient = noClient
    cpu = cpu
    any = any
    cpu1 = cpu1
    noId = noId
    noHdr = noHdr
    body = body
    Clients = {c1, c2}
    Exprs = {cpu, any}
    Addresses = {cpu1}
    Matches <- MCMatches
    Identifiers = {noId}
    NoIdentifier = noId
    Headers = {noHdr}
    NoHeaders = noHdr
    Contents = {body}
    NoClient = noClient
    MaxRequests = 1
    MaxReplies = 0
INVARIANTS
    WalkSound
PROPERTIES
    ImplementsHandlers
