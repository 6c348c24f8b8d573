\* Two peers, two overlapping expressions, two addresses.
SPECIFICATION ServerSpec
CONSTANTS
    c1 = c1
    c2 = c2
    cpu = cpu
    any = any
    cpu1 = cpu1
    disk1 = disk1
    noId = noId
    alice = alice
    noHdr = noHdr
    hdr = hdr
    body = body
    Clients = {c1, c2}
    Exprs = {cpu, any}
    Addresses = {cpu1, disk1}
    Matches <- MCMatches
    Identifiers = {noId, alice}
    NoIdentifier = noId
    Headers = {noHdr}
    NoHeaders = noHdr
    Contents = {body}
    MaxRequests = 1
    MaxReplies = 0

INVARIANTS
    ServerTypeOK
    SubscribersRegistered
    DistinctPatterns
    NoDuplicateSubscribers
PROPERTIES
    SubscriptionsKept
    ImplementsService
