\* A publication with headers.
SPECIFICATION ServerSpec
CONSTANTS
    c1 = c1
    c2 = c2
    cpu = cpu
    any = any
    cpu1 = cpu1
    disk1 = disk1
    noId = noId
    alice = alice
    noHdr = noHdr
    hdr = hdr
    body = body
    Clients = {c1, c2}
    Exprs = {cpu}
    Addresses = {cpu1}
    Matches <- MCMatchesOne
    Identifiers = {noId}
    NoIdentifier = noId
    Headers = {noHdr, hdr}
    NoHeaders = noHdr
    Contents = {body}
    MaxRequests = 1
    MaxReplies = 0
PROPERTIES
    CopiesCarryHeaders
