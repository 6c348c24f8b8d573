\* Timeouts and a restart of the broker; calls in any order; two expressions.
SPECIFICATION Spec
CONSTANTS
    c1 = c1
    c2 = c2
    cpu = cpu
    any = any
    cpu1 = cpu1
    disk1 = disk1
    noId = noId
    noHdr = noHdr
    body = body
    Clients = {c1, c2}
    Exprs = {cpu, any}
    Addresses = {cpu1, disk1}
    Matches <- MCMatches
    Identifiers = {noId}
    NoIdentifier = noId
    Headers = {noHdr}
    NoHeaders = noHdr
    Contents = {body}
    MaxCalls = 3
    Orderly = FALSE
    Faults = {"timeout", "stop"}
    MaxFaults = 1
    HighWater = 2
INVARIANTS
    SystemTypeOK
    NeverRefused
    GrantedIsHeld
    AnswerOnTheWay
    OnlyAskedFor
PROPERTIES
    KeptSubscribersGetCopy
    ImplementsNotifications
SYMMETRY MCSymmetry
CHECK_DEADLOCK FALSE
