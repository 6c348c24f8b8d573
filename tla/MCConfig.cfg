\* One file with two possible contents, two tree addresses, two clients.
SPECIFICATION ConfigSpec
CONSTANTS
    c1 = c1
    c2 = c2
    t1 = t1
    t2 = t2
    zccp_cfg = zccp_cfg
    noFile = noFile
    unloadable = unloadable
    tcp = tcp
    unset = unset
    Clients = {c1, c2}
    Trees = {t1, t2}
    Files = {zccp_cfg}
    NoFile = noFile
    Contents <- MCContents
    Unloadable = unloadable
    Endpoints = {tcp}
    Values = {0, 1, 5000}
    Unset = unset
    MaxTimers = 3
INVARIANTS
    ConfigTypeOK
    ServerConfigCurrent
    OptionsInForce
    OneTimerEach
PROPERTIES
    VerboseStays
    FileTakenUp
