SPECIFICATION FairSpec
CONSTANTS
    Peers = {a}
    SendTo = {a}
    Deadtimes = {1}
    Warntimes = {1}
    Instances = {net, os}
    Objects = {o1, o2, o3}
    Outputs = {x}
    NoObject = NoObject
    NoOutput = NoOutput
    InitDiscover = net
    OsInstance = os
    CmdInstances = {os}
    MaxCommands = 2
    MaxHbTimers = 2
    MaxSenders = 1
    MartianEvery = 2
    SpawnMayFail = FALSE
INVARIANTS
    NanoTypeOK
    
    ReferencesAreHeld
    ChangeIsReported
PROPERTIES
    NothingStartsInShutdown
    GetsConfigured
    SilenceIsNoticed
    SignalEnds
\* A nanoprobe that has ended does nothing any more.
CHECK_DEADLOCK FALSE
