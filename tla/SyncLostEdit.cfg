SPECIFICATION FairSpec
CONSTANTS
    Devices = {d1}
    Rows = {r1}
    Guarded = {r1}
    Refused = {}
    Accounts = {}
    CardOf <- TheCard
    PushLimit = 1
    PullLimit = 1
    MaxStamp = 2
    MaxFaults = 0
PROPERTY EditsReachServer
