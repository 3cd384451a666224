SPECIFICATION FairSpec
CONSTANTS
    Devices = {d1, d2}
    Rows = {r1, r2}
    Cloud = cloud
    Guarded = {r1, r2}
    Refused = {}
    Accounts = {}
    CardOf <- NoCards
    PushLimit = 1
    PullLimit = 2
    MaxStamp = 2
    MaxFaults = 1
PROPERTY ImplementsLWW
PROPERTY SettlesUnlessLost
PROPERTY FreshDeviceCatchesUp
