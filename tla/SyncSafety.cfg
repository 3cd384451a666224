SPECIFICATION Spec
CONSTANTS
    Devices = {d1, d2}
    Rows = {card, account, other}
    Guarded = {card, other}
    Refused = {other}
    Accounts = {account}
    CardOf <- TheCard
    PushLimit = 1
    PullLimit = 1
    MaxStamp = 2
    MaxFaults = 2
SYMMETRY Symmetry
INVARIANT TypeOK
INVARIANT UnsyncedIsQueued
INVARIANT CursorCoversServer
PROPERTY OnlyOwnEditsAreQueued
 
