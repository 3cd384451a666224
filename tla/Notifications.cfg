SPECIFICATION FairSpec
CONSTANTS
    Cloud = cloud
    Desktops = {desktop}
    CheckRequests = {}
    Payables = {p}
    Statements = {s}
    Overdue = {p}
    Ahead = 1
    MaxDay = 2
    MaxReads = 1
    MaxFaults = 1
PROPERTIES ReadStaysRead DueIsAlerted
