SPECIFICATION FairSpec
CONSTANTS
    Users = {alice}
    NoUser = NoUser
    Refreshers = {worker, realtime}
    Logins = {login}
    MaxSeconds = 2
    MaxFaults = 1
 
PROPERTY StaleTokensGo
PROPERTY PersistedSessionResumes
