SPECIFICATION FairSpec
CONSTANTS
    Clients = {c1, c2}
    Triggers = {c1}
    Humans = {}
    Nothing = Nothing
    InWorkers = {w1}
    OutWorkers = {v1}
    MaxAttempts = 2
    MaxFaults = 2
PROPERTIES
    VkSettles
CHECK_DEADLOCK FALSE
