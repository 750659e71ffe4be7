SPECIFICATION Spec
CONSTANTS
    Source = {1, 2}
    Servers <- MCServers
    Thread = {t1}
    MaxTime = 1
    MaxJobs = 2
    MaxEvents = 0
    MaxActs = 2
    MaxLoad = 1
PROPERTY DocNotModified
CHECK_DEADLOCK FALSE
