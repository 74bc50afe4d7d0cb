\* Two callers, three requests: creates, updates and deletes interleaving
\* at every await, with service.restart('cron') allowed to fail.
CONSTANTS
    c1 = c1
    c2 = c2
    uOk = uOk
    uSpace = uSpace
    uGone = uGone
    uEmpty = uEmpty
    Star = Star
    NotInt = NotInt
    NoJob = NoJob
    Clients <- MC_Clients
    Dayweeks <- MC_Dayweeks
    Months <- MC_Months
    Users <- MC_Users
    EmptyUser = uEmpty
    SpacedUsers = {uSpace}
    ExistingUsers = {uOk}
    MaxId = 3
    MaxRequests = 3
    RestartMayFail = TRUE
SPECIFICATION FairSpec
INVARIANTS
    TypeOK
    CrontabSyncedWhenIdle
    NoResurrection
    SchedulesInRange
PROPERTIES
    CronReloaded
    CronTableSpec
\* The callers stop after MaxRequests requests and the service goes idle.
CHECK_DEADLOCK FALSE
