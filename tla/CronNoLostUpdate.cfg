\* Two callers, three requests, restarts never failing: do_update sends the
\* whole merged row to datastore.update, so two updates of one job that
\* both query it before either writes lose the fields of the first.
CONSTANTS
    c1 = c1
    c2 = c2
    uOk = uOk
    uSpace = uSpace
    uGone = uGone
    uEmpty = uEmpty
    Star = Star
    NotInt = NotInt
    NoJob = NoJob
    Clients <- MC_Clients
    Dayweeks <- MC_Dayweeks
    Months <- MC_Months
    Users <- MC_Users
    EmptyUser = uEmpty
    SpacedUsers = {uSpace}
    ExistingUsers = {uOk}
    MaxId = 3
    MaxRequests = 3
    RestartMayFail = FALSE
SPECIFICATION Spec
INVARIANTS
    NoLostUpdate
\* The callers stop after MaxRequests requests and the service goes idle.
CHECK_DEADLOCK FALSE
