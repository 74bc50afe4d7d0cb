\* VolumeManagerForm.save, two concurrent requests; create_volume and
\* attaching may fail, nothing fails once the pool exists.
CONSTANTS
    c1 = c1
    c2 = c2
    tank = tank
    v1 = v1
    Clients <- MC_Clients
    Names <- MC_Names
    InitialVolumes <- MC_InitialVolumes
    Forms <- MC_Manager
    CreateMayFail = TRUE
    FailAfterPool = FALSE
    AttachMayFail = TRUE
SPECIFICATION FairSpec
INVARIANTS
    EstablishedKept
    RowsMatchPools
    ScrubsMatchRows
PROPERTIES
    OrphanRowResolved
    RowsDeletedBySaver
