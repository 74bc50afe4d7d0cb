\* VolumeManagerForm.save, two requests for the same new name, nothing
\* fails: the second finds the first's row and extends its pool.
CONSTANTS
    c1 = c1
    c2 = c2
    tank = tank
    v1 = v1
    Clients <- MC_Clients
    Names <- MC_Names
    InitialVolumes <- MC_InitialVolumes
    Forms <- MC_Manager
    CreateMayFail = FALSE
    FailAfterPool = FALSE
    AttachMayFail = FALSE
SPECIFICATION Spec
INVARIANTS
    NoSilentExtend
