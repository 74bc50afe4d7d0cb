\* ZFSVolumeWizardForm.done, one request at a time: attaching vdevs to
\* an existing volume raises, and the rollback deletes that volume's row.
CONSTANTS
    c1 = c1
    c2 = c2
    tank = tank
    v1 = v1
    Clients <- MC_OneClient
    Names <- MC_Names
    InitialVolumes <- MC_InitialVolumes
    Forms <- MC_Wizard
    CreateMayFail = FALSE
    FailAfterPool = FALSE
    AttachMayFail = TRUE
SPECIFICATION Spec
INVARIANTS
    EstablishedKept
