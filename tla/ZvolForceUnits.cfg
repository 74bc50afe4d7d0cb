\* The "Force size" warning of clean_zvol_volsize for every spelling of the
\* IEC suffixes, sizes below and above 80% of avail.
CONSTANTS
    Kinds <- MC_CreateOnly
    Numbers = {0, 1, 4, 5}
    Letters <- MC_Letters
    AvailGiB = {0, 5}
    UsedGiB = {0, 1}
    PoolShapes <- MC_PoolShapes
    VolBlockSizes <- MC_VolBlockSizes
    ChoiceValues <- MC_ChoiceValues
    DedupValues <- MC_DedupValues
    RecordValues <- MC_RecordValues
    RecordChoices <- MC_RecordChoices
    ParentValue <- MC_ParentValue
    DatasetFields <- MC_DatasetFields
SPECIFICATION Spec
INVARIANT ForceWarningMatchesSize
CHECK_DEADLOCK FALSE
