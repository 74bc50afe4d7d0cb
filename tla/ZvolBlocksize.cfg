\* The default block size ZVol_CreateForm offers, over pools of one disk up
\* to a raidz3 of 40 disks; sizes and choices saved by the dataset and zvol
\* edit forms.
CONSTANTS
    Kinds <- MC_Kinds
    Numbers = {0, 1, 4}
    Letters <- MC_Letters
    AvailGiB = {0, 5}
    UsedGiB = {0, 1}
    PoolShapes <- MC_PoolShapes
    VolBlockSizes <- MC_VolBlockSizes
    ChoiceValues <- MC_ChoiceValues
    DedupValues <- MC_DedupValues
    RecordValues <- MC_RecordValues
    RecordChoices <- MC_RecordChoices
    ParentValue <- MC_ParentValue
    DatasetFields <- MC_DatasetFields
SPECIFICATION Spec
INVARIANTS
    SizeSavedOrRefused
    ChoicesApplied
    BlocksizeMatchesReference
CHECK_DEADLOCK FALSE
