\* Saving the dataset and zvol edit forms unchanged, over every property
\* value get_initial_data and ZVol_EditForm.__init__ handle.
CONSTANTS
    Kinds <- MC_Kinds
    Numbers = {0, 1, 4}
    Letters <- MC_Letters
    AvailGiB = {0, 5}
    UsedGiB = {0, 1}
    PoolShapes <- MC_PoolShapes
    VolBlockSizes <- MC_VolBlockSizes
    ChoiceValues <- MC_ChoiceValues
    DedupValues <- MC_DedupValues
    RecordValues <- MC_RecordValues
    RecordChoices <- MC_RecordChoices
    ParentValue <- MC_ParentValue
    DatasetFields <- MC_DatasetFields
SPECIFICATION Spec
INVARIANT UnchangedSaveKeeps
CHECK_DEADLOCK FALSE
