\* VolumeManagerForm submissions with every combination of the two name
\* fields, including both filled in (the form does not forbid it).
CONSTANTS
    tank = tank
    newvol = newvol
    logvol = logvol
    none = none
    NoName = none
    VdevTypes = {"stripe", "mirror", "cache", "log"}
    DiskCounts = {1, 2}
    MaxRows = 2
    PoolShapes <- MC_PoolShapes
    NameInputs <- MC_AllNames
    ExistingNames = {tank}
    BadNames = {logvol}
SPECIFICATION Spec
INVARIANTS
    ValidatedForItsUse
CHECK_DEADLOCK FALSE
