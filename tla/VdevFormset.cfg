\* Every layout of up to three rows over all vdev types and 1..5 disks,
\* validated as a new volume and as an extension of each pool shape.
CONSTANTS
    tank = tank
    newvol = newvol
    logvol = logvol
    none = none
    NoName = none
    VdevTypes = {"stripe", "mirror", "raidz", "raidz2", "raidz3", "cache", "log", "spare"}
    DiskCounts = {1, 2, 3, 4, 5}
    MaxRows = 3
    PoolShapes <- MC_PoolShapes
    NameInputs <- MC_FormsetNames
    ExistingNames = {tank}
    BadNames = {logvol}
SPECIFICATION Spec
INVARIANTS
    TypeOK
    FormsetMatchesReference
\* One submission per behaviour: the form is done once it has been judged.
CHECK_DEADLOCK FALSE
