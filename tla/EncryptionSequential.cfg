\* Every passphrase handler, the extension and disk replacement, one
\* request at a time, with geli_passphrase and zfs_volume_attach_group
\* allowed to raise.
CONSTANTS
    c1 = c1
    c2 = c2
    d1 = d1
    d2 = d2
    d3 = d3
    p1 = p1
    p2 = p2
    none = none
    NoPass = none
    Clients <- MC_OneClient
    Disks <- MC_Disks
    InitialDisks <- MC_InitialDisks
    Passphrases <- MC_Passphrases
    Ops <- MC_AllOps
    NotifierMayFail = TRUE
SPECIFICATION Spec
INVARIANT KeyOnlyWhenFlagOne
PROPERTY PassphraseSpec
