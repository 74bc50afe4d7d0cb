\* Two requests on one encrypted volume, each a passphrase create, change
\* or remove, an extension or a disk replacement, and any notifier call
\* may raise.
CONSTANTS
    c1 = c1
    c2 = c2
    d1 = d1
    d2 = d2
    d3 = d3
    p1 = p1
    p2 = p2
    none = none
    NoPass = none
    Clients <- MC_Clients
    Disks <- MC_Disks
    InitialDisks <- MC_InitialDisks
    Passphrases <- MC_Passphrases
    Ops <- MC_AllOps
    NotifierMayFail = TRUE
SPECIFICATION Spec
INVARIANT FlagMatchesProviders
