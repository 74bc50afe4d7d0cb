--------------------------- MODULE MC_VdevLayout ---------------------------
EXTENDS VdevLayout

CONSTANTS tank, newvol, logvol, none

\* The pools volume_add may name: a mirror pool, a raidz pool, and a pool
\* that mixes vdev types (built by hand with zpool add -f).
MC_PoolShapes ==
    { {[type |-> "mirror", width |-> 2]},
      {[type |-> "raidz", width |-> 3]},
      {[type |-> "mirror", width |-> 2], [type |-> "stripe", width |-> 1]} }

\* A new volume, an extension, and both fields filled in.
MC_FormsetNames == {<<newvol, none>>, <<none, tank>>}
MC_AllNames == {<<newvol, none>>, <<none, tank>>, <<newvol, tank>>, <<logvol, none>>, <<none, none>>}
=============================================================================
