------------------------ MODULE MC_VolumeEncryption ------------------------
(* One encrypted volume of one provider, two spare disks, two passphrases. *)
EXTENDS VolumeEncryption

CONSTANTS c1, c2, d1, d2, d3, p1, p2, none

MC_Clients == {c1, c2}
MC_OneClient == {c1}
MC_Disks == {d1, d2, d3}
MC_InitialDisks == {d1}
MC_Passphrases == {p1, p2}
MC_AllOps == {"create", "change", "extend", "replace"}

=============================================================================
