--------------------------- MODULE MC_VolumeSave ---------------------------
(* Two concurrent requests or one, a volume that exists and a new name. *)
EXTENDS VolumeSave

CONSTANTS c1, c2, tank, v1

MC_Clients == {c1, c2}
MC_OneClient == {c1}
MC_Names == {tank, v1}
MC_InitialVolumes == {tank}
MC_Manager == {"manager"}
MC_Wizard == {"wizard"}

=============================================================================
