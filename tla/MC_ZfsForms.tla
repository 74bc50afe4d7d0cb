---------------------------- MODULE MC_ZfsForms -----------------------------
(* Sizes around 80% of a few GiB, every suffix spelling, and pools from a *)
(* single disk to a raidz3 too wide for the largest block size choice.    *)
(* Edited datasets carry one property of each kind get_initial_data       *)
(* handles alike (sync for sync and compression, atime for atime,         *)
(* readonly and exec, quota for the four sizes); zvols all of theirs.     *)
EXTENDS ZfsForms

MC_Kinds == {"zvol_create", "dataset_edit", "zvol_edit"}
MC_CreateOnly == {"zvol_create"}
MC_Letters == {"B", "K", "M", "G", "T", "X"}
MC_PoolShapes ==
    { {[type |-> "disk", width |-> 1]},
      {[type |-> "mirror", width |-> 3]},
      {[type |-> "raidz", width |-> 5], [type |-> "cache", width |-> 1]},
      {[type |-> "raidz2", width |-> 12]},
      {[type |-> "raidz3", width |-> 11], [type |-> "mirror", width |-> 2]},
      {[type |-> "raidz", width |-> 18]},
      {[type |-> "raidz3", width |-> 40]} }
\* choices.ZFS_VOLBLOCKSIZE, 1K to 128K
MC_VolBlockSizes == {1, 2, 4, 8, 16, 32, 64, 128}
MC_ChoiceValues == {"always"}
\* every value the form shows as itself, one it rewrites, one it cannot show
MC_DedupValues == {"verify", "sha256,verify", "sha512"}
MC_RecordValues == {4096, 131072}
MC_RecordChoices == {Typed(512, NoSuffix), Typed(4, Upper("K")), Typed(128, Upper("K"))}
MC_ParentValue ==
    [p \in DatasetProps \cup ZvolProps |->
        CASE p = Desc                      -> ZStr("p")
          [] p = "dedup"                   -> ZStr("off")
          [] p = "recordsize"              -> ZNum(128, 1)
          [] p \in SizeProps \cup {"volsize"} -> ZNum(0, 0)
          [] p \in OnOffProps              -> ZStr("on")
          [] OTHER                         -> ZStr("standard")]
MC_DatasetFields == {Desc, "sync", "dedup", "atime", "recordsize", "quota"}

=============================================================================
