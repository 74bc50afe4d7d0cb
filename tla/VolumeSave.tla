---------------------------- MODULE VolumeSave ----------------------------
(***************************************************************************)
(* Creating and extending volumes: VolumeManagerForm.save and             *)
(* ZFSVolumeWizardForm.done, after their form validated.                  *)
(*                                                                         *)
(* Each web request runs in its own thread; the ORM autocommits, so every *)
(* query, save and delete is one atomic step, and so is every notifier()  *)
(* call.  Requests interleave between those steps.  The model keeps, per  *)
(* volume name, whether a Volume row, a ZFS pool and a Scrub row exist.   *)
(* vol_name is unique in the Volume table: saving a second row of a name  *)
(* raises.  Deleting a Volume object that was never saved leaves the      *)
(* table as it is.                                                        *)
(*                                                                         *)
(* notifier() is not part of this repository; its calls either do what   *)
(* they are named for or raise.  create_volume and the dedup option may   *)
(* raise after the pool exists when FailAfterPool; zfs_volume_attach_group *)
(* may raise when AttachMayFail.                                          *)
(***************************************************************************)
EXTENDS Naturals, FiniteSets

CONSTANTS
    Clients,         \* concurrent requests
    Names,           \* volume names
    InitialVolumes,  \* volumes that exist (row, pool, scrub) at the start
    Forms,           \* the forms in use: "manager", "wizard"
    CreateMayFail,   \* create_volume may raise before creating the pool
    FailAfterPool,   \* create_volume or zfs_set_option may raise after it
    AttachMayFail    \* zfs_volume_attach_group may raise

ASSUME SaveAssumption ==
    /\ Names # {}
    /\ InitialVolumes \subseteq Names
    /\ Forms \subseteq {"manager", "wizard"}
    /\ {CreateMayFail, FailAfterPool, AttachMayFail} \subseteq BOOLEAN

VARIABLES
    rows,        \* names with a Volume row
    pools,       \* names with a ZFS pool
    scrubs,      \* names with a Scrub row
    pc,          \* the step each request is at
    form,        \* which form a request is
    name,        \* volume_name, or volume_add when extending
    intent,      \* what validation accepted it as: "create" or "extend"
    add,         \* save()'s add: the name had a row at the lookup
    ownRow,      \* the request's volume.save() committed
    established  \* names whose create or extend request returned success (history)

vars == <<rows, pools, scrubs, pc, form, name, intent, add, ownRow, established>>

Steps == {"idle", "lookup", "rowsave", "create", "dedup", "scrub", "attach", "except"}

-----------------------------------------------------------------------------
Init ==
    /\ rows = InitialVolumes
    /\ pools = InitialVolumes
    /\ scrubs = InitialVolumes
    /\ pc = [c \in Clients |-> "idle"]
    /\ form = [c \in Clients |-> "manager"]
    /\ name = [c \in Clients |-> CHOOSE n \in Names : TRUE]
    /\ intent = [c \in Clients |-> "create"]
    /\ add = [c \in Clients |-> FALSE]
    /\ ownRow = [c \in Clients |-> FALSE]
    /\ established = InitialVolumes

\* The request returns (successfully or by raising).
Done(c) ==
    /\ pc' = [pc EXCEPT ![c] = "idle"]
    /\ add' = [add EXCEPT ![c] = FALSE]
    /\ ownRow' = [ownRow EXCEPT ![c] = FALSE]

(***************************************************************************)
(* A submit whose form validated.  A new name passed clean_volume_name    *)
(* (no row of that name).  The manager's volume_add is a name whose pool  *)
(* VdevFormSet.clean parsed; the wizard's is one of the Volume rows.      *)
(***************************************************************************)
Validate(c) ==
    /\ pc[c] = "idle"
    /\ \E f \in Forms, n \in Names, i \in {"create", "extend"} :
          /\ i = "create" => n \notin rows
          /\ i = "extend" /\ f = "manager" => n \in pools
          /\ i = "extend" /\ f = "wizard" => n \in rows
          /\ form' = [form EXCEPT ![c] = f]
          /\ name' = [name EXCEPT ![c] = n]
          /\ intent' = [intent EXCEPT ![c] = i]
    /\ pc' = [pc EXCEPT ![c] = "lookup"]
    /\ UNCHANGED <<rows, pools, scrubs, add, ownRow, established>>

\* Volume.objects.filter(vol_name=volume_name): extend if a row is there.
Lookup(c) ==
    /\ pc[c] = "lookup"
    /\ add' = [add EXCEPT ![c] = name[c] \in rows]
    /\ pc' = [pc EXCEPT ![c] = IF name[c] \in rows THEN "attach" ELSE "rowsave"]
    /\ UNCHANGED <<rows, pools, scrubs, form, name, intent, ownRow, established>>

\* volume.save() of the new row; a row of that name saved meanwhile makes it raise.
RowSave(c) ==
    /\ pc[c] = "rowsave"
    /\ \/ /\ name[c] \notin rows
          /\ rows' = rows \cup {name[c]}
          /\ ownRow' = [ownRow EXCEPT ![c] = TRUE]
          /\ pc' = [pc EXCEPT ![c] = "create"]
       \/ /\ name[c] \in rows
          /\ pc' = [pc EXCEPT ![c] = "except"]
          /\ UNCHANGED <<rows, ownRow>>
    /\ UNCHANGED <<pools, scrubs, form, name, intent, add, established>>

\* notifier().create_volume: zpool create fails on a name already in use.
CreateVolume(c) ==
    /\ pc[c] = "create"
    /\ \/ /\ name[c] \notin pools
          /\ pools' = pools \cup {name[c]}
          /\ pc' = [pc EXCEPT ![c] = "dedup"]
       \/ /\ name[c] \notin pools
          /\ FailAfterPool
          /\ pools' = pools \cup {name[c]}
          /\ pc' = [pc EXCEPT ![c] = "except"]
       \/ /\ name[c] \in pools \/ CreateMayFail
          /\ pc' = [pc EXCEPT ![c] = "except"]
          /\ UNCHANGED pools
    /\ UNCHANGED <<rows, scrubs, form, name, intent, add, ownRow, established>>

\* notifier().zfs_set_option(dedup) when dedup is set: the wizard's field is
\* required, the manager's may be left out.
SetDedup(c) ==
    /\ pc[c] = "dedup"
    /\ \/ pc' = [pc EXCEPT ![c] = "scrub"]
       \/ /\ FailAfterPool
          /\ pc' = [pc EXCEPT ![c] = "except"]
    /\ UNCHANGED <<rows, pools, scrubs, form, name, intent, add, ownRow, established>>

\* Mutant: the new volume gets no scrub row.
CreateScrubSkipped(c) ==
    /\ pc[c] = "scrub"
    /\ established' = established \cup {name[c]}
    /\ Done(c)
    /\ UNCHANGED <<rows, pools, scrubs, form, name, intent>>

\* Scrub.objects.create; the wizard's enclosure sync that follows swallows
\* its own errors.  The request then returns.
CreateScrub(c) ==
    /\ pc[c] = "scrub"
    /\ scrubs' = scrubs \cup {name[c]}
    /\ established' = established \cup {name[c]}
    /\ Done(c)
    /\ UNCHANGED <<rows, pools, form, name, intent>>

\* notifier().zfs_volume_attach_group for the new vdevs of an existing volume.
AttachGroups(c) ==
    /\ pc[c] = "attach"
    /\ \/ /\ name[c] \in pools
          /\ established' = established \cup {name[c]}
          /\ Done(c)
          /\ UNCHANGED <<form, name, intent>>
       \/ /\ name[c] \notin pools \/ AttachMayFail
          /\ pc' = [pc EXCEPT ![c] = "except"]
          /\ UNCHANGED <<add, ownRow, established>>
    /\ UNCHANGED <<rows, pools, scrubs, form, name, intent>>

\* Mutant: VolumeManagerForm's rollback deletes the row whatever add is.
ManagerRollbackAlways(c) ==
    IF ownRow[c] \/ add[c] THEN rows \ {name[c]} ELSE rows

\* Mutant: VolumeManagerForm's rollback leaves the new row in place.
ManagerRollbackKeepsRow(c) == rows

\* except in VolumeManagerForm.save: `if not add and volume: volume.delete()`.
\* volume is set whenever add is false; only a saved row is removed.
ManagerRollback(c) ==
    IF ~add[c] /\ ownRow[c] THEN rows \ {name[c]} ELSE rows

\* except in ZFSVolumeWizardForm.done: `if volume: volume.delete()`, the
\* volume of the lookup when extending.
WizardRollback(c) ==
    IF add[c] \/ ownRow[c] THEN rows \ {name[c]} ELSE rows

\* The except branch: delete the volume, delete the scrub (never created
\* by then: it is the last step of the try), re-raise.
Rollback(c) ==
    /\ pc[c] = "except"
    /\ rows' = IF form[c] = "manager" THEN ManagerRollback(c) ELSE WizardRollback(c)
    /\ Done(c)
    /\ UNCHANGED <<pools, scrubs, form, name, intent, established>>

Next ==
    \E c \in Clients :
        \/ Validate(c)
        \/ Lookup(c)
        \/ RowSave(c)
        \/ CreateVolume(c)
        \/ SetDedup(c)
        \/ CreateScrub(c)
        \/ AttachGroups(c)
        \/ Rollback(c)

Spec == Init /\ [][Next]_vars

(***************************************************************************)
(* Once a request's form validated, its thread runs save() or done() to   *)
(* the end: every ORM and notifier() call returns or raises.  Submitting  *)
(* is up to the admin, so Validate is not fair.                           *)
(***************************************************************************)
Fairness ==
    \A c \in Clients :
        WF_vars(Lookup(c) \/ RowSave(c) \/ CreateVolume(c) \/ SetDedup(c)
                \/ CreateScrub(c) \/ AttachGroups(c) \/ Rollback(c))

FairSpec == Spec /\ Fairness

-----------------------------------------------------------------------------
\* No request is between its submit and its return.
Quiet == \A c \in Clients : pc[c] = "idle"

(***************************************************************************)
(* Once every request has returned, the Volume table lists exactly the    *)
(* pools: a create that failed took its row back, and nothing that        *)
(* failed deleted the row of a pool that stays.                           *)
(***************************************************************************)
RowsMatchPools == Quiet => rows = pools

(***************************************************************************)
(* Once every request has returned, every volume has its scrub row and    *)
(* every scrub row its volume (save() creates it for the periodic scrub   *)
(* cron job).                                                             *)
(***************************************************************************)
ScrubsMatchRows == Quiet => scrubs = rows

(***************************************************************************)
(* A volume that a request created or extended successfully keeps its     *)
(* row: no later request, failed or not, removes it.                      *)
(***************************************************************************)
EstablishedKept == established \subseteq rows

(***************************************************************************)
(* A Volume row disappears only in the step where the request that saved  *)
(* it returns: no except branch deletes the row of a volume it only       *)
(* looked up to extend, nor the row another request saved.                *)
(***************************************************************************)
DeletedBySaver ==
    \A n \in rows \ rows' : \E c \in Clients : ownRow[c] /\ name[c] = n /\ pc'[c] = "idle"
RowsDeletedBySaver == [][DeletedBySaver]_vars

(***************************************************************************)
(* A request the form accepted as a new volume never attaches vdevs to an *)
(* existing one: save() looks the name up again, and must find it free.   *)
(***************************************************************************)
NoSilentExtend == \A c \in Clients : pc[c] # "idle" /\ intent[c] = "create" => ~add[c]


(***************************************************************************)
(* A Volume row without its pool is transient: the request that saved it  *)
(* goes on to create_volume, and if that raises its except branch deletes *)
(* the row.  Other requests (the wizard's volume_add choices, a second    *)
(* create of the name) see such a row only until then.                    *)
(***************************************************************************)
OrphanRowResolved ==
    \A n \in Names : (n \in rows /\ n \notin pools) ~> (n \notin rows \/ n \in pools)

=============================================================================
