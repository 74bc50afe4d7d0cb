------------------------- MODULE VolumeSave_proofs -------------------------
(***************************************************************************)
(* Proofs about VolumeManagerForm.save, for any number of concurrent      *)
(* requests and names, when notifier raises only before the pool exists.  *)
(***************************************************************************)
EXTENDS VolumeSave, TLAPS

\* Types of the state.
TypeOK ==
    /\ rows \subseteq Names
    /\ pools \subseteq Names
    /\ scrubs \subseteq Names
    /\ established \subseteq Names
    /\ pc \in [Clients -> Steps]
    /\ form \in [Clients -> Forms \cup {"manager"}]
    /\ name \in [Clients -> Names]
    /\ intent \in [Clients -> {"create", "extend"}]
    /\ add \in [Clients -> BOOLEAN]
    /\ ownRow \in [Clients -> BOOLEAN]

\* A request that saved its row is on the create path, with add false, and
\* the pool of that name exists exactly once create_volume returned.
OwnRowOK ==
    \A c \in Clients :
        /\ pc[c] \in {"create", "dedup", "scrub"} => ownRow[c]
        /\ pc[c] = "rowsave" => ~add[c]
        /\ ownRow[c] => /\ name[c] \in rows
                        /\ ~add[c]
                        /\ pc[c] \in {"create", "dedup", "scrub", "except"}
        /\ ownRow[c] /\ pc[c] \in {"create", "except"} => name[c] \notin pools
        /\ ownRow[c] /\ pc[c] \in {"dedup", "scrub"} => name[c] \in pools

\* The unique vol_name: two requests never both saved the row of a name.
OwnRowUnique ==
    \A c, d \in Clients : c # d /\ ownRow[c] /\ ownRow[d] => name[c] # name[d]

PoolsInRows == pools \subseteq rows

\* A row without a pool belongs to a request still creating it.
RowsAwaitingPool ==
    \A n \in rows \ pools :
        \E c \in Clients : ownRow[c] /\ name[c] = n /\ pc[c] \in {"create", "except"}

EstablishedPooled == established \subseteq pools

IInv == TypeOK /\ OwnRowOK /\ OwnRowUnique /\ PoolsInRows /\ RowsAwaitingPool /\ EstablishedPooled

\* The configuration the theorems are about: only VolumeManagerForm, and
\* notifier raising only before the pool exists.
ManagerOnly == Forms = {"manager"} /\ ~FailAfterPool

-----------------------------------------------------------------------------
\* The start state, with the initial volumes complete, satisfies the invariant.
LEMMA InitIInv == Init => IInv
BY SaveAssumption DEF Init, IInv, TypeOK, OwnRowOK, OwnRowUnique, PoolsInRows,
                      RowsAwaitingPool, EstablishedPooled, Steps

\* A validated submit owns no row yet.
LEMMA ValidateIInv ==
    ASSUME IInv, NEW c \in Clients, Validate(c)
    PROVE  IInv'
<1> USE DEF IInv
<1>1. ~ownRow[c]
  BY DEF Validate, OwnRowOK, TypeOK
<1>2. TypeOK'
  BY SaveAssumption DEF Validate, TypeOK, Steps
<1>3. OwnRowOK'
  BY <1>1 DEF Validate, OwnRowOK, TypeOK
<1>4. OwnRowUnique'
  BY <1>1 DEF Validate, OwnRowUnique, TypeOK
<1>5. RowsAwaitingPool'
  BY <1>1 DEF Validate, RowsAwaitingPool, TypeOK
<1>6. QED
  BY <1>2, <1>3, <1>4, <1>5 DEF Validate, PoolsInRows, EstablishedPooled

\* The lookup only chooses the path.
LEMMA LookupIInv ==
    ASSUME IInv, NEW c \in Clients, Lookup(c)
    PROVE  IInv'
<1> USE DEF IInv
<1>1. ~ownRow[c]
  BY DEF Lookup, OwnRowOK, TypeOK
<1>2. TypeOK'
  BY DEF Lookup, TypeOK, Steps
<1>3. OwnRowOK'
  BY <1>1 DEF Lookup, OwnRowOK, TypeOK
<1>4. RowsAwaitingPool'
  BY <1>1 DEF Lookup, RowsAwaitingPool, TypeOK
<1>5. QED
  BY <1>2, <1>3, <1>4 DEF Lookup, OwnRowUnique, PoolsInRows, EstablishedPooled

\* volume.save() of a free name makes the request its only owner.
LEMMA RowSaveIInv ==
    ASSUME IInv, NEW c \in Clients, RowSave(c)
    PROVE  IInv'
<1> USE DEF IInv
<1>1. ~ownRow[c] /\ ~add[c]
  BY DEF RowSave, OwnRowOK, TypeOK
<1>2. CASE name[c] \notin rows /\ rows' = rows \cup {name[c]}
            /\ ownRow' = [ownRow EXCEPT ![c] = TRUE] /\ pc' = [pc EXCEPT ![c] = "create"]
  <2>1. name[c] \notin pools
    BY <1>2 DEF PoolsInRows
  <2>2. TypeOK'
    BY <1>2 DEF RowSave, TypeOK, Steps
  <2>3. OwnRowOK'
    BY <1>1, <1>2, <2>1 DEF RowSave, OwnRowOK, TypeOK
  <2>4. OwnRowUnique'
    BY <1>2 DEF RowSave, OwnRowUnique, OwnRowOK, TypeOK
  <2>5. RowsAwaitingPool'
    BY <1>2, <2>1 DEF RowSave, RowsAwaitingPool, TypeOK
  <2>6. QED
    BY <1>2, <2>2, <2>3, <2>4, <2>5 DEF RowSave, PoolsInRows, EstablishedPooled
<1>3. CASE name[c] \in rows /\ pc' = [pc EXCEPT ![c] = "except"] /\ UNCHANGED <<rows, ownRow>>
  BY <1>1, <1>3 DEF RowSave, TypeOK, Steps, OwnRowOK, OwnRowUnique, PoolsInRows,
                    RowsAwaitingPool, EstablishedPooled
<1>4. QED
  BY <1>2, <1>3 DEF RowSave

\* create_volume adds the pool of the owned row, or raises before it.
LEMMA CreateVolumeIInv ==
    ASSUME ManagerOnly, IInv, NEW c \in Clients, CreateVolume(c)
    PROVE  IInv'
<1> USE DEF IInv
<1>1. ownRow[c] /\ name[c] \notin pools
  BY DEF CreateVolume, OwnRowOK
<1>2. CASE pools' = pools \cup {name[c]} /\ pc' = [pc EXCEPT ![c] = "dedup"]
  <2>1. TypeOK'
    BY <1>2 DEF CreateVolume, TypeOK, Steps
  <2>2. OwnRowOK'
    BY <1>1, <1>2 DEF CreateVolume, OwnRowOK, OwnRowUnique, TypeOK
  <2>3. RowsAwaitingPool'
    BY <1>2 DEF CreateVolume, RowsAwaitingPool, TypeOK
  <2>4. QED
    BY <1>2, <2>1, <2>2, <2>3 DEF CreateVolume, OwnRowUnique, PoolsInRows, OwnRowOK,
                                   EstablishedPooled
<1>3. CASE pc' = [pc EXCEPT ![c] = "except"] /\ UNCHANGED pools
  BY <1>1, <1>3 DEF CreateVolume, TypeOK, Steps, OwnRowOK, OwnRowUnique, PoolsInRows,
                    RowsAwaitingPool, EstablishedPooled
<1>4. QED
  BY <1>1, <1>2, <1>3 DEF CreateVolume, ManagerOnly

\* zfs_set_option never raises in this configuration.
LEMMA SetDedupIInv ==
    ASSUME ManagerOnly, IInv, NEW c \in Clients, SetDedup(c)
    PROVE  IInv'
<1> USE DEF IInv
<1>1. pc' = [pc EXCEPT ![c] = "scrub"]
  BY DEF SetDedup, ManagerOnly
<1>2. QED
  BY <1>1 DEF SetDedup, TypeOK, Steps, OwnRowOK, OwnRowUnique, PoolsInRows,
              RowsAwaitingPool, EstablishedPooled

\* The scrub row ends a create whose pool exists.
LEMMA CreateScrubIInv ==
    ASSUME IInv, NEW c \in Clients, CreateScrub(c)
    PROVE  IInv'
<1> USE DEF IInv
<1>1. ownRow[c] /\ name[c] \in pools
  BY DEF CreateScrub, OwnRowOK
<1>2. TypeOK'
  BY DEF CreateScrub, Done, TypeOK, Steps
<1>3. OwnRowOK'
  BY DEF CreateScrub, Done, OwnRowOK, TypeOK
<1>4. OwnRowUnique'
  BY DEF CreateScrub, Done, OwnRowUnique, TypeOK
<1>5. RowsAwaitingPool'
  BY DEF CreateScrub, Done, RowsAwaitingPool, TypeOK
<1>6. QED
  BY <1>1, <1>2, <1>3, <1>4, <1>5 DEF CreateScrub, PoolsInRows, EstablishedPooled

\* Attaching touches no row and establishes only a pooled name.
LEMMA AttachGroupsIInv ==
    ASSUME IInv, NEW c \in Clients, AttachGroups(c)
    PROVE  IInv'
<1> USE DEF IInv
<1>1. ~ownRow[c]
  BY DEF AttachGroups, OwnRowOK, TypeOK
<1>2. CASE name[c] \in pools /\ established' = established \cup {name[c]} /\ Done(c)
            /\ UNCHANGED <<form, name, intent>>
  BY <1>1, <1>2 DEF AttachGroups, Done, TypeOK, Steps, OwnRowOK, OwnRowUnique, PoolsInRows,
                    RowsAwaitingPool, EstablishedPooled
<1>3. CASE pc' = [pc EXCEPT ![c] = "except"] /\ UNCHANGED <<add, ownRow, established>>
  BY <1>1, <1>3 DEF AttachGroups, TypeOK, Steps, OwnRowOK, OwnRowUnique, PoolsInRows,
                    RowsAwaitingPool, EstablishedPooled
<1>4. QED
  BY <1>2, <1>3 DEF AttachGroups

\* The manager's rollback deletes only its own row, which has no pool.
LEMMA RollbackIInv ==
    ASSUME ManagerOnly, IInv, NEW c \in Clients, Rollback(c)
    PROVE  IInv'
<1> USE DEF IInv
<1>1. form[c] = "manager"
  BY DEF ManagerOnly, TypeOK
<1>2. rows' = ManagerRollback(c)
  BY <1>1 DEF Rollback
<1>3. TypeOK'
  BY <1>2 DEF Rollback, Done, ManagerRollback, TypeOK, Steps
<1>4. OwnRowOK'
  BY <1>2 DEF Rollback, Done, ManagerRollback, OwnRowOK, OwnRowUnique, TypeOK
<1>5. OwnRowUnique'
  BY DEF Rollback, Done, OwnRowUnique, TypeOK
<1>6. PoolsInRows'
  BY <1>2 DEF Rollback, ManagerRollback, PoolsInRows, OwnRowOK
<1>7. RowsAwaitingPool'
  <2> SUFFICES ASSUME NEW n \in rows' \ pools'
               PROVE  \E d \in Clients : ownRow'[d] /\ name'[d] = n /\ pc'[d] \in {"create", "except"}
    BY DEF RowsAwaitingPool
  <2>1. n \in rows \ pools
    BY <1>2 DEF Rollback, ManagerRollback
  <2>2. PICK d \in Clients : ownRow[d] /\ name[d] = n /\ pc[d] \in {"create", "except"}
    BY <2>1 DEF RowsAwaitingPool
  <2>3. d # c
    BY <1>2, <2>2 DEF ManagerRollback, OwnRowOK
  <2>4. QED
    BY <2>2, <2>3 DEF Rollback, Done, TypeOK
<1>8. QED
  BY <1>3, <1>4, <1>5, <1>6, <1>7 DEF Rollback, EstablishedPooled

\* Every step of the manager keeps the invariant.
LEMMA NextIInv ==
    ASSUME ManagerOnly, IInv, [Next]_vars
    PROVE  IInv'
<1>1. CASE UNCHANGED vars
  BY <1>1 DEF vars, IInv, TypeOK, OwnRowOK, OwnRowUnique, PoolsInRows, RowsAwaitingPool,
              EstablishedPooled
<1>2. CASE Next
  BY <1>2, ValidateIInv, LookupIInv, RowSaveIInv, CreateVolumeIInv, SetDedupIInv,
     CreateScrubIInv, AttachGroupsIInv, RollbackIInv DEF Next
<1>3. QED
  BY <1>1, <1>2

\* With every request returned, the invariant leaves no row without a pool.
LEMMA IInvRowsMatchPools == IInv => RowsMatchPools /\ EstablishedKept
<1> SUFFICES ASSUME IInv PROVE RowsMatchPools /\ EstablishedKept
  OBVIOUS
<1>1. EstablishedKept
  BY DEF IInv, EstablishedPooled, PoolsInRows, EstablishedKept
<1>2. Quiet => rows \subseteq pools
  BY DEF IInv, RowsAwaitingPool, Quiet
<1>3. QED
  BY <1>1, <1>2 DEF IInv, PoolsInRows, RowsMatchPools

\* The strengthened invariant holds in every state of VolumeManagerForm.save
\* when notifier raises only before the pool exists.
THEOREM ManagerIInvInvariant == ManagerOnly => (Spec => []IInv)
<1> SUFFICES ASSUME ManagerOnly PROVE Spec => []IInv
  OBVIOUS
<1>1. Init => IInv
  BY InitIInv
<1>2. IInv /\ [Next]_vars => IInv'
  BY NextIInv
<1>3. QED
  BY <1>1, <1>2, PTL DEF Spec

(***************************************************************************)
(* For any number of concurrent VolumeManagerForm.save requests and any  *)
(* names, when notifier raises only before the pool exists: once every    *)
(* request returned, the Volume rows are exactly the pools; and a volume  *)
(* created or extended successfully keeps its row.                        *)
(***************************************************************************)
THEOREM ManagerRowsMatchPools == ManagerOnly => (Spec => [](RowsMatchPools /\ EstablishedKept))
BY ManagerIInvInvariant, IInvRowsMatchPools, PTL

(***************************************************************************)
(* With VolumeManagerForm only and notifier raising only before the pool  *)
(* exists, no request's rollback ever deletes the row of a volume another *)
(* request created or extended successfully.  With a failure after the    *)
(* pool (FailAfterPool) this fails: a request whose dedup option raises   *)
(* deletes a row that a concurrent extend has already attached to.        *)
(***************************************************************************)
THEOREM ManagerEstablishedKept == ManagerOnly => (Spec => []EstablishedKept)
BY ManagerIInvInvariant, IInvRowsMatchPools, PTL

\* Only the except branch removes a row, and the manager's removes only the
\* row its own request saved, in the step that returns.
LEMMA StepDeletedBySaver ==
    ASSUME ManagerOnly, IInv, [Next]_vars
    PROVE  DeletedBySaver
<1>1. CASE \E c \in Clients : Rollback(c)
  <2>1. PICK c \in Clients : Rollback(c)
    BY <1>1
  <2>2. form[c] = "manager"
    BY DEF ManagerOnly, IInv, TypeOK
  <2>3. rows' = ManagerRollback(c)
    BY <2>1, <2>2 DEF Rollback
  <2>4. pc'[c] = "idle"
    BY <2>1 DEF Rollback, Done, IInv, TypeOK
  <2>5. rows \ rows' \subseteq {name[c]} /\ (rows \ rows' # {} => ownRow[c])
    BY <2>3 DEF ManagerRollback
  <2>6. QED
    BY <2>4, <2>5 DEF DeletedBySaver
<1>2. CASE ~\E c \in Clients : Rollback(c)
  <2>1. rows \subseteq rows'
    BY <1>2 DEF Next, vars, Validate, Lookup, RowSave, CreateVolume, SetDedup,
       CreateScrub, AttachGroups
  <2>2. QED
    BY <2>1 DEF DeletedBySaver
<1>3. QED
  BY <1>1, <1>2

(***************************************************************************)
(* With VolumeManagerForm only and notifier raising only before the pool  *)
(* exists, a Volume row disappears only in the step where the request     *)
(* that saved it returns, for every number of requests and names.        *)
(***************************************************************************)
THEOREM ManagerRowsDeletedBySaver == ManagerOnly => (Spec => RowsDeletedBySaver)
<1> SUFFICES ASSUME ManagerOnly PROVE Spec => [][DeletedBySaver]_vars
  BY DEF RowsDeletedBySaver
<1>1. IInv /\ [Next]_vars => DeletedBySaver
  BY StepDeletedBySaver
<1>2. Spec => []IInv
  BY ManagerIInvInvariant
<1>3. QED
  BY <1>1, <1>2, PTL DEF Spec

-----------------------------------------------------------------------------
(***************************************************************************)
(* ScrubsMatchRows.  The scrub row is the last step of a create, so a     *)
(* Volume row lacks its scrub only while the request that saved it is     *)
(* still running; and that request's rollback deletes a row no scrub has  *)
(* been created for yet.                                                  *)
(***************************************************************************)
ScrubsInRows == scrubs \subseteq rows

\* A row without its scrub belongs to a request that is still creating it.
RowsAwaitingScrub == \A n \in rows \ scrubs : \E c \in Clients : ownRow[c] /\ name[c] = n

\* The row a request saved has no scrub row yet.
OwnedUnscrubbed == \A c \in Clients : ownRow[c] => name[c] \notin scrubs

ScrubInv == ScrubsInRows /\ RowsAwaitingScrub /\ OwnedUnscrubbed

LEMMA InitScrubInv == Init => ScrubInv
BY DEF Init, ScrubInv, ScrubsInRows, RowsAwaitingScrub, OwnedUnscrubbed

LEMMA NextScrubInv ==
    ASSUME ManagerOnly, IInv, ScrubInv, [Next]_vars
    PROVE  ScrubInv'
<1> USE DEF ScrubInv
<1>1. CASE UNCHANGED vars
  BY <1>1 DEF vars, ScrubsInRows, RowsAwaitingScrub, OwnedUnscrubbed
<1>2. ASSUME NEW c \in Clients, Validate(c) PROVE ScrubInv'
  <2>1. ~ownRow[c]
    BY <1>2 DEF Validate, IInv, OwnRowOK, TypeOK
  <2>2. QED
    BY <1>2, <2>1 DEF Validate, ScrubsInRows, RowsAwaitingScrub, OwnedUnscrubbed, IInv, TypeOK
<1>3. ASSUME NEW c \in Clients, Lookup(c) \/ CreateVolume(c) \/ SetDedup(c)
      PROVE  ScrubInv'
  BY <1>3 DEF Lookup, CreateVolume, SetDedup,
              ScrubsInRows, RowsAwaitingScrub, OwnedUnscrubbed
<1>4. ASSUME NEW c \in Clients, RowSave(c) PROVE ScrubInv'
  <2>1. CASE name[c] \notin rows /\ rows' = rows \cup {name[c]}
             /\ ownRow' = [ownRow EXCEPT ![c] = TRUE]
    <3>1. name[c] \notin scrubs
      BY <2>1 DEF ScrubsInRows
    <3>2. QED
      BY <1>4, <2>1, <3>1 DEF RowSave, IInv, TypeOK, ScrubsInRows, RowsAwaitingScrub,
                             OwnedUnscrubbed
  <2>4. CASE UNCHANGED <<rows, ownRow>>
    BY <1>4, <2>4 DEF RowSave, ScrubsInRows, RowsAwaitingScrub, OwnedUnscrubbed
  <2>5. QED
    BY <1>4, <2>1, <2>4 DEF RowSave
<1>5. ASSUME NEW c \in Clients, CreateScrub(c) PROVE ScrubInv'
  <2>1. ownRow[c] /\ name[c] \in rows
    BY <1>5 DEF CreateScrub, IInv, OwnRowOK
  <2>2. ScrubsInRows'
    BY <1>5, <2>1 DEF CreateScrub, ScrubsInRows
  <2>3. RowsAwaitingScrub'
    BY <1>5 DEF CreateScrub, Done, RowsAwaitingScrub, IInv, TypeOK
  <2>4. OwnedUnscrubbed'
    BY <1>5, <2>1 DEF CreateScrub, Done, OwnedUnscrubbed, IInv, OwnRowUnique, TypeOK
  <2>5. QED
    BY <2>2, <2>3, <2>4
<1>6. ASSUME NEW c \in Clients, AttachGroups(c) PROVE ScrubInv'
  <2>1. ~ownRow[c]
    BY <1>6 DEF AttachGroups, IInv, OwnRowOK, TypeOK
  <2>2. QED
    BY <1>6, <2>1 DEF AttachGroups, Done, ScrubsInRows, RowsAwaitingScrub, OwnedUnscrubbed,
                      IInv, TypeOK
<1>7. ASSUME NEW c \in Clients, Rollback(c) PROVE ScrubInv'
  <2>1. rows' = ManagerRollback(c) /\ ownRow' = [ownRow EXCEPT ![c] = FALSE]
        /\ UNCHANGED <<scrubs, name>>
    BY <1>7 DEF Rollback, Done, ManagerOnly, IInv, TypeOK
  <2>2. ownRow[c] => ~add[c]
    BY DEF IInv, OwnRowOK
  <2>3. ScrubsInRows'
    BY <2>1 DEF ManagerRollback, ScrubsInRows, OwnedUnscrubbed
  <2>4. RowsAwaitingScrub'
    BY <2>1, <2>2 DEF ManagerRollback, RowsAwaitingScrub, IInv, TypeOK
  <2>5. OwnedUnscrubbed'
    BY <2>1 DEF OwnedUnscrubbed, IInv, TypeOK
  <2>6. QED
    BY <2>3, <2>4, <2>5
<1>8. QED
  BY <1>1, <1>2, <1>3, <1>4, <1>5, <1>6, <1>7 DEF Next

(***************************************************************************)
(* For any number of concurrent VolumeManagerForm.save requests and any   *)
(* names, when notifier raises only before the pool exists: once every    *)
(* request returned, every volume has its scrub row and every scrub row   *)
(* its volume.                                                            *)
(***************************************************************************)
THEOREM ManagerScrubsMatchRows == ManagerOnly => (Spec => []ScrubsMatchRows)
<1> SUFFICES ASSUME ManagerOnly PROVE Spec => []ScrubsMatchRows
  OBVIOUS
<1>1. IInv /\ ScrubInv /\ [Next]_vars => ScrubInv'
  BY NextScrubInv
<1>2. Spec => []ScrubInv
  BY <1>1, InitScrubInv, ManagerIInvInvariant, PTL DEF Spec
<1>3. IInv /\ ScrubInv => ScrubsMatchRows
  BY DEF IInv, OwnRowOK, TypeOK, ScrubInv, ScrubsInRows, RowsAwaitingScrub,
         ScrubsMatchRows, Quiet
<1>4. QED
  BY <1>2, <1>3, ManagerIInvInvariant, PTL

=============================================================================
