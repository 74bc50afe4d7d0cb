---------------------- MODULE CronJobService_proofs ----------------------
(***************************************************************************)
(* Proofs about CronJobService for every value of the constants.          *)
(*                                                                         *)
(* TypeOK is not inductive by itself: UpdateWrite merges the update body  *)
(* into the history `intent', which is a job only because a request at    *)
(* the write await holds a body and the row it targets is live.  IInv     *)
(* adds those facts, plus the ones the safety properties rest on: ids at  *)
(* or above nextId are unused, and the crontab differs from the table     *)
(* only while some request still has its restart ahead of it or the last *)
(* restart failed.                                                        *)
(***************************************************************************)
EXTENDS CronJobService, TLAPS

\* The locals of a suspended request: the job it will insert or write, the
\* body it merged and the id it targets.
PendingOK ==
    \A c \in Clients :
        /\ pc[c] = "insert" => task[c] \in Job
        /\ pc[c] = "write" => task[c] \in Job /\ patch[c] \in Patch /\ target[c] \in JobIds

\* The AUTOINCREMENT key has not reached these ids: no row, no delete.
FreshIdsUnused ==
    \A i \in JobIds : i >= nextId => db[i] = NoJob /\ i \notin deleted

\* The history has a job exactly where the table has a row.
IntentTracksRows ==
    \A i \in JobIds : intent[i] = NoJob <=> db[i] = NoJob

\* The crontab lags the table only while a restart is pending or failed.
CrontabBehind ==
    crontab # db => restartFailed \/ \E c \in Clients : pc[c] = "restart"

IInv ==
    /\ TypeOK
    /\ PendingOK
    /\ FreshIdsUnused
    /\ NoResurrection
    /\ IntentTracksRows
    /\ CrontabBehind

-----------------------------------------------------------------------------
\* The job do_update writes (task_data.update(data)) is again a job.
LEMMA MergeType ==
    ASSUME NEW j \in Job, NEW p \in Patch
    PROVE  Merge(j, p) \in Job
<1>1. PICK S \in (SUBSET Fields) \ {{}}, k \in Job : p = [f \in S |-> k[f]]
    BY DEF Patch
<1>2. Merge(j, p) = [f \in Fields |-> IF f \in S THEN k[f] ELSE j[f]]
    BY <1>1 DEF Merge
<1>3. QED
    BY <1>1, <1>2 DEF Job, Fields

LEMMA InitIInv == Init => IInv
<1> SUFFICES ASSUME Init PROVE IInv
    OBVIOUS
<1>1. db \in [JobIds -> Job \cup {NoJob}] /\ crontab \in [JobIds -> Job \cup {NoJob}]
    BY DEF Init
<1>2. intent \in [JobIds -> Job \cup {NoJob}]
    BY DEF Init
<1>3. nextId \in Nat \ {0} /\ requests \in 0..MaxRequests
    BY MaxIdAssumption DEF Init
<1>4. pc \in [Clients -> {"idle", "insert", "write", "restart"}]
    BY DEF Init
<1>5. task \in [Clients -> Job \cup {NoJob}] /\ patch \in [Clients -> Patch \cup {NoJob}]
    BY DEF Init
<1>6. target \in [Clients -> 0..MaxId]
    BY MaxIdAssumption DEF Init
<1>7. restartFailed \in BOOLEAN /\ deleted \subseteq JobIds
    BY DEF Init
<1>8. TypeOK
    BY <1>1, <1>2, <1>3, <1>4, <1>5, <1>6, <1>7 DEF TypeOK
<1>9. PendingOK /\ FreshIdsUnused /\ NoResurrection /\ IntentTracksRows /\ CrontabBehind
    BY DEF Init, PendingOK, FreshIdsUnused, NoResurrection, IntentTracksRows, CrontabBehind
<1>10. QED
    BY <1>8, <1>9 DEF IInv

\* A request from an idle caller touches nothing but its own locals.
LEMMA DoCreateIInv ==
    ASSUME IInv, NEW c \in Clients, DoCreate(c)
    PROVE  IInv'
<1>1. PICK j \in Job :
        \/ /\ ~ValidateData(j)
           /\ UNCHANGED <<pc, task, patch, target>>
        \/ /\ ValidateData(j)
           /\ pc' = [pc EXCEPT ![c] = "insert"]
           /\ task' = [task EXCEPT ![c] = j]
           /\ UNCHANGED <<patch, target>>
    BY DEF DoCreate
<1>2. pc[c] = "idle" /\ requests' = requests + 1 /\ requests < MaxRequests
    BY DEF DoCreate, Issue
<1>3. TypeOK'
    BY <1>1, <1>2, MaxIdAssumption DEF DoCreate, IInv, TypeOK
<1>4. PendingOK'
    BY <1>1, <1>2 DEF DoCreate, IInv, TypeOK, PendingOK
<1>5. (FreshIdsUnused /\ NoResurrection /\ IntentTracksRows)'
    BY DEF DoCreate, IInv, FreshIdsUnused, NoResurrection, IntentTracksRows
<1>6. CrontabBehind'
    BY <1>1, <1>2 DEF DoCreate, IInv, TypeOK, CrontabBehind
<1>7. QED
    BY <1>3, <1>4, <1>5, <1>6 DEF IInv

\* datastore.insert writes at nextId, which is unused, and restarts next.
LEMMA CreateInsertIInv ==
    ASSUME IInv, NEW c \in Clients, CreateInsert(c)
    PROVE  IInv'
<1>1. task[c] \in Job
    BY DEF CreateInsert, IInv, PendingOK
<1>2. TypeOK'
    <2>1. db' \in [JobIds -> Job \cup {NoJob}] /\ intent' \in [JobIds -> Job \cup {NoJob}]
        BY <1>1 DEF CreateInsert, IInv, TypeOK
    <2>2. nextId' \in Nat \ {0}
        BY DEF CreateInsert, IInv, TypeOK
    <2>3. pc' \in [Clients -> {"idle", "insert", "write", "restart"}]
        BY DEF CreateInsert, IInv, TypeOK
    <2>4. QED
        BY <2>1, <2>2, <2>3 DEF CreateInsert, IInv, TypeOK
<1>3. PendingOK'
    BY DEF CreateInsert, IInv, TypeOK, PendingOK
<1>4. FreshIdsUnused'
    BY DEF CreateInsert, IInv, TypeOK, FreshIdsUnused, JobIds
<1>5. NoResurrection'
    BY DEF CreateInsert, IInv, TypeOK, FreshIdsUnused, NoResurrection
<1>6. IntentTracksRows'
    BY <1>1, NoJobAssumption DEF CreateInsert, IInv, TypeOK, IntentTracksRows
<1>7. CrontabBehind'
    BY DEF CreateInsert, IInv, TypeOK, CrontabBehind
<1>8. QED
    BY <1>2, <1>3, <1>4, <1>5, <1>6, <1>7 DEF IInv

\* do_update reads and merges; it writes nothing before its await.
LEMMA DoUpdateIInv ==
    ASSUME IInv, NEW c \in Clients, DoUpdate(c)
    PROVE  IInv'
<1>1. PICK id \in JobIds, p \in Patch :
        \/ /\ UNCHANGED <<pc, task, patch, target>>
        \/ /\ db[id] # NoJob
           /\ pc' = [pc EXCEPT ![c] = "write"]
           /\ task' = [task EXCEPT ![c] = Merge(db[id], p)]
           /\ patch' = [patch EXCEPT ![c] = p]
           /\ target' = [target EXCEPT ![c] = id]
    BY DEF DoUpdate
<1>2. pc[c] = "idle" /\ requests' = requests + 1 /\ requests < MaxRequests
    BY DEF DoUpdate, Issue
<1>3. db[id] # NoJob => Merge(db[id], p) \in Job
    BY MergeType DEF IInv, TypeOK
<1>4. TypeOK'
    <2>1. requests' \in 0..MaxRequests
        BY <1>2, MaxIdAssumption DEF IInv, TypeOK
    <2>2. pc' \in [Clients -> {"idle", "insert", "write", "restart"}]
        BY <1>1 DEF IInv, TypeOK
    <2>3. task' \in [Clients -> Job \cup {NoJob}]
        BY <1>1, <1>3 DEF IInv, TypeOK
    <2>4. patch' \in [Clients -> Patch \cup {NoJob}]
        BY <1>1 DEF IInv, TypeOK
    <2>5. target' \in [Clients -> 0..MaxId]
        BY <1>1, MaxIdAssumption DEF IInv, TypeOK, JobIds
    <2>6. QED
        BY <2>1, <2>2, <2>3, <2>4, <2>5 DEF DoUpdate, IInv, TypeOK
<1>5. PendingOK'
    BY <1>1, <1>3 DEF DoUpdate, IInv, TypeOK, PendingOK
<1>6. (FreshIdsUnused /\ NoResurrection /\ IntentTracksRows)'
    BY DEF DoUpdate, IInv, FreshIdsUnused, NoResurrection, IntentTracksRows
<1>7. CrontabBehind'
    BY <1>1, <1>2 DEF DoUpdate, IInv, TypeOK, CrontabBehind
<1>8. QED
    BY <1>4, <1>5, <1>6, <1>7 DEF IInv

\* datastore.update writes only a live row, and restarts next.
LEMMA UpdateWriteIInv ==
    ASSUME IInv, NEW c \in Clients, UpdateWrite(c)
    PROVE  IInv'
<1>1. task[c] \in Job /\ patch[c] \in Patch /\ target[c] \in JobIds
    BY DEF UpdateWrite, IInv, PendingOK
<1>2. CASE db[target[c]] = NoJob
    <2>1. TypeOK'
        <3>1. pc' \in [Clients -> {"idle", "insert", "write", "restart"}]
            BY <1>2 DEF UpdateWrite, Idle, IInv, TypeOK
        <3>2. task' \in [Clients -> Job \cup {NoJob}] /\ patch' \in [Clients -> Patch \cup {NoJob}]
            BY <1>2 DEF UpdateWrite, Idle, IInv, TypeOK
        <3>3. target' \in [Clients -> 0..MaxId]
            BY <1>2, MaxIdAssumption DEF UpdateWrite, Idle, IInv, TypeOK
        <3>4. QED
            BY <1>2, <3>1, <3>2, <3>3 DEF UpdateWrite, IInv, TypeOK
    <2>2. PendingOK'
        BY <1>2 DEF UpdateWrite, Idle, IInv, TypeOK, PendingOK
    <2>3. (FreshIdsUnused /\ NoResurrection /\ IntentTracksRows)'
        BY <1>2 DEF UpdateWrite, IInv, FreshIdsUnused, NoResurrection, IntentTracksRows
    <2>4. CrontabBehind'
        BY <1>2 DEF UpdateWrite, Idle, IInv, TypeOK, CrontabBehind
    <2>5. QED
        BY <2>1, <2>2, <2>3, <2>4 DEF IInv
<1>3. CASE db[target[c]] # NoJob
    <2> DEFINE t == target[c]
    <2>1. db' = [db EXCEPT ![t] = task[c]]
          /\ intent' = [intent EXCEPT ![t] = Merge(intent[t], patch[c])]
          /\ pc' = [pc EXCEPT ![c] = "restart"]
          /\ UNCHANGED <<task, patch, target, crontab, nextId, requests, restartFailed, deleted>>
        BY <1>3 DEF UpdateWrite
    <2>2. intent[t] \in Job
        BY <1>1, <1>3 DEF IInv, TypeOK, IntentTracksRows
    <2>3. Merge(intent[t], patch[c]) \in Job
        BY <1>1, <2>2, MergeType
    <2>4. TypeOK'
        <3>1. db' \in [JobIds -> Job \cup {NoJob}] /\ intent' \in [JobIds -> Job \cup {NoJob}]
            BY <1>1, <2>1, <2>3 DEF IInv, TypeOK
        <3>2. pc' \in [Clients -> {"idle", "insert", "write", "restart"}]
            BY <2>1 DEF IInv, TypeOK
        <3>3. QED
            BY <2>1, <3>1, <3>2 DEF IInv, TypeOK
    <2>5. PendingOK'
        BY <2>1 DEF IInv, TypeOK, PendingOK
    <2>6. FreshIdsUnused'
        BY <1>1, <1>3, <2>1 DEF IInv, TypeOK, FreshIdsUnused
    <2>7. NoResurrection'
        BY <1>1, <1>3, <2>1 DEF IInv, TypeOK, NoResurrection
    <2>8. IntentTracksRows'
        BY <1>1, <2>1, <2>3, NoJobAssumption DEF IInv, TypeOK, IntentTracksRows
    <2>9. CrontabBehind'
        BY <2>1 DEF IInv, TypeOK, CrontabBehind
    <2>10. QED
        BY <2>4, <2>5, <2>6, <2>7, <2>8, <2>9 DEF IInv
<1>4. QED
    BY <1>2, <1>3

\* do_delete removes a live row, records it, and restarts next.
LEMMA DoDeleteIInv ==
    ASSUME IInv, NEW c \in Clients, DoDelete(c)
    PROVE  IInv'
<1>1. pc[c] = "idle" /\ requests' = requests + 1 /\ requests < MaxRequests
    BY DEF DoDelete, Issue
<1>2. requests' \in 0..MaxRequests
    BY <1>1, MaxIdAssumption DEF IInv, TypeOK
<1>3. PICK id \in JobIds :
        \/ /\ db[id] = NoJob
           /\ UNCHANGED <<db, pc, target, deleted, intent>>
        \/ /\ db[id] # NoJob
           /\ db' = [db EXCEPT ![id] = NoJob]
           /\ intent' = [intent EXCEPT ![id] = NoJob]
           /\ deleted' = deleted \cup {id}
           /\ pc' = [pc EXCEPT ![c] = "restart"]
           /\ target' = [target EXCEPT ![c] = id]
    BY DEF DoDelete
<1>4. UNCHANGED <<crontab, nextId, task, patch, restartFailed>>
    BY DEF DoDelete
<1>5. CASE db[id] = NoJob
    <2>1. TypeOK'
        BY <1>2, <1>3, <1>4, <1>5 DEF IInv, TypeOK
    <2>2. (PendingOK /\ FreshIdsUnused /\ NoResurrection /\ IntentTracksRows /\ CrontabBehind)'
        BY <1>3, <1>4, <1>5 DEF IInv, PendingOK, FreshIdsUnused, NoResurrection,
                                IntentTracksRows, CrontabBehind
    <2>3. QED
        BY <2>1, <2>2 DEF IInv
<1>6. CASE db[id] # NoJob
    <2>1. TypeOK'
        <3>1. db' \in [JobIds -> Job \cup {NoJob}] /\ intent' \in [JobIds -> Job \cup {NoJob}]
            BY <1>3, <1>6 DEF IInv, TypeOK
        <3>2. pc' \in [Clients -> {"idle", "insert", "write", "restart"}]
            BY <1>3, <1>6 DEF IInv, TypeOK
        <3>3. target' = [target EXCEPT ![c] = id] /\ deleted' = deleted \cup {id}
            BY <1>3, <1>6
        <3>4. target' \in [Clients -> 0..MaxId] /\ deleted' \subseteq JobIds
            BY <3>3, MaxIdAssumption DEF IInv, TypeOK, JobIds
        <3>5. QED
            BY <1>2, <1>4, <3>1, <3>2, <3>4 DEF IInv, TypeOK
    <2>2. PendingOK'
        BY <1>3, <1>4, <1>6 DEF IInv, TypeOK, PendingOK
    <2>3. FreshIdsUnused'
        BY <1>3, <1>4, <1>6 DEF IInv, TypeOK, FreshIdsUnused
    <2>4. NoResurrection'
        BY <1>3, <1>6 DEF IInv, TypeOK, NoResurrection
    <2>5. IntentTracksRows'
        BY <1>3, <1>6 DEF IInv, TypeOK, IntentTracksRows
    <2>6. CrontabBehind'
        BY <1>3, <1>6 DEF IInv, TypeOK, CrontabBehind
    <2>7. QED
        BY <2>1, <2>2, <2>3, <2>4, <2>5, <2>6 DEF IInv
<1>7. QED
    BY <1>5, <1>6

\* service.restart('cron') reloads the table, or fails and says so.
LEMMA RestartCronIInv ==
    ASSUME IInv, NEW c \in Clients, RestartCron(c)
    PROVE  IInv'
<1>1. UNCHANGED <<db, nextId, requests, deleted, intent>>
    BY DEF RestartCron
<1>2. TypeOK'
    <2>1. restartFailed' \in BOOLEAN /\ crontab' \in [JobIds -> Job \cup {NoJob}]
        BY DEF RestartCron, IInv, TypeOK
    <2>2. pc' \in [Clients -> {"idle", "insert", "write", "restart"}]
        BY DEF RestartCron, Idle, IInv, TypeOK
    <2>3. task' \in [Clients -> Job \cup {NoJob}] /\ patch' \in [Clients -> Patch \cup {NoJob}]
        BY DEF RestartCron, Idle, IInv, TypeOK
    <2>4. target' \in [Clients -> 0..MaxId]
        BY MaxIdAssumption DEF RestartCron, Idle, IInv, TypeOK
    <2>5. QED
        BY <1>1, <2>1, <2>2, <2>3, <2>4 DEF IInv, TypeOK
<1>3. PendingOK'
    BY DEF RestartCron, Idle, IInv, TypeOK, PendingOK
<1>4. (FreshIdsUnused /\ NoResurrection /\ IntentTracksRows)'
    BY <1>1 DEF IInv, FreshIdsUnused, NoResurrection, IntentTracksRows
<1>5. CrontabBehind'
    BY <1>1 DEF RestartCron, CrontabBehind
<1>6. QED
    BY <1>2, <1>3, <1>4, <1>5 DEF IInv

LEMMA NextIInv == IInv /\ [Next]_vars => IInv'
<1> SUFFICES ASSUME IInv, [Next]_vars PROVE IInv'
    OBVIOUS
<1>1. CASE Next
    BY <1>1, DoCreateIInv, CreateInsertIInv, DoUpdateIInv, UpdateWriteIInv,
       DoDeleteIInv, RestartCronIInv DEF Next
<1>2. CASE UNCHANGED vars
    BY <1>2 DEF vars, IInv, TypeOK, PendingOK, FreshIdsUnused, NoResurrection,
                IntentTracksRows, CrontabBehind
<1>3. QED
    BY <1>1, <1>2

\* IInv holds in every reachable state.
THEOREM IInvInvariant == Spec => []IInv
BY InitIInv, NextIInv, PTL DEF Spec

(***************************************************************************)
(* Every variable keeps its type: in particular the job do_update writes, *)
(* the stored row merged with the body, is again a job.                  *)
(***************************************************************************)
THEOREM TypeCorrect == Spec => []TypeOK
BY IInvInvariant, PTL DEF IInv

(***************************************************************************)
(* A job do_delete removed is never written again, whatever do_update     *)
(* requests read it before the delete and write after it: for every      *)
(* number of callers and ids.                                             *)
(***************************************************************************)
THEOREM NoResurrectionInvariant == Spec => []NoResurrection
BY IInvInvariant, PTL DEF IInv

(***************************************************************************)
(* Once no request is in flight and the last restart succeeded, cron runs *)
(* exactly the jobs in the table: every write is followed by a restart    *)
(* that loads the table as it is then.                                    *)
(***************************************************************************)
LEMMA IInvSynced == IInv => CrontabSyncedWhenIdle
BY DEF IInv, CrontabBehind, CrontabSyncedWhenIdle

THEOREM CrontabSyncedInvariant == Spec => []CrontabSyncedWhenIdle
BY IInvInvariant, IInvSynced, PTL

-----------------------------------------------------------------------------
(***************************************************************************)
(* SchedulesInRange.  A row is only ever written with the job a request   *)
(* validated: do_create validates the job it inserts, do_update the       *)
(* merged row it writes.  ValidJobs carries that job across the await.    *)
(***************************************************************************)
ValidJobs == \A c \in Clients : pc[c] \in {"insert", "write"} => ValidateData(task[c])

SInv == ValidJobs /\ SchedulesInRange

\* A job validate_data accepts has a schedule cron accepts.
LEMMA ValidScheduled ==
    ASSUME NEW j, ValidateData(j)
    PROVE  /\ j.dayweek \in {Star, <<>>} \/ Pieces(j.dayweek) \subseteq 1..7
           /\ j.month \in {Star, <<>>} \/ Pieces(j.month) \subseteq 1..12
BY DEF ValidateData, CronListValid, Pieces

LEMMA InitSInv == Init => SInv
BY DEF Init, SInv, ValidJobs, SchedulesInRange

LEMMA NextSInv == IInv /\ SInv /\ [Next]_vars => SInv'
<1> SUFFICES ASSUME IInv, SInv, [Next]_vars PROVE SInv'
    OBVIOUS
<1> USE DEF SInv
<1>1. ASSUME NEW c \in Clients, DoCreate(c) PROVE SInv'
    <2>1. PICK j \in Job :
              \/ /\ ~ValidateData(j)
                 /\ UNCHANGED <<pc, task, patch, target>>
              \/ /\ ValidateData(j)
                 /\ pc' = [pc EXCEPT ![c] = "insert"]
                 /\ task' = [task EXCEPT ![c] = j]
                 /\ UNCHANGED <<patch, target>>
        BY <1>1 DEF DoCreate
    <2>2. ValidJobs'
        BY <2>1 DEF ValidJobs, IInv, TypeOK
    <2>3. QED
        BY <1>1, <2>2 DEF DoCreate, SchedulesInRange
<1>2. ASSUME NEW c \in Clients, CreateInsert(c) PROVE SInv'
    <2>1. ValidateData(task[c])
        BY <1>2 DEF CreateInsert, ValidJobs
    <2>2. SchedulesInRange'
        BY <1>2, <2>1, ValidScheduled DEF CreateInsert, SchedulesInRange, IInv, TypeOK
    <2>3. ValidJobs'
        BY <1>2 DEF CreateInsert, ValidJobs, IInv, TypeOK
    <2>4. QED
        BY <2>2, <2>3
<1>3. ASSUME NEW c \in Clients, DoUpdate(c) PROVE SInv'
    <2>1. PICK id \in JobIds, p \in Patch :
              \/ UNCHANGED <<pc, task>>
              \/ /\ ValidateData(Merge(db[id], p))
                 /\ pc' = [pc EXCEPT ![c] = "write"]
                 /\ task' = [task EXCEPT ![c] = Merge(db[id], p)]
        BY <1>3 DEF DoUpdate
    <2>2. ValidJobs'
        BY <2>1 DEF ValidJobs, IInv, TypeOK
    <2>3. QED
        BY <1>3, <2>2 DEF DoUpdate, SchedulesInRange
<1>4. ASSUME NEW c \in Clients, UpdateWrite(c) PROVE SInv'
    <2>1. ValidateData(task[c])
        BY <1>4 DEF UpdateWrite, ValidJobs
    <2>2. SchedulesInRange'
        BY <1>4, <2>1, ValidScheduled DEF UpdateWrite, Idle, SchedulesInRange, IInv, TypeOK
    <2>3. ValidJobs'
        BY <1>4 DEF UpdateWrite, Idle, ValidJobs, IInv, TypeOK
    <2>4. QED
        BY <2>2, <2>3
<1>5. ASSUME NEW c \in Clients, DoDelete(c) PROVE SInv'
    BY <1>5 DEF DoDelete, Issue, ValidJobs, SchedulesInRange, IInv, TypeOK
<1>6. ASSUME NEW c \in Clients, RestartCron(c) PROVE SInv'
    BY <1>6 DEF RestartCron, Idle, ValidJobs, SchedulesInRange, IInv, TypeOK
<1>7. CASE UNCHANGED vars
    BY <1>7 DEF vars, ValidJobs, SchedulesInRange
<1>8. QED
    BY <1>1, <1>2, <1>3, <1>4, <1>5, <1>6, <1>7 DEF Next

(***************************************************************************)
(* Every job in the table has a schedule cron accepts (dayweek 1-7, month *)
(* 1-12, or "*" or empty), including the merged rows do_update writes     *)
(* after validating them: for every number of callers and ids.            *)
(***************************************************************************)
THEOREM SchedulesInRangeInvariant == Spec => []SchedulesInRange
<1>1. Spec => []SInv
    BY IInvInvariant, InitSInv, NextSInv, PTL DEF Spec
<1>2. QED
    BY <1>1, PTL DEF SInv


-----------------------------------------------------------------------------
(***************************************************************************)
(* Refinement of CronTable.  Under UsedIds the abstract `used' is the ids *)
(* below nextId; the concrete steps that write the table or the crontab   *)
(* are the abstract create, update, delete and reload, and every other    *)
(* step leaves db, crontab and nextId alone.  The step proof needs IInv   *)
(* (a create's id is fresh, a write targets an id with a job in Job) and  *)
(* SInv (the job written passed validate_data).                           *)
(***************************************************************************)
THEOREM IInvSInvInvariant == Spec => [](IInv /\ SInv)
    BY IInvInvariant, InitSInv, NextSInv, PTL DEF Spec

\* The valid jobs, the abstract Jobs.
ValidJob == {j \in Job : ValidateData(j)}

LEMMA InitRefines == Init => Abs!Init
    BY MaxIdAssumption DEF Init, Abs!Init, UsedIds, JobIds

\* A step that leaves the table, the crontab and the counter alone stutters.
LEMMA FrameStutter ==
    ASSUME db' = db, crontab' = crontab, nextId' = nextId
    PROVE  UNCHANGED Abs!tvars
    BY DEF Abs!tvars, UsedIds

\* An insert past the ids of the instance changes nothing of the table.
LEMMA InsertBeyond ==
    ASSUME IInv, NEW c \in Clients, CreateInsert(c), nextId \notin JobIds
    PROVE  UNCHANGED Abs!tvars
<1>1. db' = db
    BY DEF CreateInsert, IInv, TypeOK
<1>2. \A i \in JobIds : i < nextId
    BY MaxIdAssumption DEF IInv, TypeOK, JobIds
<1>3. UsedIds' = UsedIds
    <2>1. nextId' = nextId + 1 /\ nextId \in Nat
        BY DEF CreateInsert, IInv, TypeOK
    <2>2. \A i \in JobIds : i < nextId + 1 <=> i < nextId
        BY <1>2, <2>1, MaxIdAssumption DEF JobIds
    <2>3. QED
        BY <2>1, <2>2 DEF UsedIds
<1>4. QED
    BY <1>1, <1>3 DEF CreateInsert, Abs!tvars

\* datastore.insert of a valid job under a fresh id is the abstract create.
LEMMA InsertCreates ==
    ASSUME IInv, SInv, NEW c \in Clients, CreateInsert(c), nextId \in JobIds
    PROVE  Abs!Create(nextId, task[c]) /\ task[c] \in ValidJob
<1>1. task[c] \in ValidJob
    BY DEF CreateInsert, IInv, PendingOK, SInv, ValidJobs, ValidJob
<1>2. nextId \in JobIds \ UsedIds
    BY MaxIdAssumption DEF UsedIds, JobIds
<1>3. UsedIds' = UsedIds \cup {nextId}
    <2>1. nextId' = nextId + 1 /\ nextId \in Nat
        BY DEF CreateInsert, IInv, TypeOK
    <2>2. \A i \in JobIds : i < nextId + 1 <=> i < nextId \/ i = nextId
        BY <2>1, MaxIdAssumption DEF JobIds
    <2>3. QED
        BY <2>1, <2>2 DEF UsedIds
<1>4. QED
    BY <1>1, <1>2, <1>3 DEF CreateInsert, Abs!Create

\* datastore.update of a live row with the validated merge is the abstract update.
LEMMA WriteUpdates ==
    ASSUME IInv, SInv, NEW c \in Clients, pc[c] = "write", db[target[c]] # NoJob,
           db' = [db EXCEPT ![target[c]] = task[c]], UNCHANGED <<crontab, nextId>>
    PROVE  Abs!Update(target[c], task[c]) /\ target[c] \in JobIds /\ task[c] \in ValidJob
<1>1. task[c] \in ValidJob /\ target[c] \in JobIds
    BY DEF IInv, PendingOK, SInv, ValidJobs, ValidJob
<1>2. UsedIds' = UsedIds
    BY DEF UsedIds
<1>3. QED
    BY <1>1, <1>2 DEF Abs!Update

LEMMA StepRefines == IInv /\ SInv /\ [Next]_vars => [Abs!Next]_Abs!tvars
<1> SUFFICES ASSUME IInv, SInv, [Next]_vars PROVE [Abs!Next]_Abs!tvars
    OBVIOUS
<1>1. ASSUME NEW c \in Clients, DoCreate(c) PROVE [Abs!Next]_Abs!tvars
    BY <1>1, FrameStutter DEF DoCreate
<1>2. ASSUME NEW c \in Clients, CreateInsert(c) PROVE [Abs!Next]_Abs!tvars
    <2>1. CASE nextId \in JobIds
        BY <1>2, <2>1, InsertCreates DEF Abs!Next, ValidJob
    <2>2. CASE nextId \notin JobIds
        BY <1>2, <2>2, InsertBeyond
    <2>3. QED
        BY <2>1, <2>2
<1>3. ASSUME NEW c \in Clients, DoUpdate(c) PROVE [Abs!Next]_Abs!tvars
    BY <1>3, FrameStutter DEF DoUpdate
<1>4. ASSUME NEW c \in Clients, UpdateWrite(c) PROVE [Abs!Next]_Abs!tvars
    <2>1. CASE db[target[c]] = NoJob
        BY <1>4, <2>1, FrameStutter DEF UpdateWrite
    <2>2. CASE db[target[c]] # NoJob
        <3>1. db' = [db EXCEPT ![target[c]] = task[c]] /\ UNCHANGED <<crontab, nextId>>
            BY <1>4, <2>2 DEF UpdateWrite
        <3>2. Abs!Update(target[c], task[c]) /\ target[c] \in JobIds /\ task[c] \in ValidJob
            BY <1>4, <2>2, <3>1, WriteUpdates DEF UpdateWrite
        <3>3. QED
            BY <3>2 DEF Abs!Next, ValidJob
    <2>3. QED
        BY <2>1, <2>2
<1>5. ASSUME NEW c \in Clients, DoDelete(c) PROVE [Abs!Next]_Abs!tvars
    <2>1. PICK id \in JobIds :
              \/ /\ db[id] = NoJob
                 /\ UNCHANGED db
              \/ /\ db[id] # NoJob
                 /\ db' = [db EXCEPT ![id] = NoJob]
        BY <1>5 DEF DoDelete
    <2>2. UNCHANGED <<crontab, nextId>>
        BY <1>5 DEF DoDelete
    <2>3. UsedIds' = UsedIds
        BY <2>2 DEF UsedIds
    <2>4. CASE db[id] = NoJob
        BY <2>1, <2>2, <2>4, FrameStutter
    <2>5. CASE db[id] # NoJob
        <3>1. Abs!Delete(id)
            BY <2>1, <2>2, <2>3, <2>5 DEF Abs!Delete
        <3>2. QED
            BY <3>1 DEF Abs!Next
    <2>6. QED
        BY <2>4, <2>5
<1>6. ASSUME NEW c \in Clients, RestartCron(c) PROVE [Abs!Next]_Abs!tvars
    <2>1. UNCHANGED <<db, nextId>>
        BY <1>6 DEF RestartCron
    <2>2. UsedIds' = UsedIds
        BY <2>1 DEF UsedIds
    <2>3. CASE crontab' = db
        <3>1. Abs!Reload
            BY <2>1, <2>2, <2>3 DEF Abs!Reload
        <3>2. QED
            BY <3>1 DEF Abs!Next
    <2>4. CASE crontab' = crontab
        BY <2>1, <2>4, FrameStutter
    <2>5. QED
        BY <1>6, <2>3, <2>4 DEF RestartCron
<1>7. CASE UNCHANGED vars
    BY <1>7, FrameStutter DEF vars
<1>8. QED
    BY <1>1, <1>2, <1>3, <1>4, <1>5, <1>6, <1>7 DEF Next

(***************************************************************************)
(* The service, its create, update and delete coroutines interleaving at *)
(* every await and its restarts allowed to fail, implements the atomic    *)
(* table of CronTable: ids are never reused, only live rows are updated   *)
(* or deleted, every job written passed validate_data, and cron only ever *)
(* loads the table as it is.  For every number of callers and ids.        *)
(***************************************************************************)
THEOREM CronRefinement == Spec => CronTableSpec
<1>1. Init => Abs!Init
    BY InitRefines
<1>2. IInv /\ SInv /\ [Next]_vars => [Abs!Next]_Abs!tvars
    BY StepRefines
<1>3. QED
    BY <1>1, <1>2, IInvSInvInvariant, PTL DEF Spec, CronTableSpec, Abs!Spec

====
