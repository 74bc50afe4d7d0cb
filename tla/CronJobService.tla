-------------------------- MODULE CronJobService --------------------------
(***************************************************************************)
(* The middleware's cron job service (plugins/cron.py, CronJobService).   *)
(*                                                                         *)
(* Requests run as asyncio coroutines of one event loop: the code between *)
(* two awaits is atomic, and other requests interleave at every await.    *)
(* Each action below is one such atomic segment of do_create, do_update   *)
(* or do_delete.  The datastore table tasks.cronjob is `db', a function   *)
(* from job ids to jobs; `crontab' is what cron runs, regenerated from    *)
(* the table by service.restart('cron').                                  *)
(*                                                                         *)
(* A job keeps the three fields validate_data checks (dayweek, month,     *)
(* user); the unchecked fields (command, minute, hour, ...) behave like   *)
(* them and are left out.  A cron list field is Star (the text "*") or    *)
(* the sequence of its comma-separated pieces, where a piece is the       *)
(* integer int() reads from it or NotInt when int() raises ValueError;    *)
(* the empty text is <<>>.                                                *)
(***************************************************************************)
EXTENDS Integers, Sequences, FiniteSets

CONSTANTS
    Clients,        \* concurrent API callers
    MaxId,          \* ids the table can hand out in one run
    MaxRequests,    \* bound on the requests the callers issue in one run
    Star,           \* the cron text "*"
    NotInt,         \* a piece of a cron list that int() rejects
    Dayweeks,       \* dayweek texts callers send
    Months,         \* month texts callers send
    Users,          \* user names callers send
    EmptyUser,      \* the empty user name ""
    SpacedUsers,    \* names containing a space
    ExistingUsers,  \* names notifier.get_user_object finds
    RestartMayFail, \* whether service.restart('cron') can raise
    NoJob           \* an id with no row

JobIds == 1..MaxId
Fields == {"dayweek", "month", "user"}
Job == [dayweek : Dayweeks, month : Months, user : Users]

\* An update body: some of the fields, with values of their types.
Patch == { [f \in S |-> j[f]] : S \in (SUBSET Fields) \ {{}}, j \in Job }

ASSUME MaxIdAssumption == MaxId \in Nat /\ MaxRequests \in Nat /\ MaxRequests <= MaxId
ASSUME NoJobAssumption == NoJob \notin Job
ASSUME RestartAssumption == RestartMayFail \in BOOLEAN
ASSUME UserAssumption ==
    /\ EmptyUser \in Users
    /\ SpacedUsers \subseteq Users
    /\ ExistingUsers \subseteq Users
    /\ EmptyUser \notin SpacedUsers

VARIABLES
    db,            \* the tasks.cronjob table: JobIds -> Job \cup {NoJob}
    crontab,       \* the table as cron last loaded it
    nextId,        \* the next id the table's AUTOINCREMENT key hands out
    requests,      \* requests issued so far
    pc,            \* the await each request is suspended at
    task,          \* the job a request is about to write
    patch,         \* the body of an update request
    target,        \* the id an update or delete request works on
    restartFailed, \* the last service.restart('cron') raised
    deleted,       \* ids whose delete committed (history)
    intent         \* per id, the fields as the committed writes asked for (history)

vars == <<db, crontab, nextId, requests, pc, task, patch, target,
          restartFailed, deleted, intent>>

-----------------------------------------------------------------------------
(***************************************************************************)
(* validate_data.  dayweek and month are skipped when empty or "*";       *)
(* otherwise each comma-separated piece must parse with int() and lie in  *)
(* the range.  The user is skipped when empty; otherwise it must have no  *)
(* space and notifier.get_user_object must find it.                       *)
(***************************************************************************)
\* Mutant: the upper bound of range() one too high.
CronListValidOffByOne(text, lo, hi) ==
    IF text \in {Star, <<>>} THEN TRUE
    ELSE \A i \in 1..Len(text) : text[i] \in lo..(hi + 1)

CronListValid(text, lo, hi) ==
    IF text \in {Star, <<>>} THEN TRUE
    ELSE \A i \in 1..Len(text) : text[i] \in lo..hi

UserValid(u) ==
    \/ u = EmptyUser
    \/ u \notin SpacedUsers /\ u \in ExistingUsers

ValidateData(j) ==
    /\ CronListValid(j.dayweek, 1, 7)
    /\ CronListValid(j.month, 1, 12)
    /\ UserValid(j.user)

\* task_data.update(data)
Merge(j, p) == [f \in Fields |-> IF f \in DOMAIN p THEN p[f] ELSE j[f]]

Idle(c) ==
    /\ pc' = [pc EXCEPT ![c] = "idle"]
    /\ task' = [task EXCEPT ![c] = NoJob]
    /\ patch' = [patch EXCEPT ![c] = NoJob]
    /\ target' = [target EXCEPT ![c] = 0]

-----------------------------------------------------------------------------
Init ==
    /\ db = [i \in JobIds |-> NoJob]
    /\ crontab = db
    /\ nextId = 1
    /\ requests = 0
    /\ pc = [c \in Clients |-> "idle"]
    /\ task = [c \in Clients |-> NoJob]
    /\ patch = [c \in Clients |-> NoJob]
    /\ target = [c \in Clients |-> 0]
    /\ restartFailed = FALSE
    /\ deleted = {}
    /\ intent = [i \in JobIds |-> NoJob]

\* A new request from an idle caller (bounded by MaxRequests).
Issue(c) ==
    /\ pc[c] = "idle"
    /\ requests < MaxRequests
    /\ requests' = requests + 1

(***************************************************************************)
(* do_create up to the datastore.insert await: validate, then raise the   *)
(* errors or go on to insert.                                             *)
(***************************************************************************)
DoCreate(c) ==
    /\ Issue(c)
    /\ \E j \in Job :
          \/ /\ ~ValidateData(j)
             /\ UNCHANGED <<pc, task, patch, target>>
          \/ /\ ValidateData(j)
             /\ pc' = [pc EXCEPT ![c] = "insert"]
             /\ task' = [task EXCEPT ![c] = j]
             /\ UNCHANGED <<patch, target>>
    /\ UNCHANGED <<db, crontab, nextId, restartFailed, deleted, intent>>

\* datastore.insert: the row gets the next AUTOINCREMENT id.
CreateInsert(c) ==
    /\ pc[c] = "insert"
    /\ db' = [db EXCEPT ![nextId] = task[c]]
    /\ intent' = [intent EXCEPT ![nextId] = task[c]]
    /\ nextId' = nextId + 1
    /\ pc' = [pc EXCEPT ![c] = "restart"]
    /\ UNCHANGED <<crontab, requests, task, patch, target, restartFailed, deleted>>

(***************************************************************************)
(* do_update up to the datastore.update await: query the row (raises if  *)
(* it is gone), merge the body into it, validate the merged job, and      *)
(* write only if it differs from the row read.                            *)
(***************************************************************************)
DoUpdate(c) ==
    /\ Issue(c)
    /\ \E id \in JobIds, p \in Patch :
          \/ /\ db[id] = NoJob
             /\ UNCHANGED <<pc, task, patch, target>>
          \/ /\ db[id] # NoJob
             /\ ~ValidateData(Merge(db[id], p))
             /\ UNCHANGED <<pc, task, patch, target>>
          \/ /\ db[id] # NoJob
             /\ ValidateData(Merge(db[id], p))
             /\ Merge(db[id], p) = db[id]
             /\ UNCHANGED <<pc, task, patch, target>>
          \/ /\ db[id] # NoJob
             /\ ValidateData(Merge(db[id], p))
             /\ Merge(db[id], p) # db[id]
             /\ pc' = [pc EXCEPT ![c] = "write"]
             /\ task' = [task EXCEPT ![c] = Merge(db[id], p)]
             /\ patch' = [patch EXCEPT ![c] = p]
             /\ target' = [target EXCEPT ![c] = id]
    /\ UNCHANGED <<db, crontab, nextId, restartFailed, deleted, intent>>

\* Mutant: the write does not notice that the row is gone (an upsert).
UpdateWriteUpsert(c) ==
    /\ pc[c] = "write"
    /\ db' = [db EXCEPT ![target[c]] = task[c]]
    /\ intent' = [intent EXCEPT ![target[c]] = task[c]]
    /\ pc' = [pc EXCEPT ![c] = "restart"]
    /\ UNCHANGED <<task, patch, target, crontab, nextId, requests, restartFailed, deleted>>

\* Mutant: datastore.update is handed the request body instead of the merged row.
UpdateWriteBodyOnly(c) ==
    /\ pc[c] = "write"
    /\ db[target[c]] # NoJob
    /\ db' = [db EXCEPT ![target[c]] = patch[c]]
    /\ pc' = [pc EXCEPT ![c] = "restart"]
    /\ UNCHANGED <<task, patch, target, intent, crontab, nextId, requests, restartFailed, deleted>>

\* datastore.update writes the whole merged job; it raises if the row is gone.
UpdateWrite(c) ==
    /\ pc[c] = "write"
    /\ \/ /\ db[target[c]] = NoJob
          /\ Idle(c)
          /\ UNCHANGED <<db, intent>>
       \/ /\ db[target[c]] # NoJob
          /\ db' = [db EXCEPT ![target[c]] = task[c]]
          /\ intent' = [intent EXCEPT ![target[c]] = Merge(intent[target[c]], patch[c])]
          /\ pc' = [pc EXCEPT ![c] = "restart"]
          /\ UNCHANGED <<task, patch, target>>
    /\ UNCHANGED <<crontab, nextId, requests, restartFailed, deleted>>

\* Mutant: do_delete returns without restarting cron.
DoDeleteNoRestart(c) ==
    /\ Issue(c)
    /\ \E id \in JobIds :
          /\ db[id] # NoJob
          /\ db' = [db EXCEPT ![id] = NoJob]
          /\ intent' = [intent EXCEPT ![id] = NoJob]
          /\ deleted' = deleted \cup {id}
    /\ UNCHANGED <<crontab, nextId, task, patch, restartFailed, pc, target>>

\* do_delete: datastore.delete raises if the row is gone.
DoDelete(c) ==
    /\ Issue(c)
    /\ \E id \in JobIds :
          \/ /\ db[id] = NoJob
             /\ UNCHANGED <<db, pc, target, deleted, intent>>
          \/ /\ db[id] # NoJob
             /\ db' = [db EXCEPT ![id] = NoJob]
             /\ intent' = [intent EXCEPT ![id] = NoJob]
             /\ deleted' = deleted \cup {id}
             /\ pc' = [pc EXCEPT ![c] = "restart"]
             /\ target' = [target EXCEPT ![c] = id]
    /\ UNCHANGED <<crontab, nextId, task, patch, restartFailed>>

(***************************************************************************)
(* service.restart('cron'), awaited by all three handlers after their    *)
(* write: cron reloads the table.  If it raises, the handler raises and   *)
(* the written row stays.  Either way the request is over (the final     *)
(* query of do_update reads and changes nothing).                         *)
(***************************************************************************)
RestartCron(c) ==
    /\ pc[c] = "restart"
    /\ \/ /\ crontab' = db
          /\ restartFailed' = FALSE
       \/ /\ RestartMayFail
          /\ restartFailed' = TRUE
          /\ UNCHANGED crontab
    /\ Idle(c)
    /\ UNCHANGED <<db, nextId, requests, deleted, intent>>

Next ==
    \E c \in Clients :
        \/ DoCreate(c)
        \/ CreateInsert(c)
        \/ DoUpdate(c)
        \/ UpdateWrite(c)
        \/ DoDelete(c)
        \/ RestartCron(c)

Spec == Init /\ [][Next]_vars

(***************************************************************************)
(* The event loop resumes every coroutine whose awaited call has          *)
(* returned, and the datastore and service calls return (or raise): a     *)
(* request suspended at an await eventually takes its next step.  Callers *)
(* are under no obligation to send requests, so Issue is not fair.        *)
(***************************************************************************)
Fairness == \A c \in Clients : WF_vars(CreateInsert(c) \/ UpdateWrite(c) \/ RestartCron(c))

FairSpec == Spec /\ Fairness

-----------------------------------------------------------------------------
\* Types: every row, crontab entry and history entry is a job or NoJob, and
\* each request's locals (task_data, data, id) have the schema's types.
TypeOK ==
    /\ db \in [JobIds -> Job \cup {NoJob}]
    /\ crontab \in [JobIds -> Job \cup {NoJob}]
    /\ nextId \in Nat \ {0}
    /\ requests \in 0..MaxRequests
    /\ pc \in [Clients -> {"idle", "insert", "write", "restart"}]
    /\ task \in [Clients -> Job \cup {NoJob}]
    /\ patch \in [Clients -> Patch \cup {NoJob}]
    /\ target \in [Clients -> 0..MaxId]
    /\ restartFailed \in BOOLEAN
    /\ deleted \subseteq JobIds
    /\ intent \in [JobIds -> Job \cup {NoJob}]

(***************************************************************************)
(* Once every request has returned, cron runs exactly the jobs in the     *)
(* table, unless the last service.restart('cron') failed: every handler   *)
(* that writes the table restarts cron after the write, and a restart    *)
(* loads whatever the table holds by then, including the writes of       *)
(* requests that interleaved with it.                                     *)
(***************************************************************************)
CrontabSyncedWhenIdle ==
    (\A c \in Clients : pc[c] = "idle") /\ ~restartFailed => crontab = db

(***************************************************************************)
(* A deleted job never comes back: a do_update that read the row before a *)
(* concurrent do_delete removed it must not write it again, and the table *)
(* never hands out a used id again.                                       *)
(***************************************************************************)
NoResurrection ==
    \A id \in deleted : db[id] = NoJob

Pieces(text) == {text[i] : i \in 1..Len(text)}

(***************************************************************************)
(* Every stored job has a schedule cron accepts: dayweek and month are    *)
(* "*", empty, or lists of days 1-7 and months 1-12.  This must hold for *)
(* the merged job do_update writes, not only for the fields it was sent.  *)
(***************************************************************************)
SchedulesInRange ==
    \A id \in JobIds :
        db[id] # NoJob =>
            /\ db[id].dayweek \in {Star, <<>>} \/ Pieces(db[id].dayweek) \subseteq 1..7
            /\ db[id].month \in {Star, <<>>} \/ Pieces(db[id].month) \subseteq 1..12

(***************************************************************************)
(* An update changes only the fields it was sent: every stored job has    *)
(* each field as the last committed create or update asked for it.        *)
(***************************************************************************)
NoLostUpdate ==
    \A id \in JobIds : db[id] = intent[id]


(***************************************************************************)
(* A change to the table reaches cron: whenever cron runs something other *)
(* than the table, it eventually runs the table again, or a               *)
(* service.restart('cron') raises and the caller is told.  This needs     *)
(* every handler that writes to restart cron after its write, on every    *)
(* path that returns normally.                                            *)
(***************************************************************************)
CronReloaded == (crontab # db) ~> (crontab = db \/ restartFailed)


-----------------------------------------------------------------------------
(***************************************************************************)
(* The service implements the one-step table of CronTable.  The ids       *)
(* handed out are those below the AUTOINCREMENT counter, and the jobs the *)
(* table may hold are those validate_data accepts.  The segments before  *)
(* an await, a failed restart, and a datastore.update that raises on a    *)
(* vanished row are stutters; the insert, the update and the delete of a *)
(* row and a successful restart are the abstract create, update, delete  *)
(* and reload.                                                            *)
(***************************************************************************)
UsedIds == {i \in JobIds : i < nextId}

Abs == INSTANCE CronTable WITH
           Ids <- JobIds, Jobs <- {j \in Job : ValidateData(j)},
           table <- db, cron <- crontab, used <- UsedIds

(***************************************************************************)
(* Every behaviour of the service, with its awaits interleaved, is a      *)
(* behaviour of the atomic table: a create takes an id never used, an     *)
(* update or delete acts on a live row with a valid job, and cron loads   *)
(* the table as it is.                                                    *)
(***************************************************************************)
CronTableSpec == Abs!Spec

=============================================================================
