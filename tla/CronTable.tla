---------------------------- MODULE CronTable ----------------------------
(***************************************************************************)
(* What the cron job service promises, each API call taken as one         *)
(* indivisible step.  `table' maps every id to the job stored under it or *)
(* NoJob, `cron' is the table as cron last loaded it, and `used' the ids  *)
(* the table has handed out.                                              *)
(*                                                                         *)
(*   - create stores a job that validate_data accepts under an id never   *)
(*     handed out before;                                                 *)
(*   - update replaces the job of a live id by another valid job;         *)
(*   - delete removes the job of a live id, and its id stays used;        *)
(*   - a restart of cron loads the table as it is.                        *)
(*                                                                         *)
(* So a deleted job never comes back, every stored job is valid, and cron *)
(* runs only what the table held at some point.                           *)
(***************************************************************************)
CONSTANTS
    Ids,    \* ids the table may hand out
    Jobs,   \* the jobs validate_data accepts
    NoJob   \* an id with no job

VARIABLES
    table,  \* the jobs stored, by id
    cron,   \* what cron runs
    used    \* the ids handed out so far

tvars == <<table, cron, used>>

Init ==
    /\ table = [i \in Ids |-> NoJob]
    /\ cron = table
    /\ used = {}

\* do_create: a fresh id gets a valid job.
Create(i, j) ==
    /\ i \in Ids \ used
    /\ table' = [table EXCEPT ![i] = j]
    /\ used' = used \cup {i}
    /\ UNCHANGED cron

\* do_update: a live job is replaced by a valid one.
Update(i, j) ==
    /\ table[i] # NoJob
    /\ table' = [table EXCEPT ![i] = j]
    /\ UNCHANGED <<cron, used>>

\* do_delete: a live job is removed.
Delete(i) ==
    /\ table[i] # NoJob
    /\ table' = [table EXCEPT ![i] = NoJob]
    /\ UNCHANGED <<cron, used>>

\* service.restart('cron'): cron loads the table.
Reload ==
    /\ cron' = table
    /\ UNCHANGED <<table, used>>

Next ==
    \/ \E i \in Ids, j \in Jobs : Create(i, j) \/ Update(i, j)
    \/ \E i \in Ids : Delete(i)
    \/ Reload

Spec == Init /\ [][Next]_tvars

=============================================================================
