# Verification models for the FreeNAS GUI storage forms and the cron job service

This directory holds TLA+ models of the parts of this repository that keep
state across requests. It also holds the TLC configurations that check them
on small instances and TLAPS proofs of their main invariants. Run every
command from this directory:

    tlasany CronJobService.tla
    tlc -workers 2 -config CronSync.cfg MC_CronJobService
    tlapm CronJobService_proofs.tla

## 1. The system

The repository (`src/`) has three kinds of code.

| Part | Source | What it does |
|---|---|---|
| Cron job service | `src/src/middlewared/middlewared/plugins/cron.py` | A middleware `CRUDService` over the `tasks.cronjob` table. `do_create`, `do_update` and `do_delete` validate, write the table, then `service.restart('cron')` so that cron reloads it. Requests are asyncio coroutines: they interleave at every `await`. |
| Storage forms | `src/gui/storage/forms.py` | Django forms of the web GUI. They validate the submitted data, write `Volume`, `Scrub` and related rows, and call the external `notifier()` to create pools, attach vdevs, set GELI passphrases and replace disks. |
| Migration and tests | `src/gui/peers/migrations/0002_s3_peer.py`, `src/tests/api1/*.py` | A generated schema migration, and REST/SSH integration scripts that drive a live appliance. |

The real storage work (zpool, geli) happens in `notifier()` and the
middleware, which are not in this repository. A model treats each such call
as an external step: it either has its documented effect or raises, and the
form code around it is what the model checks.

### Inventory

**Cron job service** (modelled, `CronJobService`).
- State:
  - the `tasks.cronjob` rows;
  - the AUTOINCREMENT id;
  - the table as cron last loaded it;
  - per request, the await it is suspended at and its locals (`task_data`, `data`, `id`).
- Operations: `validate_data`, `do_create`, `do_update`, `do_delete`, and the `service.restart('cron')` each handler awaits after its write.
- Hard behaviour:
  - coroutines interleave at `datastore.query`, at `notifier.get_user_object` inside `validate_data`, at `datastore.update` / `insert` / `delete`, and at the restart;
  - the restart can raise after the write has committed.
- Properties:
  - cron runs the table once requests are over;
  - deleted jobs stay deleted;
  - stored schedules are in range;
  - no update loses another's fields;
  - the service implements `CronTable`, the same table with each call as one atomic step.

**Vdev layout validation** (`VolumeVdevForm`, `VdevFormSet`, forms.py 344-491).
- A pure function of the submitted rows (vdev type, disks) and, when extending, of the pool's data vdevs.
- Rules:
  - minimum disks per type;
  - a log row with more than one disk becomes `log mirror`;
  - at most one cache, log and spare row;
  - a new volume needs a data vdev, and all its data vdevs have one type;
  - an extension matches the pool's vdev type and width.
- Hard behaviour: the rules are order-dependent loops with early returns. Rows with an empty type are skipped on one path and not on the other.

**Volume creation and extension** (`VolumeMixin.clean_volume_name`, `VolumeManagerForm`, `ZFSVolumeWizardForm`, forms.py 178-343, 494-750).
- State: `Volume` and `Scrub` rows, and the pools that exist.
- Operations:
  - validate the name is unused;
  - look the name up again in `save`/`done` and choose create or extend;
  - save the row;
  - `create_volume` or `zfs_volume_attach_group`;
  - dedup;
  - the scrub row;
  - the rollback in `except`;
  - the passphrase reset on extending an encrypted volume;
  - the restarts.
- Hard behaviour:
  - two requests both pass `clean_volume_name` before either saves;
  - a notifier call fails after the row was saved;
  - the wizard's `except` deletes the row even when it was extending an existing volume, whereas `VolumeManagerForm` guards that with `if not add`.

**Volume encryption** (`CreatePassphraseForm`, `ChangePassphraseForm`, `UnlockPassphraseForm`, `ReKeyForm`, `ZFSDiskReplacementForm`, and the reset in `VolumeManagerForm.save`).
- State: `vol_encrypt` (0 none, 1 key only, 2 key and passphrase), and whether the GELI providers hold a passphrase.
- Hard behaviour:
  - each `done` changes GELI first and saves `vol_encrypt` after;
  - two requests can interleave between those steps;
  - a failure between them leaves the flag and the providers disagreeing. Disk replacement asks for a passphrase only when the flag is 2.

**Dataset and zvol forms** (`ZFSDataset*Form`, `CommonZVol`, `ZVol_*Form`, `_clean_zfssize_fields`; forms.py 138-168, 1197-1830).
- Size parsing with IEC suffixes, the 80% free-space check of `clean_zvol_volsize`, and the zvol block size choice.
- The edit forms read every ZFS property (value and source), show it as a choice, and `save()` writes every field back with `zfs set` or `zfs inherit`.
- Hard behaviour: a value the form cannot show is replaced by the one it shows; sizes go through two different suffix rewrites; the save loop goes on after a failed property.

**Other forms** (snapshot, clone, replication, scrub, resilver, permissions, import, disk edit, VMware).
- Field validation plus one middleware or notifier call per submit.
- To be surveyed for state they keep across requests.

**Not modelled.**
- The migration: it is generated, with no behaviour.
- The integration tests: they are clients of the appliance, not part of it.
- HTML rendering, choice-list population and the wizard session plumbing, which have no state that outlives a request.

## 2. Plan

The modules were built in this order, most consequential behaviour first;
all five exist now, with two abstract modules (`CronTable`, `VolumePassphrase`).

1. `CronJobService`: done, with a proof module (below) and the abstract `CronTable` it is proved to implement.
2. `VdevLayout`: the `VdevFormSet.clean` / `VolumeVdevForm` rules as an operator over a bounded set of layouts, compared with a reference definition that says the rules declaratively.
3. `VolumeSave`: the create-or-extend state machine of `VolumeManagerForm.save` and `ZFSVolumeWizardForm.done`, with concurrent requests and failing notifier calls. Properties:
   - every volume row has its pool, and every pool its row;
   - every created volume has one scrub row;
   - a request validated as "new volume" never extends an existing one.
4. `VolumeEncryption`: the passphrase handlers composed with the extend path of `VolumeSave`. Property: `vol_encrypt = 2` exactly when the providers hold a passphrase. It refines the abstract `VolumePassphrase` when requests do not overlap, and has a proof module.
5. `ZfsForms`: `clean_zvol_volsize`, the block size default, and the edit forms' read-show-write-back cycle.

Still open: two admins editing the same dataset (a lost update of the kind
`cron_lost_update` shows), and the unlock and rekey handlers.

Theorems: the type invariant and the main safety invariant of each state-machine module, by an inductive strengthening checked with TLC first.

## 3. Cron job service: `CronJobService.tla`

### State

| Variable | Code |
|---|---|
| `db` | the `tasks.cronjob` table: id to job, or `NoJob` |
| `crontab` | what cron runs: the table as of the last successful `service.restart('cron')` |
| `nextId` | the AUTOINCREMENT key `datastore.insert` hands out next |
| `pc`, `task`, `patch`, `target` | per request: the await it is at, `task_data`/`data` of `do_create`, `data` of `do_update`, the `id` it works on |
| `requests` | requests issued (bounded by `MaxRequests`) |
| `restartFailed` | the last restart raised |
| `deleted`, `intent` | history: ids whose delete committed, and per id the fields the committed writes asked for |

A job keeps the three fields `validate_data` checks: `dayweek`, `month` and
`user`. The other fields are written the same way and would only multiply the
state space.

A cron list text is modelled by what `validate_data` does with it:
- `Star` stands for `"*"`;
- `<<>>` stands for the empty text;
- any other text is the sequence of the pieces of its `split(',')`, each piece being the integer `int()` returns or `NotInt` where `int()` raises `ValueError`.

A user is a model value. It is the empty name (`EmptyUser`), a name with a
space (`SpacedUsers`), or a name `get_user_object` does or does not find
(`ExistingUsers`).

### Actions

Each action is the code between two awaits of one request.

| Action | Code |
|---|---|
| `DoCreate` | `validate_data`, raise or go on (lines 88-91) |
| `CreateInsert` | `datastore.insert` (93-98) |
| `DoUpdate` | `query(get=True)` (raises if the row is gone), `task_data.update(data)`, `validate_data`, the change test (112-121) |
| `UpdateWrite` | `datastore.update` of the whole merged row (123-129); it raises if the row was deleted meanwhile |
| `DoDelete` | `datastore.delete`, which raises on a missing id (142-147) |
| `RestartCron` | `service.restart('cron')` after every write (100-104, 131-135, 149-153): the crontab becomes the table, or the restart raises |

The `await` inside `validate_data` (`get_user_object`) sits between the query
and the update of `do_update`. That is why `DoUpdate` and `UpdateWrite` are
separate steps. `validate_data` has no effect, so for `do_create` the same
await changes nothing and is folded into `DoCreate`.

The behaviour of `datastore.update` and `datastore.delete` on a missing row
comes from the datastore plugin, which is not in this repository. Both raise
there.

### Runs

All runs use two callers, ids 1..3, three requests, and the texts
`{*, "1,7", "8", "x"}` for dayweek and `{*, "13"}` for month. Users are one
existing name, one with a space, one unknown and the empty name.

| Run | Expect | Shows |
|---|---|---|
| `cron_sync` (`CronSync.cfg`) | pass | `TypeOK`; `CrontabSyncedWhenIdle`: once no request is in flight and the last restart succeeded, cron runs exactly the table, although restarts of concurrent requests complete in any order; `NoResurrection`: a `do_update` that read a row before a concurrent delete cannot write it back, because the update raises on the missing row; `SchedulesInRange`: every stored row, including the merged rows of partial updates, has days 1-7 and months 1-12. 29,632 distinct states; every action and disjunct fires. `CronTableSpec`: every behaviour is a behaviour of the atomic table of `CronTable` (below). |
| `cron_lost_update` (`CronNoLostUpdate.cfg`) | violation of `NoLostUpdate` | Two updates of one job both query it, then each writes the whole row it merged. The second write puts back the field the first changed. |

`validate_data` also checks the user only `if user:`, so an empty user name
is stored; the model lets that happen (`EmptyUser`) but no run is spent on
it, since a unit test reaches it directly.

Three requests are the fewest for which the lost update and the
delete-during-update race happen: a create, then two requests on the same row.
Two callers are enough because every race is between two requests.
`CHECK_DEADLOCK FALSE` is set because the callers stop after `MaxRequests`
requests and the service then stays idle, which is the intended end state.

`cron_sync` uses `FairSpec`, which adds weak fairness of each caller's
post-validation steps (`CreateInsert`, `UpdateWrite`, `RestartCron`). The
asyncio event loop resumes every coroutine whose awaited call returned, so a
request that has passed validation goes on. `Issue` is not fair, because a
caller may never send another request. Under this fairness the run checks
`CronReloaded`: a crontab that differs from the table is eventually reloaded,
or the failed restart is recorded in `restartFailed`. The fairness assumes
that `datastore.*` and `service.restart` return, with or without an error;
`cron.py` puts no timeout on them.

### Proofs: `CronJobService_proofs.tla`

The proofs hold for every set of callers, every `MaxId` and every bound on
requests. They assume `MaxRequests <= MaxId`, `NoJob` is not a job, and
`RestartMayFail` is Boolean.

`TypeOK` is not inductive. `UpdateWrite` merges the request body into the
history `intent`, and the result is a job only because:
- a request at the write await holds a body and a job and targets an id (`PendingOK`);
- a live row has a live history entry (`IntentTracksRows`).

The inductive invariant `IInv` adds those two facts and three more:
- ids at or above `nextId` have no row and no delete (`FreshIdsUnused`), so an insert never writes over a deleted id;
- `NoResurrection`;
- `CrontabBehind`: the crontab differs from the table only while some request has its restart pending or the last restart failed.

`InitIInv` and one lemma per action (`DoCreateIInv`, ...) give `NextIInv`. From
it the file proves:
- `IInvInvariant`;
- `TypeCorrect`;
- `NoResurrectionInvariant`;
- `CrontabSyncedInvariant`.

`SchedulesInRangeInvariant` proves `SchedulesInRange` from `IInv` and one
more fact, `ValidJobs`: the job a request holds at its insert or its write
has passed `ValidateData`. `UpdateWrite` stores the merge of that job, so
the merged row is in range too.

`IInv` was checked with TLC on the `cron_sync` instance before it was proved.

### The abstract table: `CronTable.tla`

`CronTable` says what a caller of the service may rely on, each API call
taken as one step. `table` maps ids to jobs, `cron` is what cron runs, and
`used` is the ids handed out. `Create` stores a valid job under an id never
used, `Update` replaces the job of a live id by a valid job, `Delete` empties
a live id, and `Reload` makes cron run the table. `CronJobService` defines the
mapping: `table` is `db`, `cron` is `crontab`, `used` is `UsedIds` (the ids
below `nextId`), and the valid jobs are those `ValidateData` accepts.

Under this mapping:
- `DoCreate`, `DoUpdate`, a failed restart, and a `datastore.update` that raises on a vanished row are stutters;
- `CreateInsert` is `Create` (or a stutter past `MaxId`, where the table has no id);
- `UpdateWrite` on a live row is `Update`;
- `DoDelete` of a live row is `Delete`;
- a successful `RestartCron` is `Reload`.

`cron_sync` checks `CronTableSpec`, and its mutant (a write that does not
notice the row is gone) breaks it. `CronRefinement` proves it for every
instance. `InitRefines` gives the initial step, and `StepRefines` gives each step, with
one case per action. The step proof needs `IInv` (the insert's id is
fresh and above every used id, a write targets an id and holds a job) and
`ValidJobs` (the job written passed `validate_data`). `Update` lets the job
be any valid job, so the lost update of `cron_lost_update` is a legal
`CronTable` behaviour: the abstract table does not promise field-wise merges.

## 4. Vdev layout validation: `VdevLayout.tla`

### What it covers

Before `save()` runs, `VolumeManagerForm.is_valid()` checks the submitted
layout. The module models that check as operators over one submission:

| Definition | Code |
|---|---|
| `CleanDisks`, `NeedDisks` | `VolumeVdevForm.clean_disks`: mirror needs 2 disks, raidz 3, raidz2 4, raidz3 5 |
| `CleanVdevForm` | `VolumeVdevForm.clean`: a log row of several disks becomes `log mirror` |
| `AuxRepeated`, `AuxFound` | `VdevFormSet._clean_vdevtype`: one cache, log and spare row |
| `NewVolumeStep`, `NewVolumeClean` | the new-volume loop of `VdevFormSet.clean`, as a left fold (`FoldLeft`) over the rows, with the loop's state (`datatype`, `has_datavdev`, `vdevfound`) as a record |
| `ExtendAuxStep`, `ExtendClean` | the `volume_add` branch: aux rows once each, then every data row against every data vdev of the pool |
| `CleanVolumeName`, `VName`, `FormValid` | `VolumeMixin.clean_volume_name` and `VolumeManagerForm.clean` |
| `Grouped`, `Submit` | `is_valid()`, then `save()`'s lookup of the name (create or extend) and its grouping of the rows |

A row is its vdev type and its number of disks, because the validation reads
only `len(disks)`. An extra form left empty has type `""`.

Volume names are model values:
- `ExistingNames` are the `Volume` rows;
- `BadNames` fail the regex or the reserved-word checks.

A pool to extend is its set of data vdevs, each a type and a width, as
`zpool_parse` reports them. `notifier()` itself is not in this repository.

`Ref*` states the rules declaratively, in the words of the formset's error
messages:
- minimum disks per type;
- one cache, log and spare row;
- a new pool has data vdevs, all of one type;
- an extension's data vdevs have the pool's type and width;
- a multi-disk log is mirrored (the `FIXME` of `save()`).

### Runs

| Run | Expect | Shows |
|---|---|---|
| `vdev_formset` (`VdevFormset.cfg`) | pass | `FormsetMatchesReference`: over every layout of up to three rows (all eight types, 1-5 disks), as a new volume and as an extension of a mirror pool, a raidz pool and a mixed pool, the formset accepts exactly the layouts the reference accepts, and `save()` hands notifier the reference's groups. 565,144 submissions. |
| `vdev_manager_names` (`VdevManagerNames.cfg`) | violation of `ValidatedForItsUse` | A submission with both `volume_name` and `volume_add` set. `VdevFormSet.clean` applies the extension rules (it branches on `volume_add`). `VolumeManagerForm.clean` and `save()` take `volume_name` first and create a new pool from a layout that was never checked as one. TLC's shortest example is an empty layout. The wizard rejects this combination (forms.py:630); `VolumeManagerForm` does not. |

Why the bounds suffice:
- 1-5 disks reach every minimum on both sides.
- Three rows are enough for two data rows and a repeated aux row, or a data row between two aux rows.
- The mixed pool shows that no data row can extend it.

Not checked:
- Rows with 0 disks, or with a type outside the GUI's choices. These are reachable only through the API, by posting `"[]"` or an arbitrary string. The formset accepts them (it has no check for either) and leaves them to `create_volume`.

This module uses `FoldLeft`, which is recursive. It is therefore checked by TLC
only and holds no theorems.

## 5. Volume creation and extension: `VolumeSave.tla`

### State and actions

Each web request is a thread. The ORM autocommits, so every query, save and
delete is one atomic step, and so is every `notifier()` call. Requests
interleave between those steps.

| Variable | Code |
|---|---|
| `rows`, `pools`, `scrubs` | names with a `Volume` row, a ZFS pool, a `Scrub` row |
| `pc`, `form`, `name`, `intent` | per request: its step, which form (`manager`, `wizard`), `volume_name` or `volume_add`, and what validation accepted it as |
| `add`, `ownRow` | `save()`'s `add` (the lookup found a row), and whether the request's own `volume.save()` committed |
| `established` | history: names whose create or extend request returned success |

| Action | Code (forms.py) |
|---|---|
| `Validate` | `clean_volume_name` (a new name has no row) or the formset's `volume_add` (a pool, or for the wizard a row) |
| `Lookup` | `Volume.objects.filter(vol_name=...)`: extend if a row is there (272-276, 698-705) |
| `RowSave` | `volume.save()`; `vol_name` is unique, so it raises if a row of that name was saved meanwhile |
| `CreateVolume`, `SetDedup`, `CreateScrub` | `create_volume`, `zfs_set_option(dedup)`, `Scrub.objects.create` |
| `AttachGroups` | `zfs_volume_attach_group` |
| `Rollback` | the `except`: `ManagerRollback` (`if not add and volume`) or `WizardRollback` (`if volume`), then re-raise |

`notifier()` is outside this repository. A call either does what it is named
for or raises:
- `CreateMayFail`: `create_volume` raises before the pool exists;
- `FailAfterPool`: `create_volume` or the dedup option raise after it;
- `AttachMayFail`: `zfs_volume_attach_group` raises.

### Runs

All runs use the names `tank` (existing) and `v1`.

| Run | Expect | Shows |
|---|---|---|
| `volume_manager_save` | pass | Two concurrent `VolumeManagerForm` requests, with `create_volume` and attach failing. `RowsMatchPools` and `ScrubsMatchRows`: once both returned, the rows are the pools and the scrubs. `EstablishedKept`: a volume a request created or extended successfully keeps its row. `RowsDeletedBySaver` (an action property): a row disappears only in the step where the request that saved it returns. 435 states. |
| `wizard_extend_rollback` | violation of `EstablishedKept` | One wizard request extends `tank` and the attach raises. `done()` deletes `tank`'s row (`if volume:`) although the pool stays. |
| `volume_name_race` | violation of `NoSilentExtend` | Two requests validate the same new name. The second one's lookup in `save()` finds the first one's row, and it attaches its vdevs to that pool instead of failing. |

`volume_manager_save` uses `FairSpec`: weak fairness of every step of a
request after `Validate`. Django serves each request on its own thread until
`save()` returns or raises, and a new submission (`Validate`) is not fair.
Under it the run checks `OrphanRowResolved`: a Volume row without a pool is
eventually either given its pool or deleted by the `except` branch.

`FailAfterPool` stays off in the pass run. With it on, a failed create leaves
a pool without a row, which `RowsMatchPools` then rightly reports. It also
breaks `EstablishedKept`, as TLC shows:
1. c1 saves the row of `v1` and creates its pool;
2. c1's dedup option raises;
3. c2 extends `v1`, and its attach succeeds;
4. c1's except branch deletes `v1`'s row.

This is a hazard the code does not handle, and it is listed in PROJECT.json
rather than checked.

### Proofs: `VolumeSave_proofs.tla`

`ManagerIInvInvariant` and `ManagerRowsMatchPools` hold for every set of
clients and names. Their hypothesis `ManagerOnly` covers only
`VolumeManagerForm` requests, with no failure after the pool exists. They
rest on the inductive invariant `IInv`, which is needed because
`RowsMatchPools` speaks only of quiet states. `IInv` says:
- a request owns its row between `RowSave` and its return, and only one request owns a row;
- every pool has a row;
- every row without a pool is owned by a request at `create` or `except`, which will either create the pool or delete the row;
- every established name has a pool.

One lemma per action, then `NextIInv`, then the two theorems `BY PTL`. TLC
checks `IInv` as an invariant with 3 clients and 3 names (72,409 states).

`ManagerScrubsMatchRows` proves `ScrubsMatchRows` under `ManagerOnly` with a
second invariant, `ScrubInv`:
- every scrub row has its volume row;
- a row without a scrub is owned by a request that is still running;
- the row a request owns has no scrub yet.

The third fact is what lets a rollback delete its row without leaving a
scrub behind. Each step keeps `ScrubInv` given `IInv` (`NextScrubInv`).

`ManagerEstablishedKept` states `EstablishedKept` on its own. The step above
shows why it needs `~FailAfterPool`.

`ManagerRowsDeletedBySaver` proves the action property `RowsDeletedBySaver`:
- `StepDeletedBySaver` shows that every step allowed by `IInv` satisfies `DeletedBySaver`;
- only `Rollback` removes a row;
- `IInv`'s type conjunct makes the request's form the manager's;
- `ManagerRollback` removes `name[c]` only when `ownRow[c]`, in the step that returns;
- PTL lifts `[]IInv` and `[][Next]_vars` to `[][DeletedBySaver]_vars`.

## 6. Volume encryption: `VolumeEncryption.tla`

`volEncrypt` is `Volume.vol_encrypt`. `provPass` is the passphrase each GELI
provider holds, and `members` are the volume's providers. The per-request
`seen` is the `vol_encrypt` the request loaded.

`adds` is the set of disks an extension still has to attach, one per group,
and `disk` is the disk a replacement puts in. The constant `NotifierMayFail`
lets every notifier call raise. The handler then ends where the exception
leaves it.

| Action | Code (forms.py) |
|---|---|
| `Start` | a validated submit of `CreatePassphraseForm`, `ChangePassphraseForm`, the extension of `VolumeManagerForm.save`, or `ZFSDiskReplacementForm` (its passphrase checked with `geli_testkey`) |
| `GeliPassphrase` | `geli_passphrase` on every provider, or a raise that ends `done()` before the flag is saved (2665, 2729-2743) |
| `SaveFlag` | `vol_encrypt = 1 or 2; save()` (2667-2669, 2744-2748) |
| `AttachGroup` | one `zfs_volume_attach_group` of the extension's loop: a key-only provider. If it raises, the `except` at 306-311 re-raises and the reset is skipped (288-311) |
| `ResetPassphrase`, `ResetSave` | if the loaded flag was 2, `geli_passphrase(volume, None)`, which may raise, then `vol_encrypt = 1; save()` (313-317) |
| `ReplaceDisk` | `zfs_replace_disk` with the passphrase the form asked for, or a non-zero return that changes nothing (2234-2259) |

Two properties state what unlocking depends on, once requests are over:
- `FlagMatchesProviders`: either the flag is 1 and no provider has a passphrase, or the flag is 2 and every provider holds the same one;
- `KeyOnlyWhenFlagOne`: with flag 1, no provider holds a passphrase. The boot-time attach would not ask for one.

| Run | Expect | Shows |
|---|---|---|
| `encryption_sequential` | pass | One request at a time, all four handlers, every notifier call allowed to raise, three disks, two passphrases. `KeyOnlyWhenFlagOne` holds, and so does the refinement `PassphraseSpec`. 12,546 states. |
| `encryption_flag` | violation of `FlagMatchesProviders` | Two requests, with any call allowed to raise. The shortest trace needs one request: extend a volume with a passphrase, attach a disk, and then the reset's `geli_passphrase(volume, None)` raises. The flag stays 2 while the new provider opens with the key alone. With `NotifierMayFail = FALSE` in the cfg, the property still fails: `geli_passphrase` and the flag saves of two changes interleave, and an extension acts on a stale flag. |

### Abstract specification: `VolumePassphrase.tla`

`VolumePassphrase` says what the handlers promise, with each notifier call
that changes the providers taken as one step together with the flag save
after it. Its state is the flag, the providers and each disk's passphrase.
- `SetPassphrase`: every provider gets a passphrase, and the flag becomes 2.
- `RemovePassphrase`: every provider loses its passphrase, and the flag becomes 1. This covers both `ChangePassphraseForm` and the reset after an extension.
- `Attach`: a key-only provider joins, and the flag is left alone.
- `Replace`: the new provider gets a passphrase some provider holds, or none when the flag is 1.

The specification does not promise that flag 2 means every provider needs
a passphrase. An extension that raises breaks that, as
`encryption_flag` shows. It does promise the two things unlocking
relies on:
- flag 1 means key only;
- the providers that need a passphrase all need the same one.

`VolumeEncryption` instantiates it as `Abs`. The mapping keeps `members` and
`provPass`. `AbsFlag` is the flag a pending `SaveFlag` or `ResetSave` is
about to write, and otherwise `volEncrypt`. With this mapping:
- `GeliPassphrase`, `AttachGroup`, `ResetPassphrase` and `ReplaceDisk` are abstract steps;
- `Start`, `SaveFlag`, `ResetSave` and every raise are stutters.

`encryption_sequential` checks `PassphraseSpec == Abs!Spec` as a
`PROPERTY`. With two overlapping requests it does not hold, for the
interleavings `encryption_flag` describes.

### Proofs: `VolumeEncryption_proofs.tla`

Each theorem assumes `OneRequest(c0)`: one client, hence no overlapping
requests. `NotifierMayFail` is left free, so the theorems cover every
raise. Under this assumption the file proves:
- `SequentialInvariant`, of `Inv`;
- `SequentialKeyOnly`, of `KeyOnlyWhenFlagOne`;
- `SequentialRefinement`, of `Spec => PassphraseSpec`.

`Inv` adds to the types what each step needs:
- `KeyOnly`: when `AbsFlag` is 1, no provider holds a passphrase;
- `OnePass`: the providers that hold a passphrase hold the same one;
- `RequestOK`: a running request's disks and passphrase are what its next step expects. The groups still to attach are outside the volume. A replaced disk is outside it too, and the old one inside. With flag 2 the replacement's passphrase is one the providers hold, and with any other flag it is none.

`KeyOnly` is not inductive on its own. An attach keeps it only because the
new disk gets no passphrase. A replacement keeps it only because of
`RequestOK`, which ties the checked passphrase to the flag loaded at the
start.

Each action has a lemma that keeps `Inv` and maps to an abstract step or a
stutter. `NextStep` combines them, and the theorems follow `BY PTL`.

## 7. Dataset and zvol forms: `ZfsForms.tla`

One submission per behaviour: `kind` says which form.

- `zvol_create`: `Submit` parses the size as `clean_zvol_volsize` does, decides whether "Force size" is needed (`ForceNeeded`, an exact comparison without large numbers), and computes the block size default of `ZVol_CreateForm.__init__` (`NumDisks`, `BitLength`, `BlockKiB`).
- `dataset_edit`, `zvol_edit`: `Init` picks the properties zfs reports (`zdata`: value, and whether the source is local) and at most one field the admin changes (`efield`, `evalue`). `Initial` is `get_initial_data` / `ZVol_EditForm.__init__`, and `Valid` is the form's validation. `SaveEdit` runs `save()`: `SaveDatasetProp` covers `clean_data_to_props` and the set/inherit loop, and `SaveZvolProp` covers the zvol loop.

Outside this repository:
- `zfs_get_options` reports a source as `local` or `inherit`.
- `zfs inherit` gives the parent's value.
- `zfs set` takes a size with an IEC letter in either case right after the number (not `GiB`, and no space after the number), and a recordsize that is a power of two from 512 bytes to 1 MiB.
- Whether `zfs set` takes an empty user property is left open: both outcomes are allowed.

A dataset carries one property of each kind `get_initial_data` treats alike:
- sync for sync and compression;
- atime for atime, readonly and exec;
- quota for the four sizes;
- dedup, recordsize and the comment.

| Run | Expect | Shows |
|---|---|---|
| `zfs_forms` (`ZvolBlocksize.cfg`) | pass | `BlocksizeMatchesReference`: the block size default is the least power of two giving each data disk of the widest vdev 4 KiB, over pools from one disk to a 40-wide raidz3. `SizeSavedOrRefused`: a zvol size, and a quota typed without a space or ending in `iB` (`10 GiB`, `10g`, `5`, `0`), is what the property reads after the save. A quota whose space the cleaning keeps (`10 G`, `4 `) makes the save fail and leaves the quota as it was: no spelling is written as another size, and none is dropped silently. That refusal is itself a divergence: `_clean_zfssize_fields` validates the text with its spaces removed, but rewrites only a suffix in `iB`. `clean_zvol_volsize` removes the spaces first, so only the dataset sizes are exposed. `ChoicesApplied`: an inherit, sync, atime, dedup or recordsize choice is what the property reads after the save. 349,768 states. |
| `zvol_force_units` | violation of `ForceWarningMatchesSize` | `_map` has only `P T G M` as typed, so `1 GiB`, `1g` or `1K` are compared with avail as bytes and the 80% warning is skipped. |
| `edit_round_trip` | violation of `UnchangedSaveKeeps` | Saving an edit form unchanged changes the dataset: a dedup value the form cannot show (`sha512`) is shown as and saved as `off`. `ZVol_EditForm.save` sets an empty local comment on a zvol whose comment was inherited or unset (or fails). |

The sizes 0, 1 and 4 GiB against avail 0 or 5 and used 0 or 1 fall on both
sides of 80%. The letters include one the regex rejects (`X`), and every
case and `iB` spelling. Each size may be typed with or without a space after
its number (`sp`).

### Proofs: `ZfsForms_proofs.tla`

`ChoicesAppliedInvariant` and `SizeSavedOrRefusedInvariant` prove
`ChoicesApplied` and `SizeSavedOrRefused` for every set of kinds, numbers, letters, values and
dataset fields. They assume `ZvolAssumption` and `EditAssumption`, stated in
`ZfsForms.tla`. `EditAssumption` says:
- the dataset form's fields are dataset properties;
- every entry of `choices.ZFS_RECORDSIZE` posts a positive number, in bytes or with `K`, that zfs takes as a recordsize.

`choices` is not part of this repository, so the second is an assumption
about it. It is what the form needs of its own choice list:
`clean_dataset_recordsize` reads only a number or a number with `K`, and a
choice zfs refused would fail every save that picked it. TLC evaluates both
assumptions on every run.

The inductive invariant `IInv` has two parts:
- `Frame`: what `Init` fixed, namely the properties read (`DOMAIN zdata = EditProps(kind)`) and one changed field with a value the form offers for it;
- once the form is saved: it was an edit form, `Valid` holds, and for some outcome of the empty-comment set, every property holds `SaveOf(p, ok).e` and the result is `saved` exactly when zfs took every property.

It is needed because the two properties speak of `zafter`, and only the
step that wrote `zafter` knows why it holds. TLC checked `IInv` on the
`zfs_forms` instance before it was proved.

`Init` states `DOMAIN zdata = EditProps(kind)` explicitly. The model implies
it already, but deriving it from the recursive `EntrySets` would take
induction.

The per-field lemmas:
- `ChoiceSaved`: a validated choice is written to read as chosen. A recordsize choice goes through `RecordsizeClean` and zfs's display (`RecordMeaning`).
- `SizeSaved`: a validated size is written as typed, or, for a dataset size whose space the cleaning kept, refused with the property left as it was. `CleanedFields` and `VolsizeFields` give the fields of the cleaned text: dropping `iB` keeps the number and the unit and drops the spaces, and any other text keeps its spaces. `ZfsReads` shows that zfs reads the cleaned text as the size typed, and takes it exactly when no space is left.

`RecordsizeClean` and `RecordDisplay` are written as `IF` chains, as the
code's sequential `if`s are. A `CASE` with overlapping arms is an arbitrary
choice among them to the provers: `Text("inherit")` also has no suffix, and
1 MiB is divisible by 1024.

## 8. What is proved, what is only checked, what is not modelled

Proved with TLAPS, for every value of the constants:
- `CronJobService`: `TypeOK`, `NoResurrection` and `CrontabSyncedWhenIdle`, via `IInv`.
- `CronJobService`: `SchedulesInRange`, via `IInv` and `ValidJobs`.
- `CronJobService`: the refinement of `CronTable` (`CronRefinement`), via `IInv` and `ValidJobs`.
- `VolumeSave`: `RowsMatchPools` and `EstablishedKept` under `ManagerOnly`, via `IInv`; `ScrubsMatchRows` via `ScrubInv`; the action property `RowsDeletedBySaver`.
- `ZfsForms`: `ChoicesApplied` and `SizeSavedOrRefused`, via `IInv`.
- `VolumeEncryption`, for requests that do not overlap and with any notifier call allowed to raise: `KeyOnlyWhenFlagOne`, and the refinement of `VolumePassphrase`, via `Inv`.

Only model-checked:
- the liveness properties `CronReloaded` and `OrphanRowResolved`, under the weak fairness described above (TLAPS does not reason about fairness or `ENABLED`);
- every property of `VdevLayout`:
  - its module extends `SequencesExt`, whose folds are `RECURSIVE` operators;
  - `FormsetMatchesReference` compares a fold over the rows with a declarative reference;
  - `TypeOK` needs `SelectSeq`'s result to be a sequence of the row type;
  - both take induction over the sequence, which the provers cannot instantiate;
- `BlocksizeMatchesReference`: that `2 ^ BitLength[m - 1]` is the least power of two at least `m` is an induction over the recursive function `BitLength`;
- `FlagMatchesProviders`, which fails with overlapping requests and, even with one request, when an extension raises.

Not modelled:
- the unlock and rekey handlers;
- a `geli_passphrase` or `zfs_volume_attach_group` that fails part-way: both are in the notifier, outside this repository, and are taken as one step that either completes or raises before changing anything;
- `ZFSDatasetCreateForm` and `ZVol_CreateForm.save`, whose effect depends on how `notifier()` treats an `inherit` value;
- the other storage forms, each a single validated call;
- the migration and the integration tests.
