---------------------------- MODULE VdevLayout ----------------------------
(***************************************************************************)
(* Validation of a pool layout submitted to VolumeManagerForm (GUI and    *)
(* API): the per-row checks of VolumeVdevForm, the cross-row checks of    *)
(* VdevFormSet.clean, the volume name checks of VolumeMixin and           *)
(* VolumeManagerForm.clean, and the create-or-extend choice save() makes  *)
(* from the cleaned data.                                                 *)
(*                                                                         *)
(* A row of the "layout" formset is its vdev type and its number of disks *)
(* (only len(disks) is read); an extra form left empty has type "".  A    *)
(* pool being extended is the set of its data vdevs, each a type and a    *)
(* width, as notifier().zpool_parse reports them.                         *)
(*                                                                         *)
(* The code's checks are written as the loops they are (a left fold over  *)
(* the rows for the new-volume path); Ref* states the same rules          *)
(* declaratively, as the formset's error messages describe them.          *)
(***************************************************************************)
EXTENDS Integers, Sequences, SequencesExt

CONSTANTS
    VdevTypes,     \* the vdev types a row may carry
    DiskCounts,    \* the numbers of disks a row may carry
    MaxRows,       \* rows in the submitted formset
    PoolShapes,    \* data vdev sets of the pools that may be extended
    NameInputs,    \* <<volume_name, volume_add>> pairs submitted
    ExistingNames, \* names of the Volume rows
    BadNames,      \* names the regex or the reserved-word checks reject
    NoName         \* an empty name field

DataTypes == {"mirror", "stripe", "raidz", "raidz2", "raidz3"}
AuxTypes == {"cache", "log", "log mirror", "spare"}
EmptyRow == [type |-> "", n |-> 0]
Row == [type : VdevTypes, n : DiskCounts] \cup {EmptyRow}
Layouts == UNION {[1..k -> Row] : k \in 1..MaxRows}

ASSUME LayoutAssumption ==
    /\ VdevTypes \subseteq DataTypes \cup {"cache", "log", "spare"}
    /\ DiskCounts \subseteq Nat
    /\ MaxRows \in Nat \ {0}
    /\ NoName \notin ExistingNames \cup BadNames

VARIABLES
    rows,     \* the layout formset as submitted
    volName,  \* volume_name
    volAdd,   \* volume_add
    pool,     \* the data vdevs of volume_add's pool
    outcome   \* what is_valid() and save() make of the submission

vars == <<rows, volName, volAdd, pool, outcome>>

-----------------------------------------------------------------------------
(* VolumeVdevForm *)

\* Mutant: raidz accepted with two disks.
NeedDisksRaidzTwo == {<<"mirror", 2>>, <<"raidz", 2>>, <<"raidz2", 4>>, <<"raidz3", 5>>}

\* clean_disks: the minimum disks of the redundant types.
NeedDisks == {<<"mirror", 2>>, <<"raidz", 3>>, <<"raidz2", 4>>, <<"raidz3", 5>>}

CleanDisks(row) == \A rule \in NeedDisks : row.type = rule[1] => row.n >= rule[2]

\* clean: a log row of several disks becomes a log mirror.
CleanVdevForm(row) ==
    IF row.type = "log" /\ row.n > 1 THEN [row EXCEPT !.type = "log mirror"] ELSE row

-----------------------------------------------------------------------------
(* VdevFormSet *)

AuxName(t) == IF t = "log mirror" THEN "log" ELSE t

\* _clean_vdevtype: a second cache, log or spare row is an error; the
\* first is recorded in vdevfound.
AuxRepeated(found, t) == t \in AuxTypes /\ AuxName(t) \in found

AuxFound(found, t) == IF t \in AuxTypes THEN found \cup {AuxName(t)} ELSE found

\* One iteration of the new-volume loop of clean().
NewVolumeStep(st, row) ==
    CASE st.err                               -> st
      [] row.type \in DataTypes /\ st.datatype \notin {"", row.type}
                                              -> [st EXCEPT !.err = TRUE]
      [] row.type \in DataTypes               -> [st EXCEPT !.hasData = TRUE, !.datatype = row.type]
      [] AuxRepeated(st.found, row.type)      -> [st EXCEPT !.err = TRUE]
      [] OTHER                                -> [st EXCEPT !.found = AuxFound(@, row.type)]

NewVolumeClean(cleaned) ==
    LET st == FoldLeft(NewVolumeStep, [err |-> FALSE, hasData |-> FALSE, datatype |-> "",
                                       found |-> {}], cleaned)
    IN ~st.err /\ st.hasData

\* One iteration of the first volume_add loop: rows without a type are skipped.
ExtendAuxStep(st, row) ==
    CASE st.err \/ row.type = ""              -> st
      [] AuxRepeated(st.found, row.type)      -> [st EXCEPT !.err = TRUE]
      [] OTHER                                -> [st EXCEPT !.found = AuxFound(@, row.type)]

\* The volume_add branch: aux rows once each, then every data row against
\* every data vdev of the pool (the first mismatch raises).
ExtendClean(cleaned, zpool) ==
    /\ ~FoldLeft(ExtendAuxStep, [err |-> FALSE, found |-> {}], cleaned).err
    /\ \A vdev \in zpool, i \in DOMAIN cleaned :
          cleaned[i].type \notin AuxTypes \cup {""} =>
              /\ vdev.type = cleaned[i].type
              /\ vdev.width = cleaned[i].n

\* is_valid of the formset: every form valid, then clean().
FormsetValid(layout, add, zpool) ==
    LET cleaned == [i \in DOMAIN layout |-> CleanVdevForm(layout[i])]
    IN /\ \A i \in DOMAIN layout : CleanDisks(layout[i])
       /\ IF add = NoName THEN NewVolumeClean(cleaned) ELSE ExtendClean(cleaned, zpool)

\* Mutant: save() keeps the extra forms that were left empty.
GroupedKeepsEmpty(layout) ==
    [i \in DOMAIN layout |-> CleanVdevForm(layout[i])]

\* save(): the rows that have a vdev type, as grouped for notifier.
Grouped(layout) ==
    SelectSeq([i \in DOMAIN layout |-> CleanVdevForm(layout[i])], LAMBDA r : r.type # "")

-----------------------------------------------------------------------------
(* VolumeMixin.clean_volume_name and VolumeManagerForm.clean *)

CleanVolumeName(name) == name = NoName \/ name \notin BadNames \cup ExistingNames

\* volume_name or volume_add, whichever is set first.
VName(name, add) == IF name # NoName THEN name ELSE add

FormValid(name, add) == CleanVolumeName(name) /\ VName(name, add) # NoName

-----------------------------------------------------------------------------
(* What the formset's messages say a layout must be. *)

RefMinDisks(t) ==
    CASE t = "mirror" -> 2 [] t = "raidz" -> 3 [] t = "raidz2" -> 4 [] t = "raidz3" -> 5
      [] OTHER -> 1

RefRowsOK(layout) == \A i \in DOMAIN layout : layout[i].type # "" => layout[i].n >= RefMinDisks(layout[i].type)

RefAuxOnce(layout) ==
    \A i, j \in DOMAIN layout :
        i # j /\ layout[i].type \in {"cache", "log", "spare"} => layout[j].type # layout[i].type

RefDataRows(layout) == {i \in DOMAIN layout : layout[i].type \in DataTypes}

\* A new pool: some data vdevs, all of one type; one row per aux type.
RefNewOK(layout) ==
    /\ RefRowsOK(layout)
    /\ RefAuxOnce(layout)
    /\ RefDataRows(layout) # {}
    /\ \A i, j \in RefDataRows(layout) : layout[i].type = layout[j].type

\* An extension: the added data vdevs look like the pool's.
RefExtendOK(layout, zpool) ==
    /\ RefRowsOK(layout)
    /\ RefAuxOnce(layout)
    /\ \A i \in RefDataRows(layout), v \in zpool : v = [type |-> layout[i].type, width |-> layout[i].n]

\* The vdevs notifier is asked for: a log of several disks is mirrored.
RefGroups(layout) ==
    LET kept == SelectSeq(layout, LAMBDA r : r.type # "")
    IN [i \in DOMAIN kept |->
          [kept[i] EXCEPT !.type = IF kept[i].type = "log" /\ kept[i].n > 1 THEN "log mirror" ELSE @]]

-----------------------------------------------------------------------------
\* Not judged yet.
Pending == [formset |-> FALSE, op |-> "pending", groups |-> <<>>]

Init ==
    /\ rows \in Layouts
    /\ \E names \in NameInputs : volName = names[1] /\ volAdd = names[2]
    /\ pool \in IF volAdd = NoName THEN {{}} ELSE PoolShapes
    /\ outcome = Pending

\* VolumeManagerForm.is_valid(), then save()'s lookup of the name.
Submit ==
    /\ outcome = Pending
    /\ LET valid == FormValid(volName, volAdd) /\ FormsetValid(rows, volAdd, pool)
           name == VName(volName, volAdd)
       IN outcome' = [formset |-> FormsetValid(rows, volAdd, pool),
                      op      |-> IF ~valid THEN "none"
                                  ELSE IF name \in ExistingNames THEN "extend" ELSE "create",
                      groups  |-> Grouped(rows)]
    /\ UNCHANGED <<rows, volName, volAdd, pool>>

Next == Submit

Spec == Init /\ [][Next]_vars

-----------------------------------------------------------------------------
\* Types: the submission is one the form can receive, and save() hands
\* notifier only rows with a vdev type (a multi-disk log as a log mirror).
TypeOK ==
    /\ rows \in Layouts
    /\ <<volName, volAdd>> \in NameInputs
    /\ outcome.op \in {"pending", "none", "extend", "create"}
    /\ outcome.groups \in Seq([type : VdevTypes \cup {"log mirror"}, n : DiskCounts])

(***************************************************************************)
(* The formset accepts a layout exactly when it meets the rules its error *)
(* messages state (disk minimums, one cache/log/spare row, one data type  *)
(* for a new pool, the pool's type and width for an extension), and the  *)
(* vdevs save() hands notifier are the submitted rows with a multi-disk  *)
(* log mirrored.                                                          *)
(***************************************************************************)
FormsetMatchesReference ==
    outcome # Pending =>
        /\ outcome.formset = IF volAdd = NoName THEN RefNewOK(rows) ELSE RefExtendOK(rows, pool)
        /\ outcome.formset => outcome.groups = RefGroups(rows)

(***************************************************************************)
(* What save() does with an accepted form is what the layout was checked *)
(* for: it creates a pool only from a layout valid for a new pool, and    *)
(* extends only a pool the layout was checked against.                    *)
(***************************************************************************)
ValidatedForItsUse ==
    outcome # Pending =>
        /\ outcome.op = "create" => RefNewOK(rows)
        /\ outcome.op = "extend" => volAdd # NoName /\ RefExtendOK(rows, pool)

=============================================================================
