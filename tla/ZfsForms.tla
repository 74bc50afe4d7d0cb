----------------------------- MODULE ZfsForms ------------------------------
(***************************************************************************)
(* The dataset and zvol forms of storage/forms.py, one submission each:   *)
(*                                                                         *)
(*  - ZVol_CreateForm: CommonZVol's clean_zvol_volsize and _zvol_force,   *)
(*    and the default block size __init__ derives from the pool layout;   *)
(*  - ZFSDatasetEditForm and ZVol_EditForm: the initial data read from    *)
(*    the ZFS properties, the posted form (unchanged but for at most one  *)
(*    field), its validation, and save() writing every property back.     *)
(*                                                                         *)
(* A typed size is its number and its suffix: a letter, whether it was    *)
(* typed in upper case, and whether "iB" followed it (the regexes ignore  *)
(* case).  Sizes are n * 1024^e; avail and the zvol's own used space are  *)
(* whole GiB, as zfs_list reports them.                                   *)
(*                                                                         *)
(* notifier() is not part of this repository.  zfs_get_options reports a *)
(* property as its value and a source, 'local' or 'inherit' for anything  *)
(* else; zfs_inherit_option makes the property read its parent's value;  *)
(* zfs_set_option makes it read the value, local, when zfs accepts the    *)
(* value, and fails otherwise.  Whether zfs accepts an empty user         *)
(* property is left open: both outcomes are allowed.                      *)
(***************************************************************************)
EXTENDS Naturals

CONSTANTS
    Kinds,         \* the forms submitted: "zvol_create", "dataset_edit", "zvol_edit"
    Numbers,       \* the numbers typed (Decimal(number)), small naturals
    Letters,       \* suffix letters typed, in upper case
    AvailGiB,      \* avail of the parent dataset
    UsedGiB,       \* used of the zvol being edited (0 when creating)
    PoolShapes,    \* data vdevs (type and width) of the pool
    VolBlockSizes, \* the KiB values of choices.ZFS_VOLBLOCKSIZE
    ChoiceValues,  \* values of sync and compression, all in their choice lists
    DedupValues,   \* values zfs may report for dedup
    RecordValues,  \* recordsize values zfs may report as set locally, in bytes
    RecordChoices, \* choices.ZFS_RECORDSIZE, as the form posts them
    ParentValue,   \* what each property reads when inherited
    DatasetFields  \* the properties of ZFSDatasetEditForm in the model

ASSUME ZvolAssumption ==
    /\ Kinds \subseteq {"zvol_create", "dataset_edit", "zvol_edit"}
    /\ Numbers \subseteq 0..800
    /\ AvailGiB \subseteq 0..800 /\ UsedGiB \subseteq 0..800

\* The IEC letters the regex accepts, by their power of 1024.
Units == <<"B", "K", "M", "G", "T", "P">>
Exp(l) == CHOOSE i \in 1..6 : Units[i] = l
IsUnit(l) == \E i \in 1..6 : Units[i] = l

NoSuffix == [letter |-> "", upper |-> TRUE, ib |-> FALSE]
Suffixes == [letter : Letters, upper : BOOLEAN, ib : BOOLEAN] \cup {NoSuffix}

VARIABLES
    kind,    \* the form submitted
    number,  \* the typed number (zvol creation)
    suffix,  \* the typed suffix (zvol creation)
    avail,   \* avail of the parent dataset, GiB
    used,    \* used of the zvol being edited, GiB
    pool,    \* the data vdevs of the pool the zvol is created in
    outcome, \* what ZVol_CreateForm makes of it
    zdata,   \* the edited dataset's or zvol's properties before the save
    efield,  \* the one field the admin changed in the edit form, or "none"
    evalue,  \* what was entered in it
    zafter,  \* its properties after the submission
    result   \* "pending", "invalid" (the form did not validate), "saved", "failed"

vars == <<kind, number, suffix, avail, used, pool, outcome, zdata, efield, evalue, zafter, result>>

-----------------------------------------------------------------------------
(* clean_zvol_volsize *)

\* ^(\d+(?:\.\d+)?)([BKMGTP](?:iB)?)$ with re.I: the suffix is required.
SizeMatches(sfx) == sfx # NoSuffix /\ IsUnit(sfx.letter)

\* `if suffix in _map`: the suffix exactly as typed among 'P', 'T', 'G', 'M'.
InMap(sfx) == sfx.upper /\ ~sfx.ib /\ sfx.letter \in {"M", "G", "T", "P"}

\* The power of 1024 cmpsize is scaled by: the letter's, or 0 (bytes).
CmpExp(sfx) == IF InMap(sfx) THEN Exp(sfx.letter) - 1 ELSE 0

(***************************************************************************)
(* n1 * 1024^e1 > 0.80 * (n2 * 1024^e2), i.e. 5*n1*1024^e1 > 4*n2*1024^e2, *)
(* exactly for n1, n2 <= 800 without forming the large powers: a power  *)
(* of 1024 outweighs any factor of 5/4 * 800.                              *)
(***************************************************************************)
OverFourFifths(n1, e1, n2, e2) ==
    CASE e1 = e2 -> 5 * n1 > 4 * n2
      [] e1 > e2 -> n1 > 0
      [] OTHER   -> n2 = 0 /\ n1 > 0

\* `if cmpsize > avail * 0.80: self._force = True`, avail counting the
\* zvol's own used space when editing.
ForceNeeded(n, sfx, a, u) == OverFourFifths(n, CmpExp(sfx), a + u, 3)

-----------------------------------------------------------------------------
(* ZVol_CreateForm.__init__: the default zvol_blocksize *)

AuxVdevTypes == {"cache", "spare", "log", "log mirror"}

\* Disks of a vdev that carry data in one stripe row.
DataDisks(v) ==
    CASE v.type = "raidz"  -> v.width - 1
      [] v.type = "raidz2" -> v.width - 2
      [] v.type = "raidz3" -> v.width - 3
      [] v.type = "mirror" -> 1
      [] OTHER             -> v.width

\* The loop over zpool.data, starting from numdisks = 4.
NumDisks(zpool) ==
    LET nums == {DataDisks(v) : v \in {w \in zpool : w.type \notin AuxVdevTypes}}
    IN CHOOSE m \in nums \cup {4} : \A k \in nums \cup {4} : k <= m

\* int.bit_length
BitLength[x \in Nat] == IF x = 0 THEN 0 ELSE 1 + BitLength[x \div 2]

\* Mutant: bit_length taken of numdisks * 4, not numdisks * 4 - 1.
BlockKiBOffByOne(zpool) == 2 ^ BitLength[NumDisks(zpool) * 4]

\* size = '%dK' % 2 ** ((numdisks * 4) - 1).bit_length()
BlockKiB(zpool) == 2 ^ BitLength[NumDisks(zpool) * 4 - 1]

\* The initial value is set only when it is one of the choices.
InitialBlock(zpool) == IF BlockKiB(zpool) \in VolBlockSizes THEN BlockKiB(zpool) ELSE 0

-----------------------------------------------------------------------------
(* What the help texts and messages say. *)

\* "Allow the zvol to consume more than 80% of available space", sizes read
\* with their IEC suffix ("Specify the size with IEC suffixes, e.g. 10 GiB").
RefForce(n, sfx, a, u) == OverFourFifths(n, Exp(sfx.letter) - 1, a + u, 3)

\* The least power of two giving every data disk at least 4 KiB of a block.
RefBlock(zpool) ==
    LET need == 4 * NumDisks(zpool)
        pows == {2 ^ k : k \in 0..12}
    IN CHOOSE p \in pows : p >= need /\ \A q \in pows : q >= need => p <= q


-----------------------------------------------------------------------------
(* The edit forms: ZFSDatasetEditForm and ZVol_EditForm *)

\* What zfs_get_options reports: a string, or a number scaled by 1024^e (a
\* size, "none" being 0, or a recordsize); and whether the source is local.
ZStr(x) == [s |-> x, n |-> 0, e |-> 0]
ZNum(n, e) == [s |-> "", n |-> n, e |-> e]
Local(z) == [v |-> z, local |-> TRUE]
Inherited(p) == [v |-> ParentValue[p], local |-> FALSE]

\* What a form field posts: a choice or a text, or a number and its suffix;
\* sp: the text has a space after the number begins ("10 G", "10 GiB").
Text(x) == [s |-> x, n |-> 0, sfx |-> NoSuffix, sp |-> FALSE]
Typed(n, sfx) == [s |-> "", n |-> n, sfx |-> sfx, sp |-> FALSE]
Spaced(n, sfx, sp) == [Typed(n, sfx) EXCEPT !.sp = sp]
Upper(l) == [letter |-> l, upper |-> TRUE, ib |-> FALSE]
\* The integer initial 0 of the size fields, posted as "0".
Zero == Typed(0, NoSuffix)

Desc == "org.freenas:description"
InheritProps == {"sync", "compression"}
OnOffProps == {"atime", "readonly", "exec"}
SizeProps == {"quota", "refquota", "reservation", "refreservation"}
\* zfs_size_fields and the properties clean_data_to_props collects.
DatasetProps == {Desc, "dedup", "recordsize"} \cup InheritProps \cup OnOffProps \cup SizeProps
\* The properties ZVol_EditForm.save writes.
ZvolProps == {Desc, "sync", "compression", "dedup", "volsize"}
\* choices.ZFS_DEDUP_INHERIT
DedupChoices == {"inherit", "on", "off", "verify"}
\* A comment is empty or not.
Comments == {"", "c"}

\* zfs shows a recordsize in the largest unit that divides it.
RecordDisplay(b) ==
    IF b % 1048576 = 0 THEN ZNum(b \div 1048576, 2)
    ELSE IF b % 1024 = 0 THEN ZNum(b \div 1024, 1)
    ELSE ZNum(b, 0)

\* What each property of a dataset or zvol may read before the edit.
Entries(p) ==
    CASE p = Desc ->
            {Inherited(p), [v |-> ZStr(""), local |-> FALSE]} \cup {Local(ZStr("c"))}
      [] p \in InheritProps -> {Inherited(p)} \cup {Local(ZStr(x)) : x \in ChoiceValues}
      [] p = "dedup"        -> {Inherited(p)} \cup {Local(ZStr(x)) : x \in DedupValues}
      [] p \in OnOffProps   -> {Inherited(p)} \cup {Local(ZStr(x)) : x \in {"on", "off"}}
      [] p = "recordsize"   -> {Inherited(p)} \cup {Local(RecordDisplay(b)) : b \in RecordValues}
      [] p \in SizeProps    ->
            {[v |-> ZNum(0, 0), local |-> FALSE]} \cup {Local(ZNum(n, 3)) : n \in Numbers \ {0}}
      [] p = "volsize"      -> {Local(ZNum(n, 3)) : n \in Numbers \ {0}}

NoProps == [p \in {} |-> Local(ZStr(""))]

\* The property sets a dataset or zvol may have: one entry per property.
EntrySets[S \in SUBSET (DatasetProps \cup ZvolProps)] ==
    IF S = {} THEN {NoProps}
    ELSE LET q == CHOOSE q \in S : TRUE
         IN {[p \in S |-> IF p = q THEN x ELSE f[p]] : f \in EntrySets[S \ {q}], x \in Entries(q)}

\* The zfs value as the form shows it: "1G", "128K", "512".
AsTyped(z) == Typed(z.n, IF z.e = 0 THEN NoSuffix ELSE Upper(Units[z.e + 1]))

\* The dedup choice shown for what zfs reports.
DedupInitial(z) ==
    IF ~z.local THEN "inherit"
    ELSE IF z.v.s \in {"on", "off", "verify"} THEN z.v.s
    ELSE IF z.v.s = "sha256,verify" THEN "verify"
    ELSE "off"

(***************************************************************************)
(* get_initial_data (and the fields' own initial values for what it       *)
(* leaves out); ZVol_EditForm.__init__ sets the same for its fields.      *)
(***************************************************************************)
Initial(p) ==
    LET z == zdata[p] IN
    CASE p = Desc             -> Text(IF z.local THEN z.v.s ELSE "")
      [] p \in SizeProps      -> IF z.v.n = 0 \/ ~z.local THEN Zero ELSE AsTyped(z.v)
      [] p = "volsize"        -> AsTyped(z.v)
      [] p = "dedup"          -> Text(DedupInitial(z))
      [] p \in InheritProps   -> Text(IF z.local THEN z.v.s ELSE "inherit")
      [] p \in OnOffProps     ->
            Text(IF ~z.local THEN "inherit" ELSE IF z.v.s \in {"on", "off"} THEN z.v.s ELSE "off")
      [] p = "recordsize"     -> IF z.local THEN AsTyped(z.v) ELSE Text("inherit")

\* The form as posted: as shown, but for the field the admin changed.
Posted(p) == IF efield = p THEN evalue ELSE Initial(p)
ForceTicked == efield = "zvol_force"

\* The ChoiceFields: a posted value must be one of the choices.
ChoiceValid(p, x) ==
    CASE p \in InheritProps -> x.s \in {"inherit"} \cup ChoiceValues
      [] p = "dedup"        -> x.s \in DedupChoices
      [] p \in OnOffProps   -> x.s \in {"inherit", "on", "off"}
      [] p = "recordsize"   -> x = Text("inherit") \/ x \in RecordChoices
      [] OTHER              -> TRUE

\* _clean_zfssize_fields: ^(\d+(?:\.\d+)?)([BKMGTP](?:iB)?)?$ with re.I,
\* matched on the text with its spaces removed.
SizeFieldValid(t) == t.sfx = NoSuffix \/ IsUnit(t.sfx.letter)

\* Mutant: the size is left as typed, "iB" included.
CleanedSizeKeepsIB(t) == t

\* ... and what it leaves in cleaned_data: number + suffix[0] of the
\* unspaced match for "GiB", any other text as it was typed, spaces and all.
CleanedSize(t) == IF t.sfx.ib THEN [t EXCEPT !.sfx.ib = FALSE, !.sp = FALSE] ELSE t

\* clean_zvol_volsize removes the spaces first, then does the same rewrite.
ZvolVolsize(t) == [t EXCEPT !.sfx.ib = FALSE, !.sp = FALSE]

\* Mutant: "4K" read as 4 bytes.
RecordsizeCleanNoScale(x) ==
    IF x = Text("") \/ x = Text("inherit") THEN [ok |-> TRUE, inherit |-> TRUE, bytes |-> 0]
    ELSE IF x.sfx = NoSuffix THEN [ok |-> TRUE, inherit |-> FALSE, bytes |-> x.n]
    ELSE IF x.sfx.letter = "K" THEN [ok |-> TRUE, inherit |-> FALSE, bytes |-> x.n]
    ELSE [ok |-> FALSE, inherit |-> FALSE, bytes |-> 0]

\* clean_dataset_recordsize: 'inherit' for nothing or 'inherit', int(rs),
\* or a number followed by k or K times 1024; anything else is an error.
RecordsizeClean(x) ==
    IF x = Text("") \/ x = Text("inherit") THEN [ok |-> TRUE, inherit |-> TRUE, bytes |-> 0]
    ELSE IF x.sfx = NoSuffix THEN [ok |-> TRUE, inherit |-> FALSE, bytes |-> x.n]
    ELSE IF x.sfx.letter = "K" THEN [ok |-> TRUE, inherit |-> FALSE, bytes |-> x.n * 1024]
    ELSE [ok |-> FALSE, inherit |-> FALSE, bytes |-> 0]

\* The zfs size a cleaned size stands for; 0 in any unit reads "none".
TypedSize(t) ==
    IF t.n = 0 THEN ZNum(0, 0)
    ELSE ZNum(t.n, IF t.sfx = NoSuffix THEN 0 ELSE Exp(t.sfx.letter) - 1)

\* humansize_to_bytes(a) > humansize_to_bytes(b), exactly for n <= 800.
Larger(a, b) ==
    CASE a.e = b.e -> a.n > b.n
      [] a.e > b.e -> a.n > 0
      [] OTHER     -> b.n = 0 /\ a.n > 0

(***************************************************************************)
(* The form validates: every ChoiceField, _clean_zfssize_fields on the    *)
(* sizes, clean_dataset_recordsize; for a zvol clean_zvol_volsize (the    *)
(* suffix required), _zvol_force and the refusal to shrink.               *)
(***************************************************************************)
Valid ==
    /\ \A p \in DOMAIN zdata : ChoiceValid(p, Posted(p))
    /\ \A p \in DOMAIN zdata \cap SizeProps : SizeFieldValid(Posted(p))
    /\ "recordsize" \in DOMAIN zdata => RecordsizeClean(Posted("recordsize")).ok
    /\ "volsize" \in DOMAIN zdata =>
          LET t == Posted("volsize") IN
          /\ SizeMatches(t.sfx)
          /\ ForceNeeded(t.n, t.sfx, avail, used) => ForceTicked
          /\ ~Larger(zdata["volsize"].v, TypedSize(CleanedSize(ZvolVolsize(t))))

\* zfs set of a size: a number with an IEC letter in either case right
\* after it, or none; nicestrtonum refuses a space after the number.
ZfsAcceptsSize(t) == ~t.sp /\ (t.sfx = NoSuffix \/ (IsUnit(t.sfx.letter) /\ ~t.sfx.ib))
\* zfs set recordsize: a power of two from 512 bytes to 1 MiB.
ZfsAcceptsRecord(b) == \E k \in 9..20 : b = 2 ^ k

(***************************************************************************)
(* The edit form's fields are dataset properties, and every entry of      *)
(* choices.ZFS_RECORDSIZE posts a size zfs takes as a recordsize, in      *)
(* bytes ("512") or in K ("4K"), the one unit clean_dataset_recordsize   *)
(* reads.                                                                 *)
(***************************************************************************)
ASSUME EditAssumption ==
    /\ DatasetFields \subseteq DatasetProps
    /\ \A x \in RecordChoices :
          /\ x.n \in Nat \ {0} /\ x.sfx \in {NoSuffix, Upper("K")}
          /\ ZfsAcceptsRecord(x.n * (IF x.sfx = NoSuffix THEN 1 ELSE 1024))

\* notifier().zfs_set_option and zfs_inherit_option on one property.
Set(p, z, accepted) == [e |-> IF accepted THEN Local(z) ELSE zdata[p], ok |-> accepted]
Inherit(p) == [e |-> Inherited(p), ok |-> TRUE]
Keep(p) == [e |-> zdata[p], ok |-> TRUE]

(***************************************************************************)
(* clean_data_to_props and the loop of ZFSDatasetEditForm.save: a size   *)
(* "0" becomes 'none', an empty comment is left out, recordsize goes      *)
(* through clean_dataset_recordsize, and every value 'inherit' is         *)
(* inherited, any other set.                                              *)
(***************************************************************************)
SaveDatasetProp(p) ==
    LET x == Posted(p) IN
    CASE p \in SizeProps ->
            IF x = Zero THEN Set(p, ZNum(0, 0), TRUE)
            ELSE Set(p, TypedSize(CleanedSize(x)), ZfsAcceptsSize(CleanedSize(x)))
      [] p = Desc -> IF x.s = "" THEN Keep(p) ELSE Set(p, ZStr(x.s), TRUE)
      [] p = "recordsize" ->
            LET r == RecordsizeClean(x) IN
            IF r.inherit THEN Inherit(p)
            ELSE Set(p, RecordDisplay(r.bytes), ZfsAcceptsRecord(r.bytes))
      [] OTHER -> IF x.s = "inherit" THEN Inherit(p) ELSE Set(p, ZStr(x.s), TRUE)

(***************************************************************************)
(* The loop of ZVol_EditForm.save: the comment is set whatever it is     *)
(* (can_inherit False), sync, compression and dedup inherited or set,    *)
(* volsize set to the cleaned size.                                       *)
(***************************************************************************)
SaveZvolProp(p, emptyOk) ==
    LET x == Posted(p) IN
    CASE p = Desc -> Set(p, ZStr(x.s), x.s # "" \/ emptyOk)
      [] p = "volsize" ->
            LET t == CleanedSize(ZvolVolsize(x)) IN Set(p, TypedSize(t), ZfsAcceptsSize(t))
      [] OTHER -> IF x.s = "inherit" THEN Inherit(p) ELSE Set(p, ZStr(x.s), TRUE)

-----------------------------------------------------------------------------
Pending == [valid |-> FALSE, force |-> FALSE, block |-> 0, judged |-> FALSE]

\* The fields the admin may change, and what may be entered in each.
\* The properties get_initial_data (or ZVol_EditForm.__init__) reads.
EditProps(k) == IF k = "dataset_edit" THEN DatasetFields ELSE ZvolProps
EditFields(k) == IF k = "dataset_edit" THEN DatasetFields ELSE ZvolProps \cup {"zvol_force"}
EditValues(p) ==
    CASE p = Desc             -> {Text(x) : x \in Comments}
      [] p \in InheritProps   -> {Text(x) : x \in {"inherit"} \cup ChoiceValues}
      [] p = "dedup"          -> {Text(x) : x \in DedupChoices}
      [] p \in OnOffProps     -> {Text(x) : x \in {"inherit", "on", "off"}}
      [] p = "recordsize"     -> {Text("inherit")} \cup RecordChoices
      [] p = "zvol_force"     -> {Text("on")}
      [] OTHER                -> {Spaced(n, s, b) : n \in Numbers, s \in Suffixes, b \in BOOLEAN}

Init ==
    /\ \/ /\ kind = "zvol_create" /\ kind \in Kinds
          /\ number \in Numbers
          /\ suffix \in Suffixes
          /\ avail \in AvailGiB
          /\ used \in UsedGiB
          /\ pool \in PoolShapes
          /\ zdata = NoProps
          /\ efield = "none" /\ evalue = Text("")
       \/ /\ kind \in Kinds \ {"zvol_create"}
          /\ number = 0 /\ suffix = NoSuffix /\ pool = {}
          /\ avail \in IF kind = "zvol_edit" THEN AvailGiB ELSE {0}
          /\ used \in IF kind = "zvol_edit" THEN UsedGiB ELSE {0}
          /\ zdata \in EntrySets[EditProps(kind)]
          /\ DOMAIN zdata = EditProps(kind)
          /\ \/ efield = "none" /\ evalue = Text("")
             \/ \E p \in EditFields(kind) : efield = p /\ evalue \in EditValues(p)
    /\ outcome = Pending
    /\ zafter = zdata
    /\ result = "pending"

\* ZVol_CreateForm is built (block size default) and its size field cleaned.
Submit ==
    /\ kind = "zvol_create"
    /\ ~outcome.judged
    /\ outcome' = [valid  |-> SizeMatches(suffix),
                   force  |-> SizeMatches(suffix) /\ ForceNeeded(number, suffix, avail, used),
                   block  |-> InitialBlock(pool),
                   judged |-> TRUE]
    /\ UNCHANGED <<kind, number, suffix, avail, used, pool, zdata, efield, evalue, zafter, result>>

\* An edit form is posted: it is refused, or save() runs every property.
SaveEdit ==
    /\ kind \in {"dataset_edit", "zvol_edit"}
    /\ result = "pending"
    /\ \/ /\ ~Valid
          /\ result' = "invalid"
          /\ UNCHANGED zafter
       \/ /\ Valid
          /\ \E emptyOk \in BOOLEAN :
               LET r == [p \in DOMAIN zdata |->
                           IF kind = "dataset_edit" THEN SaveDatasetProp(p)
                           ELSE SaveZvolProp(p, emptyOk)]
               IN /\ zafter' = [p \in DOMAIN zdata |-> r[p].e]
                  /\ result' = IF \A p \in DOMAIN zdata : r[p].ok THEN "saved" ELSE "failed"
    /\ UNCHANGED <<kind, number, suffix, avail, used, pool, outcome, zdata, efield, evalue>>

Next == Submit \/ SaveEdit

Spec == Init /\ [][Next]_vars

-----------------------------------------------------------------------------
(***************************************************************************)
(* The default block size CommonZVol offers is the least power of two    *)
(* giving each data disk of the widest vdev at least 4 KiB, when that is *)
(* one of the choices.                                                   *)
(***************************************************************************)
BlocksizeMatchesReference ==
    outcome.judged =>
        outcome.block = IF RefBlock(pool) \in VolBlockSizes THEN RefBlock(pool) ELSE 0

(***************************************************************************)
(* A size the form accepts asks for "Force size" exactly when it is more  *)
(* than 80% of the space available, whichever IEC spelling was typed.    *)
(***************************************************************************)
ForceWarningMatchesSize ==
    outcome.judged /\ outcome.valid => outcome.force = RefForce(number, suffix, avail, used)

\* Two zfs sizes are equal; n is below 1024, so n and e determine it.
SameSize(a, b) == a.n = b.n /\ (a.n = 0 \/ a.e = b.e)

\* What a value of p means to zfs: dedup=on is sha256, verify is
\* sha256,verify; a recordsize is its number of bytes.
DedupMeaning(x) == CASE x = "on" -> "sha256" [] x = "verify" -> "sha256,verify" [] OTHER -> x
Meaning(p, z) ==
    IF p = "recordsize" THEN z.n * 1024 ^ z.e
    ELSE IF p = "dedup" THEN DedupMeaning(z.s) ELSE z.s
PostedMeaning(p, x) ==
    IF p = "recordsize" THEN x.n * (IF x.sfx = NoSuffix THEN 1 ELSE 1024 ^ (Exp(x.sfx.letter) - 1))
    ELSE IF p = "dedup" THEN DedupMeaning(x.s) ELSE x.s

Saved == result \in {"saved", "failed"}

\* The text _clean_zfssize_fields hands to zfs for a dataset size keeps a
\* space: typed with one after the number, and not ending in "iB".
SpaceKept(t) == t.sp /\ ~t.sfx.ib

(***************************************************************************)
(* What save() makes of a size the form accepted: a zvol's new size, and  *)
(* a dataset size typed without a space or ending in "iB", is the size    *)
(* the property has afterwards; a dataset size like "10 G", whose space   *)
(* the cleaning keeps, is refused by zfs, save() reports the failure and  *)
(* the property keeps its old value.  No spelling is ever written as      *)
(* another size, and none is lost without an error.                       *)
(***************************************************************************)
SizeSavedOrRefused ==
    Saved /\ efield \in SizeProps \cup {"volsize"} =>
        IF efield \in SizeProps /\ SpaceKept(evalue)
        THEN result = "failed" /\ zafter[efield] = zdata[efield]
        ELSE SameSize(zafter[efield].v, TypedSize(evalue))

(***************************************************************************)
(* A choice made in an edit form is what the property reads after the    *)
(* save: 'inherit' leaves it inherited, any other choice sets it locally  *)
(* to what was chosen (a recordsize in the unit the choice names).        *)
(***************************************************************************)
ChoicesApplied ==
    Saved /\ efield \in InheritProps \cup OnOffProps \cup {"dedup", "recordsize"} =>
        IF evalue = Text("inherit") THEN ~zafter[efield].local
        ELSE /\ zafter[efield].local
             /\ Meaning(efield, zafter[efield].v) = PostedMeaning(efield, evalue)

\* A property reads the same before and after: sizes by value, the others
\* by what the value means and whether it is set locally.
Kept(p) ==
    IF p \in SizeProps \cup {"volsize"} THEN SameSize(zafter[p].v, zdata[p].v)
    ELSE /\ zafter[p].local = zdata[p].local
         /\ Meaning(p, zafter[p].v) = Meaning(p, zdata[p].v)

(***************************************************************************)
(* Saving an edit form as it was shown succeeds and leaves every property *)
(* of the dataset or zvol as it was: what get_initial_data and            *)
(* ZVol_EditForm.__init__ show is what save() writes back.                *)
(***************************************************************************)
UnchangedSaveKeeps ==
    efield = "none" /\ Saved => result = "saved" /\ \A p \in DOMAIN zdata : Kept(p)

=============================================================================
