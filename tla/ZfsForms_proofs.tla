--------------------------- MODULE ZfsForms_proofs ---------------------------
(***************************************************************************)
(* Proofs about the edit forms of ZfsForms, for every value of the        *)
(* constants that EditAssumption admits.                                  *)
(***************************************************************************)
EXTENDS ZfsForms, TLAPS

\* The letter K is the second unit: 1024^1 bytes.
LEMMA ExpK == Exp("K") = 2
<1>1. \A i \in 1..6 : Units[i] = "K" <=> i = 2
  BY DEF Units
<1>2. QED
  BY <1>1 DEF Exp

\* Powers of 1024 the recordsize display uses.
LEMMA KiloPowers == 1024 ^ 0 = 1 /\ 1024 ^ 1 = 1024 /\ 1024 ^ 2 = 1048576
BY SMT

\* A recordsize shown in its largest dividing unit still means its bytes.
\* A power of 1024 whose exponent is 1.
LEMMA PowOne ==
    ASSUME NEW e, e = 1
    PROVE  1024 ^ e = 1024
BY SMT

LEMMA RecordMeaning ==
    ASSUME NEW b \in Nat
    PROVE  Meaning("recordsize", RecordDisplay(b)) = b
BY KiloPowers DEF Meaning, RecordDisplay, ZNum

\* Two values that differ in one field differ.
LEMMA FieldDiffers ==
    ASSUME NEW x, NEW y, NEW f, x[f] # y[f]
    PROVE  x # y
<1> SUFFICES ASSUME x = y PROVE FALSE
  OBVIOUS
<1>1. QED
  OBVIOUS

-----------------------------------------------------------------------------
EditKinds == {"dataset_edit", "zvol_edit"}
ChoiceProps == InheritProps \cup OnOffProps \cup {"dedup", "recordsize"}

\* What Init fixed for the whole behaviour: the properties read, and the
\* one field changed with a value the form offers for it.
Frame ==
    /\ kind \in Kinds
    /\ result \in {"pending", "invalid", "saved", "failed"}
    /\ kind = "zvol_create" => efield = "none"
    /\ kind \in EditKinds =>
          /\ DOMAIN zdata = EditProps(kind)
          /\ \/ efield = "none"
             \/ efield \in EditFields(kind) /\ evalue \in EditValues(efield)

\* The property save() wrote for p, by the form that was posted.
SaveOf(p, emptyOk) == IF kind = "dataset_edit" THEN SaveDatasetProp(p) ELSE SaveZvolProp(p, emptyOk)

\* The bytes a recordsize choice stands for.
ChoiceBytes(x) == x.n * (IF x.sfx = NoSuffix THEN 1 ELSE 1024)

\* The changed choice is what the written entry z reads.
AppliedAs(z) ==
    IF evalue = Text("inherit") THEN ~z.local
    ELSE z.local /\ Meaning(efield, z.v) = PostedMeaning(efield, evalue)

LEMMA InitFrame == Init => Frame
<1> SUFFICES ASSUME Init PROVE Frame
  OBVIOUS
<1>1. kind \in Kinds /\ result = "pending"
  BY DEF Init
<1>2. kind = "zvol_create" => efield = "none"
  BY DEF Init
<1>3. kind \in EditKinds =>
        /\ DOMAIN zdata = EditProps(kind)
        /\ \/ efield = "none"
           \/ efield \in EditFields(kind) /\ evalue \in EditValues(efield)
  BY DEF Init, EditKinds
<1>4. QED
  BY <1>1, <1>2, <1>3 DEF Frame

LEMMA NextFrame == Frame /\ [Next]_vars => Frame'
BY DEF Frame, Next, Submit, SaveEdit, vars, EditKinds, EditProps, EditFields

\* The changed field is read, and posted as entered.
LEMMA EditedField ==
    ASSUME Frame, kind \in EditKinds, efield # "none", efield # "zvol_force"
    PROVE  /\ efield \in DOMAIN zdata
           /\ evalue \in EditValues(efield)
           /\ Posted(efield) = evalue
BY DEF Frame, EditKinds, EditProps, EditFields, Posted

(***************************************************************************)
(* A choice the form validated is written so that it reads as chosen:    *)
(* the choices of sync, compression, dedup and the on/off properties go  *)
(* to zfs_set_option or zfs_inherit_option as posted; a recordsize goes  *)
(* through clean_dataset_recordsize, and zfs takes every recordsize the  *)
(* form offers.                                                           *)
(***************************************************************************)
LEMMA ChoiceSaved ==
    ASSUME Frame, kind \in EditKinds, efield \in ChoiceProps, Valid, NEW ok \in BOOLEAN
    PROVE  AppliedAs(SaveOf(efield, ok).e)
<1>1. /\ efield \in DOMAIN zdata
      /\ evalue \in EditValues(efield)
      /\ Posted(efield) = evalue
  BY EditedField DEF ChoiceProps, InheritProps, OnOffProps
<1>2. ChoiceValid(efield, evalue)
  BY <1>1 DEF Valid
<1>3. CASE efield # "recordsize"
  <2>1. PICK v : evalue = Text(v)
    BY <1>1, <1>3 DEF EditValues, ChoiceProps, InheritProps, OnOffProps, Desc
  <2>2. SaveOf(efield, ok).e = IF v = "inherit" THEN Inherited(efield) ELSE Local(ZStr(v))
    <3>1. Posted(efield).s = v
      BY <1>1, <2>1 DEF Text
    <3>2. efield \notin SizeProps /\ efield # Desc /\ efield # "volsize"
      BY <1>3 DEF ChoiceProps, InheritProps, OnOffProps, SizeProps, Desc
    <3>3. CASE kind = "dataset_edit"
      BY <1>3, <3>1, <3>2, <3>3 DEF SaveOf, SaveDatasetProp, Set, Inherit
    <3>4. CASE kind # "dataset_edit"
      BY <3>1, <3>2, <3>4 DEF SaveOf, SaveZvolProp, Set, Inherit
    <3>5. QED
      BY <3>3, <3>4
  <2>3. (evalue = Text("inherit") <=> v = "inherit") /\ evalue.s = v
    BY <2>1 DEF Text
  <2>4. QED
    BY <2>1, <2>2, <2>3, <1>3
       DEF AppliedAs, Inherited, Local, ZStr, Meaning, PostedMeaning
<1>4. CASE efield = "recordsize"
  <2>1. kind = "dataset_edit"
    BY <1>1, <1>4 DEF Frame, EditKinds, EditProps, ZvolProps, Desc
  <2>2. CASE evalue = Text("inherit")
    BY <1>1, <1>4, <2>1, <2>2
       DEF AppliedAs, SaveOf, SaveDatasetProp, RecordsizeClean, Inherit, Inherited,
           SizeProps, Desc
  <2>3. CASE evalue # Text("inherit")
    <3>1. evalue \in RecordChoices
      BY <1>1, <1>4, <2>3 DEF EditValues, InheritProps, OnOffProps, Desc
    <3>2. evalue.n \in Nat \ {0} /\ evalue.sfx \in {NoSuffix, Upper("K")}
      BY <3>1, EditAssumption
    <3>3. ZfsAcceptsRecord(ChoiceBytes(evalue))
      BY <3>1, EditAssumption DEF ChoiceBytes
    <3>4. evalue.sfx = Upper("K") => evalue.sfx.letter = "K" /\ evalue.sfx # NoSuffix
      <4>1. evalue.sfx = Upper("K") => evalue.sfx.letter = "K"
        BY DEF Upper
      <4>2. evalue.sfx.letter = "K" => evalue.sfx.letter # NoSuffix.letter
        BY DEF NoSuffix
      <4>3. QED
        BY <4>1, <4>2, FieldDiffers
    <3>5. ChoiceBytes(evalue) = IF evalue.sfx = NoSuffix THEN evalue.n ELSE evalue.n * 1024
      BY <3>2 DEF ChoiceBytes
    <3>6. ChoiceBytes(evalue) \in Nat
      BY <3>2, <3>5
    <3>7. RecordsizeClean(evalue) = [ok |-> TRUE, inherit |-> FALSE, bytes |-> ChoiceBytes(evalue)]
      <4>1. evalue # Text("") /\ evalue # Text("inherit")
        <5>1. evalue.n # Text("").n /\ evalue.n # Text("inherit").n
          BY <3>2 DEF Text
        <5>2. QED
          BY <5>1, FieldDiffers
      <4>2. CASE evalue.sfx = NoSuffix
        <5>1. RecordsizeClean(evalue) = [ok |-> TRUE, inherit |-> FALSE, bytes |-> evalue.n]
          BY <4>1, <4>2 DEF RecordsizeClean
        <5>2. QED
          BY <3>5, <4>2, <5>1, ZenonT(30)
      <4>3. CASE evalue.sfx = Upper("K")
        <5>1. RecordsizeClean(evalue) = [ok |-> TRUE, inherit |-> FALSE, bytes |-> evalue.n * 1024]
          BY <3>4, <4>1, <4>3 DEF RecordsizeClean
        <5>2. ChoiceBytes(evalue) = evalue.n * 1024
          BY <3>4, <3>5, <4>3
        <5>3. QED
          BY <5>1, <5>2, ZenonT(30)
      <4>4. QED
        BY <3>2, <4>2, <4>3
    <3>8. PostedMeaning(efield, evalue) = ChoiceBytes(evalue)
      <4>1. PostedMeaning(efield, evalue) =
              evalue.n * (IF evalue.sfx = NoSuffix THEN 1 ELSE 1024 ^ (Exp(evalue.sfx.letter) - 1))
        BY <1>4 DEF PostedMeaning
      <4>2. CASE evalue.sfx = NoSuffix
        BY <3>2, <3>5, <4>1, <4>2
      <4>3. CASE evalue.sfx = Upper("K")
        <5> DEFINE e == Exp(evalue.sfx.letter) - 1
        <5>1. e = 1
          BY <3>4, <4>3, ExpK
        <5> HIDE DEF e
        <5>2. 1024 ^ e = 1024
          BY <5>1, PowOne
        <5>3. QED
          BY <3>4, <3>5, <4>1, <4>3, <5>2 DEF e
      <4>4. QED
        BY <3>2, <4>2, <4>3
    <3>9. SaveOf(efield, ok).e = Local(RecordDisplay(ChoiceBytes(evalue)))
      BY <1>1, <1>4, <2>1, <3>3, <3>7
         DEF SaveOf, SaveDatasetProp, Set, SizeProps, Desc
    <3>10. QED
      BY <1>4, <2>3, <3>6, <3>8, <3>9, RecordMeaning DEF AppliedAs, Local
  <2>4. QED
    BY <2>2, <2>3
<1>5. QED
  BY <1>3, <1>4

-----------------------------------------------------------------------------
(***************************************************************************)
(* Sizes.  _clean_zfssize_fields drops the "iB" of a suffix, and with it *)
(* the spaces; any other text goes to zfs as typed, spaces and all.       *)
(* clean_zvol_volsize removes the spaces of a zvol size first.            *)
(***************************************************************************)

\* A suffix, or no suffix, as a record.
SfxRecords == [letter : Letters \cup {""}, upper : BOOLEAN, ib : BOOLEAN]

\* The suffix with its "iB" dropped.
Cleaned(sfx) == [letter |-> sfx.letter, upper |-> sfx.upper, ib |-> FALSE]

\* Suffixes with the same fields are the same suffix.
LEMMA SameSuffix ==
    ASSUME NEW a \in SfxRecords, NEW b \in SfxRecords,
           a.letter = b.letter, a.upper = b.upper, a.ib = b.ib
    PROVE  a = b
<1>1. a = [letter |-> a.letter, upper |-> a.upper, ib |-> a.ib]
  BY DEF SfxRecords
<1>2. b = [letter |-> b.letter, upper |-> b.upper, ib |-> b.ib]
  BY DEF SfxRecords
<1>3. QED
  BY <1>1, <1>2


LEMMA SuffixRecord ==
    ASSUME NEW sfx \in Suffixes
    PROVE  sfx \in SfxRecords
<1>1. CASE sfx = NoSuffix
  BY <1>1 DEF NoSuffix, SfxRecords
<1>2. CASE sfx \in [letter : Letters, upper : BOOLEAN, ib : BOOLEAN]
  BY <1>2 DEF SfxRecords
<1>3. QED
  BY <1>1, <1>2 DEF Suffixes

\* The EXCEPT of the code's rewrite, on a suffix.
LEMMA DropIB ==
    ASSUME NEW sfx \in SfxRecords
    PROVE  [sfx EXCEPT !.ib = FALSE] = Cleaned(sfx)
<1>1. DOMAIN sfx = {"letter", "upper", "ib"}
  BY DEF SfxRecords
<1>2. /\ [sfx EXCEPT !.ib = FALSE].letter = sfx.letter
      /\ [sfx EXCEPT !.ib = FALSE].upper = sfx.upper
      /\ [sfx EXCEPT !.ib = FALSE].ib = FALSE
  BY <1>1
<1>3. [sfx EXCEPT !.ib = FALSE] \in SfxRecords
  BY <1>1, <1>2 DEF SfxRecords
<1>4. /\ Cleaned(sfx) \in SfxRecords
      /\ Cleaned(sfx).letter = sfx.letter
      /\ Cleaned(sfx).upper = sfx.upper
      /\ Cleaned(sfx).ib = FALSE
  BY DEF Cleaned, SfxRecords
<1>5. QED
  BY <1>2, <1>3, <1>4, SameSuffix


\* Dropping "iB" keeps the letter, is idempotent, and keeps no suffix
\* apart from a unit.
LEMMA CleanedSuffix ==
    ASSUME NEW sfx \in SfxRecords, sfx = NoSuffix \/ IsUnit(sfx.letter)
    PROVE  /\ Cleaned(sfx) \in SfxRecords
           /\ Cleaned(sfx).letter = sfx.letter
           /\ ~Cleaned(sfx).ib
           /\ Cleaned(Cleaned(sfx)) = Cleaned(sfx)
           /\ Cleaned(sfx) = NoSuffix <=> sfx = NoSuffix
<1>1. /\ Cleaned(sfx) \in SfxRecords
      /\ Cleaned(sfx).letter = sfx.letter
      /\ ~Cleaned(sfx).ib
      /\ Cleaned(Cleaned(sfx)) = Cleaned(sfx)
  BY DEF Cleaned, SfxRecords
<1>2. sfx = NoSuffix => Cleaned(sfx) = NoSuffix
  <2>1. NoSuffix \in SfxRecords
    BY DEF NoSuffix, SfxRecords
  <2>2. QED
    BY <1>1, <2>1, SameSuffix DEF Cleaned, NoSuffix
<1>3. sfx # NoSuffix => Cleaned(sfx) # NoSuffix
  <2>1. IsUnit(sfx.letter) => sfx.letter # ""
    <3>1. \A i \in 1..6 : Units[i] \in {"B", "K", "M", "G", "T", "P"}
      BY DEF Units
    <3>2. "" \notin {"B", "K", "M", "G", "T", "P"}
      OBVIOUS
    <3>3. QED
      BY <3>1, <3>2 DEF IsUnit
  <2>2. sfx # NoSuffix => Cleaned(sfx).letter # NoSuffix.letter
    BY <1>1, <2>1 DEF NoSuffix
  <2>3. QED
    BY <2>2, FieldDiffers
<1>4. QED
  BY <1>1, <1>2, <1>3


\* A typed size, field by field.
LEMMA SpacedFields ==
    ASSUME NEW n, NEW sfx, NEW b
    PROVE  LET u == Spaced(n, sfx, b) IN
           DOMAIN u = {"s", "n", "sfx", "sp"} /\ u.n = n /\ u.sfx = sfx /\ u.sp = b
BY DEF Spaced, Typed

\* _clean_zfssize_fields: a suffix in "iB" is dropped with the spaces, any
\* other text is kept as typed.
LEMMA CleanedFields ==
    ASSUME NEW n, NEW sfx \in SfxRecords, NEW b \in BOOLEAN
    PROVE  LET t == CleanedSize(Spaced(n, sfx, b)) IN
           /\ t.n = n
           /\ t.sfx = IF sfx.ib THEN Cleaned(sfx) ELSE sfx
           /\ t.sp = (b /\ ~sfx.ib)
<1> DEFINE u == Spaced(n, sfx, b)
<1>1. DOMAIN u = {"s", "n", "sfx", "sp"} /\ u.n = n /\ u.sfx = sfx /\ u.sp = b
  BY SpacedFields
<1>2. CASE sfx.ib
  <2>1. CleanedSize(u) = [u EXCEPT !.sfx.ib = FALSE, !.sp = FALSE]
    BY <1>1, <1>2 DEF CleanedSize
  <2>2. /\ CleanedSize(u).n = n
        /\ CleanedSize(u).sfx = [sfx EXCEPT !.ib = FALSE]
        /\ CleanedSize(u).sp = FALSE
    BY <1>1, <2>1
  <2>3. QED
    BY <1>2, <2>2, DropIB
<1>3. CASE ~sfx.ib
  <2>1. CleanedSize(u) = u
    BY <1>1, <1>3 DEF CleanedSize
  <2>2. QED
    BY <1>1, <1>3, <2>1
<1>4. QED
  BY <1>2, <1>3

\* clean_zvol_volsize and then _clean_zfssize_fields: the spaces and the
\* "iB" are dropped whatever was typed.
LEMMA VolsizeFields ==
    ASSUME NEW n, NEW sfx \in SfxRecords, NEW b \in BOOLEAN
    PROVE  LET t == CleanedSize(ZvolVolsize(Spaced(n, sfx, b))) IN
           t.n = n /\ t.sfx = Cleaned(sfx) /\ t.sp = FALSE
<1> DEFINE u == Spaced(n, sfx, b)
<1>1. DOMAIN u = {"s", "n", "sfx", "sp"} /\ u.n = n /\ u.sfx = sfx /\ u.sp = b
  BY SpacedFields
<1>2. /\ ZvolVolsize(u).n = n
      /\ ZvolVolsize(u).sfx = [sfx EXCEPT !.ib = FALSE]
      /\ ZvolVolsize(u).sp = FALSE
  BY <1>1 DEF ZvolVolsize
<1>3. ZvolVolsize(u).sfx = Cleaned(sfx)
  BY <1>2, DropIB
<1>4. CleanedSize(ZvolVolsize(u)) = ZvolVolsize(u)
  <2>1. ~ZvolVolsize(u).sfx.ib
    BY <1>3 DEF Cleaned
  <2>2. QED
    BY <2>1 DEF CleanedSize
<1>5. QED
  BY <1>2, <1>3, <1>4

\* A cleaned text t of the size typed stands for that size, and zfs takes
\* it unless it kept a space.
LEMMA ZfsReads ==
    ASSUME NEW n, NEW sfx \in SfxRecords, NEW b, sfx = NoSuffix \/ IsUnit(sfx.letter),
           NEW t, t.n = n, t.sfx \in {sfx, Cleaned(sfx)}, ~t.sfx.ib
    PROVE  /\ TypedSize(t) = TypedSize(Spaced(n, sfx, b))
           /\ ZfsAcceptsSize(t) <=> ~t.sp
<1>1. /\ Cleaned(sfx).letter = sfx.letter
      /\ Cleaned(sfx) = NoSuffix <=> sfx = NoSuffix
  BY CleanedSuffix
<1>2. t.sfx.letter = sfx.letter /\ (t.sfx = NoSuffix <=> sfx = NoSuffix)
  BY <1>1
<1>3. Spaced(n, sfx, b).n = n /\ Spaced(n, sfx, b).sfx = sfx
  BY SpacedFields
<1>4. TypedSize(t) = TypedSize(Spaced(n, sfx, b))
  BY <1>2, <1>3 DEF TypedSize
<1>5. ZfsAcceptsSize(t) <=> ~t.sp
  BY <1>2 DEF ZfsAcceptsSize
<1>6. QED
  BY <1>4, <1>5

(***************************************************************************)
(* What save() writes for a size the form validated: a dataset's quota or *)
(* reservation through _clean_zfssize_fields, "0" as 'none', a zvol's     *)
(* volsize through clean_zvol_volsize.  zfs takes each, except a dataset  *)
(* size whose space the cleaning kept: that one it refuses, and the       *)
(* property is left as it was.                                            *)
(***************************************************************************)
LEMMA SizeSaved ==
    ASSUME Frame, kind \in EditKinds, efield \in SizeProps \cup {"volsize"}, Valid,
           NEW ok \in BOOLEAN
    PROVE  IF efield \in SizeProps /\ SpaceKept(evalue)
           THEN SaveOf(efield, ok) = [e |-> zdata[efield], ok |-> FALSE]
           ELSE SameSize(SaveOf(efield, ok).e.v, TypedSize(evalue))
<1>1. /\ efield \in DOMAIN zdata
      /\ evalue \in EditValues(efield)
      /\ Posted(efield) = evalue
  BY EditedField DEF SizeProps
<1>2. PICK n \in Numbers, sfx \in Suffixes, b \in BOOLEAN : evalue = Spaced(n, sfx, b)
  BY <1>1 DEF EditValues, SizeProps, Desc, InheritProps, OnOffProps
<1>3. sfx \in SfxRecords
  BY SuffixRecord
<1>4. evalue.n = n /\ evalue.sfx = sfx /\ evalue.sp = b
  BY <1>2, SpacedFields
<1>5. CASE kind = "dataset_edit"
  <2>1. efield \in SizeProps
    BY <1>1, <1>5, EditAssumption DEF Frame, EditProps, DatasetProps, SizeProps,
       InheritProps, OnOffProps, Desc
  <2>2. sfx = NoSuffix \/ IsUnit(sfx.letter)
    BY <1>1, <1>4, <2>1 DEF Valid, SizeFieldValid
  <2>3. SaveOf(efield, ok) = SaveDatasetProp(efield)
    BY <1>5 DEF SaveOf
  <2>4. efield # Desc /\ efield # "recordsize"
    BY <2>1 DEF SizeProps, Desc
  <2>5. CASE evalue = Zero
    <3>1. SaveDatasetProp(efield).e = Local(ZNum(0, 0))
      BY <1>1, <2>1, <2>4, <2>5 DEF SaveDatasetProp, Set
    <3>2. TypedSize(evalue) = ZNum(0, 0) /\ ~SpaceKept(evalue)
      BY <2>5 DEF TypedSize, Zero, Typed, SpaceKept
    <3>3. SaveOf(efield, ok).e.v = ZNum(0, 0)
      BY <2>3, <3>1 DEF Local
    <3>4. QED
      BY <3>2, <3>3 DEF SameSize, ZNum
  <2>6. CASE evalue # Zero
    <3> DEFINE t == CleanedSize(evalue)
    <3>1. /\ t.n = n
          /\ t.sfx = IF sfx.ib THEN Cleaned(sfx) ELSE sfx
          /\ t.sp = (b /\ ~sfx.ib)
      BY <1>2, <1>3, CleanedFields
    <3>2. ~Cleaned(sfx).ib
      BY <1>3, <2>2, CleanedSuffix
    <3>3. t.sfx \in {sfx, Cleaned(sfx)} /\ ~t.sfx.ib
      BY <1>3, <3>1, <3>2 DEF SfxRecords
    <3>4. TypedSize(t) = TypedSize(evalue) /\ (ZfsAcceptsSize(t) <=> ~t.sp)
      BY <1>2, <1>3, <2>2, <3>1, <3>3, ZfsReads
    <3>5. SaveDatasetProp(efield) = Set(efield, TypedSize(t), ZfsAcceptsSize(t))
      BY <1>1, <2>1, <2>4, <2>6 DEF SaveDatasetProp
    <3>6. SpaceKept(evalue) <=> t.sp
      BY <1>4, <3>1 DEF SpaceKept
    <3> HIDE DEF t
    <3>7. CASE t.sp
      <4>0. ZfsAcceptsSize(t) = FALSE
        BY <3>4, <3>7 DEF ZfsAcceptsSize
      <4>1. SaveDatasetProp(efield) = [e |-> zdata[efield], ok |-> FALSE]
        BY <3>5, <4>0 DEF Set
      <4>2. QED
        BY <2>1, <2>3, <3>6, <3>7, <4>1
    <3>8. CASE ~t.sp
      <4>0. ZfsAcceptsSize(t)
        BY <3>4, <3>8
      <4>1. SaveDatasetProp(efield).e = Local(TypedSize(evalue))
        BY <3>4, <3>5, <4>0 DEF Set
      <4>2. QED
        BY <2>3, <3>6, <3>8, <4>1 DEF SameSize, Local
    <3>9. QED
      BY <3>7, <3>8
  <2>7. QED
    BY <2>5, <2>6
<1>6. CASE kind = "zvol_edit"
  <2>1. efield = "volsize"
    BY <1>1, <1>6 DEF Frame, EditProps, ZvolProps, SizeProps, Desc
  <2>2. sfx # NoSuffix /\ IsUnit(sfx.letter)
    BY <1>1, <1>4, <2>1 DEF Valid, SizeMatches
  <2>3. SaveOf(efield, ok) = SaveZvolProp(efield, ok)
    BY <1>6 DEF SaveOf
  <2> DEFINE t == CleanedSize(ZvolVolsize(evalue))
  <2>4. t.n = n /\ t.sfx = Cleaned(sfx) /\ t.sp = FALSE
    BY <1>2, <1>3, VolsizeFields
  <2>5. ~Cleaned(sfx).ib
    BY <1>3, <2>2, CleanedSuffix
  <2>6. TypedSize(t) = TypedSize(evalue) /\ ZfsAcceptsSize(t)
    BY <1>2, <1>3, <2>2, <2>4, <2>5, ZfsReads
  <2>7. SaveZvolProp(efield, ok).e = Local(TypedSize(evalue))
    <3>1. SaveZvolProp(efield, ok) = Set(efield, TypedSize(t), ZfsAcceptsSize(t))
      BY <1>1, <2>1 DEF SaveZvolProp, Desc
    <3> HIDE DEF t
    <3>2. QED
      BY <2>6, <3>1 DEF Set
  <2>8. efield \notin SizeProps
    BY <2>1 DEF SizeProps
  <2>9. QED
    BY <2>3, <2>7, <2>8 DEF SameSize, Local
<1>7. QED
  BY <1>5, <1>6 DEF EditKinds


-----------------------------------------------------------------------------
(***************************************************************************)
(* The invariant.  Once an edit form is saved, it was valid, every        *)
(* property holds what save() wrote for it, and the result says whether   *)
(* zfs took all of them; SaveEdit is the one step that leaves "pending",  *)
(* and it changes nothing the form was judged on.                         *)
(***************************************************************************)
IInv ==
    /\ Frame
    /\ Saved =>
          /\ kind \in EditKinds
          /\ Valid
          /\ \E ok \in BOOLEAN :
                /\ \A p \in DOMAIN zdata : zafter[p] = SaveOf(p, ok).e
                /\ result = "saved" <=> \A p \in DOMAIN zdata : SaveOf(p, ok).ok

LEMMA InitIInv == Init => IInv
<1> SUFFICES ASSUME Init PROVE IInv
  OBVIOUS
<1>1. Frame
  BY InitFrame
<1>2. ~Saved
  BY DEF Init, Saved
<1>3. QED
  BY <1>1, <1>2 DEF IInv


LEMMA NextIInv == IInv /\ [Next]_vars => IInv'
<1> SUFFICES ASSUME IInv, [Next]_vars PROVE IInv'
  OBVIOUS
<1>1. Frame'
  BY NextFrame DEF IInv
<1>2. CASE Submit
  <2>1. UNCHANGED <<kind, avail, used, zdata, efield, evalue, zafter, result>>
    BY <1>2 DEF Submit
  <2>2. Saved' = Saved /\ (Valid' = Valid)
    BY <2>1 DEF Saved, Valid, Posted, Initial, ForceTicked
  <2>3. \A p, ok : SaveOf(p, ok)' = SaveOf(p, ok)
    BY <2>1 DEF SaveOf, SaveDatasetProp, SaveZvolProp, Posted, Initial, Set, Keep,
       Inherit
  <2>4. QED
    BY <1>1, <2>1, <2>2, <2>3 DEF IInv
<1>3. CASE SaveEdit /\ ~Valid
  <2>1. result' = "invalid"
    BY <1>3 DEF SaveEdit
  <2>2. QED
    BY <1>1, <2>1 DEF IInv, Saved
<1>4. CASE SaveEdit /\ Valid
  <2>1. UNCHANGED <<kind, avail, used, zdata, efield, evalue>>
    BY <1>4 DEF SaveEdit
  <2>2. kind \in EditKinds
    BY <1>4 DEF SaveEdit, EditKinds
  <2>3. Valid' = Valid
    BY <2>1 DEF Valid, Posted, Initial, ForceTicked
  <2>4. PICK ok \in BOOLEAN :
          /\ zafter' = [p \in DOMAIN zdata |-> SaveOf(p, ok).e]
          /\ result' = IF \A p \in DOMAIN zdata : SaveOf(p, ok).ok THEN "saved" ELSE "failed"
    BY <1>4 DEF SaveEdit, SaveOf
  <2>5. \A p : SaveOf(p, ok)' = SaveOf(p, ok)
    BY <2>1 DEF SaveOf, SaveDatasetProp, SaveZvolProp, Posted, Initial, Set, Keep,
       Inherit
  <2>6. /\ \A p \in DOMAIN zdata' : zafter'[p] = SaveOf(p, ok)'.e
        /\ result' = "saved" <=> \A p \in DOMAIN zdata' : SaveOf(p, ok)'.ok
    BY <2>1, <2>4, <2>5
  <2>7. QED
    BY <1>1, <1>4, <2>1, <2>2, <2>3, <2>6 DEF IInv, Saved
<1>5. CASE UNCHANGED vars
  <2>1. UNCHANGED <<kind, avail, used, zdata, efield, evalue, zafter, result>>
    BY <1>5 DEF vars
  <2>2. Saved' = Saved /\ (Valid' = Valid)
    BY <2>1 DEF Saved, Valid, Posted, Initial, ForceTicked
  <2>3. \A p, ok : SaveOf(p, ok)' = SaveOf(p, ok)
    BY <2>1 DEF SaveOf, SaveDatasetProp, SaveZvolProp, Posted, Initial, Set, Keep,
       Inherit
  <2>4. QED
    BY <1>1, <2>1, <2>2, <2>3 DEF IInv
<1>6. QED
  BY <1>2, <1>3, <1>4, <1>5 DEF Next


\* What save() wrote for the changed field is in zafter.
LEMMA SavedField ==
    ASSUME IInv, Saved, efield # "none", efield # "zvol_force"
    PROVE  /\ kind \in EditKinds
           /\ Valid
           /\ \E ok \in BOOLEAN :
                 /\ zafter[efield] = SaveOf(efield, ok).e
                 /\ result = "saved" => SaveOf(efield, ok).ok
<1>1. kind \in EditKinds /\ Valid
  BY DEF IInv
<1>2. efield \in DOMAIN zdata
  BY <1>1, EditedField DEF IInv
<1>3. QED
  BY <1>1, <1>2 DEF IInv

LEMMA IInvChoicesApplied == IInv => ChoicesApplied
<1> SUFFICES ASSUME IInv, Saved, efield \in ChoiceProps
             PROVE  AppliedAs(zafter[efield])
  BY DEF ChoicesApplied, AppliedAs, ChoiceProps
<1>1. efield # "none" /\ efield # "zvol_force"
  BY DEF ChoiceProps, InheritProps, OnOffProps
<1>2. PICK ok \in BOOLEAN : zafter[efield] = SaveOf(efield, ok).e
  BY <1>1, SavedField
<1>3. AppliedAs(SaveOf(efield, ok).e)
  BY <1>1, SavedField, ChoiceSaved DEF IInv
<1>4. QED
  BY <1>2, <1>3

LEMMA IInvSizeSavedOrRefused == IInv => SizeSavedOrRefused
<1> SUFFICES ASSUME IInv, Saved, efield \in SizeProps \cup {"volsize"}
             PROVE  IF efield \in SizeProps /\ SpaceKept(evalue)
                    THEN result = "failed" /\ zafter[efield] = zdata[efield]
                    ELSE SameSize(zafter[efield].v, TypedSize(evalue))
  BY DEF SizeSavedOrRefused
<1>1. efield # "none" /\ efield # "zvol_force"
  BY DEF SizeProps
<1>2. PICK ok \in BOOLEAN :
        /\ zafter[efield] = SaveOf(efield, ok).e
        /\ result = "saved" => SaveOf(efield, ok).ok
  BY <1>1, SavedField
<1>3. IF efield \in SizeProps /\ SpaceKept(evalue)
      THEN SaveOf(efield, ok) = [e |-> zdata[efield], ok |-> FALSE]
      ELSE SameSize(SaveOf(efield, ok).e.v, TypedSize(evalue))
  BY <1>1, SavedField, SizeSaved DEF IInv
<1>4. QED
  BY <1>2, <1>3 DEF Saved

(***************************************************************************)
(* Every choice an admin makes in ZFSDatasetEditForm or ZVol_EditForm and  *)
(* save() accepts is what the property reads afterwards, for every set of *)
(* choices EditAssumption admits.                                         *)
(***************************************************************************)
THEOREM ChoicesAppliedInvariant == Spec => []ChoicesApplied
<1>1. IInv => ChoicesApplied
  BY IInvChoicesApplied
<1>2. QED
  BY InitIInv, NextIInv, <1>1, PTL DEF Spec

(***************************************************************************)
(* A zvol size, and a dataset quota or reservation typed without a space  *)
(* or ending in "iB", is the size the property has after save(); a        *)
(* dataset size whose space _clean_zfssize_fields keeps is refused, the   *)
(* save fails and the property keeps its value.  For every set of         *)
(* numbers, letters and fields EditAssumption admits.                     *)
(***************************************************************************)
THEOREM SizeSavedOrRefusedInvariant == Spec => []SizeSavedOrRefused
<1>1. IInv => SizeSavedOrRefused
  BY IInvSizeSavedOrRefused
<1>2. QED
  BY InitIInv, NextIInv, <1>1, PTL DEF Spec

=============================================================================
