-------------------- MODULE VolumeEncryption_proofs --------------------
(***************************************************************************)
(* Proofs about VolumeEncryption when requests do not overlap: a volume   *)
(* has one passphrase form, extension or replacement in flight at a time, *)
(* and any notifier call may raise.  Then the handlers implement          *)
(* VolumePassphrase, and vol_encrypt 1 means key only whenever no request *)
(* is in flight.                                                          *)
(*                                                                         *)
(* The invariant needs more than the flag: a replacement passes the       *)
(* passphrase the form checked against one provider, and that is the      *)
(* passphrase of every provider that needs one only because they all     *)
(* need the same (OnePass); a replacement on a volume with vol_encrypt 1  *)
(* passes none (RequestOK); an extension attaches only disks the volume  *)
(* does not already use.                                                  *)
(***************************************************************************)
EXTENDS VolumeEncryption, TLAPS

\* One request in flight at a time.
OneRequest(c0) == Clients = {c0}

Steps == {"idle", "geli", "save", "attach", "reset", "resetsave", "replace"}

TypeOK ==
    /\ volEncrypt \in {1, 2}
    /\ members \subseteq Disks
    /\ provPass \in [Disks -> Pass]
    /\ pc \in [Clients -> Steps]
    /\ arg \in [Clients -> Pass]
    /\ seen \in [Clients -> {1, 2}]
    /\ disk \in [Clients -> Disks]
    /\ old \in [Clients -> Disks]
    /\ adds \in [Clients -> SUBSET Disks]

\* The flag the volume shows says key only: no provider needs a passphrase.
KeyOnly == AbsFlag = 1 => \A m \in members : provPass[m] = NoPass

\* The providers that need a passphrase all need the same one.
OnePass ==
    \A m1, m2 \in members :
        provPass[m1] # NoPass /\ provPass[m2] # NoPass => provPass[m1] = provPass[m2]

\* What a suspended request relies on when it resumes.
RequestOK(c) ==
    /\ pc[c] = "attach" => adds[c] \cap members = {}
    /\ pc[c] = "replace" =>
          /\ disk[c] \notin members /\ old[c] \in members
          /\ volEncrypt = 2 => arg[c] # NoPass /\ TestKey(arg[c])
          /\ volEncrypt # 2 => arg[c] = NoPass

Inv ==
    /\ TypeOK
    /\ KeyOnly
    /\ OnePass
    /\ \A c \in Clients : RequestOK(c)

absvars == <<AbsFlag, members, provPass>>

-----------------------------------------------------------------------------
\* With one request, only its own step fixes the flag the volume shows.
LEMMA MappingOne ==
    ASSUME NEW c0, OneRequest(c0)
    PROVE  AbsFlag = IF pc[c0] = "save" /\ arg[c0] # NoPass THEN 2
                     ELSE IF pc[c0] \in {"save", "resetsave"} THEN 1
                     ELSE volEncrypt
BY DEF OneRequest, AbsFlag

\* A step that leaves the flag, the providers and their passphrases alone,
\* and keeps the flag the volume shows, keeps KeyOnly and OnePass.
LEMMA Frame ==
    ASSUME Inv, AbsFlag' = AbsFlag, UNCHANGED <<members, provPass>>
    PROVE  KeyOnly' /\ OnePass' /\ UNCHANGED absvars
BY DEF Inv, KeyOnly, OnePass, absvars

LEMMA InitInv == Init => Inv
<1> SUFFICES ASSUME Init PROVE Inv
  OBVIOUS
<1>1. PICK p \in IF volEncrypt = 2 THEN Passphrases ELSE {NoPass} :
         provPass = [d \in Disks |-> IF d \in InitialDisks THEN p ELSE NoPass]
  BY DEF Init
<1>2. Disks # {}
  BY EncryptionAssumption
<1>3. TypeOK
  BY <1>1, <1>2, EncryptionAssumption DEF Init, TypeOK, Pass, Steps
<1>4. AbsFlag = volEncrypt
  BY DEF Init, AbsFlag
<1>5. KeyOnly
  BY <1>1, <1>4, EncryptionAssumption DEF Init, KeyOnly
<1>6. OnePass
  BY <1>1, EncryptionAssumption DEF Init, OnePass
<1>7. \A c \in Clients : RequestOK(c)
  BY DEF Init, RequestOK
<1>8. QED
  BY <1>3, <1>5, <1>6, <1>7 DEF Inv

\* The start state is one of VolumePassphrase's.
LEMMA InitRefines == Init => Abs!Init
<1> SUFFICES ASSUME Init PROVE Abs!Init
  OBVIOUS
<1>1. AbsFlag = volEncrypt
  BY DEF Init, AbsFlag
<1>2. QED
  BY <1>1 DEF Abs!Init, Init

-----------------------------------------------------------------------------
(***************************************************************************)
(* One lemma per handler step: it keeps Inv and is a VolumePassphrase     *)
(* step or leaves the volume as it appears.                               *)
(***************************************************************************)
\* A validated submit changes nothing the volume shows; a replacement's
\* passphrase opens one provider.
LEMMA StartStep ==
    ASSUME NEW c0, OneRequest(c0), Inv, Start(c0)
    PROVE  Inv' /\ [Abs!Next]_absvars
<1> USE DEF Inv, OneRequest
<1>1. PICK o \in Ops, p \in Pass, d \in Disks, m \in members, g \in SUBSET (Disks \ members) :
         /\ o = "replace" => d \notin members
         /\ o = "extend" <=> g # {}
         /\ o = "create" => p # NoPass
         /\ o = "extend" => p = NoPass
         /\ o = "replace" => IF volEncrypt = 2 THEN TestKey(p) /\ p # NoPass ELSE p = NoPass
         /\ op' = [op EXCEPT ![c0] = o]
         /\ arg' = [arg EXCEPT ![c0] = p]
         /\ disk' = [disk EXCEPT ![c0] = d]
         /\ old' = [old EXCEPT ![c0] = m]
         /\ adds' = [adds EXCEPT ![c0] = g]
         /\ pc' = [pc EXCEPT ![c0] = CASE o \in {"create", "change"} -> "geli"
                                       [] o = "extend" -> "attach"
                                       [] o = "replace" -> "replace"]
  BY DEF Start
<1>2. /\ pc[c0] = "idle"
      /\ seen' = [seen EXCEPT ![c0] = volEncrypt]
      /\ UNCHANGED <<volEncrypt, members, provPass>>
  BY DEF Start
<1>3. pc'[c0] = CASE o \in {"create", "change"} -> "geli"
                  [] o = "extend" -> "attach"
                  [] o = "replace" -> "replace"
  BY <1>1 DEF TypeOK
<1>4. pc'[c0] \in {"geli", "attach", "replace"}
  BY <1>3, EncryptionAssumption
<1>5. AbsFlag' = AbsFlag
  <2>1. AbsFlag = volEncrypt
    BY <1>2, MappingOne
  <2>2. AbsFlag' = volEncrypt'
    BY <1>4 DEF AbsFlag
  <2>3. QED
    BY <2>1, <2>2, <1>2
<1>6. KeyOnly' /\ OnePass' /\ UNCHANGED absvars
  BY <1>2, <1>5, Frame
<1>7. TypeOK'
  BY <1>1, <1>2, <1>4 DEF TypeOK, Steps
<1>8. RequestOK(c0)'
  <2>1. CASE o = "extend"
    BY <2>1, <1>1, <1>2, <1>3 DEF RequestOK, TypeOK
  <2>2. CASE o = "replace"
    BY <2>2, <1>1, <1>2, <1>3 DEF RequestOK, TypeOK, TestKey
  <2>3. CASE o \in {"create", "change"}
    BY <2>3, <1>3 DEF RequestOK
  <2>4. QED
    BY <2>1, <2>2, <2>3, EncryptionAssumption
<1>9. QED
  BY <1>6, <1>7, <1>8

\* geli_passphrase is the handler's effect: the passphrase is set on every
\* provider or removed from every one; if it raises, nothing changed.
LEMMA GeliPassphraseStep ==
    ASSUME NEW c0, OneRequest(c0), Inv, GeliPassphrase(c0)
    PROVE  Inv' /\ [Abs!Next]_absvars
<1> USE DEF Inv, OneRequest
<1>1. /\ pc[c0] = "geli"
      /\ UNCHANGED <<volEncrypt, members, arg, seen, disk, old, adds>>
  BY DEF GeliPassphrase
<1>2. AbsFlag = volEncrypt
  BY <1>1, MappingOne
<1>3. CASE /\ provPass' = [d \in Disks |-> IF d \in members THEN arg[c0] ELSE provPass[d]]
           /\ pc' = [pc EXCEPT ![c0] = "save"]
  <2>1. pc'[c0] = "save"
    BY <1>3 DEF TypeOK
  <2>2. AbsFlag' = IF arg[c0] # NoPass THEN 2 ELSE 1
    BY <1>1, <2>1 DEF AbsFlag
  <2>3. \A m \in members : provPass'[m] = arg[c0]
    BY <1>3 DEF TypeOK
  <2>4. KeyOnly' /\ OnePass'
    BY <1>1, <2>2, <2>3 DEF KeyOnly, OnePass
  <2>5. TypeOK'
    BY <1>1, <1>3 DEF TypeOK, Steps
  <2>6. RequestOK(c0)'
    BY <2>1 DEF RequestOK
  <2>7. Abs!SetPassphrase \/ Abs!RemovePassphrase
    <3>1. CASE arg[c0] # NoPass
      BY <3>1, <1>1, <1>3, <2>2 DEF Abs!SetPassphrase, Abs!AllMembers, TypeOK, Pass
    <3>2. CASE arg[c0] = NoPass
      BY <3>2, <1>1, <1>3, <2>2 DEF Abs!RemovePassphrase, Abs!AllMembers
    <3>3. QED
      BY <3>1, <3>2
  <2>8. QED
    BY <2>4, <2>5, <2>6, <2>7 DEF Abs!Next
<1>4. CASE /\ pc' = [pc EXCEPT ![c0] = "idle"]
           /\ UNCHANGED provPass
  <2>1. AbsFlag' = volEncrypt
    BY <1>1, <1>4 DEF AbsFlag
  <2>2. KeyOnly' /\ OnePass' /\ UNCHANGED absvars
    BY <1>1, <1>2, <1>4, <2>1, Frame
  <2>3. TypeOK' /\ RequestOK(c0)'
    BY <1>1, <1>4 DEF TypeOK, Steps, RequestOK
  <2>4. QED
    BY <2>2, <2>3
<1>5. QED
  BY <1>3, <1>4 DEF GeliPassphrase

\* Saving the flag only catches up with the providers.
LEMMA SaveFlagStep ==
    ASSUME NEW c0, OneRequest(c0), Inv, SaveFlag(c0)
    PROVE  Inv' /\ [Abs!Next]_absvars
<1> USE DEF Inv, OneRequest
<1>1. /\ pc[c0] = "save" /\ pc'[c0] = "idle"
      /\ volEncrypt' = SavedFlag(c0)
      /\ UNCHANGED <<members, provPass, arg, seen, disk, old, adds>>
  BY DEF SaveFlag, TypeOK
<1>2. AbsFlag' = AbsFlag
  BY <1>1, MappingOne DEF AbsFlag, SavedFlag
<1>3. KeyOnly' /\ OnePass' /\ UNCHANGED absvars
  BY <1>1, <1>2, Frame
<1>4. TypeOK'
  BY <1>1 DEF TypeOK, Steps, SaveFlag, SavedFlag
<1>5. RequestOK(c0)'
  BY <1>1 DEF RequestOK
<1>6. QED
  BY <1>3, <1>4, <1>5

\* The extension's flag save after removing the passphrase only catches up.
LEMMA ResetSaveStep ==
    ASSUME NEW c0, OneRequest(c0), Inv, ResetSave(c0)
    PROVE  Inv' /\ [Abs!Next]_absvars
<1> USE DEF Inv, OneRequest
<1>1. /\ pc[c0] = "resetsave" /\ pc'[c0] = "idle"
      /\ volEncrypt' = 1
      /\ UNCHANGED <<members, provPass, arg, seen, disk, old, adds>>
  BY DEF ResetSave, TypeOK
<1>2. AbsFlag' = AbsFlag
  BY <1>1, MappingOne DEF AbsFlag
<1>3. KeyOnly' /\ OnePass' /\ UNCHANGED absvars
  BY <1>1, <1>2, Frame
<1>4. TypeOK'
  BY <1>1 DEF TypeOK, Steps, ResetSave
<1>5. RequestOK(c0)'
  BY <1>1 DEF RequestOK
<1>6. QED
  BY <1>3, <1>4, <1>5

\* Attaching a group adds a key-only provider and leaves the flag; an
\* attach that raises ends the request with nothing more attached.
LEMMA AttachGroupStep ==
    ASSUME NEW c0, OneRequest(c0), Inv, AttachGroup(c0)
    PROVE  Inv' /\ [Abs!Next]_absvars
<1> USE DEF Inv, OneRequest
<1>1. /\ pc[c0] = "attach"
      /\ UNCHANGED <<volEncrypt, arg, seen, disk, old>>
  BY DEF AttachGroup
<1>2. AbsFlag = volEncrypt
  BY <1>1, MappingOne
<1>3. PICK d \in adds[c0] :
         \/ /\ members' = members \cup {d}
            /\ provPass' = [provPass EXCEPT ![d] = NoPass]
            /\ adds' = [adds EXCEPT ![c0] = adds[c0] \ {d}]
            /\ pc' = [pc EXCEPT ![c0] = IF adds'[c0] # {} THEN "attach"
                                        ELSE IF seen[c0] >= 2 THEN "reset" ELSE "idle"]
         \/ /\ adds' = [adds EXCEPT ![c0] = {}]
            /\ pc' = [pc EXCEPT ![c0] = "idle"]
            /\ UNCHANGED <<members, provPass>>
  BY DEF AttachGroup
<1>4. d \in Disks \ members
  BY <1>1 DEF RequestOK, TypeOK
<1>5. pc'[c0] \in {"attach", "reset", "idle"}
  BY <1>3 DEF TypeOK
<1>6. AbsFlag' = volEncrypt
  BY <1>1, <1>5 DEF AbsFlag
<1>7. CASE /\ members' = members \cup {d}
           /\ provPass' = [provPass EXCEPT ![d] = NoPass]
           /\ adds' = [adds EXCEPT ![c0] = adds[c0] \ {d}]
  <2>1. KeyOnly'
    BY <1>2, <1>4, <1>6, <1>7 DEF KeyOnly, TypeOK
  <2>2. OnePass'
    BY <1>4, <1>7 DEF OnePass, TypeOK
  <2>3. TypeOK'
    BY <1>1, <1>3, <1>4, <1>5, <1>7 DEF TypeOK, Steps, Pass
  <2>4. RequestOK(c0)'
    BY <1>1, <1>5, <1>7 DEF RequestOK, TypeOK
  <2>5. Abs!Attach
    BY <1>2, <1>4, <1>6, <1>7 DEF Abs!Attach
  <2>6. QED
    BY <2>1, <2>2, <2>3, <2>4, <2>5 DEF Abs!Next
<1>8. CASE /\ adds' = [adds EXCEPT ![c0] = {}]
           /\ pc' = [pc EXCEPT ![c0] = "idle"]
           /\ UNCHANGED <<members, provPass>>
  <2>1. KeyOnly' /\ OnePass' /\ UNCHANGED absvars
    BY <1>2, <1>6, <1>8, Frame
  <2>2. TypeOK' /\ RequestOK(c0)'
    BY <1>1, <1>8 DEF TypeOK, Steps, RequestOK
  <2>3. QED
    BY <2>1, <2>2
<1>9. QED
  BY <1>3, <1>7, <1>8

\* Removing the passphrase from every provider is a passphrase removal; if
\* geli_passphrase raises, nothing changed and the flag stays.
LEMMA ResetPassphraseStep ==
    ASSUME NEW c0, OneRequest(c0), Inv, ResetPassphrase(c0)
    PROVE  Inv' /\ [Abs!Next]_absvars
<1> USE DEF Inv, OneRequest
<1>1. /\ pc[c0] = "reset"
      /\ UNCHANGED <<volEncrypt, members, arg, seen, disk, old, adds>>
  BY DEF ResetPassphrase
<1>2. AbsFlag = volEncrypt
  BY <1>1, MappingOne
<1>3. CASE /\ provPass' = [d \in Disks |-> IF d \in members THEN NoPass ELSE provPass[d]]
           /\ pc' = [pc EXCEPT ![c0] = "resetsave"]
  <2>1. pc'[c0] = "resetsave"
    BY <1>3 DEF TypeOK
  <2>2. AbsFlag' = 1
    BY <2>1 DEF AbsFlag
  <2>3. \A m \in members' : provPass'[m] = NoPass
    BY <1>1, <1>3 DEF TypeOK
  <2>4. KeyOnly' /\ OnePass'
    BY <2>3 DEF KeyOnly, OnePass
  <2>5. TypeOK'
    BY <1>1, <1>3 DEF TypeOK, Steps, Pass
  <2>6. RequestOK(c0)'
    BY <2>1 DEF RequestOK
  <2>7. Abs!RemovePassphrase
    BY <1>1, <1>3, <2>2 DEF Abs!RemovePassphrase, Abs!AllMembers
  <2>8. QED
    BY <2>4, <2>5, <2>6, <2>7 DEF Abs!Next
<1>4. CASE /\ pc' = [pc EXCEPT ![c0] = "idle"]
           /\ UNCHANGED provPass
  <2>1. AbsFlag' = volEncrypt
    BY <1>1, <1>4 DEF AbsFlag
  <2>2. KeyOnly' /\ OnePass' /\ UNCHANGED absvars
    BY <1>1, <1>2, <1>4, <2>1, Frame
  <2>3. TypeOK' /\ RequestOK(c0)'
    BY <1>1, <1>4 DEF TypeOK, Steps, RequestOK
  <2>4. QED
    BY <2>2, <2>3
<1>5. QED
  BY <1>3, <1>4 DEF ResetPassphrase

\* A replacement provider opens with the passphrase that opened a provider
\* of the volume, which every provider that needs one needs.
LEMMA ReplaceDiskStep ==
    ASSUME NEW c0, OneRequest(c0), Inv, ReplaceDisk(c0)
    PROVE  Inv' /\ [Abs!Next]_absvars
<1> USE DEF Inv, OneRequest
<1>1. /\ pc[c0] = "replace" /\ pc'[c0] = "idle"
      /\ pc' = [pc EXCEPT ![c0] = "idle"]
      /\ UNCHANGED <<volEncrypt, arg, seen, disk, old, adds>>
  BY DEF ReplaceDisk, TypeOK
<1>2. /\ disk[c0] \notin members /\ old[c0] \in members /\ disk[c0] \in Disks
      /\ volEncrypt = 2 => arg[c0] # NoPass /\ TestKey(arg[c0])
      /\ volEncrypt # 2 => arg[c0] = NoPass
  BY <1>1 DEF RequestOK, TypeOK
<1>3. AbsFlag = volEncrypt /\ AbsFlag' = volEncrypt
  BY <1>1, MappingOne DEF AbsFlag
<1>4. CASE /\ members' = (members \ {old[c0]}) \cup {disk[c0]}
           /\ provPass' = [provPass EXCEPT ![disk[c0]] = ReplacementPass(c0)]
  <2>1. arg[c0] \in IF volEncrypt = 2 THEN {provPass[m] : m \in members} \ {NoPass}
                    ELSE {NoPass}
    BY <1>2 DEF TestKey
  <2>2. Abs!Replace
    BY <1>1, <1>2, <1>3, <1>4, <2>1 DEF Abs!Replace, ReplacementPass
  <2>3. KeyOnly'
    BY <1>2, <1>3, <1>4 DEF KeyOnly, ReplacementPass, TypeOK
  <2>4. OnePass'
    <3>1. arg[c0] # NoPass => \E m \in members : provPass[m] = arg[c0]
      BY <1>2 DEF TestKey
    <3>2. QED
      BY <1>2, <1>4, <3>1 DEF OnePass, ReplacementPass, TypeOK
  <2>5. TypeOK'
    BY <1>1, <1>2, <1>4 DEF TypeOK, Steps, ReplacementPass
  <2>6. QED
    BY <1>1, <2>2, <2>3, <2>4, <2>5 DEF Abs!Next, RequestOK
<1>5. CASE UNCHANGED <<members, provPass>>
  <2>1. KeyOnly' /\ OnePass' /\ UNCHANGED absvars
    BY <1>3, <1>5, Frame
  <2>2. TypeOK' /\ RequestOK(c0)'
    BY <1>1, <1>5 DEF TypeOK, Steps, RequestOK
  <2>3. QED
    BY <2>1, <2>2
<1>6. QED
  BY <1>4, <1>5 DEF ReplaceDisk

\* Every step of the one request, or a stutter.
LEMMA NextStep ==
    ASSUME NEW c0, OneRequest(c0), Inv, [Next]_vars
    PROVE  Inv' /\ [Abs!Next]_absvars
<1>1. CASE UNCHANGED vars
  <2>1. AbsFlag' = AbsFlag
    BY <1>1 DEF vars, AbsFlag
  <2>2. KeyOnly' /\ OnePass' /\ UNCHANGED absvars
    BY <1>1, <2>1, Frame DEF vars
  <2>3. Inv'
    BY <1>1, <2>2 DEF vars, Inv, TypeOK, RequestOK, TestKey
  <2>4. QED
    BY <2>2, <2>3
<1>2. CASE Next
  <2>1. PICK c \in Clients : \/ Start(c) \/ GeliPassphrase(c) \/ SaveFlag(c)
                             \/ AttachGroup(c) \/ ResetPassphrase(c) \/ ResetSave(c)
                             \/ ReplaceDisk(c)
    BY <1>2 DEF Next
  <2>2. c = c0
    BY DEF OneRequest
  <2>3. QED
    BY <2>1, <2>2, StartStep, GeliPassphraseStep, SaveFlagStep, AttachGroupStep,
       ResetPassphraseStep, ResetSaveStep, ReplaceDiskStep
<1>3. QED
  BY <1>1, <1>2

(***************************************************************************)
(* With one request in flight at a time, whatever notifier call raises,   *)
(* Inv holds in every state: the flag the volume shows is 1 only over     *)
(* key-only providers, and those needing a passphrase need the same one.  *)
(***************************************************************************)
THEOREM SequentialInvariant ==
    ASSUME NEW c0, OneRequest(c0)
    PROVE  Spec => []Inv
<1>1. Inv /\ [Next]_vars => Inv'
  BY NextStep
<1>2. QED
  BY InitInv, <1>1, PTL DEF Spec

\* When no request is in flight, the flag shown is the stored one.
LEMMA InvKeyOnly == Inv => KeyOnlyWhenFlagOne
<1> SUFFICES ASSUME Inv, Quiet, volEncrypt = 1 PROVE \A m \in members : provPass[m] = NoPass
  BY DEF KeyOnlyWhenFlagOne
<1>1. AbsFlag = volEncrypt
  BY DEF Quiet, AbsFlag
<1>2. QED
  BY <1>1 DEF Inv, KeyOnly

(***************************************************************************)
(* When passphrase requests on a volume do not overlap, a volume whose    *)
(* vol_encrypt is 1 opens with its key alone each time they are all over, *)
(* even when geli_passphrase or an attach raises part-way: an extension   *)
(* of a passphrase volume sets the flag to 1 only after removing the      *)
(* passphrase, and a replacement on a key-only volume passes none.        *)
(***************************************************************************)
THEOREM SequentialKeyOnly ==
    ASSUME NEW c0, OneRequest(c0)
    PROVE  Spec => []KeyOnlyWhenFlagOne
BY SequentialInvariant, InvKeyOnly, PTL

(***************************************************************************)
(* When passphrase requests on a volume do not overlap, the handlers      *)
(* implement VolumePassphrase under the mapping AbsFlag: each notifier    *)
(* call that changes the providers is one passphrase change, attach,      *)
(* removal or replacement, a call that raises changes nothing, and the    *)
(* flag save that follows only catches up.                                *)
(***************************************************************************)
THEOREM SequentialRefinement ==
    ASSUME NEW c0, OneRequest(c0)
    PROVE  Spec => PassphraseSpec
<1>1. Inv /\ [Next]_vars => [Abs!Next]_absvars
  BY NextStep
<1>2. QED
  BY SequentialInvariant, InitInv, InitRefines, <1>1, PTL
     DEF Spec, PassphraseSpec, Abs!Spec, Abs!avars, absvars

=============================================================================
