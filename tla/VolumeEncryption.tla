-------------------------- MODULE VolumeEncryption --------------------------
(***************************************************************************)
(* The passphrase of an encrypted volume: the vol_encrypt column of its   *)
(* Volume row (1: key only, 2: key and passphrase) against the passphrase *)
(* its GELI providers actually hold.  The handlers that change either:    *)
(* CreatePassphraseForm.done, ChangePassphraseForm.done, the extension   *)
(* branch of VolumeManagerForm.save, and ZFSDiskReplacementForm.          *)
(*                                                                         *)
(* Each request runs in its own thread and reads the Volume row when it   *)
(* starts; every notifier() call and every volume.save() is one atomic    *)
(* step.  notifier() is not part of this repository: geli_passphrase sets *)
(* the passphrase of every provider of the volume, a provider attached by *)
(* zfs_volume_attach_group is initialised with the key alone, and         *)
(* zfs_replace_disk initialises the new provider with the passphrase it   *)
(* is given, or fails and changes nothing.  When NotifierMayFail, a call  *)
(* of geli_passphrase or zfs_volume_attach_group may raise instead, and   *)
(* then it has changed nothing.                                           *)
(***************************************************************************)
EXTENDS Naturals, FiniteSets

CONSTANTS
    Clients,      \* concurrent requests
    Disks,        \* disks that may become providers of the volume
    InitialDisks, \* its providers at the start
    Passphrases,  \* passphrases a user may type
    NoPass,       \* a provider without a passphrase; "remove" in ChangePassphraseForm
    Ops,          \* the handlers in use: "create", "change", "extend", "replace"
    NotifierMayFail \* geli_passphrase and zfs_volume_attach_group may raise

ASSUME EncryptionAssumption ==
    /\ InitialDisks \subseteq Disks /\ InitialDisks # {}
    /\ NoPass \notin Passphrases
    /\ Ops \subseteq {"create", "change", "extend", "replace"}
    /\ NotifierMayFail \in BOOLEAN

VARIABLES
    volEncrypt, \* Volume.vol_encrypt in the database
    members,    \* the volume's providers
    provPass,   \* the passphrase each disk's provider holds
    pc,         \* the step each request is at
    op,         \* the handler a request runs
    arg,        \* the passphrase it was given (NoPass for none or remove)
    seen,       \* vol_encrypt of the Volume object the request loaded
    disk,       \* the disk a replacement puts in
    old,        \* the provider a replacement takes out
    adds        \* the groups (one disk each) an extension has still to attach

vars == <<volEncrypt, members, provPass, pc, op, arg, seen, disk, old, adds>>

Pass == Passphrases \cup {NoPass}

-----------------------------------------------------------------------------
Init ==
    /\ volEncrypt \in {1, 2}
    /\ members = InitialDisks
    /\ \E p \in IF volEncrypt = 2 THEN Passphrases ELSE {NoPass} :
          provPass = [d \in Disks |-> IF d \in InitialDisks THEN p ELSE NoPass]
    /\ pc = [c \in Clients |-> "idle"]
    /\ op = [c \in Clients |-> "create"]
    /\ arg = [c \in Clients |-> NoPass]
    /\ seen = [c \in Clients |-> 1]
    /\ disk = [c \in Clients |-> CHOOSE d \in Disks : TRUE]
    /\ old = [c \in Clients |-> CHOOSE d \in Disks : TRUE]
    /\ adds = [c \in Clients |-> {}]

\* notifier().geli_testkey: the passphrase opens a provider of the volume.
TestKey(p) == \E m \in members : provPass[m] = p

(***************************************************************************)
(* A submit that validated.  CreatePassphraseForm: the two passphrases    *)
(* match.  ChangePassphraseForm: the admin password, and a passphrase or  *)
(* "remove".  The extension: the volume is looked up by name and one or   *)
(* more groups of disks no volume uses are chosen.  ZFSDiskReplacementForm: the form asks for   *)
(* the passphrase only when the loaded volume has vol_encrypt 2, and      *)
(* clean_pass2 checks it with geli_testkey.                               *)
(***************************************************************************)
Start(c) ==
    /\ pc[c] = "idle"
    /\ \E o \in Ops, p \in Pass, d \in Disks, m \in members, g \in SUBSET (Disks \ members) :
          /\ o = "replace" => d \notin members
          /\ o = "extend" <=> g # {}
          /\ o = "create" => p # NoPass
          /\ o = "extend" => p = NoPass
          /\ o = "replace" => IF volEncrypt = 2 THEN TestKey(p) /\ p # NoPass ELSE p = NoPass
          /\ op' = [op EXCEPT ![c] = o]
          /\ arg' = [arg EXCEPT ![c] = p]
          /\ disk' = [disk EXCEPT ![c] = d]
          /\ old' = [old EXCEPT ![c] = m]
          /\ adds' = [adds EXCEPT ![c] = g]
          /\ pc' = [pc EXCEPT ![c] = CASE o \in {"create", "change"} -> "geli"
                                       [] o = "extend" -> "attach"
                                       [] o = "replace" -> "replace"]
    /\ seen' = [seen EXCEPT ![c] = volEncrypt]
    /\ UNCHANGED <<volEncrypt, members, provPass>>

\* notifier().geli_passphrase(volume, passfile): every provider gets it, or
\* it raises and done() ends before saving the flag.
GeliPassphrase(c) ==
    /\ pc[c] = "geli"
    /\ \/ /\ provPass' = [d \in Disks |-> IF d \in members THEN arg[c] ELSE provPass[d]]
          /\ pc' = [pc EXCEPT ![c] = "save"]
       \/ /\ NotifierMayFail
          /\ pc' = [pc EXCEPT ![c] = "idle"]
          /\ UNCHANGED provPass
    /\ UNCHANGED <<volEncrypt, members, op, arg, seen, disk, old, adds>>

\* Mutant: ChangePassphraseForm keeps vol_encrypt 2 after a removal.
SavedFlagAlwaysTwo(c) == 2

\* The flag done() stores: 2 with a passphrase file, 1 without.
SavedFlag(c) == IF arg[c] = NoPass THEN 1 ELSE 2

\* volume.vol_encrypt = ...; volume.save()
SaveFlag(c) ==
    /\ pc[c] = "save"
    /\ volEncrypt' = SavedFlag(c)
    /\ pc' = [pc EXCEPT ![c] = "idle"]
    /\ UNCHANGED <<members, provPass, op, arg, seen, disk, old, adds>>

(***************************************************************************)
(* The extension's loop of zfs_volume_attach_group, one group per step:   *)
(* the group becomes a provider with the key alone.  After the last group *)
(* the request goes on to the passphrase reset if the Volume it loaded    *)
(* had vol_encrypt 2.  An attach that raises goes to the except clause,  *)
(* which deletes nothing when extending and re-raises: the request ends, *)
(* the groups attached before stay, and the reset is skipped.             *)
(***************************************************************************)
AttachGroup(c) ==
    /\ pc[c] = "attach"
    /\ \E d \in adds[c] :
          \/ /\ members' = members \cup {d}
             /\ provPass' = [provPass EXCEPT ![d] = NoPass]
             /\ adds' = [adds EXCEPT ![c] = adds[c] \ {d}]
             /\ pc' = [pc EXCEPT ![c] = IF adds'[c] # {} THEN "attach"
                                         ELSE IF seen[c] >= 2 THEN "reset" ELSE "idle"]
          \/ /\ NotifierMayFail
             /\ adds' = [adds EXCEPT ![c] = {}]
             /\ pc' = [pc EXCEPT ![c] = "idle"]
             /\ UNCHANGED <<members, provPass>>
    /\ UNCHANGED <<volEncrypt, op, arg, seen, disk, old>>

\* Mutant: the extension resets the flag without removing the passphrase.
ResetFlagOnly(c) ==
    /\ pc[c] = "reset"
    /\ volEncrypt' = 1
    /\ pc' = [pc EXCEPT ![c] = "idle"]
    /\ UNCHANGED <<members, provPass, op, arg, seen, disk, old, adds>>

\* `if volume.vol_encrypt >= 2 and add`: geli_passphrase(volume, None),
\* then vol_encrypt = 1 and save.  The call is outside the try: if it
\* raises, save() raises with vol_encrypt still 2.
ResetPassphrase(c) ==
    /\ pc[c] = "reset"
    /\ \/ /\ provPass' = [d \in Disks |-> IF d \in members THEN NoPass ELSE provPass[d]]
          /\ pc' = [pc EXCEPT ![c] = "resetsave"]
       \/ /\ NotifierMayFail
          /\ pc' = [pc EXCEPT ![c] = "idle"]
          /\ UNCHANGED provPass
    /\ UNCHANGED <<volEncrypt, members, op, arg, seen, disk, old, adds>>

ResetSave(c) ==
    /\ pc[c] = "resetsave"
    /\ volEncrypt' = 1
    /\ pc' = [pc EXCEPT ![c] = "idle"]
    /\ UNCHANGED <<members, provPass, op, arg, seen, disk, old, adds>>

\* Mutant: the new provider is initialised without the passphrase.
ReplacementNoPass(c) == NoPass

\* done() hands zfs_replace_disk the passphrase the form asked for, if any.
ReplacementPass(c) == arg[c]

\* notifier().zfs_replace_disk(volume, label, devname, passphrase=passfile).
ReplaceDisk(c) ==
    /\ pc[c] = "replace"
    /\ \/ /\ members' = (members \ {old[c]}) \cup {disk[c]}
          /\ provPass' = [provPass EXCEPT ![disk[c]] = ReplacementPass(c)]
       \/ UNCHANGED <<members, provPass>>
    /\ pc' = [pc EXCEPT ![c] = "idle"]
    /\ UNCHANGED <<volEncrypt, op, arg, seen, disk, old, adds>>

Next ==
    \E c \in Clients :
        \/ Start(c)
        \/ GeliPassphrase(c)
        \/ SaveFlag(c)
        \/ AttachGroup(c)
        \/ ResetPassphrase(c)
        \/ ResetSave(c)
        \/ ReplaceDisk(c)

Spec == Init /\ [][Next]_vars

-----------------------------------------------------------------------------
Quiet == \A c \in Clients : pc[c] = "idle"

(***************************************************************************)
(* Once every request has returned, vol_encrypt says what the providers  *)
(* hold: with 1 none has a passphrase (the volume attaches with its key   *)
(* alone), with 2 all hold one and the same (the passphrase asked to      *)
(* unlock it, or to replace a disk, opens every provider).  This is what  *)
(* the user is told; an extension whose attach or passphrase reset raises *)
(* breaks it even with one request at a time.                             *)
(***************************************************************************)
FlagMatchesProviders ==
    Quiet =>
        \/ volEncrypt = 1 /\ \A m \in members : provPass[m] = NoPass
        \/ volEncrypt = 2 /\ \E p \in Passphrases : \A m \in members : provPass[m] = p

(***************************************************************************)
(* Once every request has returned, a volume with vol_encrypt 1 opens     *)
(* with its key alone: no provider holds a passphrase the boot-time       *)
(* attach would not ask for.  This must survive an extension that raises *)
(* part-way, a failed geli_passphrase, and the reset after extending a    *)
(* volume that had a passphrase.                                          *)
(***************************************************************************)
KeyOnlyWhenFlagOne ==
    Quiet /\ volEncrypt = 1 => \A m \in members : provPass[m] = NoPass

-----------------------------------------------------------------------------
(***************************************************************************)
(* The handlers seen as VolumePassphrase's steps.  A request takes effect *)
(* when a notifier call changes the providers: geli_passphrase for        *)
(* CreatePassphraseForm and ChangePassphraseForm (whose flag save then    *)
(* only catches up), each zfs_volume_attach_group of an extension, the    *)
(* extension's geli_passphrase(volume, None), and zfs_replace_disk.       *)
(* Between the call and the save the flag is the one about to be saved.  *)
(***************************************************************************)
AbsFlag ==
    IF \E c \in Clients : pc[c] = "save" /\ arg[c] # NoPass THEN 2
    ELSE IF \E c \in Clients : pc[c] \in {"save", "resetsave"} THEN 1
    ELSE volEncrypt

Abs == INSTANCE VolumePassphrase WITH flag <- AbsFlag, pass <- provPass

(***************************************************************************)
(* The handlers implement VolumePassphrase: every step is one of its      *)
(* handler steps or leaves the volume as it appears, so in every state,   *)
(* not only when requests are over, vol_encrypt 1 means key only and the *)
(* providers that need a passphrase need one and the same.                *)
(***************************************************************************)
PassphraseSpec == Abs!Spec

====
