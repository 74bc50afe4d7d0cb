------------------------- MODULE VolumePassphrase -------------------------
(***************************************************************************)
(* What the passphrase handlers of an encrypted volume do, each notifier  *)
(* call that changes the providers taken as one indivisible step together *)
(* with the vol_encrypt save that follows it.  `members' are the volume's *)
(* GELI providers, `pass' the passphrase each disk's provider holds       *)
(* (NoPass: the key alone opens it), `flag' the vol_encrypt column.       *)
(*                                                                         *)
(*   - CreatePassphraseForm and ChangePassphraseForm set a passphrase on  *)
(*     every provider or remove it, and record which in vol_encrypt;      *)
(*   - extending the volume attaches key-only providers, one group at a   *)
(*     time, and leaves vol_encrypt alone; on a volume with a passphrase  *)
(*     the extension then removes it, unless a call raised first;         *)
(*   - replacing a disk gives the new provider the passphrase the form    *)
(*     checked against the volume, or none when vol_encrypt is 1.         *)
(*                                                                         *)
(* Under this specification vol_encrypt 1 means what it says, the key     *)
(* alone opens every provider, and the providers that need a passphrase   *)
(* all need the same one.  vol_encrypt 2 does not mean that every         *)
(* provider needs it: an extension that raised leaves key-only ones.      *)
(***************************************************************************)
CONSTANTS
    Disks,        \* disks that may become providers of the volume
    InitialDisks, \* its providers at the start
    Passphrases,  \* passphrases a user may type
    NoPass        \* no passphrase: the key alone opens the provider

VARIABLES
    flag,         \* Volume.vol_encrypt: 1 key only, 2 key and passphrase
    members,      \* the volume's providers
    pass          \* the passphrase each disk's provider holds

avars == <<flag, members, pass>>

Init ==
    /\ flag \in {1, 2}
    /\ members = InitialDisks
    /\ \E p \in IF flag = 2 THEN Passphrases ELSE {NoPass} :
          pass = [d \in Disks |-> IF d \in InitialDisks THEN p ELSE NoPass]

\* Every provider of the volume gets passphrase p.
AllMembers(p) == [d \in Disks |-> IF d \in members THEN p ELSE pass[d]]

\* CreatePassphraseForm.done, or ChangePassphraseForm.done with a passphrase.
SetPassphrase ==
    /\ \E p \in Passphrases : pass' = AllMembers(p)
    /\ flag' = 2
    /\ UNCHANGED members

\* ChangePassphraseForm.done with "remove", and the reset after an extension.
RemovePassphrase ==
    /\ pass' = AllMembers(NoPass)
    /\ flag' = 1
    /\ UNCHANGED members

\* VolumeManagerForm.save attaching one group of an extension.
Attach ==
    /\ \E d \in Disks \ members :
          /\ members' = members \cup {d}
          /\ pass' = [pass EXCEPT ![d] = NoPass]
    /\ UNCHANGED flag

\* ZFSDiskReplacementForm.done: the new provider gets the passphrase that
\* opened one of the providers, or none on a key-only volume.
Replace ==
    /\ \E o \in members, d \in Disks \ members,
          q \in IF flag = 2 THEN {pass[m] : m \in members} \ {NoPass} ELSE {NoPass} :
          /\ members' = (members \ {o}) \cup {d}
          /\ pass' = [pass EXCEPT ![d] = q]
    /\ UNCHANGED flag

Next == SetPassphrase \/ RemovePassphrase \/ Attach \/ Replace

Spec == Init /\ [][Next]_avars

=============================================================================
