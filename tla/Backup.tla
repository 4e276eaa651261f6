------------------------------- MODULE Backup -------------------------------
(***************************************************************************)
(* What the device mirror promises about the cloud: the device gallery is   *)
(* the truth and the cloud is its backup.  A photo leaves the albums only   *)
(* when a user deleted it or when the item it is the backup of has left the *)
(* device, and in the second case only if nobody pinned it.  How the app    *)
(* finds out, and what it forgets when it is killed, is module Mirror.      *)
(***************************************************************************)
CONSTANT Photo

VARIABLES
    kept,       \* photos in the albums of the cloud
    deleted,    \* photos a user has deleted in the app
    released,   \* photos whose item was missing when the device was last looked at
    pinned,     \* photos to keep although their item goes
    condemned   \* photos whose deletion has been requested

vars == <<kept, deleted, released, pinned, condemned>>

Init ==
    /\ kept \in SUBSET Photo
    /\ deleted = {}
    /\ released = {}
    /\ pinned = {}
    /\ condemned = {}

\* An upload, or a restore from the recycle bin.
Store(p) ==
    /\ kept' = kept \cup {p}
    /\ UNCHANGED <<deleted, condemned>>

\* A user deletes it in this app, ...
Ask(p) ==
    /\ deleted' = deleted \cup {p}
    /\ condemned' = condemned \cup {p}
    /\ UNCHANGED kept

\* ... or on another device.
Elsewhere(p) ==
    /\ kept' = kept \ {p}
    /\ deleted' = deleted \cup {p}
    /\ UNCHANGED condemned

\* The app decides to delete a photo by itself: only then are there conditions.
Condemn(p) ==
    /\ p \in deleted \cup (released \ pinned)
    /\ condemned' = condemned \cup {p}
    /\ UNCHANGED <<kept, deleted>>

\* A request is carried out, fails or is forgotten.
Settle(P) ==
    /\ kept \ kept' \subseteq condemned
    /\ kept' \subseteq kept
    /\ condemned' = condemned \ P
    /\ UNCHANGED deleted

\* What the device shows is not the app's to decide, and pins are made for good.
Next ==
    /\ released' \in SUBSET Photo
    /\ pinned' \in SUBSET Photo
    /\ pinned \subseteq pinned'
    /\ \/ \E p \in Photo : Store(p) \/ Ask(p) \/ Elsewhere(p) \/ Condemn(p)
       \/ \E P \in SUBSET Photo : Settle(P)

Spec == Init /\ [][Next]_vars
=============================================================================
