----------------------------- MODULE DeviceBook -----------------------------
(***************************************************************************)
(* What the list of paired devices promises to the rest of the system: a   *)
(* device is enrolled at most once, and once it is revoked it stays so.    *)
(* Pairing implements this specification, and Channels is built on it.     *)
(***************************************************************************)

CONSTANT Devices

VARIABLES
    enrolled,   \* devices paired and not revoked
    revoked     \* devices that were paired and then revoked

book == <<enrolled, revoked>>

Init ==
    /\ enrolled = {}
    /\ revoked = {}

Enroll(d) ==
    /\ d \notin enrolled \cup revoked
    /\ enrolled' = enrolled \cup {d}
    /\ UNCHANGED revoked

Revoke(d) ==
    /\ d \in enrolled
    /\ enrolled' = enrolled \ {d}
    /\ revoked' = revoked \cup {d}

Next == \E d \in Devices : Enroll(d) \/ Revoke(d)

Spec == Init /\ [][Next]_book
=============================================================================
