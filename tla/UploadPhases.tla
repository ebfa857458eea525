--------------------------- MODULE UploadPhases ---------------------------
(***************************************************************************)
(* What an upload promises those outside services/uploads: it is in        *)
(* progress until its bytes are stored, then ready, and can be spent once, *)
(* on one attachment.  Its bytes may be deleted when the upload has failed *)
(* or when the attachment it became is itself being deleted.               *)
(***************************************************************************)
VARIABLES phase, bytes, attachment

vars == <<phase, bytes, attachment>>

TypeOK ==
    /\ phase \in {"none", "in_progress", "ready", "spent", "failed", "gone"}
    /\ bytes \in {"none", "there", "gone"}
    /\ attachment \in {"none", "live", "pending", "gone"}

Init == phase = "none" /\ bytes = "none" /\ attachment = "none"

Start == phase = "none" /\ phase' = "in_progress" /\ UNCHANGED <<bytes, attachment>>

\* The object is put once; its answer may come when nobody waits for it any more.
Store ==
    /\ phase # "none" /\ bytes = "none"
    /\ bytes' = "there" /\ UNCHANGED <<phase, attachment>>

Finish ==
    /\ phase = "in_progress" /\ bytes = "there"
    /\ phase' = "ready" /\ UNCHANGED <<bytes, attachment>>

Spend ==
    /\ phase = "ready" /\ bytes = "there" /\ attachment = "none"
    /\ phase' = "spent" /\ attachment' = "live" /\ UNCHANGED bytes

\* An upload that became an attachment fails only with that attachment.
Fail ==
    /\ phase \in {"in_progress", "ready", "spent"}
    /\ phase = "spent" => attachment = "gone"
    /\ phase' = "failed" /\ UNCHANGED <<bytes, attachment>>

Forget ==
    /\ phase \in {"spent", "failed"}
    /\ phase' = "gone" /\ UNCHANGED <<bytes, attachment>>

DropAttachment ==
    /\ \/ attachment = "live" /\ attachment' = "pending"
       \/ attachment = "pending" /\ bytes = "gone" /\ attachment' = "gone"
    /\ UNCHANGED <<phase, bytes>>

DeleteBytes ==
    /\ bytes = "there"
    /\ attachment = "pending" \/ (phase = "failed" /\ attachment \in {"none", "gone"})
    /\ bytes' = "gone" /\ UNCHANGED <<phase, attachment>>

Next ==
    Start \/ Store \/ Finish \/ Spend \/ Fail \/ Forget \/ DropAttachment \/ DeleteBytes

Spec == Init /\ [][Next]_vars
=============================================================================
