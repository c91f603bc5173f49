-------------------------- MODULE UpdateProfileSpec --------------------------
(***************************************************************************)
(* What toolslib.UpdateProfile promises its caller: when the call returns *)
(* nil the node has applied the profile update.  An error says nothing:    *)
(* the update may or may not have been applied (the answer to the submit   *)
(* can be lost).  The update is applied at most once.  Returning is not    *)
(* promised: http.Post uses the default client, which has no timeout.      *)
(***************************************************************************)
VARIABLES profile, result

Init == profile = "old" /\ result = "none"

Call ==
    /\ result = "none"
    /\ \/ profile' = "new" /\ result' \in {"ok", "error"}
       \/ profile' = profile /\ result' = "error"

Spec == Init /\ [][Call]_<<profile, result>>
=============================================================================
