---------------------------- MODULE MCAdmission ----------------------------
(* Small instances of the API's admission control. *)
EXTENDS Admission
=============================================================================
