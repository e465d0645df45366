------------------------------ MODULE MCUploads ------------------------------
(* Instances of UploadAttempts for TLC. *)
EXTENDS UploadAttempts

CONSTANTS j1, A, B
=============================================================================
