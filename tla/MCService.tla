------------------------------ MODULE MCService ------------------------------
(***************************************************************************)
(* Constants for model checking Service.                                   *)
(***************************************************************************)
EXTENDS Service

\* The statements in 0001_init, 0002_upload_idempotency and 0003_automatic_retry.
SqlFiles == <<3, 2, 1>>
=============================================================================
