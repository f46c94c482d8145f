------------------------ MODULE MCAttemptLifecycle ------------------------
(***************************************************************************)
(* Small instances of AttemptLifecycle for TLC.                            *)
(***************************************************************************)
EXTENDS AttemptLifecycle
=============================================================================
