---------------------------- MODULE MCRunOutcome ----------------------------
(***************************************************************************)
(* Small instances of RunOutcome for TLC.                                  *)
(***************************************************************************)
EXTENDS RunOutcome
=============================================================================
