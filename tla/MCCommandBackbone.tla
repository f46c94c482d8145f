------------------------- MODULE MCCommandBackbone -------------------------
(***************************************************************************)
(* Small instances of CommandBackbone for TLC.                             *)
(***************************************************************************)
EXTENDS CommandBackbone, TLC

CONSTANTS a, b

(* One command, then another, then the first again. *)
RepeatedCommand == <<a, b, a>>

(* One command enqueued twice. *)
SameCommand == <<a, a>>

WorkerSymmetry == Permutations(Workers)
=============================================================================
