--------------------------- MODULE MCSessionStore ---------------------------
(***************************************************************************)
(* Small instances of SessionStore for TLC.                                *)
(***************************************************************************)
EXTENDS SessionStore, TLC

Interchangeable ==
    Permutations(Replicas) \cup Permutations(Edits)
=============================================================================
