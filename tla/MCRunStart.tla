----------------------------- MODULE MCRunStart -----------------------------
(***************************************************************************)
(* Small instances of RunStart for TLC.                                    *)
(***************************************************************************)
EXTENDS RunStart, TLC

ProcessSymmetry ==
    Permutations(Processes) \cup Permutations(Commands) \cup Permutations(Revisions)
=============================================================================
