----------------------------- MODULE MCSharing ------------------------------
(***************************************************************************)
(* Sharing for TLC.                                                        *)
(***************************************************************************)
EXTENDS Sharing, TLC

\* No action tells one goroutine from another.
SymmetricResolutions == Permutations(Resolutions)
=============================================================================
