---------------------------- MODULE MCResolution ----------------------------
(***************************************************************************)
(* Instances of ResolutionSystem for TLC.                                  *)
(***************************************************************************)
EXTENDS ResolutionSystem, TLC

CONSTANTS git, bundles

\* One resolver, or the two resolvers of the repository, and their labels.
OneSelector == git :> "git"

TwoSelectors == git :> "git" @@ bundles :> "bundles"
=============================================================================
