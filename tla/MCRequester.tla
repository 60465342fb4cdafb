----------------------------- MODULE MCRequester -----------------------------
(***************************************************************************)
(* Instances of Requester for TLC.                                         *)
(***************************************************************************)
EXTENDS Requester, TLC

CONSTANT git

OneSelector == git :> "git"
=============================================================================
