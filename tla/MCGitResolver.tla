---------------------------- MODULE MCGitResolver ----------------------------
(***************************************************************************)
(* Instances of GitResolver for TLC.                                       *)
(***************************************************************************)
EXTENDS GitResolver

\* No commit parameter, or a hash in any spelling.
HashOrNone == Texts \ {NotAHash}

\* A commit parameter that is not a hash.
TagOnly == {NotAHash}
=============================================================================
