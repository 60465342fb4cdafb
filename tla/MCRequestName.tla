--------------------------- MODULE MCRequestName ---------------------------
(***************************************************************************)
(* Instances of RequestName for TLC.                                       *)
(***************************************************************************)
EXTENDS RequestName, SequencesExt

\* The texts of which the comment on the function says that each is hashed:
\* the resolver name and every parameter.
Parts(r) ==
    LET keys == SetToSortSeq(DOMAIN r.params, Less)
    IN  <<r.base>> \o [i \in 1 .. Len(keys) |-> keys[i] \o r.params[keys[i]]]

\* The hash in a name is made of the hashes of the resolver name and of each
\* parameter, so requests that differ in one of these get different names.
EveryPartHashed == BothNamed /\ SameName => Parts(request[1]) = Parts(request[2])
=============================================================================
