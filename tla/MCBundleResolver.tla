-------------------------- MODULE MCBundleResolver --------------------------
(***************************************************************************)
(* Instances of BundleResolver for TLC.                                    *)
(***************************************************************************)
EXTENDS BundleResolver

Layer(kind, name, apiVersion, digest) ==
    [kind |-> kind, name |-> name, apiVersion |-> apiVersion, digest |-> digest]

\* Complete layers of all kinds and names, and one for each annotation that
\* can be missing.
MCLayers ==
    {Layer(k, n, "v1", d) : k \in Kinds, n \in EntryNames, d \in {"d1", "d2"}}
      \cup {Layer(Missing, "a", "v1", "d1"), Layer("task", Missing, "v1", "d1"),
            Layer("task", "a", Missing, "d1")}
=============================================================================
