----------------------------- MODULE MCLibrary ------------------------------
(* Library on small instances: one of the two libraries lacks a symbol and *)
(* has a null alias.                                                       *)
EXTENDS Library, TLC

CONSTANTS p, q, r, o

MCPlugins    == {p, q, r}
MCCppPlugins == {p, q}
MCObjects    == {o}
MCVersions   == {"v1", "v2"}
MCExports    == [v \in MCVersions |-> IF v = "v1" THEN {"f", "x"} ELSE {"f"}]
MCNullAliases == {"v2"}
MCSymmetry   == Permutations({p, q})
=============================================================================
