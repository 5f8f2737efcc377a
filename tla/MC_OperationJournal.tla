------------------------- MODULE MC_OperationJournal -------------------------
(***************************************************************************)
(* Model values for OperationJournal.                                      *)
(***************************************************************************)
EXTENDS OperationJournal, TLC

CONSTANTS k1, k2, c1, c2, o1, o2

MCKeys == {k1, k2}
MCOneKey == {k1}
MCContents == {c1, c2}
MCOps == {o1, o2}
MCAllKinds == {"client.create", "config.apply"}
MCClientKinds == {"client.create"}

\* No liveness property is checked under these.
MCSymmetry == Permutations(MCKeys) \cup Permutations(MCContents)
=============================================================================
