----------------------- MODULE MCArtifactTransaction -----------------------
(* Small instances of ArtifactTransaction for TLC: two edits of a page     *)
(* with a clean image, which every edit declares, and a mask.              *)
EXTENDS ArtifactTransaction, TLC

CONSTANTS clean, mask, t1, t2

CleanOnly == {clean}
CleanAndMask == {clean, mask}
TwoEdits == {t1, t2}
EditSymmetry == Permutations(Txn)
=============================================================================
