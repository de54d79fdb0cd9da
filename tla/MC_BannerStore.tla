-------------------------- MODULE MC_BannerStore --------------------------
(* Small instances of BannerStore for TLC.                                 *)
EXTENDS BannerStore, TLC

CONSTANTS t1, t2, x, y

MCTags == {t1, t2}
MCContents == {x, y}

(* Tags and contents are only compared for equality.                       *)
MCSymmetry == Permutations(MCTags) \cup Permutations(MCContents)
=============================================================================
