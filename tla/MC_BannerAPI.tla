---------------------------- MODULE MC_BannerAPI ----------------------------
(* Small instances of BannerAPI for TLC.                                   *)
EXTENDS BannerAPI, TLC

CONSTANTS t1, t2, x, y

MCTags == {t1, t2}
MCContents == {x, y}

(* Tags and contents are interchangeable: no handler or transaction        *)
(* distinguishes one from another.                                         *)
MCSymmetry == Permutations(MCTags) \cup Permutations(MCContents)
=============================================================================
