---------------------------- MODULE MC_BannerRead ----------------------------
(* BannerRead on two request handlers, two tags, one feature and one       *)
(* content, with handlers and tags interchangeable.                        *)
EXTENDS BannerRead, TLC

CONSTANTS r1, r2, t1, t2

MCReaders == {r1, r2}
MCTags == {t1, t2}
MCSymmetry == Permutations(MCReaders) \cup Permutations(MCTags)
=============================================================================
