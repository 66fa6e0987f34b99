---------------------------- MODULE MCChainRoutes ----------------------------
(* A chain of up to 22 blocks: one full page of twenty and a second page,  *)
(* validator counts around the page size of fifty, pages and last_block    *)
(* values on both sides of every bound.                                    *)
EXTENDS ChainRoutes

MCPages == -1..3
MCLastBlocks == {-1, 0, 5, 15}
MCValidatorCounts == {0, 1, 49, 50, 51, 100}
=============================================================================
