--------------------------- MODULE MCPaperTrading ---------------------------
(***************************************************************************)
(* PaperTrading on small instances.                                        *)
(***************************************************************************)
EXTENDS PaperTrading, TLC

MCGrossPnls == {-2, 1}

(* No fault, one that leaves a rejected order, one that leaves none, and two. *)
MCFaultSets == {{}, {"price"}, {"market_data"}, {"quantity", "price"}}

Identical == Permutations(Sessions)
=============================================================================
