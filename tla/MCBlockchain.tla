---------------------------- MODULE MCBlockchain ----------------------------
(***************************************************************************)
(* Instances of Blockchain.                                                *)
(***************************************************************************)
EXTENDS Blockchain

CONSTANTS g, a1, a2, a3, a4, b1, b2, b3, x3, t1, t2, k1, k2

(* Two branches of equal work at height 2; b3 is the heaviest valid block, *)
(* and the operator may want the chain to go through it.  x3 and a4 are    *)
(* heavier: x3 spends again the image that t2 spent, a4 takes a wrong      *)
(* reward.  t1 and t2 spend one image, each on a branch of its own; t2     *)
(* also spends an output of b1.                                            *)
(*                                                                         *)
(*      a1 -- a2 -- a3 -- a4                                                 *)
(* g <                                                                       *)
(*      b1 -- b2 -- b3                                                       *)
(*              \                                                            *)
(*               x3                                                          *)
MCBlocks == {g, a1, a2, a3, a4, b1, b2, b3, x3}
MCParent ==
  (a1 :> g) @@ (a2 :> a1) @@ (a3 :> a2) @@ (a4 :> a3) @@
  (b1 :> g) @@ (b2 :> b1) @@ (b3 :> b2) @@ (x3 :> b2)
MCDifficulty ==
  [b \in MCBlocks |-> CASE b \in {a4, x3} -> 3 [] b = b3 -> 2 [] OTHER -> 1]
MCBlockTxs ==
  [b \in MCBlocks |->
     CASE b \in {a2, x3} -> <<t1>> [] b = b2 -> <<t2>> [] OTHER -> <<>>]
MCTxs == {t1, t2}
MCKeyImagesOf == (t1 :> {k1, k2}) @@ (t2 :> {k1})
MCNeeds == (t1 :> {g}) @@ (t2 :> {b1})

\* The same, where b2 holds no tx and x3 both that spend k1.
ClashBlockTxs == [MCBlockTxs EXCEPT ![b2] = <<>>, ![x3] = <<t2, t1>>]

MCWeight == [S \in SUBSET Txs |-> Cardinality(S) + Cardinality(S \cap {t1})]
MCFeeRank == (t1 :> 1) @@ (t2 :> 2)
=============================================================================
