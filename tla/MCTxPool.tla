------------------------------ MODULE MCTxPool ------------------------------
(* Small instances of TxPool: three txs, two of which spend the same image. *)
EXTENDS TxPool, FiniteSetsExt, TLC

CONSTANTS a, b, c, k1, k2, tip0, tip1

MCTxs == {a, b, c}
MCKeyImages == {k1, k2}
\* a and b conflict; c spends two images, one of them also spent by b.
MCKeyImagesOf == (a :> {k1}) @@ (b :> {k1, k2}) @@ (c :> {k2})
MCWeightOf == (a :> 2) @@ (b :> 1) @@ (c :> 1)
MCWeight == [S \in SUBSET MCTxs |-> MapThenSumSet(LAMBDA t : MCWeightOf[t], S)]
MCFeeRank == (a :> 2) @@ (b :> 1) @@ (c :> 3)
MCTops == {tip0, tip1}
\* On tip1 tx a is in a block, so b fails there.
MCChainTxs == (tip0 :> {}) @@ (tip1 :> {a})
MCOkOn == (tip0 :> {a, b, c}) @@ (tip1 :> {c})
MCRuleSets == {MCTxs, {a, b}}
=============================================================================
