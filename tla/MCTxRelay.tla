----------------------------- MODULE MCTxRelay -----------------------------
(* Instances of TxRelay: txs that do not conflict, a peer and a wallet. *)
EXTENDS TxRelay, TLC

CONSTANTS t1, t2, peer, rpc, top

MCTxs == {t1, t2}
\* A tx spends one image, which goes by the tx's name.
MCKeyImagesOf == [t \in MCTxs |-> {t}]
MCWeight == [S \in SUBSET MCTxs |-> Cardinality(S)]
MCFeeRank == (t1 :> 1) @@ (t2 :> 2)

\* Sound, as the txs differ in their rank only, which nothing looks at in a
\* pool that is never full.
MCSymmetry == Permutations(MCTxs)
=============================================================================
