-------------------------------- MODULE MCSync --------------------------------
(* Instances of Sync for TLC. *)
EXTENDS Sync

\* A chain that every peer has: three blocks on top of the genesis block.
MCOneChain == [p \in Peers |-> <<0, 1, 2, 3>>]

\* Peer b has one more block than the others, which does not verify.
MCBadTip == [p \in Peers |-> IF p = "b" THEN <<0, 1, 2, 10>> ELSE <<0, 1, 2>>]
=============================================================================
