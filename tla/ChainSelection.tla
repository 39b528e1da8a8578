--------------------------- MODULE ChainSelection ---------------------------
(***************************************************************************)
(* What the daemon promises about its main chain, with nothing of how it   *)
(* gets there: no alternative chains, no pool, no batches, no crashes.     *)
(* The tip moves to a valid block with more work, or to one beyond another *)
(* checkpoint whatever its work, and leaves no checkpoint the chain goes   *)
(* through; or it moves back to an ancestor, only when the operator pops   *)
(* blocks or brings other checkpoints.                                     *)
(* Blockchain.tla implements it: the property Selects.                     *)
(***************************************************************************)
EXTENDS Integers

CONSTANTS
  Blocks,
  Genesis,
  Ancestors,   \* [Blocks -> SUBSET Blocks], proper ancestors
  Work,        \* [Blocks -> Nat], work of the chain that ends in the block
  Valid        \* the blocks that keep every rule, like all their ancestors

VARIABLES
  tip,          \* last block of the main chain
  checkpoints,  \* the blocks the operator wants on the chain
  pops          \* how often the operator popped blocks

selection == <<tip, checkpoints, pops>>

UpTo(b) == Ancestors[b] \cup {b}
Checkpointed(b) == UpTo(b) \cap checkpoints

SelectionInit ==
  /\ tip = Genesis
  /\ checkpoints \in SUBSET Blocks
  /\ pops = 0

Adopt(b) ==
  /\ b \in Valid
  /\ Checkpointed(tip) \subseteq Checkpointed(b)
  /\ Work[b] > Work[tip] \/ Checkpointed(tip) # Checkpointed(b)
  /\ tip' = b
  /\ UNCHANGED <<checkpoints, pops>>

Pop ==
  /\ tip' \in UpTo(tip)
  /\ pops' = pops + 1
  /\ UNCHANGED checkpoints

ChangeCheckpoints ==
  /\ tip' \in UpTo(tip)
  /\ checkpoints' \in SUBSET Blocks
  /\ checkpoints' # checkpoints
  /\ UNCHANGED pops

SelectionNext ==
  \/ \E b \in Blocks : Adopt(b)
  \/ Pop
  \/ ChangeCheckpoints

SelectionSpec == SelectionInit /\ [][SelectionNext]_selection
=============================================================================
