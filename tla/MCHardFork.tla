------------------------------ MODULE MCHardFork ------------------------------
(* An instance of HardFork for TLC. *)
EXTENDS HardFork

Fork(v, h) == [version |-> v, height |-> h, threshold |-> 0]

\* The network before and after a release that schedules version 3.
MCOld == <<Fork(1, 0), Fork(2, 1)>>
MCNew == <<Fork(1, 0), Fork(2, 1), Fork(3, 2)>>

MCTables == {MCOld, MCNew}
=============================================================================
