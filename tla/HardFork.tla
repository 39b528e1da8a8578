------------------------------- MODULE HardFork -------------------------------
(***************************************************************************)
(* HardFork (hardfork.cpp): which block version is in force.  The object   *)
(* keeps in memory a window of the votes of the last blocks and the index  *)
(* of the fork in force, and moves them along with every block that the    *)
(* chain adds or pops; it computes them anew after a switch of chains and  *)
(* at start.  The blocks and their versions in the database are written in *)
(* batches, which the object does not know of.                             *)
(*                                                                         *)
(* Blocks are what the object sees of them: a major version, and a minor   *)
(* one that votes.  The counts last_versions are those of the window and   *)
(* are not kept apart.                                                     *)
(*                                                                         *)
(* The time of a fork is left out, as it decides nothing here: add_fork    *)
(* orders the table by it (85) and get_state (326) reports with it that a  *)
(* release is old.  The comment at hardforks.cpp:48 says otherwise: to set *)
(* it to a past time "will trigger immediate activation on the next        *)
(* block".  No code does that; a fork waits for its height.                *)
(***************************************************************************)
EXTENDS Integers, Sequences, FiniteSets, FiniteSetsExt

CONSTANTS Tables,      \* the fork tables of the releases of the program that
                       \* a node may run
          WindowSize,  \* blocks whose votes count
          Versions,    \* versions of blocks
          MaxHeight    \* most blocks of a chain (bound)

ASSUME LimitsAssumption ==
  /\ WindowSize \in Nat \ {0} /\ MaxHeight \in Nat \ {0}
  /\ Versions \subseteq Nat /\ 1 \in Versions

\* add_fork takes forks in order only; as in hardforks.cpp, version 1 is that
\* of the genesis block alone, and no fork asks for votes (the default of
\* add_fork): every fork comes at its height.
ASSUME TablesAssumption ==
  \A T \in Tables :
    /\ T \in Seq([version : Versions, height : Nat, threshold : {0}])
    /\ Len(T) > 1 /\ T[1].version = 1 /\ T[1].height = 0 /\ T[2].height = 1
    /\ \A m, n \in 1 .. Len(T) : m < n => /\ T[m].version < T[n].version
                                          /\ T[m].height <= T[n].height

\* A release schedules its forks after those of the releases before it, as the
\* entry for version 17 prepared in hardforks.cpp does.
ASSUME ReleasesAssumption ==
  \A S, T \in Tables : Len(S) <= Len(T) =>
    /\ \A n \in 1 .. Len(S) : T[n] = S[n]
    /\ Len(S) < Len(T) => S[Len(S)].height < T[Len(S) + 1].height

Blocks == [version : Versions, vote : Versions]
Genesis == [version |-> 1, vote |-> 1]

VARIABLES
  heights,   \* the fork table of the release that runs
  chain,     \* blocks of the main chain; the block at height h is chain[h + 1]
  stored,    \* m_hf_versions, a table of the database: version by height
  saved,     \* chain and stored at the last commit
  versions,  \* votes in the window
  index,     \* current_fork_index
  split,     \* height of the split of the switch in progress
  phase,     \* what the switch does next
  original,  \* disconnected_chain: what the switch has popped
  aborted,   \* a batch was aborted, and index has not been set anew since
  tainted,   \* a block was added in between
  exact      \* the window was computed anew, and blocks were only added since

db == <<chain, stored>>
switch == <<split, phase, original>>
vars == <<heights, chain, stored, saved, versions, index, split, phase,
          original, aborted, tainted, exact>>

Height == Len(chain)

TypeOK ==
  /\ heights \in Tables
  /\ chain \in Seq(Blocks) /\ Height \in 1 .. MaxHeight
  /\ stored \in [0 .. MaxHeight - 1 -> Versions]
  /\ saved \in [chain : Seq(Blocks), stored : [0 .. MaxHeight - 1 -> Versions]]
  /\ Len(saved.chain) \in 1 .. MaxHeight
  /\ versions \in Seq(Versions) /\ Len(versions) \in 1 .. WindowSize
  /\ index \in 1 .. Len(heights)
  /\ split \in 0 .. MaxHeight
  /\ phase \in {"none", "popping", "adding", "undoing", "restoring"}
  /\ original \in Seq(Blocks)
  /\ aborted \in BOOLEAN /\ tainted \in BOOLEAN /\ exact \in BOOLEAN

-----------------------------------------------------------------------------
(* Versions by height and by votes, for a fork table T *)

ForksAt(T, h) == {n \in 1 .. Len(T) : T[n].height <= h}

\* The fork of get_ideal_version(height).
IndexAt(T, h) == Max(ForksAt(T, h))

Larger(a, b) == IF a > b THEN a ELSE b

\* get_effective_version
Effective(T, vote) ==
  IF vote > T[Len(T)].version THEN T[Len(T)].version ELSE vote

\* Votes of the window for the version of fork n or of a later one.
Votes(T, window, n) ==
  Cardinality({i \in DOMAIN window :
                 \E m \in n .. Len(T) : window[i] = T[m].version})

Threshold(T, n) == (WindowSize * T[n].threshold + 99) \div 100

\* get_voted_fork_index
VotedIndex(T, window, h, current) ==
  LET voted == {n \in ForksAt(T, h) : Votes(T, window, n) >= Threshold(T, n)}
  IN IF voted = {} THEN current ELSE Max(voted)

Raised(T, window, h, current) ==
  Larger(current, VotedIndex(T, window, h, current))

\* do_check
Passes(T, b, n) == b.version = T[n].version /\ b.vote >= T[n].version

\* The window of a chain: the effective votes of its last blocks.
Window(T, c) ==
  LET first == IF Len(c) > WindowSize THEN Len(c) - WindowSize ELSE 0
  IN [i \in 1 .. Len(c) - first |-> Effective(T, c[first + i].vote)]

\* Mutant: the oldest vote never goes.
Slide_Grows(window, v) == Append(window, v)

Slide(window, v) ==
  Append(IF Len(window) >= WindowSize THEN Tail(window) ELSE window, v)

-----------------------------------------------------------------------------
(* What the object does when the chain changes *)

\* The block is stored with its version, its vote enters the window, and
\* forks are looked up for height next.
AddAs(b, vote, next) ==
  /\ Height < MaxHeight
  /\ Passes(heights, b, index)
  /\ chain' = Append(chain, b)
  /\ stored' = [stored EXCEPT ![Height] = heights[index].version]
  /\ versions' = Slide(versions, vote)
  /\ index' = Raised(heights, versions', next, index)
  /\ tainted' = (tainted \/ aborted)

\* Mutants: forks are looked up for the added block, not for the next; votes
\* for unknown versions count.
Add_VotesAtHeight(b) == AddAs(b, Effective(heights, b.vote), Height)
Add_RawVote(b) == AddAs(b, b.vote, Height + 1)

\* handle_block_to_main_chain, BlockchainDB::add_block and HardFork::add
Add(b) == AddAs(b, Effective(heights, b.vote), Height + 1)

\* Mutant: the version in force does not go back.
Pop_KeepsIndex ==
  /\ Height > 1
  /\ chain' = SubSeq(chain, 1, Height - 1)
  /\ versions' = <<stored[Height - 1]>>
                   \o SubSeq(versions, 1, Len(versions) - 1)
  /\ aborted' = FALSE /\ exact' = FALSE
  /\ UNCHANGED <<stored, tainted, index>>

\* pop_block_from_blockchain and on_block_popped: the newest vote goes, and
\* the version of the popped block comes in at the other end.
Pop ==
  /\ Height > 1
  /\ chain' = SubSeq(chain, 1, Height - 1)
  /\ versions' = <<stored[Height - 1]>>
                   \o SubSeq(versions, 1, Len(versions) - 1)
  /\ index' = IndexAt(heights, Height - 1)
  /\ aborted' = FALSE /\ exact' = FALSE
  /\ UNCHANGED <<stored, tainted>>

\* The fork index that reorganize_from_block_height goes down to.
Lowered(T, current, version) ==
  Max({n \in 1 .. current : n = 1 \/ T[n].version <= version})

\* Its state after the rescan up to the last block kept, chain[h].
RescannedTo(T, c, s, h, current) ==
  LET window == Window(T, SubSeq(c, 1, h))
      start == IF h = 1 THEN 1 ELSE s[h - 1]
  IN [window |-> window,
      index |-> Raised(T, window, h, Lowered(T, current, start))]

\* reorganize_from_chain_height(h): the blocks above are added again.
Reorganized(h) ==
  LET after[k \in h .. Height] ==
        IF k = h THEN RescannedTo(heights, chain, stored, h, index)
        ELSE LET m == after[k - 1]
                 w == Slide(m.window, Effective(heights, chain[k].vote))
             IN IF Passes(heights, chain[k], m.index)
                THEN [window |-> w, index |-> Raised(heights, w, k, m.index)]
                ELSE m
  IN after[Height]

\* The versions it writes are those of the blocks, which are there.
Reorganize(h) ==
  /\ versions' = Reorganized(h).window
  /\ index' = Reorganized(h).index
  /\ aborted' = FALSE /\ exact' = TRUE
  /\ UNCHANGED <<db, tainted>>

-----------------------------------------------------------------------------
(* The chain *)

Idle == phase = "none"

AddBlock(b) ==
  /\ Idle /\ Add(b)
  /\ UNCHANGED <<heights, saved, switch, aborted, exact>>

PopBlock == Idle /\ Pop /\ UNCHANGED <<heights, saved, switch>>

\* switch_to_alternative_blockchain
BeginSwitch(h) ==
  /\ Idle /\ h \in 1 .. Height - 1
  /\ split' = h /\ phase' = "popping" /\ original' = <<>>
  /\ UNCHANGED <<heights, db, saved, versions, index, aborted, tainted, exact>>

PopForSwitch ==
  /\ phase \in {"popping", "undoing"} /\ Height > split
  /\ Pop
  /\ original' = IF phase = "popping" THEN <<chain[Height]>> \o original
                 ELSE original
  /\ UNCHANGED <<heights, saved, split, phase>>

AddForSwitch(b) ==
  /\ phase = "adding" \/ (phase = "popping" /\ Height = split)
  /\ Add(b)
  /\ phase' = "adding"
  /\ UNCHANGED <<heights, saved, split, original, aborted, exact>>

\* The next block of the other chain fails: rollback_blockchain_switching.
FailSwitch ==
  /\ phase = "adding" \/ (phase = "popping" /\ Height = split)
  /\ phase' = "undoing"
  /\ UNCHANGED <<heights, db, saved, versions, index, split, original,
                 aborted, tainted, exact>>

ReorganizeForRollback ==
  /\ phase = "undoing" /\ Height = split
  /\ Reorganize(split)
  /\ phase' = "restoring"
  /\ UNCHANGED <<heights, saved, split, original>>

Lost == Len(original) - (Height - split)

RestoreBlock ==
  /\ phase = "restoring" /\ Lost > 0
  /\ Add(original[Height - split + 1])
  /\ UNCHANGED <<heights, saved, switch, aborted, exact>>

EndSwitch ==
  /\ phase = "adding" \/ (phase = "restoring" /\ Lost = 0)
  /\ Reorganize(split)
  /\ phase' = "none" /\ split' = 0 /\ original' = <<>>
  /\ UNCHANGED <<heights, saved>>

-----------------------------------------------------------------------------
(* Batches and processes *)

Commit ==
  /\ Idle
  /\ saved' = [chain |-> chain, stored |-> stored]
  /\ UNCHANGED <<heights, db, versions, index, switch, aborted, tainted, exact>>

\* cleanup_handle_incoming_blocks with batch_abort: the tables go back, the
\* object stays as it is.
AbortBatch ==
  /\ Idle /\ saved.chain # chain
  /\ chain' = saved.chain /\ stored' = saved.stored
  /\ aborted' = TRUE /\ exact' = FALSE
  /\ UNCHANGED <<heights, saved, versions, index, switch, tainted>>

\* HardFork::init on a chain: the first fork of the last version, or the
\* last fork, raised by height and votes.
Initial(T, c, s) ==
  LET last == {n \in 1 .. Len(T) : T[n].version = s[Len(c) - 1]}
      start == IF last = {} THEN Len(T) ELSE Max(last)
      window == Window(T, c)
  IN [window |-> window, index |-> Raised(T, window, Len(c), start)]

\* Mutant: the initial pops keep every block.
Kept_All(T, c) == Len(c)

\* The blocks that the initial pops of Blockchain::init leave.
Kept(T, c) ==
  Max({n \in 1 .. Len(c) :
         LET ideal == T[IndexAt(T, n - 1)].version
         IN ideal <= 1 \/ c[n].version = ideal})

\* A crash or a stop, and the start of the same release or of another one.
Restart(T) ==
  LET c == saved.chain
      n == Kept(T, c)
      init == Initial(T, c, saved.stored)
      m == IF n = Len(c) THEN init
           ELSE RescannedTo(T, c, saved.stored, n, init.index)
  IN /\ heights' = T
     /\ chain' = SubSeq(c, 1, n) /\ stored' = saved.stored
     /\ saved' = [saved EXCEPT !.chain = SubSeq(c, 1, n)]
     /\ versions' = m.window /\ index' = m.index
     /\ split' = 0 /\ phase' = "none" /\ original' = <<>>
     /\ aborted' = FALSE /\ exact' = TRUE
     /\ UNCHANGED tainted

Init ==
  /\ heights \in Tables
  /\ chain = <<Genesis>>
  /\ stored = [h \in 0 .. MaxHeight - 1 |-> 1]
  /\ saved = [chain |-> chain, stored |-> stored]
  /\ versions = <<1>>
  /\ index = Raised(heights, versions, 1, 1)
  /\ split = 0 /\ phase = "none" /\ original = <<>>
  /\ aborted = FALSE /\ tainted = FALSE /\ exact = TRUE

Next ==
  \/ \E b \in Blocks : AddBlock(b) \/ AddForSwitch(b)
  \/ PopBlock \/ PopForSwitch
  \/ \E h \in 1 .. MaxHeight : BeginSwitch(h)
  \/ FailSwitch \/ ReorganizeForRollback \/ RestoreBlock \/ EndSwitch
  \/ Commit \/ AbortBatch
  \/ \E T \in Tables : Restart(T)

Spec == Init /\ [][Next]_vars

-----------------------------------------------------------------------------
(* Properties *)

\* The version in force is the one scheduled for the height of the next block,
\* through pops, switches that fail at any block, restarts and upgrades; after
\* an aborted batch, from the next pop, switch or restart on.  Scheduled means
\* by height: a past time of a fork does not activate it, against the comment at
\* hardforks.cpp:48.
VersionByHeight ==
  ~aborted => index = IndexAt(heights, Height)

\* Unless blocks were added right after an aborted batch, every block of the
\* main chain has the version scheduled for its height, whatever the time of the
\* fork (hardforks.cpp:48 says otherwise).
BlocksInForce ==
  ~tainted =>
    \A h \in 0 .. Height - 1 :
      chain[h + 1].version = heights[IndexAt(heights, h)].version

\* When a switch has failed, every block that it popped passes the version
\* check again: the rollback does not end in its PANIC (blockchain.cpp:1132).
OriginalsFit ==
  ~tainted /\ phase = "restoring" /\ Lost > 0 =>
    Passes(heights, original[Height - split + 1], index)

\* After a start or a switch, and while blocks are only added, the window is
\* the votes of the last blocks of the chain.
WindowExact ==
  ~tainted /\ exact => versions = Window(heights, chain)
=============================================================================
