------------------------------ MODULE BlockQueue ------------------------------
(***************************************************************************)
(* The operations of block_queue (block_queue.cpp) on its state: spans of  *)
(* blocks that connections have reserved or downloaded, by the height of   *)
(* their first block, the hashes that are reserved and those downloaded.   *)
(* Every one is called under the mutex of the queue.                       *)
(*                                                                         *)
(* A block stands for its hash.  A span has the blocks it was filled with, *)
(* or none while it is scheduled, the hashes it was reserved for, and      *)
(* whether its request is older than a timeout.                            *)
(***************************************************************************)
EXTENDS Integers, Sequences, FiniteSets, FiniteSetsExt, SequencesExt, Functions

\* The blocks that are in a set, in their order.
Only(blocks, those) ==
  FoldLeft(LAMBDA kept, b : IF b \in those THEN Append(kept, b) ELSE kept,
           <<>>, blocks)

EmptyQueue == [spans |-> <<>>, requested |-> {}, have |-> <<>>]

Scheduled(owner, n) ==
  [owner |-> owner, n |-> n, blocks |-> <<>>, hashes |-> <<>>, late |-> FALSE]
Filled(span) == span.blocks # <<>>

Starts(Q) == DOMAIN Q.spans
FilledStarts(Q) == {s \in Starts(Q) : Filled(Q.spans[s])}

\* The first span, if it starts at h or below (has_next_span).
HasNextSpan(Q, h) == Starts(Q) # {} /\ Min(Starts(Q)) <= h
NextSpan(Q) == Q.spans[Min(Starts(Q))]

\* get_next_span_if_scheduled
NextScheduled(Q) == Starts(Q) # {} /\ ~Filled(NextSpan(Q))

\* The request of the next span gets old; reset_next_span_time.
SetNextLate(Q, late) == [Q EXCEPT !.spans[Min(Starts(Q))].late = late]

\* get_next_needed_height: scheduled spans count as filled ones do.
NextNeeded(Q, h) ==
  LET covered == UNION {s .. s + Q.spans[s].n - 1 : s \in Starts(Q)}
      limit == Max({h} \cup {n + 1 : n \in covered})
  IN Min({n \in h .. limit : n \notin covered})

-----------------------------------------------------------------------------

\* Mutant: the hashes stay marked as downloaded.
Erase_KeepsHave(Q, gone) ==
  [Q EXCEPT !.spans = Restrict(@, DOMAIN @ \ gone),
            !.requested = @ \ UNION {Range(Q.spans[s].hashes) : s \in gone}]

\* erase_block, of every span that starts in gone
Erase(Q, gone) ==
  LET hashes == UNION {Range(Q.spans[s].hashes) : s \in gone}
  IN [spans |-> Restrict(Q.spans, Starts(Q) \ gone),
      requested |-> Q.requested \ hashes,
      have |-> Restrict(Q.have, DOMAIN Q.have \ hashes)]

FlushSpans(Q, owner, all) ==
  Erase(Q, {s \in Starts(Q) : Q.spans[s].owner = owner
                              /\ (all \/ ~Filled(Q.spans[s]))})

FlushStaleSpans(Q, live) ==
  Erase(Q, {s \in Starts(Q) : Q.spans[s].owner \notin live
                              /\ ~Filled(Q.spans[s])})

RemoveSpans(Q, owner, start) ==
  Erase(Q, {s \in Starts(Q) : Q.spans[s].owner = owner /\ s <= start})

\* insert: a span whose first height is taken is dropped.
Insert(Q, start, span) ==
  [Q EXCEPT !.spans = [s \in Starts(Q) \cup {start} |->
                         IF s \in Starts(Q) THEN @[s] ELSE span]]

\* set_span_hashes; erasing the span drops its former hashes.
SetSpanHashes(Q, start, owner, hashes) ==
  IF start \notin Starts(Q) \/ Q.spans[start].owner # owner THEN Q
  ELSE LET span == [Q.spans[start] EXCEPT !.hashes = hashes]
           R == Insert(Erase(Q, {start}), start, span)
       IN [R EXCEPT !.requested = @ \cup Range(hashes)]

\* add_blocks of a download: a span that starts there gives way, whoever
\* owns it, and its hashes become those of the new one.
AddBlocks(Q, start, blocks, owner) ==
  LET hashes == IF start \in Starts(Q) THEN Q.spans[start].hashes ELSE <<>>
      span == [Scheduled(owner, Len(blocks)) EXCEPT !.blocks = blocks]
      R == Insert(Erase(Q, {start} \cap Starts(Q)), start, span)
      Place(b) == start - 1 + CHOOSE i \in DOMAIN hashes : hashes[i] = b
  IN IF start \notin Starts(Q) THEN R
     ELSE SetSpanHashes(
            [R EXCEPT !.requested = @ \cup Range(hashes),
                      !.have = [b \in DOMAIN @ \cup Range(hashes) |->
                                  IF b \in DOMAIN @ THEN @[b] ELSE Place(b)]],
            start, owner, hashes)

\* reserve_span: the hashes, which end at height last, from the first one
\* that nobody has reserved.  What it returns, and the queue after it.
ReserveSpan(Q, last, size, owner, hashes) ==
  LET free == {i \in DOMAIN hashes : hashes[i] \notin Q.requested}
      first == Min(free)
      n == Min({size, Len(hashes) - first + 1})
      start == last - Len(hashes) + first
      R == Insert(Q, start, Scheduled(owner, n))
  IN IF free = {} THEN [start |-> 0, n |-> 0, queue |-> Q]
     ELSE [start |-> start, n |-> n,
           queue |-> SetSpanHashes(R, start, owner,
                                   SubSeq(hashes, first, first + n - 1))]
=============================================================================
