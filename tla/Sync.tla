--------------------------------- MODULE Sync ---------------------------------
(***************************************************************************)
(* How a node downloads the chain from its peers (the protocol handler,    *)
(* cryptonote_protocol_handler.inl, and its block queue).                  *)
(*                                                                         *)
(* Every connection asks its peer for the hashes that follow what it has,  *)
(* reserves a span of them in the queue and asks for those blocks.  The    *)
(* connection that gets blocks, or is woken, takes the sync lock if it can *)
(* and moves the filled spans from the queue to the chain; one that cannot *)
(* goes on asking, or stands by while the queue is full.  Answers are late *)
(* or never come, and connections close at any moment.                     *)
(*                                                                         *)
(* A step is what a handler does between two points where the others can   *)
(* interfere with it: the pass over a chain entry is two steps, the loop   *)
(* that adds spans is one before and one after every span, and its end,    *)
(* the decision what to ask for, the release of the lock and the request   *)
(* that follows are four.  A handler that finds the lock taken has one     *)
(* step for that and one for the request.  Two moments stay within a step: *)
(* that between add_blocks (1280) and the try at the lock (1348), in which *)
(* others can only see the span sooner; and that in which a handler in     *)
(* request_missing_objects has the lock to look at the next span (2103,    *)
(* 2331).  A try of another handler that fails just then is left out: it   *)
(* goes back to download, as one that fails while spans are added does.    *)
(*                                                                         *)
(* Peers keep the chain they had when they connected.  Pruned peers, block *)
(* weights and the checks that only malformed messages fail are left out.  *)
(***************************************************************************)
EXTENDS BlockQueue

CONSTANTS Peers,
          ChainOf,    \* the chain of every peer: at h + 1 the block of height h
          Invalid,    \* blocks that do not verify
          Prompt,     \* peers that stay, and answer before any timeout
          Outgoing,   \* peers that this node has connected to
          MaxIds,     \* BLOCKS_IDS_SYNCHRONIZING_DEFAULT_COUNT
          SpanSize,   \* m_bss: blocks of a span
          SpanLimit,  \* m_span_limit: filled spans in the queue
          None

Blocks == UNION {Range(ChainOf[p]) : p \in Peers}
Genesis == CHOOSE b \in Blocks : \A p \in Peers : ChainOf[p][1] = b

ASSUME PeersAssumption ==
  /\ IsFiniteSet(Peers) /\ Peers # {}
  /\ Prompt \subseteq Peers /\ Outgoing \subseteq Peers
  /\ \A p \in Peers : ChainOf[p] \in Seq(Blocks) /\ Len(ChainOf[p]) > 1
  /\ \A p, q \in Peers : ChainOf[p][1] = ChainOf[q][1]
  /\ {MaxIds, SpanSize, SpanLimit} \subseteq Nat \ {0} /\ MaxIds > 1

\* A block has one height and one parent, the genesis block is valid, what
\* follows an invalid block is invalid, and there is one chain of valid blocks.
ASSUME BlocksAssumption ==
  /\ None \notin Blocks /\ None \notin Peers
  /\ \A p, q \in Peers : \A i \in DOMAIN ChainOf[p], j \in DOMAIN ChainOf[q] :
       ChainOf[p][i] = ChainOf[q][j] =>
         i = j /\ (i > 1 => ChainOf[p][i - 1] = ChainOf[q][j - 1])
  /\ \A p \in Peers : ChainOf[p][1] \notin Invalid
  /\ \A p \in Peers : \A i \in 2 .. Len(ChainOf[p]) :
       ChainOf[p][i - 1] \in Invalid => ChainOf[p][i] \in Invalid
  /\ \A p, q \in Peers : \A i \in DOMAIN ChainOf[p] \cap DOMAIN ChainOf[q] :
       {ChainOf[p][i], ChainOf[q][i]} \cap Invalid = {}
         => ChainOf[p][i] = ChainOf[q][i]

VARIABLES
  chain,    \* blocks of the main chain, from the genesis block on
  invalid,  \* m_invalid_blocks
  target,   \* m_target_blockchain_height
  queue,    \* m_block_queue
  status,   \* of every connection: before, open, closing or closed
  conn,     \* its context
  owed,     \* requests that its peer has not answered, in order
  adding,   \* the connection whose handler holds m_sync_lock, or None
  taken     \* the span that it has just added to the chain

vars == <<chain, invalid, target, queue, status, conn, owed, adding, taken>>

Height == Len(chain)
Remote(p) == Len(ChainOf[p])       \* m_remote_blockchain_height
Heights ==
  [b \in Blocks |->
     CHOOSE h \in 0 .. Max({Remote(p) : p \in Peers}) - 1 :
       \E p \in Peers : h < Remote(p) /\ ChainOf[p][h + 1] = b]
HeightOf(b) == Heights[b]
Parents ==
  [b \in Blocks \ {Genesis} |->
     LET p == CHOOSE p \in Peers : b \in Range(ChainOf[p])
     IN ChainOf[p][Heights[b]]]
Parent(b) == Parents[b]
Live == {p \in Peers : status[p] \in {"open", "closing"}}

\* Past the loop, which it has left or never entered, a handler has to decide what
\* to do, or goes back to download, to force the next span or not, or returns.
Steps == {"none", "left", "force", "resume", "returns"}

Contexts ==
  [state : {"before_handshake", "synchronizing", "standby", "normal"},
   expect : {"nothing", "chain", "objects"},  \* m_expect_response
   needed : Seq(Blocks),       \* m_needed_objects
   requested : SUBSET Blocks,  \* m_requested_objects
   first : Nat,                \* m_expected_heights_start
   expected : Seq(Blocks),     \* m_expected_heights
   last : Nat,                 \* m_last_response_height
   known : Blocks \cup {None}, \* m_last_known_hash
   any : BOOLEAN,              \* m_num_requested > 0
   score : -1 .. 0,            \* m_score
   late : BOOLEAN,             \* the request is older than its timeout
   called : BOOLEAN,           \* a callback is due
   read : Nat,                 \* hashes of a chain entry looked at so far
   unknown : BOOLEAN,          \* expect_unknown, after those
   step : Steps]               \* where its handler is in try_add_next_blocks

Requests == [kind : {"chain", "objects"}, from : Nat, blocks : Seq(Blocks)]

NewContext ==
  [state |-> "before_handshake", expect |-> "nothing", needed |-> <<>>,
   requested |-> {}, first |-> 0, expected |-> <<>>, last |-> 0,
   known |-> None, any |-> FALSE, score |-> 0, late |-> FALSE,
   called |-> FALSE, read |-> 0, unknown |-> FALSE, step |-> "none"]

Spans == [owner : Peers \cup {None}, n : Nat \ {0}, blocks : Seq(Blocks),
          hashes : Seq(Blocks), late : BOOLEAN]

TypeOK ==
  /\ chain \in Seq(Blocks) /\ Height > 0
  /\ invalid \subseteq Blocks
  /\ target \in Nat
  /\ Starts(queue) \subseteq Nat /\ Range(queue.spans) \subseteq Spans
  /\ queue.requested \subseteq Blocks
  /\ DOMAIN queue.have \subseteq Blocks /\ Range(queue.have) \subseteq Nat
  /\ status \in [Peers -> {"before", "open", "closing", "closed"}]
  /\ \A p \in Peers : conn[p] \in Contexts /\ owed[p] \in Seq(Requests)
  /\ adding \in Peers \cup {None}
  /\ taken = <<>> \/ taken \in (Peers \cup {None}) \X Nat

Init ==
  /\ chain = <<Genesis>> /\ invalid = {} /\ target = 0
  /\ queue = EmptyQueue
  /\ status = [p \in Peers |-> "before"]
  /\ conn = [p \in Peers |-> NewContext]
  /\ owed = [p \in Peers |-> <<>>]
  /\ adding = None /\ taken = <<>>

HaveBlock(b) == b \in Range(chain) \cup invalid

-----------------------------------------------------------------------------
(* request_missing_objects                                                 *)
(*                                                                         *)
(* A handler works on m: the context c of its connection, the queue, the   *)
(* requests that its peer has not answered, and whether the function       *)
(* returns false, for which its caller drops the connection.               *)

Handler(p) ==
  [c |-> conn[p], queue |-> queue, owed |-> owed[p], fails |-> FALSE]

Failure(m) == [m EXCEPT !.fails = TRUE]
SetNormal(m) ==
  [m EXCEPT !.c.state = "normal", !.c.needed = <<>>, !.c.requested = {},
            !.c.first = 0, !.c.expected = <<>>]
SetStandby(m, call) ==
  [m EXCEPT !.c.state = "standby", !.c.called = @ \/ call]

Ask(m, kind, from, blocks) ==
  [m EXCEPT !.c.expect = kind, !.c.late = FALSE,
            !.c.any = @ \/ kind = "objects",
            !.owed = Append(@, [kind |-> kind, from |-> from,
                                blocks |-> blocks])]

\* What the peer starts its answer from: the first block that it has, of the
\* last one known from it and those of our chain from the top down.
StartFrom(p, known) ==
  IF known \in Range(ChainOf[p]) THEN HeightOf(known)
  ELSE Max({h \in 0 .. Remote(p) - 1 : ChainOf[p][h + 1] \in Range(chain)})

\* skip_unneeded_hashes
SkipUnneeded(m, checkQueue) ==
  LET n == Len(m.c.needed)
      Unneeded(b) == HaveBlock(b) \/ (checkQueue /\ b \in DOMAIN m.queue.have)
      k == Max({i \in 0 .. n : \A j \in 1 .. i : Unneeded(m.c.needed[j])})
  IN [m EXCEPT !.c.needed = SubSeq(@, k + 1, n),
               !.c.known = IF k = n /\ n > 0 THEN m.c.needed[n] ELSE @]

\* All that was needed has been skipped, and nothing had been requested.
NothingLeft(before, after) ==
  before.c.needed # <<>> /\ after.c.needed = <<>> /\ ~after.c.any

NoneNeeded(p, m) ==
  IF Remote(p) > NextNeeded(m.queue, Height) THEN Failure(m) ELSE SetNormal(m)

\* From its label skip on.
AskChain(p, m0, lockFree) ==
  LET m == [m0 EXCEPT !.c.needed = <<>>]
  IN IF Height < target /\ lockFree /\ FilledStarts(m.queue) # {}
     THEN SetStandby(m, TRUE)
     ELSE IF m.c.last < Remote(p) - 1
     THEN Ask(m, "chain", StartFrom(p, m.c.known), <<>>)
     ELSE IF m.c.last = Remote(p) - 1 /\ m.c.requested = {}
     THEN SetNormal(m)
     ELSE Failure(m)

\* The first span, once more, if nobody has filled it yet.  Its time starts
\* anew when it is forced, and what was needed stays.
AskNext(m, forced) ==
  LET hashes == NextSpan(m.queue).hashes
      others == Only(m.c.needed, Blocks \ Range(hashes))
  IN Ask([m EXCEPT !.queue = IF forced THEN SetNextLate(@, FALSE) ELSE @,
                   !.c.requested = @ \cup Range(hashes),
                   !.c.needed = IF forced THEN @ ELSE others],
         "objects", 0, hashes)

\* The span that it could reserve.
AskReserved(m, span) ==
  LET skip == span.start - (m.c.last - Len(m.c.needed) + 1)
      blocks == SubSeq(m.c.needed, skip + 1, skip + span.n)
  IN Ask([m EXCEPT !.queue = span.queue,
                   !.c.requested = @ \cup Range(blocks),
                   !.c.needed = SubSeq(@, skip + span.n + 1, Len(@))],
         "objects", 0, blocks)

AskObjects(p, m0, force, lockFree) ==
  LET m == SkipUnneeded(m0, FALSE)
      span == ReserveSpan(m.queue, m.c.last, SpanSize, p, m.c.needed)
  IN IF m0.c.needed = <<>> /\ ~force THEN AskChain(p, m0, lockFree)
     ELSE IF force /\ NextScheduled(m0.queue) THEN AskNext(m0, TRUE)
     ELSE IF NothingLeft(m0, m) THEN NoneNeeded(p, m)
     ELSE IF span.n > 0 THEN AskReserved(m, span)
     ELSE IF ~force /\ NextScheduled(m.queue) THEN AskNext(m, FALSE)
     ELSE IF NextNeeded(m.queue, Height) >= target THEN SetNormal(m)
     ELSE Failure(m)

\* should_download_next_span; slow: the span is not late yet, but takes longer
\* than this connection would.
DownloadNext(p, Q, slow) ==
  /\ Remote(p) > Height
  /\ HasNextSpan(Q, Height) =>
       ~Filled(NextSpan(Q)) /\ (slow \/ NextSpan(Q).late)

\* The part for which no span is forced: go on, or stand by.
Resume(p, m0, lockFree, slow, wedged) ==
  LET m == SkipUnneeded(m0, TRUE)
      needed == NextNeeded(m.queue, Height)
      next == IF m.c.needed = <<>> THEN needed
              ELSE m.c.last - Len(m.c.needed) + 1
      first == needed < Max({next, Height + 1})
      proceed == IF needed = Height THEN first
                 ELSE Cardinality(FilledStarts(m.queue)) < SpanLimit
      active == [m EXCEPT !.c.state = "synchronizing"]
  IN IF NothingLeft(m0, m) THEN NoneNeeded(p, m)
     ELSE IF first /\ DownloadNext(p, m.queue, slow)
     THEN AskObjects(p, active, TRUE, lockFree)
     ELSE IF proceed THEN AskObjects(p, active, FALSE, lockFree)
     ELSE IF lockFree /\ HasNextSpan(m.queue, Height)
             /\ Filled(NextSpan(m.queue))
     THEN SetStandby(m, TRUE)
     ELSE IF wedged /\ lockFree THEN Failure(m)
     ELSE SetStandby(m, FALSE)

RequestMissing(p, m0, force, lockFree, slow, wedged) ==
  LET m == [m0 EXCEPT !.queue = FlushStaleSpans(@, Live)]
  IN IF force THEN AskObjects(p, m, TRUE, lockFree)
     ELSE Resume(p, m, lockFree, slow, wedged)

-----------------------------------------------------------------------------
(* Steps that handlers are made of *)

Write(p, m) ==
  /\ conn' = [conn EXCEPT ![p] = m.c]
  /\ queue' = m.queue
  /\ owed' = [owed EXCEPT ![p] = m.owed]

\* drop_connection: the connection will close, its scheduled spans go.
Drop(p, m) ==
  /\ Write(p, [m EXCEPT !.queue = FlushSpans(@, p, FALSE)])
  /\ status' = [status EXCEPT ![p] = "closing"]

\* The connection that has reserved the next span is slow only if its peer
\* does not answer promptly.
MaySlow(Q) == Starts(Q) # {} /\ NextSpan(Q).owner \notin Prompt

\* A handler calls request_missing_objects at its end, when the sync lock is free
\* or not.  Additions are found to be wedged on outgoing connections only, when
\* there have been some.  The handler of a chain entry ends with the target and
\* m_num_requested, if all went well.
Request(p, m, force, entry) ==
  \E slow, wedged \in BOOLEAN :
    LET out == RequestMissing(p, m, force, adding = None, slow, wedged)
    IN /\ slow => MaySlow(m.queue)
       /\ wedged => p \in Outgoing /\ Height > 1
       /\ IF out.fails THEN Drop(p, out) /\ UNCHANGED target
          ELSE /\ Write(p, [out EXCEPT !.c.any = @ /\ ~entry])
               /\ target' = IF entry THEN Max({target, Remote(p)}) ELSE target
               /\ UNCHANGED status

\* Mutant: a connection that cannot take the lock is done.
TryAdd_GivesUp(p, m) ==
  /\ Write(p, m)
  /\ adding' = IF adding = None THEN p ELSE adding

\* try_add_next_blocks: take the sync lock, or go back to download.
TryAdd(p, m) ==
  IF adding = None THEN adding' = p /\ Write(p, m)
  ELSE Write(p, [m EXCEPT !.c.step = "resume"]) /\ UNCHANGED adding

\* Handlers of a connection run one at a time, on its strand.
Free(p) == adding # p /\ conn[p].read = 0 /\ conn[p].step = "none"

-----------------------------------------------------------------------------
(* Connections and timers *)

core == <<chain, invalid>>
loop == <<adding, taken>>

\* process_payload_sync_data, at the handshake and every minute after it.
SyncData(p) ==
  /\ status[p] \in {"before", "open"} /\ Free(p)
  /\ conn[p].state # "synchronizing"
  /\ status' = [status EXCEPT ![p] = "open"]
  /\ IF HaveBlock(ChainOf[p][Remote(p)])
     THEN Write(p, SetNormal(Handler(p))) /\ UNCHANGED target
     ELSE /\ Write(p, [Handler(p) EXCEPT !.c.state = "synchronizing",
                                         !.c.called = TRUE, !.c.any = FALSE])
          /\ target' = IF Remote(p) > (IF target = 0 THEN Height ELSE target)
                       THEN Remote(p) ELSE target
  /\ UNCHANGED <<core, loop>>

\* The peer goes away.
Disconnect(p) ==
  /\ status[p] = "open" /\ p \notin Prompt
  /\ status' = [status EXCEPT ![p] = "closing"]
  /\ UNCHANGED <<core, target, queue, conn, owed, loop>>

\* on_connection_close, when no handler of the connection runs any more.
Close(p) ==
  /\ status[p] = "closing" /\ Free(p) /\ ~conn[p].called
  /\ status' = [status EXCEPT ![p] = "closed"]
  /\ target' = Min({target, Max({0} \cup {Remote(q) : q \in Live \ {p}})})
  /\ queue' = FlushSpans(queue, p, FALSE)
  /\ conn' = [conn EXCEPT ![p] = NewContext]
  /\ owed' = [owed EXCEPT ![p] = <<>>]
  /\ UNCHANGED <<core, loop>>

\* The node connects to the peer again, under a new connection id: what the
\* old one had downloaded is nobody's now.
Reconnect(p) ==
  /\ status[p] = "closed"
  /\ status' = [status EXCEPT ![p] = "before"]
  /\ queue' = [queue EXCEPT !.spans =
                 [s \in Starts(queue) |->
                    IF @[s].owner = p THEN [@[s] EXCEPT !.owner = None]
                    ELSE @[s]]]
  /\ taken' = IF taken # <<>> /\ taken[1] = p THEN <<None, taken[2]>> ELSE taken
  /\ UNCHANGED <<core, target, conn, owed, adding>>

\* kick_idle_peers: the peer has not answered in time.
KickIdle(p) ==
  /\ status[p] = "open" /\ p \notin Prompt
  /\ conn[p].state = "synchronizing" /\ conn[p].expect # "nothing"
  /\ ~conn[p].late
  /\ conn' = [conn EXCEPT ![p].late = TRUE, ![p].called = TRUE]
  /\ UNCHANGED <<core, target, queue, status, owed, loop>>

\* The next span takes REQUEST_NEXT_SCHEDULED_SPAN_THRESHOLD to arrive.
SpanDue == NextScheduled(queue) /\ MaySlow(queue) /\ ~NextSpan(queue).late

SpanLate ==
  /\ SpanDue
  /\ queue' = SetNextLate(queue, TRUE)
  /\ UNCHANGED <<core, target, status, conn, owed, loop>>

CheckStandby(p) ==
  /\ status[p] = "open" /\ conn[p].state = "standby" /\ ~conn[p].called
  /\ conn' = [conn EXCEPT ![p].called = TRUE]
  /\ UNCHANGED <<core, target, queue, status, owed, loop>>

\* Mutant: an idle peer pays twice.
Kicked_Twice(m) ==
  LET c == [m.c EXCEPT !.score = @ - 2, !.expect = "nothing", !.late = FALSE,
                       !.requested = {}, !.state = "standby"]
  IN [m EXCEPT !.c = c]

Kicked(m) ==
  LET c == [m.c EXCEPT !.score = @ - 1, !.expect = "nothing", !.late = FALSE,
                       !.requested = {}, !.state = "standby"]
  IN [m EXCEPT !.c = c]

\* on_callback: an idle peer stands by once and is dropped the second time;
\* then the connection asks for a chain, or tries to add, or does nothing.
Callback(p) ==
  LET m0 == [Handler(p) EXCEPT !.c.called = FALSE]
      m == IF m0.c.late THEN Kicked(m0) ELSE m0
      asks == m.c.state = "synchronizing" /\ m.c.expect = "nothing"
      stands == m.c.state = "standby"
  IN /\ p \in Live /\ Free(p) /\ conn[p].called
     /\ IF m0.c.late /\ m0.c.score < 0 THEN Drop(p, m0) /\ UNCHANGED <<target, adding>>
        ELSE \/ /\ asks
                /\ Write(p, Ask([m EXCEPT !.c.needed = <<>>], "chain",
                                StartFrom(p, None), <<>>))
                /\ UNCHANGED <<target, status, adding>>
             \/ /\ stands
                /\ TryAdd(p, [m EXCEPT !.c.state = "synchronizing"])
                /\ UNCHANGED <<target, status>>
             \/ /\ ~asks /\ ~stands
                /\ Write(p, m) /\ UNCHANGED <<target, status, adding>>
     /\ UNCHANGED <<core, taken>>

-----------------------------------------------------------------------------
(* Answers *)

Answered(p, kind) ==
  /\ status[p] = "open" /\ Free(p)
  /\ owed[p] # <<>> /\ Head(owed[p]).kind = kind

\* The handler once it has taken the answer.
Answer(p) ==
  [Handler(p) EXCEPT !.c.expect = "nothing", !.c.late = FALSE, !.owed = Tail(@)]

\* What is wrong with hash i of a chain entry, when one before it was
\* unknown or none was.
Unacceptable(c, i, unknown) ==
  LET b == c.expected[i]
  IN IF i = 1
     THEN ~HaveBlock(b) /\ (b \in DOMAIN queue.have => queue.have[b] # c.first)
     ELSE b \in invalid \/ (b \in Range(chain) /\ unknown)

Unknown(c, n) == \E i \in c.read + 1 .. n : ~HaveBlock(c.expected[i])

\* The hashes up to n pass, which are looked at without a break.
Passes(c, n) ==
  \A i \in c.read + 1 .. n : ~Unacceptable(c, i, c.unknown \/ Unknown(c, i - 1))

\* handle_response_chain_entry looks hashes up in the chain without holding
\* its lock: some of them now, the others in FinishEntry.
BeginEntry(p) ==
  LET from == Head(owed[p]).from
      ids == SubSeq(ChainOf[p], from + 1, Min({from + MaxIds, Remote(p)}))
      m == [Answer(p) EXCEPT
              !.c.first = from, !.c.last = from + Len(ids) - 1,
              !.c.expected = ids, !.c.needed = ids]
  IN /\ Answered(p, "chain")
     /\ IF conn[p].expect # "chain" THEN Drop(p, Answer(p))
        ELSE \E n \in 1 .. Len(ids) :
               IF ~Passes(m.c, n) THEN Drop(p, m)
               ELSE /\ Write(p, [m EXCEPT !.c.read = n,
                                          !.c.unknown = Unknown(m.c, n)])
                    /\ UNCHANGED status
     /\ UNCHANGED <<core, target, loop>>

FinishEntry(p) ==
  LET c == conn[p]
      m == [Handler(p) EXCEPT !.c.read = 0, !.c.unknown = FALSE]
  IN /\ c.read > 0
     /\ IF Passes(c, Len(c.expected))
        THEN Request(p, m, FALSE, TRUE)
        ELSE Drop(p, m) /\ UNCHANGED target
     /\ UNCHANGED <<core, loop>>

\* get_expected_hash
ExpectedHash(c, h) ==
  IF h \in c.first .. c.first + Len(c.expected) - 1
  THEN c.expected[h - c.first + 1] ELSE None

\* The blocks are those requested, and the chain entry announced them.
Acceptable(c, blocks) ==
  /\ blocks # <<>> /\ Range(blocks) = c.requested
  /\ \A b \in Range(blocks) : ExpectedHash(c, HeightOf(b)) = b
  /\ ExpectedHash(c, HeightOf(blocks[1]) - 1) = Parent(blocks[1])

\* handle_response_get_objects
ReceiveObjects(p) ==
  LET blocks == Only(Head(owed[p]).blocks, Range(ChainOf[p]))
      start == HeightOf(blocks[1])
  IN /\ Answered(p, "objects")
     /\ IF conn[p].expect = "objects" /\ Acceptable(conn[p], blocks)
        THEN /\ TryAdd(p, [Answer(p) EXCEPT
                             !.queue = AddBlocks(@, start, blocks, p),
                             !.c.requested = {},
                             !.c.known = blocks[Len(blocks)]])
             /\ UNCHANGED <<target, status>>
        ELSE Drop(p, Answer(p)) /\ UNCHANGED <<target, adding>>
     /\ UNCHANGED <<core, taken>>

-----------------------------------------------------------------------------
(* The loop of try_add_next_blocks, by the connection p with the sync lock *)

Looping(p) == adding = p /\ taken = <<>> /\ conn[p].step = "none"
Looking(p) == Looping(p) /\ FilledStarts(queue) # {}
FirstFilled == Min(FilledStarts(queue))
NextFilled == queue.spans[FirstFilled]
LastKnown == HaveBlock(NextFilled.blocks[NextFilled.n])
FirstParent == Parent(NextFilled.blocks[1])

\* Blocks of the next filled span that are new, those of them that verify, and
\* the first that does not.
Fresh == {b \in Blocks : ~HaveBlock(b)}
NewBlocks == Only(NextFilled.blocks, Fresh)
GoodBlocks == Only(NextFilled.blocks, Fresh \ Invalid)
BadBlock == Head(Only(NextFilled.blocks, Fresh \cap Invalid))
AllVerify == Range(NextFilled.blocks) \cap Fresh \cap Invalid = {}

SkipOld(p) ==
  /\ Looking(p) /\ LastKnown
  /\ queue' = RemoveSpans(queue, NextFilled.owner, FirstFilled)
  /\ UNCHANGED <<core, target, status, conn, owed, loop>>

\* The parent of the span is neither known nor requested: the connection goes
\* back to download, from the start if this is the span needed now.
FindOrphan(p) ==
  /\ Looking(p) /\ ~LastKnown
  /\ ~HaveBlock(FirstParent) /\ FirstParent \notin queue.requested
  /\ LET m == Handler(p)
         needed == [m EXCEPT !.queue = RemoveSpans(@, NextFilled.owner,
                                                   FirstFilled),
                             !.c.needed = <<>>, !.c.last = 0]
         back == IF FirstFilled > Height THEN m ELSE needed
     IN Write(p, [back EXCEPT !.c.step = "resume"])
  /\ UNCHANGED <<core, target, status, loop>>

\* Mutant: a span is added before its parent has arrived.
AddSpan_AnyParent(p) ==
  /\ Looking(p) /\ ~LastKnown
  /\ AllVerify
  /\ chain' = chain \o NewBlocks
  /\ taken' = <<NextFilled.owner, FirstFilled>>
  /\ UNCHANGED <<invalid, target, queue, status, conn, owed, adding>>

\* prepare_handle_incoming_blocks, handle_incoming_block of every block and
\* cleanup_handle_incoming_blocks
AddSpan(p) ==
  /\ Looking(p) /\ ~LastKnown /\ HaveBlock(FirstParent)
  /\ AllVerify
  /\ chain' = chain \o NewBlocks
  /\ taken' = <<NextFilled.owner, FirstFilled>>
  /\ UNCHANGED <<invalid, target, queue, status, conn, owed, adding>>

FinishSpan(p) ==
  /\ adding = p /\ taken # <<>>
  /\ queue' = RemoveSpans(queue, taken[1], taken[2])
  /\ taken' = <<>>
  /\ UNCHANGED <<core, target, status, conn, owed, adding>>

\* A block fails, or has a parent that failed: the peer that sent the span is
\* dropped with all its spans, and the handler of p ends there.
FailSpan(p) ==
  LET owner == NextFilled.owner
  IN /\ Looking(p) /\ ~LastKnown /\ HaveBlock(FirstParent)
     /\ ~AllVerify
     /\ chain' = chain \o GoodBlocks
     /\ invalid' = IF Parent(BadBlock) \in invalid THEN invalid
                   ELSE invalid \cup {BadBlock}
     /\ queue' = RemoveSpans(IF owner \in Live
                             THEN FlushSpans(queue, owner, TRUE) ELSE queue,
                             owner, FirstFilled)
     /\ status' = [q \in Peers |-> IF q = owner /\ q \in Live THEN "closing"
                                   ELSE status[q]]
     /\ conn' = [conn EXCEPT ![p].step = "returns"]
     /\ UNCHANGED <<target, owed, loop>>

\* No filled span, or its parent is still to come: the loop ends.
LeaveLoop(p) ==
  /\ Looping(p)
  /\ FilledStarts(queue) # {} =>
       /\ ~LastKnown /\ ~HaveBlock(FirstParent)
       /\ FirstParent \in queue.requested
  /\ conn' = [conn EXCEPT ![p].step = "left"]
  /\ UNCHANGED <<core, target, queue, status, owed, loop>>

\* The next span is forced, if nobody else gets it.
Decide(p) ==
  /\ conn[p].step = "left"
  /\ conn' = [conn EXCEPT ![p].step =
                IF DownloadNext(p, queue, FALSE) THEN "force" ELSE "resume"]
  /\ UNCHANGED <<core, target, queue, status, owed, loop>>

\* Mutant: once the lock is released, nothing else is asked for.
Release_Rests(p) ==
  /\ adding = p /\ conn[p].step \in {"force", "resume", "returns"}
  /\ adding' = None
  /\ conn' = [conn EXCEPT ![p].step = "none"]
  /\ UNCHANGED <<core, target, queue, status, owed, taken>>

Release(p) ==
  /\ adding = p /\ conn[p].step \in {"force", "resume", "returns"}
  /\ adding' = None
  /\ conn' = [conn EXCEPT ![p].step = IF @ = "returns" THEN "none" ELSE @]
  /\ UNCHANGED <<core, target, queue, status, owed, taken>>

\* From the label skip of try_add_next_blocks on, without the lock.
BackToDownload(p) ==
  /\ adding # p /\ conn[p].step \in {"force", "resume"}
  /\ Request(p, [Handler(p) EXCEPT !.c.step = "none"], conn[p].step = "force", FALSE)
  /\ UNCHANGED <<core, loop>>

-----------------------------------------------------------------------------

AddingStep(p) ==
  SkipOld(p) \/ FindOrphan(p) \/ AddSpan(p) \/ FinishSpan(p) \/ FailSpan(p)
  \/ LeaveLoop(p) \/ Decide(p) \/ Release(p) \/ BackToDownload(p)

Next ==
  \/ SpanLate
  \/ \E p \in Peers :
       \/ SyncData(p) \/ Disconnect(p) \/ Close(p) \/ Reconnect(p)
       \/ KickIdle(p) \/ CheckStandby(p) \/ Callback(p)
       \/ BeginEntry(p) \/ FinishEntry(p) \/ ReceiveObjects(p)
       \/ AddingStep(p)

Spec == Init /\ [][Next]_vars

\* What happens to a connection sooner or later: handlers that have started
\* go on, callbacks and timers fire, connections are made, and prompt peers
\* answer and are connected to again.  Due says when there is such a step
\* (it stands for ENABLED, which costs TLC too much here).  None changes the
\* context of another connection, which is quick to check and said first.
OwnStep(p) ==
  /\ \A q \in Peers \ {p} : conn'[q] = conn[q]
  /\ \/ AddingStep(p) \/ Callback(p) \/ FinishEntry(p)
     \/ SyncData(p) \/ Close(p) \/ KickIdle(p) \/ CheckStandby(p)
     \/ p \in Prompt /\ (BeginEntry(p) \/ ReceiveObjects(p) \/ Reconnect(p))

Due(p) ==
  \/ ~Free(p)
  \/ status[p] \in {"before", "closing"}
  \/ status[p] = "closed" /\ p \in Prompt
  \/ /\ status[p] = "open"
     /\ \/ conn[p].called \/ conn[p].state # "synchronizing"
        \/ p \in Prompt /\ owed[p] # <<>>
        \/ p \notin Prompt /\ conn[p].expect # "nothing" /\ ~conn[p].late

Fairness ==
  /\ \A p \in Peers : <>[]Due(p) => []<><<OwnStep(p)>>_vars
  /\ WF_vars(SpanLate)

\* From some time on, a peer that does not answer does not come back, and sync
\* data, once a minute, do not come while a callback is due, which runs as soon as
\* a thread has time for it.
Patience ==
  <>[][\A p \in Peers :
         /\ p \notin Prompt => ~Reconnect(p)
         /\ conn[p].called => ~SyncData(p)]_vars

FairSpec == Spec /\ Fairness /\ Patience

-----------------------------------------------------------------------------
(* Properties *)

\* A connection that synchronizes waits for an answer, or a handler or a
\* callback of it is due.  While no block has failed, no connection is
\* forgotten; and never at all, as the comment on the sync lock has it: "Then,
\* we go back to download".
Forgotten(p) ==
  /\ status[p] = "open" /\ conn[p].state = "synchronizing"
  /\ Free(p) /\ ~conn[p].called /\ conn[p].expect = "nothing"

NobodyForgotten == invalid = {} => \A p \in Peers : ~Forgotten(p)
AlwaysBackToDownload == \A p \in Peers : ~Forgotten(p)

\* Spans hold the blocks of their heights, as many as they say.
SpansRight ==
  \A s \in Starts(queue) :
    LET span == queue.spans[s]
    IN /\ \A i \in DOMAIN span.blocks : HeightOf(span.blocks[i]) = s + i - 1
       /\ \A i \in DOMAIN span.hashes : HeightOf(span.hashes[i]) = s + i - 1
       /\ Filled(span) => span.n = Len(span.blocks)
       /\ ~Filled(span) => span.n = Len(span.hashes)

\* No mark outlives its span: a hash that is marked as requested, which nobody
\* else may then reserve, or as downloaded, which is then left out of what is
\* needed, belongs to a span, to a filled one if it is downloaded.
MarksRight ==
  /\ \A b \in queue.requested :
       \E s \in Starts(queue) : b \in Range(queue.spans[s].hashes)
  /\ \A b \in DOMAIN queue.have :
       /\ b \in queue.requested /\ queue.have[b] = HeightOf(b)
       /\ \E s \in FilledStarts(queue) : b \in Range(queue.spans[s].hashes)

\* The queue is right about itself after reservations are replaced, filled,
\* flushed and removed by other connections than their own.
QueueRight == SpansRight /\ MarksRight

\* The blocks of the chain are one after another.
ChainLinked ==
  \A i \in 2 .. Height : Parent(chain[i]) = chain[i - 1]

\* The first filled span can be added.
Addable == FilledStarts(queue) # {} /\ (LastKnown \/ HaveBlock(FirstParent))

\* As many filled spans as there may be, and none that can be added.
Wedged == Cardinality(FilledStarts(queue)) >= SpanLimit /\ ~Addable

\* The queue is not wedged for ever.  A comment in request_missing_objects claims
\* that when all connections stand by, one of them is unblocked.
NeverWedged == []<>~Wedged

\* A span can be added, nobody adds it, and there is nothing left to download:
\* the last span came when the handler with the lock had seen that there was none.
Stranded ==
  /\ Addable /\ adding = None
  /\ \A p \in Live : Remote(p) <= NextNeeded(queue, Height)

\* A span is not stranded for ever.  A connection that learns that all the blocks
\* of its peer are in the queue is to add them, as a comment in
\* request_missing_objects has it: "In this case, if we can add blocks instead, do
\* so".
NeverStranded == []<>~Stranded

\* The chain of a prompt peer that is valid is synced in the end, while no
\* block fails, whatever the other peers do, unless the queue is wedged, or the
\* last span is stranded.
Honest(p) == Range(ChainOf[p]) \cap Invalid = {}
Reached == \A p \in Prompt : Honest(p) => Height >= Remote(p) \/ invalid # {}

Synced == <>Reached \/ <>[]Wedged \/ <>[]Stranded
=============================================================================
