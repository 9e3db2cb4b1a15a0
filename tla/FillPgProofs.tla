----------------------------- MODULE FillPgProofs -----------------------------
(***************************************************************************)
(* IInv is inductive, for every block tree, table set and option: whatever *)
(* commit a crash falls behind, the received blocks are one stretch of one *)
(* branch that holds the head fill_status names.                           *)
(***************************************************************************)
EXTENDS FillPgProperties, NodeosProofs

------------------------------------------------------------------------------
(* Types *)

\* Where a session streams from is a block number (get_blocks_request).
LEMMA FirstWantedIsNat ==
  ASSUME NEW h \in MaybeBlock, begin \in Nat
  PROVE  FirstWanted(h) \in Nat
<1>1. N(h) \in Nat
  BY TreeAssumption DEF MaybeBlock, N
<1>2. \E x \in {SkipTo, N(h) + 1, begin} : \A y \in {SkipTo, N(h) + 1, begin} : x >= y
  <2> DEFINE n == N(h) + 1
  <2>1. n \in Nat /\ SkipTo \in Nat
    BY <1>1, FillAssumption
  <2> HIDE DEF n
  <2>2. \E x \in {SkipTo, n, begin} : \A y \in {SkipTo, n, begin} : x >= y
    BY <2>1
  <2> QED
    BY <2>2 DEF n
<1> QED
  BY <1>1, <1>2, FillAssumption DEF FirstWanted, Max

LEMMA StreamFromIsNat ==
  ASSUME NEW n \in Nat, NEW P \in SUBSET Block
  PROVE  StreamFrom(n, P) \in Nat
<1> DEFINE S == {n} \cup {Num[p] : p \in {q \in P : Num[q] < n /\ Id(Num[q]) # q}}
<1>1. S \in SUBSET Nat /\ S # {}
  BY TreeAssumption
<1> QED
  BY <1>1, MinInSet DEF StreamFrom

\* Every block carries a row, of the type rows have.
LEMMA RowsTyped ==
  ASSUME NEW b \in Block
  PROVE  RowsOf(b) \subseteq Row /\ RowsOf(b) # {}
<1>1. Content[b] \subseteq Table \X Key /\ Content[b] # {}
  BY FillAssumption
<1>2. \A tk \in Content[b] : [table |-> tk[1], block |-> b, key |-> tk[2]] \in Row
  BY <1>1 DEF Row
<1> QED
  BY <1>1, <1>2 DEF RowsOf

\* truncate never raises `first`.
LEMMA TruncatedFirstTyped ==
  ASSUME TypeOK, NEW f \in Nat, NEW n
  PROVE  /\ TruncatedHead(n) \in MaybeBlock
         /\ TruncatedFirst(f, n) \in Nat
         /\ TruncatedFirst(f, n) = IF f <= N(TruncatedHead(n)) THEN f ELSE N(TruncatedHead(n))
<1>1. TruncatedHead(n) \in MaybeBlock
  BY AtTyped DEF TypeOK, TruncatedHead
<1> DEFINE m == N(TruncatedHead(n))
<1>2. m \in Nat
  BY <1>1, NIsNat
<1>3. TruncatedFirst(f, n) = Min({f, m})
  BY DEF TruncatedFirst
<1> HIDE DEF m
<1>4. Min({f, m}) \in {f, m} /\ Min({f, m}) <= f /\ Min({f, m}) <= m
  BY <1>2, MinInSet
<1>5. Min({f, m}) = IF f <= m THEN f ELSE m
  BY <1>2, <1>4
<1> QED
  BY <1>1, <1>2, <1>3, <1>5 DEF m

\* What a result decides is a message to process.
LEMMA DecideTyped ==
  ASSUME NEW m \in BlocksResult
  PROVE  Decide(m) \in Message
BY DEF Decide, Message, BlocksResult

LEMMA NoMessageTyped == NoMessage \in Message
BY DEF NoMessage, Message, MaybeBlock

\* The part of TypeOK every end of a session establishes.
LEMMA EndSessionTyped ==
  ASSUME TypeOK, NEW s \in Session, EndSession(s), options' \subseteq {"drop", "create"},
         schema' \in BOOLEAN, received_block' \subseteq Block, rows' \subseteq Row,
         fill_status' \in FillStatus
  PROVE  TypeOK'
BY DEF TypeOK, NodeosTypeOK, EndSession, SessionGone, MaybeBlock, NoMessage, Message,
       Step, Continuation

\* Every step keeps the types.
LEMMA TypeStep ==
  ASSUME TypeOK, StepInv, [Next]_vars
  PROVE  TypeOK'
<1> USE DEF TypeOK
<1>1. CASE NodeosStep
  <2> USE DEF NodeosStep, NodeosTypeOK, dbVars, memVars, stepVars
  <2>1. CASE \E b \in Block : ApplyBlock(b)
    BY <1>1, <2>1, TreeAssumption DEF ApplyBlock, Below
  <2>2. CASE AdvanceLib
    BY <1>1, <2>2 DEF AdvanceLib
  <2>3. CASE SendBlocksResult
    <3>1. Id(next) \in MaybeBlock /\ Id(next - 1) \in MaybeBlock
      BY AtTyped DEF Id, MaybeBlock
    <3>2. [this_block |-> Id(next), prev_block |-> Id(next - 1), lib |-> lib] \in BlocksResult
      BY <3>1 DEF BlocksResult
    <3> QED
      BY <1>1, <2>3, <3>2 DEF SendBlocksResult
  <2>4. CASE \E n \in 0..Height, bg \in LogBegins : ReplaceNode(n, bg)
    BY <1>1, <2>4, NodeosAssumption DEF ReplaceNode, Below
  <2> QED
    BY <1>1, <2>1, <2>2, <2>3, <2>4
<1>2. ASSUME NEW opts \in SUBSET {"drop", "create"}, StartSession(opts) PROVE TypeOK'
  <2>1. schema' \in BOOLEAN /\ received_block' \subseteq Block /\ rows' \subseteq Row
    BY <1>2 DEF StartSession, dbVars
  <2>2. fill_status' \in FillStatus
    BY <1>2 DEF StartSession, dbVars, FillStatus, NoStatus, MaybeBlock
  <2> QED
    BY <1>2, <2>1, <2>2 DEF StartSession, Remaining, Session, NodeosTypeOK,
       nodeosVars, memVars, stepVars
<1>3. CASE \E opts \in StartOptions : OperatorStart(opts)
  BY <1>2, <1>3, FillAssumption DEF OperatorStart
<1>4. CASE Retry
  BY <1>2, <1>4 DEF Retry
<1>5. CASE ReceivedAbi
  <2>1. CASE EndSession("stopped") /\ UNCHANGED dbVars
    BY <1>5, <2>1, EndSessionTyped DEF ReceivedAbi, Session, dbVars
  <2>2. CASE ~(EndSession("stopped") /\ UNCHANGED dbVars)
    BY <1>5, <2>2 DEF ReceivedAbi, Session, NodeosTypeOK, nodeosVars, memVars, stepVars
  <2> QED
    BY <2>1, <2>2
<1>6. CASE ReceivedStatus
  <2>1. CASE ~schema
    BY <1>6, <2>1, EndSessionTyped DEF ReceivedStatus, Session, dbVars
  <2>2. CASE schema
    <3> DEFINE n == N(fill_status.head_id) + 1
               h == TruncatedHead(n)
    <3>1. fill_status.head_id \in MaybeBlock /\ fill_status.irreversible \in Nat
                                             /\ fill_status.first \in Nat
      BY DEF FillStatus
    <3>2. h \in MaybeBlock /\ TruncatedFirst(fill_status.first, n) \in Nat
      BY <3>1, TruncatedFirstTyped
    <3>3. Positions \in SUBSET Block
      BY DEF Positions
    <3>4. StreamFrom(FirstWanted(h), Positions) \in Nat
      BY <3>2, <3>3, FirstWantedIsNat, StreamFromIsNat DEF NodeosTypeOK
    <3>5. TruncatedReceived(n) \subseteq Block /\ TruncatedRows(n) \subseteq Row
      BY DEF TruncatedReceived, TruncatedRows, Below
    <3> HIDE DEF h, n
    <3>6. /\ session' = "streaming" /\ head_id' = h /\ irreversible' = fill_status.irreversible
          /\ first' = TruncatedFirst(fill_status.first, n)
          /\ received_block' = TruncatedReceived(n) /\ rows' = TruncatedRows(n)
          /\ next' = StreamFrom(FirstWanted(h), Positions)
          /\ UNCHANGED <<chain, lib, begin, wire, schema, fill_status, options,
                         table_streams, stepVars>>
      BY <1>6, <2>2 DEF ReceivedStatus, h, n
    <3> QED
      BY <3>1, <3>2, <3>4, <3>5, <3>6 DEF NodeosTypeOK, Session, stepVars
  <2> QED
    BY <2>1, <2>2
<1>7. CASE ProcessBlock
  <2>1. CASE SkipResult
    BY <1>7, <2>1 DEF SkipResult, NodeosTypeOK, dbVars, memVars, stepVars
  <2>2. CASE StopAtBlock
    BY <2>2, EndSessionTyped DEF StopAtBlock, Session, dbVars
  <2>3. CASE BeginBlock
    <3>1. Head(wire) \in BlocksResult /\ Tail(wire) \in Seq(BlocksResult)
      BY <2>3 DEF BeginBlock, NodeosTypeOK
    <3>2. Decide(Head(wire)) \in Message
      BY <3>1, DecideTyped
    <3>3. pc' \in Step /\ then' \in Continuation
      BY <2>3 DEF BeginBlock, AfterClose, Step, Continuation
    <3> QED
      BY <2>3, <3>1, <3>2, <3>3 DEF BeginBlock, NodeosTypeOK, dbVars, memVars
  <2>4. CASE \E t \in Table : FlushStream(t)
    BY <2>4 DEF FlushStream, Step, Continuation, NodeosTypeOK, nodeosVars
  <2>5. CASE CloseStreams
    <3>1. fill_status' \in FillStatus
      BY <2>5, NIsNat DEF CloseStreams, StatusToWrite, FillStatus, EndTrim, head
    <3>2. CASE then = "stop"
      BY <2>5, <3>1, <3>2, EndSessionTyped DEF CloseStreams, Session
    <3>3. CASE then # "stop"
      <4>1. pc' \in Step /\ then' \in Continuation
        BY <2>5, <3>3 DEF CloseStreams, AfterClose, Step, Continuation
      <4>2. cur' \in Message
        BY <2>5, <3>3, NoMessageTyped DEF CloseStreams
      <4>3. UNCHANGED <<nodeosVars, schema, received_block, rows, session, options, memVars>>
        BY <2>5, <3>3 DEF CloseStreams
      <4> QED
        BY <3>1, <4>1, <4>2, <4>3 DEF NodeosTypeOK, nodeosVars, memVars
    <3> QED
      BY <3>2, <3>3
  <2>6. CASE Trim
    <3>1. EndTrim \in Nat
      BY NIsNat DEF EndTrim, head
    <3> QED
      BY <2>6, <3>1 DEF Trim, FirstAfterTrim, Step, NodeosTypeOK, nodeosVars
  <2>7. CASE ApplyBlockRows
    <3>1. cur.this_block \in Block /\ cur.lib \in Nat
      BY <2>7 DEF ApplyBlockRows, StepInv, Message
    <3>2. table_streams' \subseteq Row
      BY <2>7, <3>1, RowsTyped DEF ApplyBlockRows
    <3>3. first' \in Nat
      BY <2>7, <3>1, TruncatedFirstTyped, TreeAssumption DEF ApplyBlockRows, BaseFirst
    <3> QED
      BY <2>7, <3>1, <3>2, <3>3 DEF ApplyBlockRows, MaybeBlock, Step, Continuation,
         NodeosTypeOK, nodeosVars, dbVars
  <2>8. CASE PrevMismatch
    BY <2>8, EndSessionTyped DEF PrevMismatch, Session, dbVars
  <2>9. CASE CommitBlock
    <3>1. received_block' \subseteq Block /\ rows' \subseteq Row
      BY <2>9 DEF CommitBlock, StepInv, Received, TruncatedReceived, Below, TruncatedRows
    <3>2. fill_status' \in FillStatus
      BY <2>9, NIsNat DEF CommitBlock, StatusCommitted, StatusToWrite, FillStatus, EndTrim, head
    <3>3. pc' \in Step /\ then' \in Continuation
      BY <2>9 DEF CommitBlock, Step, Continuation
    <3>4. cur' \in Message
      BY <2>9, NoMessageTyped DEF CommitBlock
    <3>5. UNCHANGED <<nodeosVars, schema, session, options, memVars>>
      BY <2>9 DEF CommitBlock
    <3> QED
      BY <3>1, <3>2, <3>3, <3>4, <3>5 DEF NodeosTypeOK, nodeosVars, memVars
  <2> QED
    BY <1>7, <2>1, <2>2, <2>3, <2>4, <2>5, <2>6, <2>7, <2>8, <2>9 DEF ProcessBlock
<1>8. CASE ConnectionLost
  BY <1>8, EndSessionTyped DEF ConnectionLost, Session, dbVars
<1>9. CASE Die
  BY <1>9, EndSessionTyped DEF Die, Session, dbVars
<1>10. CASE UNCHANGED vars
  BY <1>10 DEF vars, NodeosTypeOK, nodeosVars, dbVars, memVars, stepVars
<1> QED
  BY <1>1, <1>3, <1>4, <1>5, <1>6, <1>7, <1>8, <1>9, <1>10 DEF Next, FillerStep, Fault

------------------------------------------------------------------------------
(* nodeos and the messages *)

\* Applying a block, after the pops of a fork switch, leaves nodeos one branch.
LEMMA ApplyBlockStretch ==
  ASSUME TypeOK, NodeosInv, NEW b \in Block, ApplyBlock(b)
  PROVE  IsStretch(chain')
<1> DEFINE S == Below(chain, Num[b])
<1>1. Parent[b] \in Block /\ Parent[b] \in chain /\ Parent[b] # NoBlock
  BY TreeAssumption DEF ApplyBlock, TypeOK, NodeosTypeOK
<1>2. Num[b] \in Nat /\ Num[b] = Num[Parent[b]] + 1 /\ Num[Parent[b]] \in Nat
  BY <1>1, TreeAssumption
<1>3. S \in SUBSET Block /\ IsStretch(S)
  BY <1>2, StretchBelow DEF TypeOK, NodeosTypeOK, NodeosInv, Below
<1>4. TipIs(S, Parent[b])
  BY <1>1, <1>2, <1>3, TreeAssumption DEF TipIs, Below
<1>5. IsStretch(S \cup {b})
  <2> HIDE DEF S
  <2> QED
    BY <1>1, <1>3, <1>4, StretchExtended DEF MaybeBlock
<1> QED
  BY <1>5 DEF ApplyBlock

\* The two blocks of a result nodeos sends are a block and its parent.
LEMMA SentLinked ==
  ASSUME TypeOK, NodeosInv, next \in Nat, NEW m \in BlocksResult,
         m.this_block = Id(next), m.prev_block = Id(next - 1)
  PROVE  Linked(m)
<1>1. ASSUME NEW n, Id(n) # NoBlock PROVE Id(n) \in chain /\ Num[Id(n)] = n
  BY <1>1 DEF Id, At
<1> SUFFICES ASSUME Id(next) # NoBlock, Id(next - 1) # NoBlock
             PROVE  Id(next - 1) = Parent[Id(next)]
  BY DEF Linked
<1>2. /\ Id(next) \in chain /\ Num[Id(next)] = next
      /\ Id(next - 1) \in chain /\ Num[Id(next - 1)] = next - 1
  BY <1>1
<1> HIDE DEF Id
<1> QED
  BY <1>2 DEF NodeosInv, IsStretch

\* nodeos keeps to one branch and its results stay linked.
LEMMA NodeosStepInv ==
  ASSUME TypeOK, NodeosInv, NodeosStep
  PROVE  NodeosInv'
<1>1. ASSUME NEW b \in Block, ApplyBlock(b) PROVE NodeosInv'
  <2>1. IsStretch(chain') /\ UNCHANGED wire
    BY <1>1, ApplyBlockStretch DEF ApplyBlock
  <2> QED
    BY <2>1 DEF NodeosInv, Linked
<1>2. CASE AdvanceLib
  BY <1>2 DEF AdvanceLib, NodeosInv, Linked
<1>3. CASE SendBlocksResult
  <2> DEFINE m == [this_block |-> Id(next), prev_block |-> Id(next - 1), lib |-> lib]
  <2>1. m \in BlocksResult
    BY AtTyped DEF Id, MaybeBlock, BlocksResult, TypeOK, NodeosTypeOK
  <2>2. Linked(m)
    BY <2>1, SentLinked DEF TypeOK, NodeosTypeOK
  <2>3. wire' = Append(wire, m) /\ UNCHANGED chain
    BY <1>3 DEF SendBlocksResult
  <2> HIDE DEF m
  <2>4. \A k \in DOMAIN wire' : wire'[k] = m \/ (k \in DOMAIN wire /\ wire'[k] = wire[k])
    BY <2>1, <2>3 DEF TypeOK, NodeosTypeOK
  <2>5. \A k \in DOMAIN wire' : Linked(wire'[k])
    BY <2>2, <2>4 DEF NodeosInv
  <2> QED
    BY <2>3, <2>5 DEF NodeosInv, Linked
<1>4. ASSUME NEW n \in 0..Height, NEW bg \in LogBegins, ReplaceNode(n, bg) PROVE NodeosInv'
  <2>1. chain' = Below(chain, n + 1) /\ UNCHANGED wire /\ n + 1 \in Nat
    BY <1>4 DEF ReplaceNode
  <2>2. IsStretch(chain')
    BY <2>1, StretchBelow DEF NodeosInv, TypeOK, NodeosTypeOK
  <2> QED
    BY <2>1, <2>2 DEF NodeosInv, Linked
<1> QED
  BY <1>1, <1>2, <1>3, <1>4 DEF NodeosStep

\* Taking a result off the wire, losing all of them or none keeps the rest linked.
LEMMA WireInv ==
  ASSUME TypeOK, NodeosInv, UNCHANGED chain,
         wire' = wire \/ wire' = <<>> \/ (wire # <<>> /\ wire' = Tail(wire))
  PROVE  NodeosInv'
<1>1. \A k \in DOMAIN wire' : \E j \in DOMAIN wire : wire'[k] = wire[j]
  BY DEF TypeOK, NodeosTypeOK
<1>2. \A k \in DOMAIN wire' : Linked(wire'[k])
  BY <1>1 DEF NodeosInv
<1> QED
  BY <1>2 DEF NodeosInv, Linked

------------------------------------------------------------------------------
(* The filler's steps *)

FillerInv == StepInv /\ HistoryInv /\ FirstInv

\* A step that leaves the filler and postgresql alone keeps their invariants.
LEMMA FillerUnchanged ==
  ASSUME FillerInv, UNCHANGED <<dbVars, session, memVars, stepVars>>
  PROVE  FillerInv'
<1>1. UNCHANGED <<head, EndTrim, FlushFirst, Applied, Received>>
  BY DEF dbVars, memVars, stepVars, head, EndTrim, FlushFirst, Applied, Received,
         TruncatedReceived, Below
<1>2. UNCHANGED After
  BY <1>1 DEF After, dbVars
<1>3. StepInv'
  BY <1>1 DEF FillerInv, StepInv, Linked, dbVars, memVars, stepVars
<1>4. HistoryInv'
  BY <1>2 DEF FillerInv, HistoryInv, dbVars, memVars, stepVars
<1>5. FirstInv'
  BY <1>2 DEF FillerInv, FirstInv, dbVars, memVars, stepVars
<1> QED
  BY <1>3, <1>4, <1>5 DEF FillerInv

\* Out of a session only what is committed matters.
LEMMA OutOfSession ==
  ASSUME session' # "streaming", pc' = "idle", table_streams' = {},
         IsStretch(received_block'),
         fill_status'.head_id # NoBlock => fill_status'.head_id \in received_block',
         \A b \in received_block' : fill_status'.first <= Num[b],
         fill_status'.head_id = NoBlock <=> fill_status'.first = 0
  PROVE  FillerInv'
<1>1. ~Applied' /\ After' = received_block'
  BY DEF Applied, After
<1>2. StepInv'
  BY <1>1 DEF StepInv
<1> QED
  BY <1>1, <1>2 DEF FillerInv, HistoryInv, FirstInv

\* However a session ends, what is committed stands.
LEMMA SessionEnded ==
  ASSUME FillerInv, NEW s, s # "streaming", EndSession(s), UNCHANGED dbVars
  PROVE  FillerInv'
<1>1. session' # "streaming" /\ pc' = "idle" /\ table_streams' = {}
  BY DEF EndSession
<1>2. UNCHANGED <<received_block, fill_status>>
  BY DEF dbVars
<1> QED
  BY <1>1, <1>2, OutOfSession DEF FillerInv, HistoryInv, FirstInv

LEMMA StretchEmpty == IsStretch({})
BY DEF IsStretch

LEMMA StartSessionInv ==
  ASSUME FillerInv, session # "streaming", NEW opts, StartSession(opts)
  PROVE  FillerInv'
<1>1. session' # "streaming" /\ pc' = "idle" /\ table_streams' = {}
  BY DEF StartSession, FillerInv, StepInv, memVars, stepVars
<1>2. CASE "drop" \in opts
  <2>1. received_block' = {} /\ fill_status' = NoStatus
    BY <1>2 DEF StartSession
  <2>2. fill_status'.head_id = NoBlock /\ fill_status'.first = 0
    BY <2>1 DEF NoStatus
  <2> QED
    BY <1>1, <2>1, <2>2, OutOfSession, StretchEmpty
<1>3. CASE "drop" \notin opts
  <2>1. UNCHANGED <<received_block, fill_status>>
    BY <1>3 DEF StartSession, dbVars
  <2> QED
    BY <1>1, <2>1, OutOfSession DEF FillerInv, HistoryInv, FirstInv
<1> QED
  BY <1>2, <1>3

LEMMA ReceivedAbiInv ==
  ASSUME FillerInv, ReceivedAbi
  PROVE  FillerInv'
<1>1. CASE EndSession("stopped") /\ UNCHANGED dbVars
  BY <1>1, SessionEnded
<1>2. CASE ~(EndSession("stopped") /\ UNCHANGED dbVars)
  <2>1. session' # "streaming" /\ UNCHANGED <<received_block, fill_status, memVars, stepVars>>
    BY <1>2 DEF ReceivedAbi
  <2>2. pc' = "idle" /\ table_streams' = {}
    BY <2>1 DEF ReceivedAbi, FillerInv, StepInv, memVars, stepVars
  <2> QED
    BY <2>1, <2>2, OutOfSession DEF FillerInv, HistoryInv, FirstInv
<1> QED
  BY <1>1, <1>2

\* A restarted filler finds the head fill_status names (load_fill_status, then
\* truncate(head + 1)), and takes out what bulk loading committed past it.
LEMMA ReceivedStatusInv ==
  ASSUME TypeOK, FillerInv, ReceivedStatus
  PROVE  FillerInv'
<1>1. CASE ~schema
  BY <1>1, SessionEnded DEF ReceivedStatus, dbVars
<1>2. CASE schema
  <2> DEFINE s == fill_status.head_id
             n == N(s) + 1
             h == TruncatedHead(n)
  <2>1. /\ session' = "streaming" /\ head_id' = h
        /\ first' = TruncatedFirst(fill_status.first, n)
        /\ received_block' = Below(received_block, n)
        /\ UNCHANGED <<fill_status, table_streams, stepVars>>
    BY <1>2 DEF ReceivedStatus, TruncatedReceived
  <2>2. /\ s \in MaybeBlock /\ fill_status.first \in Nat /\ N(s) \in Nat
        /\ received_block \in SUBSET Block
    BY NIsNat DEF TypeOK, FillStatus
  <2>3. pc = "idle" /\ table_streams = {}
    BY DEF ReceivedStatus, FillerInv, StepInv
  <2>4. h = s
    <3>1. CASE s = NoBlock
      BY <2>2, <3>1, TreeAssumption DEF TruncatedHead, At, N
    <3>2. CASE s # NoBlock
      <4>1. s \in received_block /\ n - 1 = Num[s]
        BY <2>2, <3>2, TreeAssumption DEF FillerInv, HistoryInv, N, MaybeBlock
      <4>2. h \in received_block /\ Num[h] = n - 1
        BY <4>1 DEF TruncatedHead, At
      <4> HIDE DEF h, n
      <4> QED
        BY <2>2, <4>1, <4>2, TreeAssumption DEF FillerInv, HistoryInv, IsStretch
    <3> QED
      BY <3>1, <3>2
  <2>5. TipIs(Below(received_block, n), s)
    <3>1. CASE s = NoBlock
      BY <2>2, <3>1, TreeAssumption DEF TipIs, Below, N
    <3>2. CASE s # NoBlock
      BY <2>2, <3>2, TreeAssumption DEF TipIs, Below, N, FillerInv, HistoryInv, MaybeBlock
    <3> QED
      BY <3>1, <3>2
  <2>6. IsStretch(Below(received_block, n))
    BY <2>2, StretchBelow DEF FillerInv, HistoryInv
  <2>7. first' = fill_status.first
    <3>1. first' = IF fill_status.first <= N(h) THEN fill_status.first ELSE N(h)
      BY <2>1, <2>2, TruncatedFirstTyped
    <3>2. fill_status.first <= N(s)
      BY <2>2, TreeAssumption DEF FillerInv, HistoryInv, FirstInv, N, MaybeBlock
    <3> HIDE DEF h, s
    <3> QED
      BY <2>4, <3>1, <3>2
  <2> HIDE DEF h, n
  <2>8. ~Applied' /\ After' = received_block' /\ pc' = "idle" /\ table_streams' = {}
    BY <2>1, <2>3 DEF Applied, After, stepVars
  <2>9. StepInv'
    BY <2>8 DEF StepInv
  <2>10. HistoryInv'
    <3>1. s # NoBlock => s \in received_block'
      BY <2>1, <2>5 DEF TipIs
    <3> QED
      BY <2>1, <2>4, <2>5, <2>6, <2>8, <3>1 DEF HistoryInv
  <2>11. FirstInv'
    BY <2>1, <2>4, <2>7, <2>8 DEF FirstInv, FillerInv, Below
  <2> QED
    BY <2>9, <2>10, <2>11 DEF FillerInv
<1> QED
  BY <1>1, <1>2

\* A result is taken only when the one before it is done with.
LEMMA BeginBlockInv ==
  ASSUME TypeOK, NodeosInv, FillerInv, BeginBlock
  PROVE  FillerInv'
<1> DEFINE m == Head(wire)
<1>1. /\ pc = "idle" /\ session = "streaming" /\ m.this_block # NoBlock /\ cur' = Decide(m)
      /\ UNCHANGED <<received_block, fill_status, session, memVars>>
  BY DEF BeginBlock, dbVars
<1>2. m \in BlocksResult /\ Linked(m)
  BY DEF BeginBlock, TypeOK, NodeosTypeOK, NodeosInv
<1>3. /\ cur'.this_block = m.this_block /\ cur'.prev_block = m.prev_block
      /\ cur'.forks = (N(m.this_block) <= head)
      /\ (cur'.forks => ~cur'.bulk)
  BY <1>1 DEF Decide
<1>4. UNCHANGED <<table_streams, head_id, irreversible, first, head, EndTrim>>
  BY <1>1 DEF memVars, head, EndTrim
<1>5. \/ pc' \in {"trim", "apply"} /\ (pc' = "trim" => first < EndTrim) /\ table_streams = {}
      \/ pc' = "flush" /\ then' # "commit" /\ table_streams # {}
      \/ pc' = "apply" /\ table_streams # {}
  BY DEF BeginBlock, AfterClose
<1> HIDE DEF m
<1>6. m.this_block \in Block /\ N(m.this_block) = Num[m.this_block]
  BY <1>1, <1>2 DEF BlocksResult, MaybeBlock, N
<1>7. ~Applied /\ ~Applied'
  BY <1>1, <1>5 DEF Applied
<1>8. UNCHANGED After
  BY <1>1, <1>7 DEF After
<1>9. StepInv'
  <2>1. Linked(cur')
    BY <1>2, <1>3 DEF Linked
  <2>2. cur'.forks => Num[cur'.this_block] <= head'
    BY <1>3, <1>4, <1>6
  <2> QED
    BY <1>1, <1>3, <1>4, <1>5, <1>6, <1>7, <2>1, <2>2 DEF StepInv, Linked
<1>10. HistoryInv'
  BY <1>1, <1>4, <1>5, <1>8 DEF FillerInv, HistoryInv
<1>11. FirstInv'
  BY <1>1, <1>4, <1>8 DEF FillerInv, FirstInv
<1> QED
  BY <1>9, <1>10, <1>11 DEF FillerInv

\* The streams commit one after the other: what t will commit stays the same.
LEMMA FlushStreamInv ==
  ASSUME TypeOK, FillerInv, NEW t \in Table, FlushStream(t)
  PROVE  FillerInv'
<1>1. /\ pc = "flush" /\ session = "streaming"
      /\ UNCHANGED <<received_block, fill_status, session, head_id, irreversible, first, cur>>
      /\ \/ pc' = "flush" /\ then' = then /\ table_streams' # {}
         \/ pc' = "commit" /\ then = "commit"
         \/ pc' = "status" /\ then' = then /\ then # "commit" /\ table_streams' = {}
  BY DEF FlushStream, FillerInv, StepInv
<1>2. UNCHANGED <<head, EndTrim, FlushFirst, Received>>
  BY <1>1 DEF head, EndTrim, FlushFirst, Received, TruncatedReceived, Below
<1>3. Applied' = Applied
  BY <1>1 DEF Applied
<1>4. UNCHANGED After
  BY <1>1, <1>2, <1>3 DEF After
<1>5. StepInv'
  <2>1. then = "commit" => FlushFirst
    BY <1>1 DEF FillerInv, StepInv
  <2> QED
    BY <1>1, <1>2, <1>3, <2>1 DEF FillerInv, StepInv, Linked
<1>6. HistoryInv'
  BY <1>1, <1>4 DEF FillerInv, HistoryInv
<1>7. FirstInv'
  BY <1>1, <1>4 DEF FillerInv, FirstInv
<1> QED
  BY <1>5, <1>6, <1>7 DEF FillerInv

\* When no stream is left open and t is not, the status may name the head.
LEMMA CloseStreamsInv ==
  ASSUME TypeOK, FillerInv, CloseStreams
  PROVE  FillerInv'
<1>1. /\ pc = "status" /\ then # "commit" /\ session = "streaming" /\ table_streams = {}
      /\ fill_status'.head_id = head_id /\ fill_status'.first = first
      /\ UNCHANGED received_block
  BY DEF CloseStreams, StatusToWrite, FillerInv, StepInv
<1>2. ~Applied /\ After = received_block
  BY <1>1 DEF Applied, After
<1>3. /\ head_id # NoBlock => head_id \in received_block
      /\ \A b \in received_block : first <= Num[b]
      /\ head_id = NoBlock <=> first = 0
      /\ TipIs(received_block, head_id)
      /\ IsStretch(received_block)
  BY <1>1, <1>2 DEF FillerInv, HistoryInv, FirstInv, TipIs
<1>4. CASE then = "stop"
  <2>1. session' # "streaming" /\ pc' = "idle" /\ table_streams' = {}
    BY <1>4 DEF CloseStreams, EndSession
  <2> QED
    BY <1>1, <1>3, <2>1, OutOfSession
<1>5. CASE then # "stop"
  <2>1. /\ UNCHANGED <<session, head_id, irreversible, first, table_streams>>
        /\ pc' = (IF then = "trim" THEN AfterClose ELSE "idle")
        /\ cur' = (IF then = "trim" THEN cur ELSE NoMessage)
    BY <1>5 DEF CloseStreams, memVars
  <2>2. /\ pc' \in {"trim", "apply", "idle"} /\ (pc' = "trim" => first < EndTrim)
        /\ (pc' # "idle" => cur' = cur)
    BY <2>1 DEF AfterClose
  <2>3. ~Applied' /\ After' = received_block
    BY <1>1, <2>2 DEF Applied, After
  <2>4. UNCHANGED <<head, EndTrim>>
    BY <2>1 DEF head, EndTrim
  <2>5. StepInv'
    BY <1>1, <2>1, <2>2, <2>3, <2>4 DEF FillerInv, StepInv, Linked
  <2>6. HistoryInv'
    BY <1>1, <1>3, <2>1, <2>3 DEF HistoryInv
  <2>7. FirstInv'
    BY <1>1, <1>3, <2>1, <2>3 DEF FirstInv
  <2> QED
    BY <2>5, <2>6, <2>7 DEF FillerInv
<1> QED
  BY <1>4, <1>5

\* trim_history takes the blocks below the new `first`, and never the head.
LEMMA TrimInv ==
  ASSUME TypeOK, FillerInv, Trim
  PROVE  FillerInv'
<1>1. /\ pc = "trim" /\ pc' = "apply" /\ session = "streaming" /\ table_streams = {}
      /\ first < EndTrim /\ first' = EndTrim
      /\ received_block' = {b \in received_block : ~InTrim(Num[b])}
      /\ UNCHANGED <<fill_status, session, head_id, irreversible, table_streams, then, cur>>
  BY DEF Trim, FillerInv, StepInv, FirstAfterTrim
<1>2. ~Applied /\ After = received_block /\ ~Applied' /\ After' = received_block'
  BY <1>1 DEF Applied, After
<1>3. /\ TipIs(received_block, head_id) /\ IsStretch(received_block)
      /\ fill_status.head_id = head_id
      /\ \A b \in received_block : first <= Num[b]
      /\ \A b \in received_block : fill_status.first <= Num[b]
      /\ fill_status.head_id = NoBlock <=> fill_status.first = 0
  BY <1>1, <1>2 DEF FillerInv, HistoryInv, FirstInv
<1>4. /\ EndTrim \in Nat /\ first \in Nat /\ head \in Nat /\ EndTrim <= head
      /\ received_block \in SUBSET Block /\ head_id \in MaybeBlock
  <2>1. head \in Nat
    BY NIsNat DEF head, TypeOK
  <2> QED
    BY <2>1 DEF EndTrim, TypeOK
<1>5. received_block' = {b \in received_block : EndTrim <= Num[b]}
  BY <1>1, <1>3, <1>4, TreeAssumption DEF InTrim
<1>6. IsStretch(received_block')
  BY <1>3, <1>4, <1>5, StretchFrom
<1>7. head_id \in Block /\ head_id # NoBlock /\ head = Num[head_id]
  BY <1>1, <1>4, TreeAssumption DEF head, N, MaybeBlock
<1>8. head_id \in received_block' /\ TipIs(received_block', head_id)
  BY <1>3, <1>4, <1>5, <1>7 DEF TipIs
<1>9. UNCHANGED <<head, EndTrim, FlushFirst>>
  BY <1>1 DEF head, EndTrim, FlushFirst
<1>10. StepInv'
  BY <1>1, <1>2, <1>9 DEF FillerInv, StepInv, Linked
<1>11. HistoryInv'
  BY <1>1, <1>2, <1>3, <1>6, <1>8 DEF HistoryInv
<1>12. FirstInv'
  <2>1. first' # 0
    BY <1>1, <1>4
  <2> QED
    BY <1>1, <1>2, <1>3, <1>5, <1>7, <2>1 DEF FirstInv
<1> QED
  BY <1>10, <1>11, <1>12 DEF FillerInv

\* The head the new block is put on: the session's, or what truncate leaves of it.
LEMMA BaseIsTip ==
  ASSUME TypeOK, FillerInv, pc = "apply"
  PROVE  LET S == IF cur.forks THEN Below(received_block, Num[cur.this_block])
                               ELSE received_block
         IN  /\ S \in SUBSET Block /\ IsStretch(S)
             /\ BaseHead \in MaybeBlock /\ TipIs(S, BaseHead)
             /\ BaseFirst \in Nat
             /\ \A b \in S : BaseFirst <= Num[b]
             /\ BaseHead = NoBlock <=> BaseFirst = 0
<1> DEFINE n == Num[cur.this_block]
<1>1. session = "streaming" /\ cur.this_block \in Block
  BY DEF FillerInv, StepInv
<1>2. ~Applied /\ After = received_block
  BY DEF Applied, After
<1>3. /\ TipIs(received_block, head_id) /\ IsStretch(received_block)
      /\ \A b \in received_block : first <= Num[b]
      /\ head_id = NoBlock <=> first = 0
      /\ received_block \in SUBSET Block /\ head_id \in MaybeBlock /\ first \in Nat
  BY <1>1, <1>2 DEF FillerInv, HistoryInv, FirstInv, TypeOK
<1>4. CASE ~cur.forks
  BY <1>3, <1>4 DEF BaseHead, BaseFirst
<1>5. CASE cur.forks
  <2> DEFINE S == Below(received_block, n)
             h == TruncatedHead(n)
  <2>1. n \in Nat /\ 0 < n /\ n <= N(head_id)
    BY <1>1, <1>5, TreeAssumption DEF FillerInv, StepInv, head
  <2>2. IsStretch(S) /\ S \in SUBSET Block
    BY <1>3, <2>1, StretchBelow DEF Below
  <2>3. h \in MaybeBlock /\ TipIs(S, h)
    BY <1>3, <2>1, TipBelow DEF TruncatedHead
  <2>4. BaseHead = h /\ BaseFirst = TruncatedFirst(first, n)
    BY <1>5 DEF BaseHead, BaseFirst
  <2>5. BaseFirst = IF first <= N(h) THEN first ELSE N(h)
    BY <1>3, <2>4, TruncatedFirstTyped
  <2>6. first # 0
    BY <1>3, <2>1, TreeAssumption DEF N
  <2> HIDE DEF h, n
  <2>7. CASE h = NoBlock
    <3>1. N(h) = 0 /\ S = {}
      BY <2>3, <2>7 DEF N, TipIs
    <3>2. BaseFirst = 0
      BY <1>3, <2>5, <3>1
    <3> QED
      BY <1>5, <2>2, <2>3, <2>4, <2>7, <3>1, <3>2 DEF n
  <2>8. CASE h # NoBlock
    <3>1. h \in Block /\ N(h) = Num[h] /\ Num[h] \in Nat \ {0} /\ h \in S
      BY <2>3, <2>8, TreeAssumption DEF N, TipIs, MaybeBlock
    <3>2. first <= Num[h]
      BY <1>3, <3>1 DEF Below
    <3>3. BaseFirst = first
      BY <2>5, <3>1, <3>2
    <3>4. \A b \in S : first <= Num[b]
      BY <1>3 DEF Below
    <3> QED
      BY <1>3, <1>5, <2>2, <2>3, <2>4, <2>6, <2>8, <3>3, <3>4 DEF n
  <2> QED
    BY <2>7, <2>8
<1> QED
  BY <1>4, <1>5

\* prev_block matches, so the block extends the branch it is put on.
LEMMA ApplyBlockRowsInv ==
  ASSUME TypeOK, FillerInv, ApplyBlockRows
  PROVE  FillerInv'
<1> DEFINE b == cur.this_block
           S == IF cur.forks THEN Below(received_block, Num[b]) ELSE received_block
<1>1. /\ pc = "apply" /\ session = "streaming" /\ b \in Block /\ Linked(cur)
      /\ (cur.forks => ~cur.bulk)
      /\ UNCHANGED <<received_block, fill_status, session, cur>>
      /\ head_id' = b /\ PrevMatches
      /\ first' = (IF BaseFirst = 0 THEN Num[b] ELSE BaseFirst)
      /\ \/ FlushFirst /\ pc' = "flush" /\ then' = "commit"
         \/ ~FlushFirst /\ pc' = "commit"
  BY DEF ApplyBlockRows, FillerInv, StepInv, dbVars
<1>2. table_streams' # {}
  BY <1>1, RowsTyped DEF ApplyBlockRows
<1>3. UNCHANGED FlushFirst
  BY <1>1 DEF FlushFirst
<1>4. Applied'
  BY <1>1 DEF Applied
<1>5. After' = S \cup {b}
  BY <1>1, <1>4 DEF After, Received, TruncatedReceived, Below
<1>6. /\ S \in SUBSET Block /\ IsStretch(S)
      /\ BaseHead \in MaybeBlock /\ TipIs(S, BaseHead)
      /\ BaseFirst \in Nat
      /\ \A c \in S : BaseFirst <= Num[c]
      /\ BaseHead = NoBlock <=> BaseFirst = 0
  BY <1>1, BaseIsTip
<1>7. BaseHead = NoBlock \/ Parent[b] = BaseHead
  BY <1>1, TreeAssumption DEF PrevMatches, Linked
<1> HIDE DEF S
<1>8. IsStretch(S \cup {b}) /\ TipIs(S \cup {b}, b)
  BY <1>1, <1>6, <1>7, StretchExtended
<1>9. b # NoBlock /\ Num[b] \in Nat \ {0}
  BY <1>1, TreeAssumption
<1>10. /\ \A c \in S \cup {b} : first' <= Num[c]
       /\ first' # 0
  <2>1. CASE BaseFirst = 0
    <3>1. S = {}
      BY <1>6, <2>1 DEF TipIs
    <3> QED
      BY <1>1, <1>9, <2>1, <3>1
  <2>2. CASE BaseFirst # 0
    <3>1. BaseHead \in S /\ Num[BaseHead] \in Nat /\ Num[b] = Num[BaseHead] + 1
      BY <1>1, <1>6, <1>7, <2>2, TreeAssumption DEF TipIs
    <3> QED
      BY <1>1, <1>6, <1>9, <2>2, <3>1
  <2> QED
    BY <2>1, <2>2
<1>11. Num[b] <= head'
  BY <1>1, <1>9 DEF head, N
<1>12. StepInv'
  BY <1>1, <1>2, <1>3, <1>11 DEF StepInv, Linked
<1>13. HistoryInv'
  BY <1>1, <1>4, <1>5, <1>8 DEF FillerInv, HistoryInv
<1>14. FirstInv'
  BY <1>1, <1>5, <1>9, <1>10 DEF FillerInv, FirstInv
<1> QED
  BY <1>12, <1>13, <1>14 DEF FillerInv

\* t commits the blocks it was going to; the status it leaves behind in a bulk
\* load names a block that stays.
LEMMA CommitBlockInv ==
  ASSUME TypeOK, FillerInv, CommitBlock
  PROVE  FillerInv'
<1> DEFINE b == cur.this_block
<1>1. /\ pc = "commit" /\ session = "streaming" /\ Applied /\ head_id = b
      /\ b \in Block /\ (cur.forks => ~cur.bulk) /\ (~FlushFirst => table_streams # {})
      /\ received_block' = Received /\ After = Received
      /\ fill_status' = StatusCommitted
      /\ UNCHANGED <<session, head_id, irreversible, first, table_streams>>
      /\ \/ pc' = "flush" /\ then' = "idle" /\ cur' = cur /\ table_streams # {}
         \/ pc' = "idle"
  BY DEF CommitBlock, FillerInv, StepInv, Applied, After, memVars
<1>2. ~Applied' /\ After' = Received
  BY <1>1 DEF Applied, After
<1>3. /\ IsStretch(Received) /\ TipIs(Received, b)
      /\ \A c \in Received : first <= Num[c]
      /\ b # NoBlock /\ b \in Received /\ first # 0
  BY <1>1, TreeAssumption DEF FillerInv, HistoryInv, FirstInv, TipIs
<1>4. /\ fill_status'.head_id # NoBlock => fill_status'.head_id \in Received
      /\ \A c \in Received : fill_status'.first <= Num[c]
      /\ fill_status'.head_id = NoBlock <=> fill_status'.first = 0
      /\ ~cur.bulk => fill_status'.head_id = b
  <2>1. CASE ~cur.bulk
    <3>1. fill_status'.head_id = b /\ fill_status'.first = first
      BY <1>1, <2>1 DEF StatusCommitted, StatusToWrite
    <3> QED
      BY <1>3, <3>1
  <2>2. CASE cur.bulk
    <3>1. fill_status' = fill_status /\ Received = received_block \cup {b}
      BY <1>1, <2>2 DEF StatusCommitted, Received
    <3>2. /\ fill_status.head_id # NoBlock => fill_status.head_id \in received_block
          /\ \A c \in received_block : fill_status.first <= Num[c]
          /\ fill_status.head_id = NoBlock <=> fill_status.first = 0
          /\ fill_status.first \in Nat /\ fill_status.head_id \in MaybeBlock
      BY DEF FillerInv, HistoryInv, FirstInv, TypeOK, FillStatus
    <3>3. fill_status.first <= Num[b]
      <4>1. CASE fill_status.head_id = NoBlock
        BY <1>1, <3>2, <4>1, TreeAssumption
      <4>2. CASE fill_status.head_id # NoBlock
        <5>1. Num[fill_status.head_id] <= Num[b] /\ fill_status.first <= Num[fill_status.head_id]
          BY <1>3, <3>1, <3>2, <4>2 DEF TipIs
        <5> QED
          BY <1>1, <3>2, <4>2, <5>1, TreeAssumption DEF MaybeBlock
      <4> QED
        BY <4>1, <4>2
    <3> QED
      BY <2>2, <3>1, <3>2, <3>3
  <2> QED
    BY <2>1, <2>2
<1>5. UNCHANGED <<head, EndTrim>>
  BY <1>1 DEF head, EndTrim
<1>6. StepInv'
  BY <1>1, <1>2, <1>5 DEF FillerInv, StepInv, Linked
<1>7. HistoryInv'
  <2>1. table_streams = {} => ~cur.bulk
    BY <1>1 DEF FlushFirst
  <2> QED
    BY <1>1, <1>2, <1>3, <1>4, <2>1 DEF HistoryInv
<1>8. FirstInv'
  BY <1>1, <1>2, <1>3, <1>4 DEF FirstInv
<1> QED
  BY <1>6, <1>7, <1>8 DEF FillerInv

------------------------------------------------------------------------------
(* The invariant *)

LEMMA InitInv ==
  ASSUME Init
  PROVE  IInv
<1>1. TypeOK
  <2>1. NodeosTypeOK
    BY NodeosAssumption DEF Init, NodeosInit, NodeosTypeOK
  <2>2. fill_status \in FillStatus
    BY DEF Init, NoStatus, FillStatus, MaybeBlock
  <2>3. cur \in Message /\ pc \in Step /\ then \in Continuation
    BY NoMessageTyped DEF Init, Step, Continuation
  <2>4. /\ schema \in BOOLEAN /\ received_block = {} /\ rows = {} /\ session \in Session
        /\ options = {} /\ head_id \in MaybeBlock /\ irreversible \in Nat /\ first \in Nat
        /\ table_streams = {}
    BY DEF Init, Session, MaybeBlock
  <2> QED
    BY <2>1, <2>2, <2>3, <2>4 DEF TypeOK
<1>2. NodeosInv
  BY NodeosAssumption DEF Init, NodeosInit, NodeosInv
<1>3. /\ pc = "idle" /\ session # "streaming" /\ table_streams = {} /\ received_block = {}
      /\ fill_status.head_id = NoBlock /\ fill_status.first = 0
  BY DEF Init, NoStatus
<1>4. ~Applied /\ After = {}
  BY <1>3 DEF Applied, After
<1>5. StepInv
  BY <1>3, <1>4 DEF StepInv
<1>6. HistoryInv /\ FirstInv
  BY <1>3, <1>4, StretchEmpty DEF HistoryInv, FirstInv
<1> QED
  BY <1>1, <1>2, <1>5, <1>6 DEF IInv

LEMMA StepKeepsInv ==
  ASSUME IInv, [Next]_vars
  PROVE  IInv'
<1>1. TypeOK /\ NodeosInv /\ FillerInv
  BY DEF IInv, FillerInv
<1>2. TypeOK'
  BY <1>1, TypeStep DEF FillerInv
<1> SUFFICES NodeosInv' /\ FillerInv'
  BY <1>2 DEF IInv, FillerInv
<1>3. CASE NodeosStep
  <2>1. UNCHANGED <<dbVars, session, memVars, stepVars>>
    BY <1>3 DEF NodeosStep
  <2> QED
    BY <1>1, <1>3, <2>1, NodeosStepInv, FillerUnchanged
<1>4. CASE \E opts \in StartOptions : OperatorStart(opts)
  <2>1. PICK opts : session = "stopped" /\ StartSession(opts)
    BY <1>4 DEF OperatorStart
  <2>2. FillerInv'
    BY <1>1, <2>1, StartSessionInv
  <2>3. NodeosInv'
    BY <1>1, <2>1, WireInv DEF StartSession, nodeosVars
  <2> QED
    BY <2>2, <2>3
<1>5. CASE Retry
  <2>1. session = "waiting" /\ StartSession(options)
    BY <1>5 DEF Retry
  <2>2. FillerInv'
    BY <1>1, <2>1, StartSessionInv
  <2>3. NodeosInv'
    BY <1>1, <2>1, WireInv DEF StartSession, nodeosVars
  <2> QED
    BY <2>2, <2>3
<1>6. CASE ReceivedAbi
  BY <1>1, <1>6, ReceivedAbiInv, WireInv DEF ReceivedAbi, EndSession, SessionGone, nodeosVars
<1>7. CASE ReceivedStatus
  BY <1>1, <1>7, ReceivedStatusInv, WireInv DEF ReceivedStatus, EndSession, SessionGone
<1>8. CASE SkipResult
  BY <1>1, <1>8, FillerUnchanged, WireInv DEF SkipResult
<1>9. CASE StopAtBlock
  <2>1. EndSession("stopped") /\ UNCHANGED dbVars
    BY <1>9 DEF StopAtBlock, dbVars
  <2> QED
    BY <1>1, <2>1, SessionEnded, WireInv DEF EndSession, SessionGone
<1>10. CASE BeginBlock
  BY <1>1, <1>10, BeginBlockInv, WireInv DEF BeginBlock
<1>11. CASE \E t \in Table : FlushStream(t)
  BY <1>1, <1>11, FlushStreamInv, WireInv DEF FlushStream, nodeosVars
<1>12. CASE CloseStreams
  BY <1>1, <1>12, CloseStreamsInv, WireInv DEF CloseStreams, EndSession, SessionGone, nodeosVars
<1>13. CASE Trim
  BY <1>1, <1>13, TrimInv, WireInv DEF Trim, nodeosVars
<1>14. CASE ApplyBlockRows
  BY <1>1, <1>14, ApplyBlockRowsInv, WireInv DEF ApplyBlockRows, nodeosVars
<1>15. CASE PrevMismatch \/ ConnectionLost \/ Die
  <2>1. PICK s \in {"stopped", "waiting"} : EndSession(s) /\ UNCHANGED dbVars
    BY <1>15 DEF PrevMismatch, ConnectionLost, Die, dbVars
  <2> QED
    BY <1>1, <2>1, SessionEnded, WireInv DEF EndSession, SessionGone
<1>16. CASE CommitBlock
  BY <1>1, <1>16, CommitBlockInv, WireInv DEF CommitBlock, nodeosVars
<1>17. CASE UNCHANGED vars
  BY <1>1, <1>17, FillerUnchanged, WireInv DEF vars, nodeosVars
<1> QED
  BY <1>3, <1>4, <1>5, <1>6, <1>7, <1>8, <1>9, <1>10, <1>11, <1>12, <1>13, <1>14, <1>15,
     <1>16, <1>17 DEF Next, FillerStep, ProcessBlock, Fault

\* IInv holds in every state of every run, crashes, retries, fork switches and
\* trimming included.
THEOREM Invariant == Spec => []IInv
<1>1. Init => IInv
  BY InitInv
<1>2. IInv /\ [Next]_vars => IInv'
  BY StepKeepsInv
<1> QED
  BY <1>1, <1>2, PTL DEF Spec

\* Every variable of the filler, of postgresql and of nodeos keeps its type.
THEOREM TypeCorrect == Spec => []TypeOK
<1>1. IInv => TypeOK
  BY DEF IInv
<1> QED
  BY <1>1, Invariant, PTL

\* Whatever commit of process_blocks_result a crash falls behind, a restarted
\* filler finds one unbroken stretch of one branch with fill_status's head in it.
THEOREM AlwaysRecoverable == Spec => []Recoverable
<1>1. IInv => Recoverable
  BY DEF IInv, HistoryInv, Recoverable
<1> QED
  BY <1>1, Invariant, PTL

\* No received block lies below `first`, where trim() would never reach it.
THEOREM FirstStaysLowest == Spec => []FirstIsLowest
<1>1. IInv => FirstIsLowest
  BY DEF IInv, FirstInv, FirstIsLowest, After, Applied
<1> QED
  BY <1>1, Invariant, PTL

------------------------------------------------------------------------------
(* The rows of the tables, which several connections commit one after the  *)
(* other, against the received blocks and the status: no commit meets a    *)
(* duplicate key, no row of an abandoned branch stays, and only the head's *)
(* rows can be lost.                                                       *)

\* What IInv says of a streaming session at the steps proofs below keep needing.
LEMMA Facts ==
  ASSUME IInv
  PROVE  /\ TypeOK /\ FillerInv
         /\ received_block \in SUBSET Block /\ rows \in SUBSET Row
         /\ table_streams \in SUBSET Row
         /\ \A b \in Block : Num[b] \in Nat \ {0}
         /\ fill_status.head_id \in MaybeBlock /\ N(fill_status.head_id) \in Nat
         /\ head_id \in MaybeBlock /\ head \in Nat
         /\ \A b \in received_block : b # NoBlock /\ N(b) = Num[b]
         /\ fill_status.head_id # NoBlock => fill_status.head_id \in received_block
         /\ ~Applied => After = received_block
         /\ session = "streaming" => \A b \in After : Num[b] <= head
BY NIsNat, TreeAssumption
   DEF IInv, FillerInv, TypeOK, FillStatus, HistoryInv, After, head, N, TipIs, MaybeBlock

\* A step that leaves the filler and postgresql alone.
LEMMA RowsUnchanged ==
  ASSUME RowInv, UNCHANGED <<dbVars, session, memVars, stepVars>>
  PROVE  RowInv'
<1>1. UNCHANGED <<head, Applied, Received, Pending, FlushFirst>>
  BY DEF dbVars, memVars, stepVars, head, Applied, Received, TruncatedReceived, Below,
         Pending, FlushFirst
<1>2. UNCHANGED <<After, Landed>>
  BY <1>1 DEF After, Landed, dbVars, stepVars
<1>3. DecisionInv'
  BY <1>1 DEF RowInv, DecisionInv, dbVars, stepVars
<1>4. RowsInv'
  BY <1>2 DEF RowInv, RowsInv, dbVars
<1>5. StreamsInv'
  BY <1>1, <1>2 DEF RowInv, StreamsInv, dbVars, memVars, stepVars
<1>6. StopInv'
  BY <1>1, <1>2 DEF RowInv, StopInv, dbVars, stepVars
<1> QED
  BY <1>3, <1>4, <1>5, <1>6 DEF RowInv

\* Out of a session only what is committed matters.
LEMMA RowsOutOfSession ==
  ASSUME session' # "streaming", pc' = "idle", table_streams' = {},
         \A r \in rows' : \/ r.block \in received_block'
                          \/ \A b \in received_block' : Num[r.block] < Num[b]
                          \/ N(fill_status'.head_id) < Num[r.block],
         StopBefore # 0 => \A b \in received_block' : Num[b] < StopBefore
  PROVE  RowInv'
<1>1. ~Applied' /\ ~Pending' /\ After' = received_block'
  BY DEF Applied, Pending, After
<1>2. DecisionInv' /\ RowsInv'
  BY <1>1 DEF DecisionInv, RowsInv
<1>3. StreamsInv' /\ StopInv'
  BY <1>1 DEF StreamsInv, StopInv
<1> QED
  BY <1>2, <1>3 DEF RowInv

LEMMA RowsSessionEnded ==
  ASSUME RowInv, NEW s, s # "streaming", EndSession(s), UNCHANGED dbVars
  PROVE  RowInv'
<1>1. session' # "streaming" /\ pc' = "idle" /\ table_streams' = {}
  BY DEF EndSession
<1>2. UNCHANGED <<received_block, rows, fill_status>>
  BY DEF dbVars
<1> QED
  BY <1>1, <1>2, RowsOutOfSession DEF RowInv, RowsInv, StopInv

LEMMA RowsStartSession ==
  ASSUME IInv, RowInv, session # "streaming", NEW opts, StartSession(opts)
  PROVE  RowInv'
<1>1. session' # "streaming" /\ pc' = "idle" /\ table_streams' = {}
  BY DEF StartSession, IInv, StepInv, memVars, stepVars
<1>2. \/ received_block' = {} /\ rows' = {}
      \/ UNCHANGED <<received_block, rows, fill_status>>
  BY DEF StartSession, dbVars
<1> QED
  BY <1>1, <1>2, RowsOutOfSession DEF RowInv, RowsInv, StopInv

LEMMA RowsReceivedAbi ==
  ASSUME IInv, RowInv, ReceivedAbi
  PROVE  RowInv'
<1>1. CASE EndSession("stopped") /\ UNCHANGED dbVars
  BY <1>1, RowsSessionEnded
<1>2. CASE ~(EndSession("stopped") /\ UNCHANGED dbVars)
  <2>1. /\ session' # "streaming"
        /\ UNCHANGED <<received_block, rows, fill_status, memVars, stepVars>>
    BY <1>2 DEF ReceivedAbi
  <2>2. pc' = "idle" /\ table_streams' = {}
    BY <2>1 DEF ReceivedAbi, IInv, StepInv, memVars, stepVars
  <2> QED
    BY <2>1, <2>2, RowsOutOfSession DEF RowInv, RowsInv, StopInv
<1> QED
  BY <1>1, <1>2

\* truncate(head + 1) takes out the rows a crash left past the status.
LEMMA RowsReceivedStatus ==
  ASSUME IInv, RowInv, ReceivedStatus
  PROVE  RowInv'
<1>1. CASE ~schema
  BY <1>1, RowsSessionEnded DEF ReceivedStatus, dbVars
<1>2. CASE schema
  <2> DEFINE s == fill_status.head_id
             n == N(s) + 1
  <2>1. /\ session' = "streaming" /\ pc' = "idle" /\ table_streams' = {}
        /\ received_block' = {b \in received_block : Num[b] < n}
        /\ rows' = {r \in rows : Num[r.block] < n}
        /\ UNCHANGED fill_status
    BY <1>2 DEF ReceivedStatus, TruncatedReceived, TruncatedRows, Below, IInv, StepInv, stepVars
  <2>2. ~Applied' /\ ~Pending' /\ After' = received_block'
    BY <2>1 DEF Applied, Pending, After
  <2>3. Landed' = received_block'
    BY <2>2 DEF Landed
  <2>4. \A r \in rows' : \/ r.block \in received_block'
                         \/ \A b \in received_block' : Num[r.block] < Num[b]
    <3> TAKE r \in rows'
    <3>1. r \in rows /\ Num[r.block] < N(s) + 1 /\ Num[r.block] \in Nat /\ N(s) \in Nat
      BY <2>1, Facts DEF Row
    <3>2. ~(N(s) < Num[r.block])
      BY <3>1
    <3>3. \/ r.block \in received_block
          \/ \A b \in received_block : Num[r.block] < Num[b]
      BY <3>1, <3>2 DEF RowInv, RowsInv
    <3> QED
      BY <2>1, <3>1, <3>3
  <2>5. rows' # {} => received_block' # {}
    <3> SUFFICES ASSUME NEW r \in rows' PROVE received_block' # {}
      OBVIOUS
    <3>1. r \in rows /\ Num[r.block] < N(s) + 1 /\ Num[r.block] \in Nat \ {0} /\ N(s) \in Nat
      BY <2>1, Facts DEF Row
    <3>2. s # NoBlock
      BY <3>1 DEF N
    <3>3. s \in received_block /\ Num[s] = N(s)
      BY <3>2, Facts
    <3> QED
      BY <2>1, <3>1, <3>3
  <2>6. RowsInv'
    BY <2>3, <2>4, <2>5 DEF RowsInv
  <2>7. DecisionInv' /\ StreamsInv'
    BY <2>1, <2>2 DEF DecisionInv, StreamsInv
  <2>8. StopInv'
    BY <2>1, <2>2 DEF RowInv, StopInv
  <2> QED
    BY <2>6, <2>7, <2>8 DEF RowInv
<1> QED
  BY <1>1, <1>2

\* A result that is not a fork switch is newer than the head; a fork switch waits
\* until the streams are closed.
LEMMA RowsBeginBlock ==
  ASSUME IInv, RowInv, BeginBlock
  PROVE  RowInv'
<1> DEFINE m == Head(wire)
           b == m.this_block
<1>1. /\ pc = "idle" /\ b # NoBlock /\ cur' = Decide(m)
      /\ ~(Stops(m) /\ table_streams = {})
      /\ UNCHANGED <<received_block, rows, fill_status, session, head_id, table_streams>>
  BY DEF BeginBlock, dbVars, memVars
<1>2. /\ cur'.this_block = b
      /\ cur'.forks = (N(b) <= head)
      /\ cur'.forks => ~cur'.bulk
  BY <1>1 DEF Decide
<1>3. cur'.forks => ClosesFirst(m)
  BY <1>1, <1>2 DEF ClosesFirst
<1>4. \/ pc' \in {"trim", "apply"} /\ table_streams = {}
      \/ pc' = "flush" /\ then' \in {"trim", "stop"} /\ (then' = "trim" => ~Stops(m))
      \/ pc' = "apply" /\ ~ClosesFirst(m)
  BY DEF BeginBlock, AfterClose
<1>5. b \in Block /\ N(b) = Num[b]
  <2>1. m \in BlocksResult
    BY DEF BeginBlock, IInv, TypeOK, NodeosTypeOK
  <2> QED
    BY <1>1, <2>1 DEF BlocksResult, MaybeBlock, N
<1>6. ~Stops(m) /\ StopBefore # 0 => Num[b] < StopBefore
  BY <1>5, Facts, FillAssumption DEF Stops
<1>7. ~Stops(m) \/ (pc' = "flush" /\ then' = "stop")
  <2>1. ~ClosesFirst(m) => ~Stops(m)
    BY DEF ClosesFirst
  <2> HIDE DEF m
  <2> QED
    BY <1>1, <1>4, <2>1
<1> HIDE DEF m
<1>8. ~Applied /\ ~Applied' /\ UNCHANGED <<After, Landed, head>>
  BY <1>1, <1>4 DEF Applied, After, Landed, head
<1>9. DecisionInv'
  <2>1. ASSUME ~cur'.forks PROVE head' < Num[cur'.this_block]
    <3>1. ~(Num[b] <= head)
      BY <1>2, <1>5, <2>1
    <3>2. Num[b] \in Nat /\ head \in Nat
      BY <1>5, Facts
    <3> QED
      BY <1>2, <1>8, <3>1, <3>2
  <2> QED
    BY <1>8, <2>1 DEF DecisionInv
<1>10. RowsInv'
  BY <1>1, <1>8 DEF RowInv, RowsInv
<1>11. StreamsInv'
  <2>1. pc' = "apply" /\ cur'.forks => table_streams' = {}
    BY <1>1, <1>3, <1>4
  <2>2. pc' # "commit"
    BY <1>4
  <2> QED
    BY <1>1, <1>8, <2>1, <2>2 DEF RowInv, StreamsInv
<1>12. StopInv'
  <2>1. Pending' /\ StopBefore # 0 => Num[cur'.this_block] < StopBefore
    BY <1>2, <1>6, <1>7 DEF Pending
  <2> QED
    BY <1>1, <1>8, <2>1 DEF RowInv, StopInv
<1> QED
  BY <1>9, <1>10, <1>11, <1>12 DEF RowInv

\* A stream's commit: what is left open is of other tables.
LEMMA RowsFlushStream ==
  ASSUME IInv, RowInv, NEW t \in Table, FlushStream(t)
  PROVE  RowInv'
<1> DEFINE flushed == {r \in table_streams : r.table = t}
<1>1. /\ pc = "flush" /\ session = "streaming"
      /\ rows' = rows \cup flushed /\ table_streams' = table_streams \ flushed
      /\ UNCHANGED <<received_block, fill_status, session, head_id, irreversible, first, cur>>
      /\ \/ pc' = "flush" /\ then' = then
         \/ pc' = "commit" /\ then = "commit" /\ table_streams' = {}
         \/ pc' = "status" /\ then' = then /\ then # "commit" /\ table_streams' = {}
  BY DEF FlushStream, IInv, StepInv
<1>2. (then = "commit" => ~cur.forks) /\ Applied' = Applied /\ (Pending' => Pending)
  BY <1>1 DEF IInv, StepInv, FlushFirst, Applied, Pending
<1>3. Applied => ~cur.forks
  BY <1>1, <1>2 DEF Applied
<1>4. UNCHANGED <<head, FlushFirst, After, Landed>>
  <2>1. UNCHANGED <<head, FlushFirst, Received>>
    BY <1>1 DEF head, FlushFirst, Received, TruncatedReceived, Below
  <2>2. UNCHANGED After
    BY <1>1, <1>2, <2>1 DEF After
  <2> QED
    BY <1>1, <1>2, <2>1, <2>2 DEF Landed
<1>5. /\ \A r \in table_streams : r.block \in After
      /\ \A r \in table_streams : \/ r.block = fill_status.head_id
                                  \/ N(fill_status.head_id) < Num[r.block]
      /\ \A r \in table_streams, q \in rows :
           Num[q.block] < Num[r.block] \/ \A x \in table_streams : q.table # x.table
  BY <1>1, <1>3 DEF RowInv, StreamsInv
<1>6. After = Landed
  BY <1>3 DEF After, Landed
<1>7. DecisionInv'
  BY <1>1, <1>2, <1>4 DEF RowInv, DecisionInv
<1>8. RowsInv'
  <2>1. \A r \in rows : r.block \in Block
    BY Facts DEF Row
  <2>2. \A r \in flushed : r.block \in Block /\ r.block # NoBlock
    BY Facts, TreeAssumption DEF Row
  <2>3. \A r \in flushed : r.block \in received_block
                           \/ N(fill_status.head_id) < Num[r.block]
    BY <1>5, <2>2, Facts
  <2>4. \A r \in rows' : \/ r.block \in received_block'
                         \/ \A b \in received_block' : Num[r.block] < Num[b]
                         \/ N(fill_status'.head_id) < Num[r.block]
    BY <1>1, <2>3 DEF RowInv, RowsInv
  <2>5. \A r \in rows' :
          \/ r.block \in Landed'
          \/ received_block' # {} /\ \A b \in received_block' : Num[r.block] < Num[b]
    BY <1>1, <1>4, <1>5, <1>6 DEF RowInv, RowsInv
  <2> QED
    BY <2>4, <2>5 DEF RowsInv
<1>9. StreamsInv'
  <2>1. \A r \in table_streams', q \in rows' :
          \/ Num[q.block] < Num[r.block]
          \/ \A x \in table_streams' : q.table # x.table
    BY <1>1, <1>5
  <2>2. table_streams' # {} => pc' = "flush"
    BY <1>1
  <2>3. \A r \in table_streams' : r.block \in After'
    BY <1>1, <1>4, <1>5
  <2>4. \A r \in table_streams' : \/ r.block = fill_status'.head_id
                                  \/ N(fill_status'.head_id) < Num[r.block]
    BY <1>1, <1>5
  <2>5. pc' = "commit" => table_streams' = {} /\ ~cur'.forks
    BY <1>1, <1>2
  <2>6. pc' # "apply"
    BY <1>1
  <2> QED
    BY <2>1, <2>2, <2>3, <2>4, <2>5, <2>6 DEF StreamsInv
<1>10. StopInv'
  BY <1>1, <1>2, <1>4 DEF RowInv, StopInv
<1> QED
  BY <1>7, <1>8, <1>9, <1>10 DEF RowInv

\* With all streams closed the status names the head, and no row lies past it.
LEMMA RowsCloseStreams ==
  ASSUME IInv, RowInv, CloseStreams
  PROVE  RowInv'
<1>1. /\ pc = "status" /\ session = "streaming" /\ table_streams = {} /\ then # "commit"
      /\ UNCHANGED <<received_block, rows>>
  BY DEF CloseStreams, IInv, StepInv
<1>2. ~Applied /\ Landed = received_block /\ After = received_block
  BY <1>1 DEF Applied, Landed, After
<1>3. \A r \in rows : \/ r.block \in received_block
                      \/ received_block # {} /\ \A b \in received_block : Num[r.block] < Num[b]
  BY <1>1, <1>2 DEF RowInv, RowsInv
<1>4. CASE then = "stop"
  <2>1. session' # "streaming" /\ pc' = "idle" /\ table_streams' = {}
    BY <1>4 DEF CloseStreams, EndSession
  <2> QED
    BY <1>1, <1>3, <2>1, RowsOutOfSession DEF RowInv, StopInv
<1>5. CASE then # "stop"
  <2>1. /\ UNCHANGED <<session, head_id, irreversible, first, table_streams>>
        /\ pc' \in {"trim", "apply", "idle"}
        /\ pc' # "idle" => then = "trim" /\ cur' = cur
    BY <1>5 DEF CloseStreams, memVars, AfterClose
  <2>2. ~Applied' /\ After' = received_block' /\ Landed' = received_block'
    BY <2>1 DEF Applied, After, Landed
  <2>3. UNCHANGED head
    BY <2>1 DEF head
  <2>4. Pending' => Pending /\ cur' = cur
    BY <1>1, <2>1 DEF Pending
  <2>5. DecisionInv'
    BY <2>2, <2>3, <2>4 DEF RowInv, DecisionInv
  <2>6. RowsInv'
    BY <1>1, <1>3, <2>2 DEF RowsInv
  <2>7. StreamsInv'
    BY <1>1, <2>1 DEF StreamsInv
  <2>8. StopInv'
    BY <1>1, <2>2, <2>4 DEF RowInv, StopInv
  <2> QED
    BY <2>5, <2>6, <2>7, <2>8 DEF RowInv
<1> QED
  BY <1>4, <1>5

\* Rows that trimming keeps of the blocks it takes are older than every block left.
LEMMA RowsTrim ==
  ASSUME IInv, RowInv, Trim
  PROVE  RowInv'
<1>1. /\ pc = "trim" /\ pc' = "apply" /\ session = "streaming" /\ table_streams = {}
      /\ first < EndTrim
      /\ received_block' = {b \in received_block : ~InTrim(Num[b])}
      /\ \A r \in rows' : r \in rows
      /\ UNCHANGED <<fill_status, session, head_id, irreversible, table_streams, then, cur>>
  BY DEF Trim, IInv, StepInv
<1>2. ~Applied /\ ~Applied' /\ Landed = received_block /\ Landed' = received_block'
      /\ After = received_block /\ After' = received_block' /\ Pending
  BY <1>1 DEF Applied, Landed, After, Pending
<1>3. /\ \A r \in rows : r.block \in Block
      /\ EndTrim \in Nat /\ first \in Nat /\ EndTrim <= head
      /\ \A b \in received_block : first <= Num[b] /\ Num[b] \in Nat
  <2>1. EndTrim \in Nat /\ EndTrim <= head
    BY Facts DEF EndTrim, TypeOK
  <2> QED
    BY <1>1, <1>2, <2>1, Facts DEF Row, TypeOK, FillerInv, FirstInv
<1>4. \A b \in received_block : b \in received_block' <=> EndTrim <= Num[b]
  BY <1>1, <1>3 DEF InTrim
<1>5. head_id \in received_block'
  <2>1. head_id # NoBlock /\ head = Num[head_id]
    BY <1>1, <1>3 DEF head, N
  <2>2. TipIs(received_block, head_id)
    BY <1>1, <1>2 DEF IInv, HistoryInv
  <2> QED
    BY <1>3, <1>4, <2>1, <2>2 DEF TipIs
<1>6. \A r \in rows' : \/ r.block \in received_block'
                       \/ \A b \in received_block' : Num[r.block] < Num[b]
  <2> TAKE r \in rows'
  <2>1. r \in rows /\ Num[r.block] \in Nat
    BY <1>1, <1>3, Facts
  <2>2. \/ r.block \in received_block
        \/ \A b \in received_block : Num[r.block] < Num[b]
    BY <1>1, <1>2, <2>1 DEF RowInv, RowsInv
  <2>3. ASSUME r.block \in received_block, r.block \notin received_block',
               NEW b \in received_block'
        PROVE  Num[r.block] < Num[b]
    BY <1>1, <1>3, <1>4, <2>1, <2>3
  <2> QED
    BY <1>1, <2>2, <2>3
<1>7. UNCHANGED head
  BY <1>1 DEF head
<1>8. DecisionInv'
  BY <1>1, <1>2, <1>7 DEF RowInv, DecisionInv
<1>9. RowsInv'
  BY <1>2, <1>5, <1>6 DEF RowsInv
<1>10. StreamsInv'
  BY <1>1 DEF StreamsInv
<1>11. StopInv'
  BY <1>1, <1>2 DEF RowInv, StopInv
<1> QED
  BY <1>8, <1>9, <1>10, <1>11 DEF RowInv

\* The rows of the block at hand join the open streams: no committed row has its
\* number, since truncate took them or the block is newer than the head.
LEMMA RowsApplyBlock ==
  ASSUME IInv, RowInv, ApplyBlockRows
  PROVE  RowInv'
<1> DEFINE b == cur.this_block
<1>1. /\ pc = "apply" /\ session = "streaming" /\ b \in Block
      /\ (cur.forks => ~cur.bulk) /\ (cur.forks => Num[b] <= head)
      /\ table_streams' = table_streams \cup RowsOf(b)
      /\ UNCHANGED <<received_block, rows, fill_status, session, cur>>
      /\ \/ FlushFirst /\ pc' = "flush" /\ then' = "commit"
         \/ ~FlushFirst /\ pc' = "commit"
  BY DEF ApplyBlockRows, IInv, StepInv, dbVars
<1>2. ~Applied /\ Applied' /\ Pending /\ ~Pending' /\ UNCHANGED FlushFirst
  BY <1>1 DEF Applied, Pending, FlushFirst
<1>3. \A r \in RowsOf(b) : r.block = b
  BY DEF RowsOf
<1>4. /\ After = received_block /\ Landed = received_block
      /\ After' = (IF cur.forks THEN {c \in received_block : Num[c] < Num[b]}
                                ELSE received_block) \cup {b}
      /\ Landed' = (IF cur.forks THEN received_block ELSE received_block \cup {b})
  BY <1>1, <1>2 DEF After, Landed, Received, TruncatedReceived, Below
<1>5. /\ Num[b] \in Nat /\ head \in Nat /\ N(fill_status.head_id) \in Nat
      /\ \A c \in received_block : Num[c] \in Nat /\ Num[c] <= head
      /\ \A r \in rows : r.block \in Block /\ Num[r.block] \in Nat
      /\ N(fill_status.head_id) <= head
  <2>1. \A c \in received_block : Num[c] \in Nat /\ Num[c] <= head
    BY <1>1, <1>4, Facts
  <2>2. N(fill_status.head_id) <= head
    BY <2>1, Facts DEF N
  <2> QED
    BY <1>1, <2>1, <2>2, Facts DEF Row
<1>6. ~cur.forks => head < Num[b]
  BY <1>2 DEF RowInv, DecisionInv
<1>7. DecisionInv'
  BY <1>1, <1>2, <1>5, <1>6 DEF DecisionInv
<1>8. RowsInv'
  BY <1>1, <1>4 DEF RowInv, RowsInv
<1>9. StreamsInv'
  <2>1. CASE cur.forks
    <3>1. table_streams' = RowsOf(b)
      BY <1>1, <2>1 DEF RowInv, StreamsInv
    <3>2. ~FlushFirst /\ pc' = "commit"
      BY <1>1, <2>1 DEF FlushFirst
    <3>3. \A r \in table_streams' : r.block \in After'
      BY <1>3, <1>4, <3>1
    <3> QED
      BY <1>1, <1>2, <2>1, <3>1, <3>2, <3>3 DEF StreamsInv
  <2>2. CASE ~cur.forks
    <3>1. \A r \in table_streams' : r.block \in After'
      BY <1>1, <1>3, <1>4, <2>2 DEF RowInv, StreamsInv
    <3>2. \A r \in table_streams' : \/ r.block = fill_status'.head_id
                                    \/ N(fill_status'.head_id) < Num[r.block]
      BY <1>1, <1>2, <1>3, <1>5, <1>6, <2>2 DEF RowInv, StreamsInv
    <3>3. \A q \in rows : Num[q.block] < Num[b]
      <4> TAKE q \in rows
      <4>1. \/ q.block \in received_block
            \/ received_block # {} /\ \A c \in received_block : Num[q.block] < Num[c]
        BY <1>1, <1>4 DEF RowInv, RowsInv
      <4> QED
        BY <1>5, <1>6, <2>2, <4>1
    <3>4. \A r \in table_streams', q \in rows' : Num[q.block] < Num[r.block]
      BY <1>1, <1>2, <1>3, <2>2, <3>3 DEF RowInv, StreamsInv
    <3>5. pc' = "commit" => ~FlushFirst'
      BY <1>1, <1>2
    <3> QED
      BY <1>1, <2>2, <3>1, <3>2, <3>4, <3>5 DEF StreamsInv
  <2> QED
    BY <2>1, <2>2
<1>10. StopInv'
  BY <1>1, <1>2, <1>4 DEF RowInv, StopInv
<1> QED
  BY <1>7, <1>8, <1>9, <1>10 DEF RowInv

\* t's commit: rows of the old branch go with the blocks they are of.
LEMMA RowsCommitBlock ==
  ASSUME IInv, RowInv, CommitBlock
  PROVE  RowInv'
<1> DEFINE b == cur.this_block
<1>1. /\ pc = "commit" /\ session = "streaming" /\ b \in Block /\ head_id = b
      /\ (cur.forks => ~cur.bulk) /\ Applied
      /\ received_block' = Received
      /\ rows' = (IF cur.forks THEN {r \in rows : Num[r.block] < Num[b]} ELSE rows)
      /\ fill_status' = StatusCommitted
      /\ UNCHANGED <<session, table_streams>>
      /\ pc' = "idle" \/ (pc' = "flush" /\ then' = "idle")
  BY DEF CommitBlock, IInv, StepInv, Applied, memVars, TruncatedRows
<1>2. ~Applied' /\ ~Pending' /\ After = Received /\ After' = Received /\ Landed' = Received
  BY <1>1 DEF Applied, Pending, After, Landed
<1>3. /\ Received = (IF cur.forks THEN {c \in received_block : Num[c] < Num[b]}
                                  ELSE received_block) \cup {b}
      /\ Landed = (IF cur.forks THEN received_block ELSE Received)
  BY <1>1, <1>2 DEF Received, TruncatedReceived, Below, Landed
<1>4. /\ Num[b] \in Nat
      /\ \A c \in received_block : Num[c] \in Nat
      /\ \A r \in rows : r.block \in Block /\ Num[r.block] \in Nat
  BY <1>1, Facts DEF Row
<1>5. ~cur.forks => \A c \in received_block : Num[c] < Num[b]
  BY <1>1 DEF RowInv, DecisionInv
<1>6. ~cur.bulk => fill_status'.head_id = b
  BY <1>1 DEF StatusCommitted, StatusToWrite
<1>7. cur.bulk => fill_status' = fill_status
  BY <1>1 DEF StatusCommitted
<1>8. \A r \in rows' : \/ r.block \in received_block'
                       \/ \A c \in received_block' : Num[r.block] < Num[c]
  <2> TAKE r \in rows'
  <2>1. r \in rows /\ (cur.forks => Num[r.block] < Num[b])
    BY <1>1
  <2>2. \/ r.block \in Landed
        \/ received_block # {} /\ \A c \in received_block : Num[r.block] < Num[c]
    BY <1>1, <2>1 DEF RowInv, RowsInv
  <2>3. CASE cur.forks
    BY <1>1, <1>3, <1>4, <2>1, <2>2, <2>3
  <2>4. CASE ~cur.forks
    BY <1>1, <1>3, <1>4, <1>5, <2>1, <2>2, <2>4
  <2> QED
    BY <2>3, <2>4
<1>9. DecisionInv'
  BY <1>2 DEF DecisionInv
<1>10. RowsInv'
  <2>1. received_block' # {}
    BY <1>1, <1>3
  <2> QED
    BY <1>1, <1>2, <1>8, <2>1 DEF RowsInv
<1>11. StreamsInv'
  <2>1. \A r \in table_streams' : r.block \in After'
    BY <1>1, <1>2 DEF RowInv, StreamsInv
  <2>2. CASE cur.forks
    <3>1. table_streams' = RowsOf(b)
      BY <1>1, <2>2 DEF RowInv, StreamsInv
    <3>2. \A r \in table_streams' : r.block = b
      BY <3>1 DEF RowsOf
    <3>3. \A r \in table_streams', q \in rows' : Num[q.block] < Num[r.block]
      BY <1>1, <2>2, <3>2
    <3> QED
      BY <1>1, <1>2, <1>6, <2>1, <2>2, <3>2, <3>3 DEF StreamsInv
  <2>3. CASE ~cur.forks /\ cur.bulk
    BY <1>1, <1>2, <1>7, <2>1, <2>3 DEF RowInv, StreamsInv
  <2>4. CASE ~cur.forks /\ ~cur.bulk
    <3>1. table_streams' = {}
      BY <1>1, <2>4 DEF RowInv, StreamsInv, FlushFirst
    <3> QED
      BY <1>1, <3>1 DEF StreamsInv
  <2> QED
    BY <2>2, <2>3, <2>4
<1>12. StopInv'
  BY <1>1, <1>2 DEF RowInv, StopInv
<1> QED
  BY <1>9, <1>10, <1>11, <1>12 DEF RowInv

------------------------------------------------------------------------------
(* The invariant *)

LEMMA RowsInit ==
  ASSUME Init
  PROVE  RowInv
<1>1. pc = "idle" /\ session # "streaming" /\ table_streams = {} /\ rows = {}
      /\ received_block = {}
  BY DEF Init
<1>2. ~Applied /\ ~Pending /\ After = {}
  BY <1>1 DEF Applied, Pending, After
<1>3. DecisionInv /\ RowsInv /\ StreamsInv /\ StopInv
  BY <1>1, <1>2 DEF DecisionInv, RowsInv, StreamsInv, StopInv
<1> QED
  BY <1>3 DEF RowInv

LEMMA RowsStep ==
  ASSUME IInv, RowInv, [Next]_vars
  PROVE  RowInv'
<1>1. CASE NodeosStep
  BY <1>1, RowsUnchanged DEF NodeosStep
<1>2. CASE \E opts \in StartOptions : OperatorStart(opts)
  BY <1>2, RowsStartSession DEF OperatorStart
<1>3. CASE Retry
  BY <1>3, RowsStartSession DEF Retry
<1>4. CASE ReceivedAbi
  BY <1>4, RowsReceivedAbi
<1>5. CASE ReceivedStatus
  BY <1>5, RowsReceivedStatus
<1>6. CASE SkipResult
  BY <1>6, RowsUnchanged DEF SkipResult
<1>7. CASE StopAtBlock
  BY <1>7, RowsSessionEnded DEF StopAtBlock, dbVars
<1>8. CASE BeginBlock
  BY <1>8, RowsBeginBlock
<1>9. CASE \E t \in Table : FlushStream(t)
  BY <1>9, RowsFlushStream
<1>10. CASE CloseStreams
  BY <1>10, RowsCloseStreams
<1>11. CASE Trim
  BY <1>11, RowsTrim
<1>12. CASE ApplyBlockRows
  BY <1>12, RowsApplyBlock
<1>13. CASE PrevMismatch \/ ConnectionLost \/ Die
  <2>1. PICK s \in {"stopped", "waiting"} : EndSession(s) /\ UNCHANGED dbVars
    BY <1>13 DEF PrevMismatch, ConnectionLost, Die, dbVars
  <2> QED
    BY <2>1, RowsSessionEnded
<1>14. CASE CommitBlock
  BY <1>14, RowsCommitBlock
<1>15. CASE UNCHANGED vars
  BY <1>15, RowsUnchanged DEF vars
<1> QED
  BY <1>1, <1>2, <1>3, <1>4, <1>5, <1>6, <1>7, <1>8, <1>9, <1>10, <1>11, <1>12, <1>13,
     <1>14, <1>15 DEF Next, FillerStep, ProcessBlock, Fault

\* The committed rows, the open streams and the decisions taken stand to the received
\* blocks as they must, in every state of every run.
THEOREM RowsInvariant == Spec => [](IInv /\ RowInv)
<1>1. Init => IInv /\ RowInv
  BY InitInv, RowsInit
<1>2. IInv /\ RowInv /\ [Next]_vars => (IInv /\ RowInv)'
  BY StepKeepsInv, RowsStep
<1> QED
  BY <1>1, <1>2, PTL DEF Spec

------------------------------------------------------------------------------
(* Primary keys and abandoned branches *)

\* A stream's commit never fails on a row that is already there, and received_block
\* never gets a second block of one number.
THEOREM NeverDuplicateKey == Spec => []NoDuplicateKey
<1>1. ASSUME IInv, RowInv PROVE NoDuplicateKey
  <2>1. ASSUME pc = "flush", NEW r \in table_streams, NEW q \in rows,
               r.table = q.table, r.key = q.key, Num[r.block] = Num[q.block]
        PROVE  FALSE
    <3>1. ~(Applied /\ cur.forks)
      BY <1>1, <2>1 DEF Applied, IInv, StepInv, FlushFirst
    <3>2. \/ Num[q.block] < Num[r.block]
          \/ \A x \in table_streams : q.table # x.table
      BY <1>1, <2>1, <3>1 DEF RowInv, StreamsInv
    <3>3. Num[q.block] \in Nat
      BY <1>1, Facts DEF Row
    <3> QED
      BY <2>1, <3>2, <3>3
  <2>2. ASSUME pc = "commit", ~cur.forks, NEW b \in received_block PROVE Num[b] # Num[cur.this_block]
    <3>1. Num[b] < Num[cur.this_block]
      BY <1>1, <2>2 DEF RowInv, DecisionInv, Applied
    <3>2. Num[b] \in Nat
      BY <1>1, Facts
    <3> QED
      BY <3>1, <3>2
  <2> QED
    BY <2>1, <2>2 DEF NoDuplicateKey
<1> QED
  BY <1>1, RowsInvariant, PTL

\* No reader of a covered block number finds a row of a branch nodeos abandoned.
THEOREM NeverOrphanRows == Spec => []NoOrphanRows
<1>1. ASSUME IInv, RowInv PROVE NoOrphanRows
  <2> SUFFICES ASSUME NEW r \in rows, Num[r.block] \in Lowest..N(fill_status.head_id)
               PROVE  r.block \in received_block
    BY DEF NoOrphanRows
  <2>1. Num[r.block] \in Nat \ {0} /\ N(fill_status.head_id) \in Nat
    BY <1>1, Facts DEF Row
  <2>2. Num[r.block] <= N(fill_status.head_id)
    BY <2>1
  <2>3. fill_status.head_id \in received_block
    BY <1>1, <2>1, <2>2, Facts DEF N
  <2> DEFINE S == {Num[b] : b \in received_block}
  <2>4. S \in SUBSET Nat /\ S # {}
    BY <1>1, <2>3, Facts
  <2>5. Lowest = Min(S) /\ Min(S) \in S
    BY <2>3, <2>4, MinInSet DEF Lowest
  <2>6. PICK c \in received_block : Num[c] = Lowest
    BY <2>5
  <2>7. Num[c] <= Num[r.block] /\ Num[c] \in Nat
    BY <1>1, <2>6, Facts
  <2> QED
    BY <1>1, <2>1, <2>2, <2>6, <2>7 DEF RowInv, RowsInv
<1> QED
  BY <1>1, RowsInvariant, PTL

------------------------------------------------------------------------------
(* --fill-stop and --fpg-drop *)

\* No block from --fill-stop on is recorded, and the status left behind names the
\* head the session had.
THEOREM StopAlwaysClean == Spec => StopIsClean
<1>1. ASSUME IInv, IInv', RowInv, RowInv', [Next]_vars
      PROVE  [/\ StopBefore # 0 => \A b \in received_block' : Num[b] < StopBefore
              /\ StopAtBlock \/ (CloseStreams /\ then = "stop") => fill_status'.head_id = head_id]_vars
  <2>1. StopBefore # 0 => \A b \in received_block' : Num[b] < StopBefore
    BY <1>1 DEF RowInv, StopInv
  <2>2. StopAtBlock => fill_status'.head_id = head_id
    BY <1>1 DEF StopAtBlock, dbVars, IInv, HistoryInv
  <2>3. CloseStreams => fill_status'.head_id = head_id
    BY DEF CloseStreams, StatusToWrite
  <2> QED
    BY <2>1, <2>2, <2>3
<1> QED
  BY <1>1, RowsInvariant, PTL DEF Spec, StopIsClean

\* A session that starts again by itself has nothing left to drop.
THEOREM RetryNeverDropsSchema == Spec => RetryNeverDrops
<1>1. Init => OptionsInv
  BY DEF Init, OptionsInv
<1>2. ASSUME OptionsInv, [Next]_vars
      PROVE  OptionsInv' /\ [schema /\ ~schema' => session = "stopped"]_vars
  <2>1. ASSUME NEW opts, StartSession(opts)
        PROVE  OptionsInv' /\ ("drop" \notin opts => UNCHANGED schema)
    BY <2>1 DEF StartSession, Remaining, OptionsInv, dbVars
  <2>2. CASE Retry \/ \E opts \in StartOptions : OperatorStart(opts)
    BY <1>2, <2>1, <2>2 DEF Retry, OperatorStart, OptionsInv
  <2>3. CASE ReceivedAbi
    BY <1>2, <2>3 DEF ReceivedAbi, OptionsInv, dbVars
  <2>4. CASE Die
    BY <1>2, <2>4 DEF Die, OptionsInv, dbVars
  <2>5. CASE UNCHANGED <<schema, options>>
    BY <1>2, <2>5 DEF OptionsInv
  <2>6. CASE UNCHANGED vars
    BY <2>5, <2>6 DEF vars, dbVars
  <2>7. CASE NodeosStep \/ ConnectionLost
    BY <2>5, <2>7 DEF NodeosStep, ConnectionLost, dbVars
  <2>8. CASE ReceivedStatus
    BY <2>5, <2>8 DEF ReceivedStatus, dbVars
  <2>9. CASE ProcessBlock
    <3>1. UNCHANGED <<schema, options>>
      BY <2>9 DEF ProcessBlock, SkipResult, StopAtBlock, BeginBlock, FlushStream, CloseStreams,
         Trim, ApplyBlockRows, PrevMismatch, CommitBlock, dbVars
    <3> QED
      BY <2>5, <3>1
  <2> QED
    BY <1>2, <2>2, <2>3, <2>4, <2>6, <2>7, <2>8, <2>9 DEF Next, FillerStep, Fault
<1> QED
  BY <1>1, <1>2, PTL DEF Spec, RetryNeverDrops

------------------------------------------------------------------------------
(* What a step may lose *)

HeadAtRisk(b) ==
  \/ RowsOf(b) \subseteq Stored'
  \/ session' # "streaming" /\ b = fill_status.head_id

\* The blocks the status covers are received, and numbered up to its head.
LEMMA CoveredFacts ==
  ASSUME IInv, NEW b \in Covered
  PROVE  /\ b \in received_block /\ b \in Block /\ Num[b] \in Nat
         /\ Num[b] <= N(fill_status.head_id)
         /\ \A r \in RowsOf(b) : r.block = b
BY Facts DEF Covered, Below, RowsOf

\* The rows a session's end loses are of the head or not covered yet.
LEMMA LostWithSession ==
  ASSUME IInv, RowInv, NEW b \in Covered, RowsOf(b) \subseteq Stored,
         session' # "streaming", pc' = "idle", UNCHANGED rows
  PROVE  HeadAtRisk(b)
<1>1. Stored' = rows \cup table_streams'
  BY DEF Stored
<1>2. CASE RowsOf(b) \subseteq rows
  BY <1>1, <1>2 DEF HeadAtRisk
<1>3. CASE ~(RowsOf(b) \subseteq rows)
  <2>1. PICK r \in RowsOf(b) : r \notin rows
    BY <1>3
  <2>2. r \in table_streams /\ ~(pc = "commit" /\ cur.forks)
    BY <2>1 DEF Stored
  <2>3. ~(Applied /\ cur.forks)
    BY <2>2 DEF Applied, IInv, StepInv, FlushFirst
  <2>4. r.block = fill_status.head_id \/ N(fill_status.head_id) < Num[r.block]
    BY <2>2, <2>3 DEF RowInv, StreamsInv
  <2>5. r.block = b /\ Num[b] \in Nat /\ Num[b] <= N(fill_status.head_id)
    BY <2>1, CoveredFacts
  <2>6. b = fill_status.head_id
    BY <2>4, <2>5, Facts
  <2> QED
    BY <2>6 DEF HeadAtRisk
<1> QED
  BY <1>2, <1>3

\* Rows that are neither committed nor held before a step stay so when no row goes.
LEMMA NothingLost ==
  ASSUME NEW b, RowsOf(b) \subseteq Stored, Stored \subseteq Stored'
  PROVE  HeadAtRisk(b)
BY DEF HeadAtRisk

LEMMA TrimKeepsCovered ==
  ASSUME IInv, RowInv, Trim, NEW b \in Covered, b \in received_block',
         RowsOf(b) \subseteq Stored
  PROVE  HeadAtRisk(b)
<1>1. /\ pc' = "apply" /\ table_streams = {} /\ pc = "trim" /\ session = "streaming"
      /\ received_block' = {c \in received_block : ~InTrim(Num[c])}
      /\ rows' = {r \in rows : IF r.table \in SimpleTable THEN ~InTrim(Num[r.block])
                                                          ELSE ~Superseded(r)}
  BY DEF Trim, IInv, StepInv
<1>2. ~Applied /\ After = received_block
  BY <1>1 DEF Applied, After
<1>3. /\ EndTrim \in Nat /\ first \in Nat /\ first <= Num[b] /\ Num[b] \in Nat
      /\ b \in received_block /\ \A r \in RowsOf(b) : r.block = b
  <2>1. EndTrim \in Nat
    BY Facts DEF EndTrim, TypeOK
  <2> QED
    BY <1>1, <1>2, <2>1, CoveredFacts, Facts DEF TypeOK, FillerInv, FirstInv
<1>4. EndTrim <= Num[b] /\ ~InTrim(Num[b])
  BY <1>1, <1>3 DEF InTrim
<1>5. ASSUME NEW r \in RowsOf(b) PROVE r \in rows'
  <2>1. r \in rows /\ r.block = b
    BY <1>1, <1>3 DEF Stored
  <2>2. ~Superseded(r)
    <3> SUFFICES ASSUME NEW q \in rows, Num[q.block] \in (first + 1)..EndTrim,
                        Num[r.block] < Num[q.block]
                 PROVE  FALSE
      BY DEF Superseded
    <3>1. Num[q.block] \in Nat
      BY Facts DEF Row
    <3> QED
      BY <1>3, <1>4, <2>1, <3>1
  <2> QED
    BY <1>1, <1>4, <2>1, <2>2
<1> QED
  BY <1>1, <1>5 DEF Stored, HeadAtRisk

\* A fork switch takes the rows it goes back over with the blocks they are of.
LEMMA CommitKeepsCovered ==
  ASSUME IInv, RowInv, CommitBlock, NEW b \in Covered, b \in received_block',
         RowsOf(b) \subseteq Stored
  PROVE  HeadAtRisk(b)
<1>1. /\ pc = "commit" /\ pc' \in {"idle", "flush"}
      /\ received_block' = Received
      /\ rows' = (IF cur.forks THEN {r \in rows : Num[r.block] < Num[cur.this_block]} ELSE rows)
      /\ UNCHANGED table_streams
  BY DEF CommitBlock, memVars, TruncatedRows
<1>2. Stored' = rows' \cup table_streams
  BY <1>1 DEF Stored
<1>3. CASE ~cur.forks
  <2>1. Stored \subseteq Stored'
    BY <1>1, <1>2, <1>3 DEF Stored
  <2> QED
    BY <2>1, NothingLost
<1>4. CASE cur.forks
  <2>1. b = cur.this_block \/ Num[b] < Num[cur.this_block]
    BY <1>1, <1>4 DEF Received, TruncatedReceived, Below
  <2>2. CASE b = cur.this_block
    BY <1>1, <1>2, <1>4, <2>2 DEF RowInv, StreamsInv, HeadAtRisk
  <2>3. CASE Num[b] < Num[cur.this_block]
    <3>1. \A r \in RowsOf(b) : r \in rows /\ r.block = b
      BY <1>1, <1>4, CoveredFacts DEF Stored
    <3> QED
      BY <1>1, <1>2, <1>4, <2>3, <3>1 DEF HeadAtRisk
  <2> QED
    BY <2>1, <2>2, <2>3
<1> QED
  BY <1>3, <1>4

LEMMA StepKeepsCovered ==
  ASSUME IInv, RowInv, Next, NEW b \in Covered, b \in Covered', RowsOf(b) \subseteq Stored
  PROVE  HeadAtRisk(b)
<1>1. b \in received_block'
  BY DEF Covered, Below
<1>2. session # "streaming" => pc = "idle" /\ table_streams = {}
  BY DEF IInv, StepInv
<1>3. CASE NodeosStep \/ SkipResult
  <2>1. UNCHANGED Stored
    BY <1>3 DEF NodeosStep, SkipResult, Stored, dbVars, memVars, stepVars
  <2> QED
    BY <2>1, NothingLost
<1>4. ASSUME NEW opts, StartSession(opts), session # "streaming" PROVE HeadAtRisk(b)
  <2>1. rows' = rows
    BY <1>1, <1>4 DEF StartSession, dbVars
  <2>2. UNCHANGED Stored
    BY <1>4, <2>1 DEF StartSession, Stored, memVars, stepVars
  <2> QED
    BY <2>2, NothingLost
<1>5. CASE Retry \/ \E opts \in StartOptions : OperatorStart(opts)
  BY <1>4, <1>5 DEF Retry, OperatorStart
<1>6. ASSUME NEW s, s # "streaming", EndSession(s), UNCHANGED rows PROVE HeadAtRisk(b)
  BY <1>6, LostWithSession DEF EndSession
<1>7. CASE ReceivedAbi
  <2>1. CASE EndSession("stopped") /\ UNCHANGED dbVars
    BY <1>6, <2>1 DEF dbVars
  <2>2. CASE ~(EndSession("stopped") /\ UNCHANGED dbVars)
    <3>1. UNCHANGED Stored
      BY <1>7, <2>2 DEF ReceivedAbi, Stored, memVars, stepVars
    <3> QED
      BY <3>1, NothingLost
  <2> QED
    BY <2>1, <2>2
<1>8. CASE ReceivedStatus
  <2>1. CASE ~schema
    BY <1>6, <1>8, <2>1 DEF ReceivedStatus, dbVars
  <2>2. CASE schema
    <3>1. /\ pc = "idle" /\ pc' = "idle" /\ table_streams = {}
          /\ rows' = {r \in rows : Num[r.block] < N(fill_status.head_id) + 1}
      BY <1>2, <1>8, <2>2 DEF ReceivedStatus, TruncatedRows, stepVars
    <3>2. \A r \in RowsOf(b) : r \in rows /\ Num[r.block] < N(fill_status.head_id) + 1
      BY <3>1, CoveredFacts, Facts DEF Stored
    <3> QED
      BY <3>1, <3>2 DEF HeadAtRisk, Stored
  <2> QED
    BY <2>1, <2>2
<1>9. CASE StopAtBlock \/ PrevMismatch \/ ConnectionLost \/ Die
  BY <1>6, <1>9 DEF StopAtBlock, PrevMismatch, ConnectionLost, Die, dbVars
<1>10. CASE BeginBlock
  <2>1. pc = "idle" /\ pc' # "commit" /\ UNCHANGED <<rows, table_streams>>
    BY <1>10 DEF BeginBlock, AfterClose, dbVars, memVars
  <2> QED
    BY <2>1, NothingLost DEF Stored
<1>11. ASSUME NEW t \in Table, FlushStream(t) PROVE HeadAtRisk(b)
  <2>1. /\ pc = "flush" /\ rows' \cup table_streams' = rows \cup table_streams
        /\ (pc' = "commit" => then = "commit") /\ UNCHANGED cur
    BY <1>11 DEF FlushStream
  <2>2. ~(pc' = "commit" /\ cur'.forks)
    BY <2>1 DEF IInv, StepInv, FlushFirst
  <2> QED
    BY <2>1, <2>2, NothingLost DEF Stored
<1>12. CASE CloseStreams
  <2>1. table_streams = {} /\ pc' # "commit" /\ UNCHANGED rows
    BY <1>12 DEF CloseStreams, EndSession, AfterClose, IInv, StepInv
  <2> QED
    BY <2>1, NothingLost DEF Stored
<1>13. CASE Trim
  BY <1>1, <1>13, TrimKeepsCovered
<1>14. CASE ApplyBlockRows
  <2>1. /\ pc = "apply" /\ table_streams \subseteq table_streams'
        /\ UNCHANGED <<rows, cur>>
    BY <1>14 DEF ApplyBlockRows, dbVars
  <2>2. cur.forks => table_streams = {}
    BY <2>1 DEF RowInv, StreamsInv
  <2> QED
    BY <2>1, <2>2, NothingLost DEF Stored
<1>15. CASE CommitBlock
  BY <1>1, <1>15, CommitKeepsCovered
<1> QED
  BY <1>3, <1>5, <1>7, <1>8, <1>9, <1>10, <1>11, <1>12, <1>13, <1>14, <1>15
     DEF Next, FillerStep, ProcessBlock, Fault

\* A step takes a covered block's rows away only with the block; a session's end may
\* take the head's, where a fork switch had them on streams of their own.
THEOREM OnlyHeadEverAtRisk == Spec => OnlyHeadAtRisk
<1>1. ASSUME IInv, RowInv, [Next]_vars
      PROVE  [\A b \in Covered \cap Covered' :
                RowsOf(b) \subseteq Stored =>
                  \/ RowsOf(b) \subseteq Stored'
                  \/ session' # "streaming" /\ b = fill_status.head_id]_vars
  <2>1. CASE Next
    BY <1>1, <2>1, StepKeepsCovered DEF HeadAtRisk
  <2> QED
    BY <1>1, <2>1
<1> QED
  BY <1>1, RowsInvariant, PTL DEF Spec, OnlyHeadAtRisk
==============================================================================
