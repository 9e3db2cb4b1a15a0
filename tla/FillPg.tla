-------------------------------- MODULE FillPg --------------------------------
(***************************************************************************)
(* fill-pg: one process that copies nodeos's blocks into postgresql.       *)
(*                                                                         *)
(* One step of the model is one thing another party can see: a commit on   *)
(* one of the postgresql connections, a message taken from the socket, the *)
(* end of a session.  process_blocks_result is therefore cut at its        *)
(* commits, which `pc` follows:                                            *)
(*                                                                         *)
(*   idle -> [flush.. -> status] -> [trim] -> apply -> [flush..] -> commit *)
(*        -> [flush.. -> status] -> idle                                   *)
(*                                                                         *)
(* The process can die, and a postgresql call can throw, between any two.  *)
(***************************************************************************)
EXTENDS Nodeos

CONSTANTS
  Table,          \* tables the streams write: block_info, transaction_trace, deltas
  Rank,           \* [Table -> Nat]: the order of the tables' names
  SimpleTable,    \* those trimmed by block number alone
  Key,            \* primary keys of rows, less the block number
  Content,        \* [Block -> SUBSET (Table \X Key)]: the rows a block carries
  LargeBlock,     \* blocks whose deltas reach 10 MiB
  BulkMargin,     \* 4 in the code: distance to irreversibility that means bulk
  CloseEvery,     \* 200 in the code: a bulk commit interval
  SkipTo,         \* --fill-skip-to, 0 when absent
  StopBefore,     \* --fill-stop, 0 when absent
  EnableTrim,     \* --fill-trim
  StartOptions    \* sets of {"drop", "create"} the operator starts fill-pg with

\* Every block carries at least its header, the row of block_info (the request
\* sets fetch_block_header, or fetch_block in the older protocol).
ASSUME FillAssumption ==
  /\ Rank \in [Table -> Nat] /\ SimpleTable \subseteq Table
  /\ Content \in [Block -> SUBSET (Table \X Key)]
  /\ \A b \in Block : Content[b] # {}
  /\ LargeBlock \subseteq Block
  /\ BulkMargin \in Nat /\ CloseEvery \in Nat \ {0}
  /\ SkipTo \in Nat /\ StopBefore \in Nat
  /\ EnableTrim \in BOOLEAN
  /\ StartOptions \subseteq SUBSET {"drop", "create"}

Row == [table : Table, block : Block, key : Key]

\* The rows the streams get for a block.
RowsOf(b) == {[table |-> tk[1], block |-> b, key |-> tk[2]] : tk \in Content[b]}

VARIABLES
  \* postgresql, as committed
  schema,           \* the schema and its tables exist
  received_block,   \* table received_block, a row being a block
  rows,             \* rows of every other table
  fill_status,      \* the single row of table fill_status
  \* fpg_session, lost with it
  session,          \* how far the session has come
  options,          \* drop_schema and create_schema, where still to be done
  head_id, irreversible, first,
  table_streams,    \* rows copied on the stream connections, uncommitted
  pc,               \* where process_blocks_result is
  then,             \* where it goes when the open streams are closed
  cur               \* the message it processes, and what it decided about it

dbVars == <<schema, received_block, rows, fill_status>>
memVars == <<head_id, irreversible, first, table_streams>>
stepVars == <<pc, then, cur>>
vars == <<nodeosVars, dbVars, session, options, memVars, stepVars>>

Session == {"stopped", "waiting", "connecting", "querying", "streaming"}
Step == {"idle", "flush", "status", "trim", "apply", "commit"}
Continuation == {"none", "trim", "commit", "idle", "stop"}
FillStatus == [head_id : MaybeBlock, irreversible : Nat, first : Nat]
Message == [this_block : MaybeBlock, prev_block : MaybeBlock, lib : Nat,
            bulk : BOOLEAN, large : BOOLEAN, forks : BOOLEAN]

NoStatus == [head_id |-> NoBlock, irreversible |-> 0, first |-> 0]
NoMessage == [this_block |-> NoBlock, prev_block |-> NoBlock, lib |-> 0,
              bulk |-> FALSE, large |-> FALSE, forks |-> FALSE]

head == N(head_id)

TypeOK ==
  /\ NodeosTypeOK
  /\ schema \in BOOLEAN
  /\ received_block \subseteq Block
  /\ rows \subseteq Row
  /\ fill_status \in FillStatus
  /\ session \in Session
  /\ options \subseteq {"drop", "create"}
  /\ head_id \in MaybeBlock /\ irreversible \in Nat /\ first \in Nat
  /\ table_streams \subseteq Row
  /\ pc \in Step /\ then \in Continuation /\ cur \in Message

Init ==
  /\ NodeosInit
  /\ schema = FALSE /\ received_block = {} /\ rows = {} /\ fill_status = NoStatus
  /\ session = "stopped" /\ options = {}
  /\ head_id = NoBlock /\ irreversible = 0 /\ first = 0 /\ table_streams = {}
  /\ pc = "idle" /\ then = "none" /\ cur = NoMessage

------------------------------------------------------------------------------
(* A session's beginning and end *)

\* The session object goes away; its stream connections and its open transaction
\* roll back, and the socket's closing ends nodeos's session.
EndSession(s) ==
  /\ session' = s
  /\ head_id' = NoBlock /\ irreversible' = 0 /\ first' = 0 /\ table_streams' = {}
  /\ pc' = "idle" /\ then' = "none" /\ cur' = NoMessage
  /\ SessionGone

\* The options a session's start leaves to do: dropping is done.
RemainingKept(opts) == opts
Remaining(opts) == opts \ {"drop"}

\* What start() does with a new session: drop the schema if asked to, connect.
StartSession(opts) ==
  /\ session' = "connecting"
  /\ options' = Remaining(opts)
  /\ IF "drop" \in opts
       THEN schema' = FALSE /\ received_block' = {} /\ rows' = {} /\ fill_status' = NoStatus
       ELSE UNCHANGED dbVars
  /\ UNCHANGED <<nodeosVars, memVars, stepVars>>

\* The operator starts the process.
OperatorStart(opts) == session = "stopped" /\ StartSession(opts)

\* The one-second timer of schedule_retry fires.
Retry == session = "waiting" /\ StartSession(options)

\* The socket is open and nodeos's abi arrives: create the tables if asked to
\* (postgresql refuses when they exist), then send the status request.
ReceivedAbi ==
  /\ session = "connecting"
  /\ options' = options \ {"create"}
  /\ IF "create" \in options /\ schema
       THEN EndSession("stopped") /\ UNCHANGED dbVars
       ELSE /\ session' = "querying"
            /\ schema' = (schema \/ "create" \in options)
            /\ UNCHANGED <<nodeosVars, received_block, rows, fill_status, memVars, stepVars>>

\* get_positions: the received blocks from the irreversible one to the head.
PositionsBelowHead == {b \in received_block : Num[b] >= fill_status.irreversible
                                              /\ Num[b] < N(fill_status.head_id)}
Positions == {b \in received_block : Num[b] >= fill_status.irreversible
                                     /\ Num[b] <= N(fill_status.head_id)}

\* truncate: drop everything from block n on; head falls back to n - 1.
TruncatedReceived(n) == Below(received_block, n)
TruncatedHead(n) == At(received_block, n - 1)
TruncatedRowsAfter(n) == {r \in rows : Num[r.block] <= n}
TruncatedRowsSimple(n) == {r \in rows : Num[r.block] < n \/ r.table \notin SimpleTable}
TruncatedRows(n) == {r \in rows : Num[r.block] < n}
TruncatedFirst(f, n) == Min({f, N(TruncatedHead(n))})

\* The first block wanted when the head is h: never below what nodeos has.
FirstWanted(h) == Max({SkipTo, N(h) + 1, begin})

\* received(get_status_result_v0): load the status, drop what was committed past
\* it, and ask for the blocks after it.
ReceivedStatus ==
  /\ session = "querying"
  /\ IF ~schema
       THEN EndSession("stopped") /\ UNCHANGED <<dbVars, options>>
       ELSE LET n == N(fill_status.head_id) + 1
                h == TruncatedHead(n)
            IN /\ session' = "streaming"
               /\ head_id' = h
               /\ irreversible' = fill_status.irreversible
               /\ first' = TruncatedFirst(fill_status.first, n)
               /\ received_block' = TruncatedReceived(n)
               /\ rows' = TruncatedRows(n)
               /\ next' = StreamFrom(FirstWanted(h), Positions)
               /\ UNCHANGED <<chain, lib, begin, wire, schema, fill_status, options,
                              table_streams, stepVars>>

\* A socket error, seen between two callbacks: close(true), the timer is armed.
ConnectionLost ==
  /\ session \in {"connecting", "querying", "streaming"}
  /\ pc = "idle"
  /\ EndSession("waiting")
  /\ UNCHANGED <<dbVars, options>>

\* The process dies or is told to stop, or a postgresql call throws, which ends
\* the session for good (close(false)); a retry that finds no postgresql ends
\* the process too.  Nothing resumes until the operator starts fill-pg again.
Die ==
  /\ session # "stopped"
  /\ EndSession("stopped")
  /\ options' = {}
  /\ UNCHANGED dbVars

------------------------------------------------------------------------------
(* process_blocks_result *)

\* Where a step goes once the streams it had to close are closed.
EndTrim == IF head < irreversible THEN head ELSE irreversible
AfterClose == IF EnableTrim /\ first < EndTrim THEN "trim" ELSE "apply"

\* Taking a result: is the block far behind the irreversible one, and what
\* follows from that before the first commit.
FarBehindNot(m) == N(m.this_block) < m.lib + BulkMargin
FarBehind(m) == N(m.this_block) + BulkMargin < m.lib

StopsPast(m) == StopBefore # 0 /\ N(m.this_block) > StopBefore
Stops(m) == StopBefore # 0 /\ N(m.this_block) >= StopBefore

Decide(m) ==
  LET large == ~FarBehind(m) /\ m.this_block \in LargeBlock
      forks == N(m.this_block) <= head
  IN [this_block |-> m.this_block, prev_block |-> m.prev_block, lib |-> m.lib,
      bulk |-> (FarBehind(m) \/ large) /\ ~forks, large |-> large, forks |-> forks]

\* Whether the open streams are to be closed first.
ClosesFirst(m) == \/ ~Decide(m).bulk \/ Decide(m).large \/ Stops(m)
                  \/ N(m.this_block) % CloseEvery = 0

\* A result without a block is ignored.
SkipResult ==
  /\ session = "streaming" /\ pc = "idle" /\ wire # <<>>
  /\ Head(wire).this_block = NoBlock
  /\ wire' = Tail(wire)
  /\ UNCHANGED <<chain, lib, begin, next, dbVars, session, options, memVars, stepVars>>

\* stop_before reached with no stream open: return false, which closes for good.
StopAtBlock ==
  /\ session = "streaming" /\ pc = "idle" /\ wire # <<>>
  /\ Head(wire).this_block # NoBlock
  /\ Stops(Head(wire)) /\ table_streams = {}
  /\ EndSession("stopped")
  /\ UNCHANGED <<dbVars, options>>

BeginBlock ==
  /\ session = "streaming" /\ pc = "idle" /\ wire # <<>>
  /\ Head(wire).this_block # NoBlock
  /\ ~(Stops(Head(wire)) /\ table_streams = {})
  /\ cur' = Decide(Head(wire))
  /\ wire' = Tail(wire)
  /\ IF table_streams = {}
       THEN pc' = AfterClose /\ then' = "none"
       ELSE IF ClosesFirst(Head(wire))
         THEN pc' = "flush" /\ then' = IF Stops(Head(wire)) THEN "stop" ELSE "trim"
         ELSE pc' = "apply" /\ then' = "none"
  /\ UNCHANGED <<chain, lib, begin, next, dbVars, session, options, memVars>>

\* flush_streams: each stream has a connection and a transaction of its own and
\* they commit one after the other, in the order of the map that holds them.
FlushStream(t) ==
  LET flushed == {r \in table_streams : r.table = t}
      left    == table_streams \ flushed
  IN /\ pc = "flush"
     /\ flushed # {} /\ \A r \in left : Rank[t] <= Rank[r.table]
     /\ rows' = rows \cup flushed
     /\ table_streams' = left
     /\ IF left # {} THEN UNCHANGED <<pc, then>>
        ELSE IF then = "commit" THEN pc' = "commit" /\ then' = "none"
        ELSE pc' = "status" /\ UNCHANGED then
     /\ UNCHANGED <<nodeosVars, schema, received_block, fill_status, session, options,
                    head_id, irreversible, first, cur>>

\* write_fill_status: the irreversible block is never past the head.
StatusUnbounded == [head_id |-> head_id, irreversible |-> irreversible, first |-> first]
StatusToWrite == [head_id |-> head_id, irreversible |-> EndTrim, first |-> first]

\* The second half of close_streams: the status, in a transaction of its own.
CloseStreams ==
  /\ pc = "status"
  /\ fill_status' = StatusToWrite
  /\ IF then = "stop"
       THEN EndSession("stopped") /\ UNCHANGED <<schema, received_block, rows, options>>
       ELSE /\ pc' = IF then = "trim" THEN AfterClose ELSE "idle"
            /\ then' = "none"
            /\ cur' = IF then = "trim" THEN cur ELSE NoMessage
            /\ UNCHANGED <<nodeosVars, schema, received_block, rows, session, options, memVars>>

\* trim_history(prev, irrev): simple tables lose [prev, irrev); a keyed table
\* loses the rows older than a key's newest row in (prev, irrev].
InTrimClosed(n) == first <= n /\ n <= EndTrim
InTrim(n) == first <= n /\ n < EndTrim

SupersededBySelf(r) ==
  \E q \in rows : /\ q.table = r.table /\ q.key = r.key
                  /\ Num[q.block] \in (first + 1)..EndTrim
                  /\ Num[r.block] <= Num[q.block]
Superseded(r) ==
  \E q \in rows : /\ q.table = r.table /\ q.key = r.key
                  /\ Num[q.block] \in (first + 1)..EndTrim
                  /\ Num[r.block] < Num[q.block]

FirstAfterTrimHead == head
FirstAfterTrim == EndTrim

Trim ==
  /\ pc = "trim"
  /\ received_block' = {b \in received_block : ~InTrim(Num[b])}
  /\ rows' = {r \in rows : IF r.table \in SimpleTable THEN ~InTrim(Num[r.block])
                                                    ELSE ~Superseded(r)}
  /\ first' = FirstAfterTrim
  /\ pc' = "apply"
  /\ UNCHANGED <<nodeosVars, schema, fill_status, session, options,
                 head_id, irreversible, table_streams, then, cur>>

\* The rest of the step up to its next commit.  In a fork switch the deletions
\* are made in the open transaction t and become visible when it commits; the
\* streams, on other connections, are then left open (!forks), since flushing
\* them would wait for t.
BaseHead == IF cur.forks THEN TruncatedHead(Num[cur.this_block]) ELSE head_id
BaseFirst == IF cur.forks THEN TruncatedFirst(first, Num[cur.this_block]) ELSE first
PrevUnchecked == TRUE
PrevMatches == BaseHead = NoBlock \/ cur.prev_block = BaseHead

\* The streams are flushed ahead of t unless the block is bulk or a fork switch.
FlushNever == FALSE
FlushFirst == ~cur.bulk /\ ~cur.forks

ApplyBlockRows ==
  /\ pc = "apply"
  /\ PrevMatches
  /\ table_streams' = table_streams \cup RowsOf(cur.this_block)
  /\ head_id' = cur.this_block
  /\ irreversible' = cur.lib
  /\ first' = IF BaseFirst = 0 THEN Num[cur.this_block] ELSE BaseFirst
  /\ IF FlushFirst
       THEN pc' = "flush" /\ then' = "commit"
       ELSE pc' = "commit" /\ then' = "none"
  /\ UNCHANGED <<nodeosVars, dbVars, session, options, cur>>

\* 'prev_block does not match' is thrown: close(false), no retry.
PrevMismatch ==
  /\ pc = "apply"
  /\ ~PrevMatches
  /\ EndSession("stopped")
  /\ UNCHANGED <<dbVars, options>>

\* The commit of t: the deletions of a fork switch, the received_block row, and
\* the status unless the block is bulk.
Received == (IF cur.forks THEN TruncatedReceived(Num[cur.this_block]) ELSE received_block)
              \cup {cur.this_block}

StatusAlways == StatusToWrite
StatusCommitted == IF cur.bulk THEN fill_status ELSE StatusToWrite

CommitBlock ==
  LET n == Num[cur.this_block]
  IN /\ pc = "commit"
     /\ received_block' = Received
     /\ rows' = IF cur.forks THEN TruncatedRows(n) ELSE rows
     /\ fill_status' = StatusCommitted
     /\ IF cur.large /\ table_streams # {}
          THEN pc' = "flush" /\ then' = "idle" /\ UNCHANGED cur
          ELSE pc' = "idle" /\ then' = "none" /\ cur' = NoMessage
     /\ UNCHANGED <<nodeosVars, schema, session, options, memVars>>

------------------------------------------------------------------------------
NodeosStep ==
  /\ \/ \E b \in Block : ApplyBlock(b)
     \/ AdvanceLib
     \/ SendBlocksResult
     \/ /\ session \in {"stopped", "waiting", "connecting"}
        /\ \E n \in 0..Height, bg \in LogBegins : ReplaceNode(n, bg)
  /\ UNCHANGED <<dbVars, session, options, memVars, stepVars>>

ProcessBlock ==
  \/ SkipResult \/ StopAtBlock \/ BeginBlock
  \/ \E t \in Table : FlushStream(t)
  \/ CloseStreams \/ Trim \/ ApplyBlockRows \/ PrevMismatch \/ CommitBlock

FillerStep == Retry \/ ReceivedAbi \/ ReceivedStatus \/ ProcessBlock

Fault == ConnectionLost \/ Die

Next == \/ NodeosStep
        \/ \E opts \in StartOptions : OperatorStart(opts)
        \/ FillerStep
        \/ Fault

Spec == Init /\ [][Next]_vars
==============================================================================
