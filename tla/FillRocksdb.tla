----------------------------- MODULE FillRocksdb -----------------------------
(***************************************************************************)
(* fill-rocksdb: one process that copies nodeos's blocks into a rocksdb    *)
(* database of its own.                                                    *)
(*                                                                         *)
(* A handler is one step: nothing else sees the database in between.  What *)
(* tears a handler apart is a crash.  Write batches are atomic and reach   *)
(* the disk in order, but the write-ahead log is off, so a crash leaves    *)
(* the database as it was after any batch written since the last flush     *)
(* that was waited for: `kept` holds those states.  A crash inside a       *)
(* handler may also leave a state from before a flush of the handler's     *)
(* own: it has `passed` those.                                             *)
(***************************************************************************)
EXTENDS Nodeos

CONSTANTS
  Table,          \* tables the blocks write: block_info, action_trace, deltas
  SimpleTable,    \* those without a trim index
  Key,            \* primary keys of rows, less the block number
  Content,        \* [Block -> SUBSET (Table \X Key)]: the rows a block carries
  LargeBlock,     \* blocks with more than 10000 rows for a table
  NearMargin,     \* 4 in the code
  CommitEvery,    \* 200 in the code
  SkipTo,         \* --fill-skip-to, 0 when absent
  StopBefore,     \* --fill-stop, 0 when absent
  EnableTrim      \* --fill-trim

ASSUME FillAssumption ==
  /\ SimpleTable \subseteq Table
  /\ Content \in [Block -> SUBSET (Table \X Key)]
  /\ LargeBlock \subseteq Block
  /\ NearMargin \in Nat /\ CommitEvery \in Nat \ {0}
  /\ SkipTo \in Nat /\ StopBefore \in Nat
  /\ EnableTrim \in BOOLEAN

Row == [table : Table, block : Block, key : Key]
RowsOf(b) == {[table |-> tk[1], block |-> b, key |-> tk[2]] : tk \in Content[b]}

\* The index entry of a row, its sort keys abstracted to its key: a number and
\* no block id, as in the row's own key.
Entry == [table : Table, num : Nat, key : Key]
EntryOf(r) == [table |-> r.table, num |-> Num[r.block], key |-> r.key]

Session == {"stopped", "waiting", "connecting", "querying", "streaming"}
FillStatus == [head_id : MaybeBlock, irreversible : Nat, first : Nat]
Db == [content : SUBSET Row, received : SUBSET Block, index : SUBSET Entry, status : FillStatus]

\* The process: the database as it reads it, what a crash may leave of it, after its
\* last flush and before it, and flm_session.  `switching` marks the writes of a fork switch after which the
\* status still names the old branch's head.
Process == [db : Db, kept : SUBSET (Db \X BOOLEAN), passed : SUBSET (Db \X BOOLEAN),
            switching : BOOLEAN, head_id : MaybeBlock, irreversible : Nat, first : Nat,
            rows : SUBSET Row, received : SUBSET Block]

VARIABLES
  session,    \* how far the session has come
  filler,     \* the process
  torn        \* history variable: a crash has cut a fork switch in two

vars == <<nodeosVars, session, filler, torn>>

TypeOK ==
  /\ NodeosTypeOK /\ session \in Session /\ filler \in Process /\ torn \in BOOLEAN

NoStatus == [head_id |-> NoBlock, irreversible |-> 0, first |-> 0]
EmptyDb == [content |-> {}, received |-> {}, index |-> {}, status |-> NoStatus]

\* A process that finds database d on the disk, or a new session on it.
Opened(d) == [db |-> d, kept |-> {<<d, FALSE>>}, passed |-> {}, switching |-> FALSE,
              head_id |-> NoBlock, irreversible |-> 0, first |-> 0, rows |-> {}, received |-> {}]
Ended(p) == [Opened(p.db) EXCEPT !.kept = p.kept]

\* The chain's first block is irreversible from the start.
Init ==
  /\ chain = Genesis /\ lib = 1 /\ begin = 1 /\ next = 0 /\ wire = <<>>
  /\ session = "stopped" /\ filler = Opened(EmptyDb) /\ torn = FALSE

------------------------------------------------------------------------------
(* Batches *)

Write(p, d) == [p EXCEPT !.db = d, !.kept = @ \cup {<<d, p.switching>>}]
Flush(p) == [p EXCEPT !.kept = {<<p.db, FALSE>>}, !.passed = @ \cup p.kept]

\* The process when its handler is done.
Done(p) == [p EXCEPT !.passed = {}]

\* write_fill_status: the irreversible block is never past the head.
Status(p) == [head_id |-> p.head_id, irreversible |-> Min({p.irreversible, N(p.head_id)}),
              first |-> p.first]

\* A row's key in the database has its block's number, not its id.
Put(d, rows, blocks) ==
  [d EXCEPT !.content = {r \in @ : EntryOf(r) \notin {EntryOf(q) : q \in rows}} \cup rows,
            !.received = {b \in @ : Num[b] \notin {Num[c] : c \in blocks}} \cup blocks]

\* end_write: the content batch, then the index batch, which has the status.
Indexed(d, p) == [d EXCEPT !.index = @ \cup {EntryOf(r) : r \in p.rows}]
IndexFirst(p, status) ==
  LET indexed == Indexed(p.db, p)
  IN Write(Write(p, indexed), [Put(indexed, p.rows, p.received) EXCEPT !.status = status])
StatusFirst(p, status) ==
  LET content == [Put(p.db, p.rows, p.received) EXCEPT !.status = status]
  IN Write(Write(p, content), Indexed(content, p))
ContentFirst(p, status) ==
  LET content == Put(p.db, p.rows, p.received)
  IN Write(Write(p, content), [Indexed(content, p) EXCEPT !.status = status])

Emptied(p) == [p EXCEPT !.rows = {}, !.received = {}]
EndWrite[p \in Process] == [Emptied(ContentFirst(p, Status(p))) EXCEPT !.switching = FALSE]
EndPart[p \in Process] == Emptied(ContentFirst(p, p.db.status))

\* truncate: all rows and received blocks from n on, index entries before rows.
FromNext(b, n) == Num[b] > n
From(b, n) == Num[b] >= n
Unindexed(d, n) ==
  [d EXCEPT !.index = @ \ {EntryOf(r) : r \in {q \in d.content : From(q.block, n)}}]
Cut(d, n) ==
  [d EXCEPT !.content = {r \in @ : ~From(r.block, n)}, !.received = {b \in @ : ~From(b, n)}]

Truncate(n) == [p \in Process |->
  LET h == At(p.db.received, n - 1)
      d == Unindexed(p.db, n)
  IN [Write(Write(Flush(p), d), Cut(d, n)) EXCEPT !.head_id = h, !.first = Min({@, N(h)})]]

\* A fork switch, from block n on: what the batch holds goes in first.
Switch(p, n) == EndWrite[Truncate(n)[[EndWrite[p] EXCEPT !.switching = TRUE]]]

\* trim: simple tables lose [first, end); of a key with a row in (first, end],
\* the rows that the index shows a newer one for, at or before end.  One batch.
EndTrim(p) == Min({N(p.head_id), p.irreversible})
TrimsKey(p, r) ==
  \E q \in p.db.content : /\ q.table = r.table /\ q.key = r.key
                          /\ Num[q.block] \in (p.first + 1)..EndTrim(p)
Superseded(p, r) ==
  \E e \in p.db.index : e.table = r.table /\ e.key = r.key
                        /\ Num[r.block] < e.num /\ e.num <= EndTrim(p)
Trimmed(p) ==
  LET old(b) == p.first <= Num[b] /\ Num[b] < EndTrim(p)
  IN {r \in p.db.content :
        IF r.table \in SimpleTable THEN old(r.block)
        ELSE EntryOf(r) \in p.db.index /\ TrimsKey(p, r) /\ Superseded(p, r)}

FirstAfterTrimHead(p) == N(p.head_id)
FirstAfterTrim(p) == EndTrim(p)

Trim[p \in Process] ==
  LET q    == [p EXCEPT !.first = FirstAfterTrim(p)]
      gone == Trimmed(p)
  IN IF p.first >= EndTrim(p) THEN p
     ELSE Write(Flush(q),
            [p.db EXCEPT !.content = @ \ gone, !.index = @ \ {EntryOf(r) : r \in gone},
                         !.received = {b \in @ : Num[b] \notin p.first..(EndTrim(p) - 1)},
                         !.status = Status(q)])

------------------------------------------------------------------------------
(* The session *)

\* The session object goes away, and with it the batch.
EndSession(s, p) == session' = s /\ filler' = Ended(p) /\ SessionGone

\* The operator starts the process, having ended it in order where it still ran,
\* which flushes; or the timer of schedule_retry fires.
OperatorStart ==
  /\ session = "stopped"
  /\ session' = "connecting" /\ filler' = Opened(filler.db)
  /\ UNCHANGED <<nodeosVars, torn>>

Retry ==
  /\ session = "waiting"
  /\ session' = "connecting"
  /\ UNCHANGED <<nodeosVars, filler, torn>>

\* received_abi: load the status, drop what was written past it.
Loaded(p) == [p EXCEPT !.head_id = p.db.status.head_id, !.first = p.db.status.first,
                       !.irreversible = p.db.status.irreversible]
CleanUp(p) == Flush(EndWrite[Truncate(N(p.head_id) + 1)[EndWrite[p]]])

ReceivedAbi ==
  /\ session = "connecting"
  /\ session' = "querying" /\ filler' = Done(CleanUp(Loaded(filler)))
  /\ UNCHANGED <<nodeosVars, torn>>

\* get_positions: every block from the irreversible one to the head is required.
Wanted(p) == IF p.head_id = NoBlock THEN {} ELSE p.irreversible..N(p.head_id)
PositionsBelowHead(p) == {b \in p.db.received : Num[b] \in Wanted(p) \ {N(p.head_id)}}
Positions(p) == {b \in p.db.received : Num[b] \in Wanted(p)}

\* received(get_status_result_v0): ask for the blocks after the head.
ReceivedStatus ==
  /\ session = "querying"
  /\ IF \E n \in Wanted(filler) : At(filler.db.received, n) = NoBlock
       THEN EndSession("stopped", filler)
       ELSE /\ session' = "streaming"
            /\ next' = StreamFrom(Max({SkipTo, N(filler.head_id) + 1, begin}), Positions(filler))
            /\ UNCHANGED <<chain, lib, begin, wire, filler>>
  /\ UNCHANGED torn

\* A result is taken: received(get_blocks_result_v0).
Taken == session = "streaming" /\ wire # <<>>

SkipResult ==
  /\ Taken /\ Head(wire).this_block = NoBlock
  /\ wire' = Tail(wire)
  /\ UNCHANGED <<chain, lib, begin, next, session, filler, torn>>

Stops(m) == StopBefore # 0 /\ N(m.this_block) >= StopBefore

StopAtBlock ==
  /\ Taken /\ Head(wire).this_block # NoBlock /\ Stops(Head(wire))
  /\ EndSession("stopped", EndWrite[filler])
  /\ UNCHANGED torn

\* The filler when the block of m is about to be applied.
Base(m) == IF Num[m.this_block] <= N(filler.head_id) THEN Switch(filler, Num[m.this_block])
                                                     ELSE filler
PrevMatches(m) == Base(m).head_id = NoBlock \/ m.prev_block = Base(m).head_id

\* A large block's rows are written as they come, `part` of them before the rest.
Parts(m) == IF m.this_block \in LargeBlock THEN SUBSET RowsOf(m.this_block) ELSE {{}}
Part(p, part) == EndPart[[p EXCEPT !.rows = @ \cup part]]
FirstOf(p, m) == IF p.first = 0 THEN Num[m.this_block] ELSE p.first

Applied(p, m, part) ==
  [p EXCEPT !.rows = @ \cup (RowsOf(m.this_block) \ part), !.received = @ \cup {m.this_block},
            !.head_id = m.this_block, !.irreversible = m.lib,
            !.first = FirstOf(p, m)]

NearNot(m) == Num[m.this_block] + NearMargin < m.lib
Near(m) == Num[m.this_block] + NearMargin >= m.lib
Committed(p, m) ==
  IF ~Near(m) /\ Num[m.this_block] % CommitEvery # 0 THEN p
  ELSE IF EnableTrim THEN Trim[EndWrite[p]] ELSE EndWrite[p]

Handled(m, part) ==
  Committed(Applied(IF m.this_block \in LargeBlock THEN Part(Base(m), part) ELSE Base(m),
                    m, part), m)

ReceiveBlock(part) ==
  LET m == Head(wire)
  IN /\ Taken /\ m.this_block # NoBlock /\ ~Stops(m) /\ PrevMatches(m)
     /\ filler' = Done(Handled(m, part))
     /\ wire' = Tail(wire)
     /\ UNCHANGED <<chain, lib, begin, next, session, torn>>

\* 'prev_block does not match' is thrown, after the fork switch.
PrevMismatch ==
  LET m == Head(wire)
  IN /\ Taken /\ m.this_block # NoBlock /\ ~Stops(m) /\ ~PrevMatches(m)
     /\ EndSession("stopped", Base(m))
     /\ UNCHANGED torn

ConnectionLost ==
  /\ session \in {"connecting", "querying", "streaming"}
  /\ EndSession("waiting", filler)
  /\ UNCHANGED torn

\* The process crashes and leaves one of the states K, between two handlers or,
\* before a flush, inside one.
Crash(K) ==
  /\ \E k \in K : filler' = Opened(k[1]) /\ torn' = (torn \/ k[2])
  /\ session' = "stopped" /\ SessionGone

Die ==
  /\ session # "stopped" \/ filler.kept # {<<filler.db, FALSE>>}
  /\ Crash(filler.kept)

DieInside ==
  \/ session = "connecting" /\ Crash(CleanUp(Loaded(filler)).passed)
  \/ LET m == Head(wire)
     IN /\ Taken /\ m.this_block # NoBlock /\ ~Stops(m)
        /\ \E part \in Parts(m) :
             Crash(IF PrevMatches(m) THEN Handled(m, part).passed ELSE Base(m).passed)

------------------------------------------------------------------------------
NodeosStep ==
  /\ \/ \E b \in Block : ApplyBlock(b)
     \/ AdvanceLib
     \/ SendBlocksResult
     \/ /\ session \in {"stopped", "waiting", "connecting"}
        /\ \E n \in 0..Height, bg \in LogBegins : ReplaceNode(n, bg)
  /\ UNCHANGED <<session, filler, torn>>

FillerStep ==
  \/ Retry \/ ReceivedAbi \/ ReceivedStatus \/ SkipResult \/ StopAtBlock \/ PrevMismatch
  \/ /\ Taken /\ Head(wire).this_block # NoBlock
     /\ \E part \in Parts(Head(wire)) : ReceiveBlock(part)

Next == NodeosStep \/ OperatorStart \/ FillerStep \/ ConnectionLost \/ Die \/ DieInside

Spec == Init /\ [][Next]_vars

------------------------------------------------------------------------------
\* An index entry never lacks its row, whatever batch is the last one to reach the
\* disk: end_write writes content before indexes, truncate erases indexes before
\* content (comments at lines 406, 417), and trim, which looks rows up by their
\* index entries and throws when there is none, does both at once.
HasRows(d) == d.index \subseteq {EntryOf(r) : r \in d.content}
IndexHasRow == \A k \in filler.kept : HasRows(k[1])

\* The rows of the branch that ends in the status's head.
History(d) == UNION {RowsOf(b) : b \in Branch[d.status.head_id]}

\* The rows a reader finds by the newest index entry of a key at or before block n,
\* and those it should find.
Found(d, t, k, n) ==
  LET old == {e \in d.index : e.table = t /\ e.key = k /\ e.num <= n}
  IN {r \in d.content : \E e \in old : EntryOf(r) = e /\ \A f \in old : f.num <= e.num}
Newest(rows, t, k, n) ==
  LET old == {r \in rows : r.table = t /\ r.key = k /\ Num[r.block] <= n}
  IN {r \in old : \A q \in old : Num[q.block] <= Num[r.block]}

\* Database d answers for the blocks from first to the head as a complete history of
\* the head's branch would: the newest row of a key of a delta table, and every row
\* of a simple table.
Answers(d) ==
  \A n \in d.status.first..N(d.status.head_id) : \A t \in Table, k \in Key :
    IF t \in SimpleTable
      THEN \A r \in [table : {t}, block : {b \in Block : Num[b] = n}, key : {k}] :
             r \in Found(d, t, k, n) <=> r \in History(d)
      ELSE Found(d, t, k, n) = Newest(History(d), t, k, n)

\* The status goes into the index batch, the last one (todo at
\* state_history_rocksdb.hpp:94): it never names blocks whose rows or index entries
\* are not on the disk, or are already off it, whichever batch a crash falls behind;
\* trimming changes no answer, and its irreversible block, from which a restart takes
\* its positions, is never past its head (line 374).  But for fork switches that a
\* crash cuts in two, and databases begun from partial history.
StatusLast ==
  /\ TypeOK
  /\ filler.db.status.irreversible <= N(filler.db.status.head_id)
  /\ ~torn /\ begin = 1 => \A k \in filler.kept : k[2] \/ Answers(k[1])

\* What check() expects right after the clean-up: no record past the head, and
\* received blocks without a gap up to the head.
CleanedUp ==
  session = "querying" =>
    /\ \A r \in filler.db.content : Num[r.block] <= N(filler.head_id)
    /\ IsStretch(filler.db.received) /\ TipIs(filler.db.received, filler.head_id)

\* A crash anywhere else than inside a fork switch is cleaned up after.
CleanedUpUnlessTorn == ~torn => CleanedUp

\* The positions of a restart reach every fork and a fork switch ends at the block
\* the new branch continues from: 'prev_block does not match' (line 464) is not
\* thrown unless nodeos no longer serves the head or the operator skips past it.
BlocksLink ==
  Taken /\ Head(wire).this_block # NoBlock /\ ~PrevMatches(Head(wire)) =>
    LET h == N(Base(Head(wire)).head_id) IN h < begin \/ h + 1 < SkipTo

\* trim() starts at `first`: no received block lies below it, or it would never be
\* trimmed (a fork switch that a crash has cut in two excepted).
FirstIsLowest ==
  session = "streaming" /\ filler.first # 0 /\ ~torn =>
    \A b \in filler.db.received \cup filler.received : filler.first <= Num[b]

------------------------------------------------------------------------------
(* What the filler keeps true from handler to handler, so that IndexHasRow,*)
(* CleanedUpUnlessTorn and FirstIsLowest hold.                             *)

\* No index entry lacks its row, on the disk or off it.
DiskInv == HasRows(filler.db) /\ IndexHasRow /\ filler.passed = {}

\* A restart finds the head that database d names, and nothing below first: up to the
\* head the received blocks are one stretch of one branch that ends in it.
Covered(d) == Below(d.received, N(d.status.head_id) + 1)
Resumable(d) ==
  /\ IsStretch(Covered(d)) /\ TipIs(Covered(d), d.status.head_id)
  /\ d.status.head_id = NoBlock <=> d.status.first = 0
  /\ \A b \in d.received : d.status.first <= Num[b]

CrashInv ==
  ~torn => Resumable(filler.db) /\ \A k \in filler.kept : k[2] \/ Resumable(k[1])

\* A session's head is the newest block received, in the database or in its batch, and
\* its first is at or below all of them.
AllReceived(p) == p.db.received \cup p.received
Sound(p) ==
  /\ IsStretch(AllReceived(p)) /\ TipIs(AllReceived(p), p.head_id)
  /\ p.head_id = NoBlock <=> p.first = 0
  /\ \A b \in AllReceived(p) : p.first <= Num[b]

\* A session begins with an empty batch.
SessionInv ==
  /\ session \in {"stopped", "waiting", "connecting"} =>
       filler.rows = {} /\ filler.received = {}
  /\ ~torn /\ session \in {"querying", "streaming"} =>
       Sound(filler) /\ filler.db.status.first <= filler.first

\* Whatever a crash leaves, in a handler or between two, a restart can go on from:
\* unless it cuts a fork switch in two, the head that the status names is found, at the
\* end of one stretch of one branch that begins no lower than `first`.
RdbInv == TypeOK /\ NodeosInv /\ DiskInv /\ CrashInv /\ SessionInv /\ CleanedUpUnlessTorn

------------------------------------------------------------------------------
(* What the filler, nodeos and the messages under way keep true together,  *)
(* as long as no crash has cut a fork switch in two, so that BlocksLink    *)
(* holds.                                                                  *)

\* Of the received blocks R, those numbered up to i are nodeos's and stay so.
Fixes(R, i) == i <= lib /\ \A b \in R : OnRoot(b) /\ (Num[b] <= i => b \in chain)
DbFixes(d) == Fixes(d.received, d.status.irreversible)

\* The irreversible block that a session learns of never goes back.
LineInv ==
  /\ session # "streaming" => wire = <<>> /\ next = 0
  /\ \A k \in DOMAIN wire : Anchored(wire[k]) /\ wire[k].lib <= lib
  /\ \A j, k \in DOMAIN wire : j <= k => wire[j].lib <= wire[k].lib
  /\ ~torn /\ session = "streaming" => \A k \in DOMAIN wire : filler.irreversible <= wire[k].lib

Settled(p) == Fixes(AllReceived(p), p.irreversible) /\ p.db.status.irreversible <= p.irreversible
FixInv ==
  ~torn =>
    /\ DbFixes(filler.db) /\ \A k \in filler.kept : DbFixes(k[1])
    /\ session \in {"querying", "streaming"} => Settled(filler)
    /\ session = "querying" => filler.received = {}

\* Whatever is or was received, the message that comes next after it links to it.
LinkInv ==
  session = "streaming" /\ ~torn =>
    /\ \A b \in AllReceived(filler) : Followed(b, 0)
    /\ filler.head_id # NoBlock => Reached(filler.head_id, 0, SkipTo)
    /\ \A i \in DOMAIN wire : LET t == wire[i].this_block
                              IN t # NoBlock => Followed(t, i) /\ Reached(t, i, SkipTo)

LinkedInv == RdbInv /\ HeightInv /\ RootInv /\ LineInv /\ FixInv /\ LinkInv

------------------------------------------------------------------------------
\* The callbacks of a session run whenever they can and the timer fires; nodeos
\* sends what was asked for.
FairSpec ==
  /\ Spec
  /\ WF_vars(FillerStep)
  /\ WF_vars(SendBlocksResult /\ UNCHANGED <<session, filler, torn>>)

\* Once the branch stays as it is and a session lasts, the newest block is recorded
\* as the head, also after a crash has cut a fork switch in two.  (A branch shorter
\* than the recorded one gives nodeos nothing to send.)
CatchesUp ==
  <>[][FALSE]_chain /\ <>[](session \notin {"stopped", "waiting"})
     => <>[](\/ filler.db.status.head_id = Tip(chain)
             \/ Height < N(filler.db.status.head_id))
==============================================================================
