--------------------------- MODULE FillPgProperties ---------------------------
(***************************************************************************)
(* What fill-pg must keep true, of postgresql as a reader of the database  *)
(* or a restarted filler finds it.                                         *)
(***************************************************************************)
EXTENDS FillPg

\* The blocks fill_status says the database holds.
Covered == Below(received_block, N(fill_status.head_id) + 1)

\* The oldest block kept: what trimming and --fill-skip-to left.
Lowest == IF received_block = {} THEN 0 ELSE Min({Num[b] : b \in received_block})

\* Whatever commit a crash falls behind, the received blocks are one unbroken
\* stretch of one branch and the head that fill_status names is one of them: a
\* restarted filler finds its head by truncate(head + 1) (line 424) and offers
\* positions that reach every fork above the irreversible block.
Recoverable ==
  /\ IsStretch(received_block)
  /\ fill_status.head_id # NoBlock => fill_status.head_id \in received_block

\* Blocks arrive in an order that links: 'prev_block does not match' (line 474),
\* which stops the filler for good, is thrown only when nodeos no longer serves
\* the filler's head or the operator skipped past it.
BlocksLink ==
  pc = "apply" /\ ~PrevMatches =>
    N(BaseHead) < begin \/ N(BaseHead) + 1 < SkipTo

\* No flush inserts a row whose primary key is already committed: truncate has
\* removed what a crash or a fork left at those block numbers, so a stream's
\* commit cannot fail on a duplicate key.
NoDuplicateKey ==
  /\ pc = "flush" =>
       \A r \in table_streams, q \in rows :
         ~(r.table = q.table /\ r.key = q.key /\ Num[r.block] = Num[q.block])
  /\ pc = "commit" /\ ~cur.forks =>
       \A b \in received_block : Num[b] # Num[cur.this_block]

\* No row of an abandoned branch is left at a number fill_status covers.
NoOrphanRows ==
  \A r \in rows :
    Num[r.block] \in Lowest..N(fill_status.head_id) => r.block \in received_block

\* Every row of every covered block is committed: fill_status, committed on one
\* connection, never runs ahead of the streams, committed on others.
FilledToHead == \A b \in Covered : RowsOf(b) \subseteq rows

\* However a session ended, every row of every covered block is committed: what its
\* open streams lost, the status does not claim, so the next session asks for it.
FilledAfterSession == session # "streaming" => FilledToHead

\* Rows committed or held on the open streams.  The streams of a fork switch do
\* not count until t has committed: until then the old branch is the history.
Stored == IF pc = "commit" /\ cur.forks THEN rows ELSE rows \cup table_streams

\* With fork switches the status does run ahead, but only by its head: the rows
\* of any other covered block, once written or held, stay so, and the head's
\* can only be lost with the session that holds them.
OnlyHeadAtRisk ==
  [][\A b \in Covered \cap Covered' :
       RowsOf(b) \subseteq Stored =>
         \/ RowsOf(b) \subseteq Stored'
         \/ session' # "streaming" /\ b = fill_status.head_id]_vars

\* The newest row of a key at or before block n.
Newest(rs, t, k, n) ==
  LET old == {r \in rs : r.table = t /\ r.key = k /\ Num[r.block] <= n}
  IN {r \in old : \A q \in old : Num[q.block] <= Num[r.block]}

\* Trimming and truncating change no answer: for every covered block number not
\* trimmed away, the newest row of a key of a state table is the one a complete
\* history of the branch would give, unless that lies in a block the filler was
\* never sent, before --fill-skip-to or before nodeos's logs.
AnswersExactly(rs, n) ==
  LET history == UNION {RowsOf(b) : b \in Branch[fill_status.head_id]}
      Sent(found) == {r \in found : Num[r.block] >= Max({SkipTo, begin})}
  IN \A t \in Table \ SimpleTable, k \in Key :
       LET answer == Newest(rs, t, k, n)
           truth == Newest(history, t, k, n)
       IN answer = truth \/ answer \cup Sent(truth) = {}

QueriesExact == \A n \in Lowest..N(fill_status.head_id) : AnswersExactly(rows, n)

\* What fork switches leave of that.  Readers see committed rows only, and from the
\* commit of a fork switch to the next flush those lack rows of the new head: as of
\* any other covered block, and of the head while no stream holds a row of it, the
\* answers are exact.
ReadersExact ==
  \A n \in Lowest..N(fill_status.head_id) :
    \/ AnswersExactly(rows, n)
    \/ /\ n = N(fill_status.head_id) /\ session = "streaming"
       /\ \E r \in table_streams : r.block = fill_status.head_id

\* The last irreversible block known to the database is never taken out again,
\* and the head never falls below it, unless the operator drops the schema.
IrreversibleStays ==
  [][schema /\ schema' =>
       /\ N(fill_status'.head_id) >= fill_status.irreversible
       /\ \A b \in received_block :
            Num[b] = fill_status.irreversible => b \in received_block']_vars

\* The database as its readers see it: the schema, the blocks fill_status covers
\* and its irreversible block.  Crashes, retries, bulk loading, the separate
\* commits of one block and their order are all invisible in it.
Readers == INSTANCE HistoryDb WITH
  exists <- schema, history <- Covered, final <- fill_status.irreversible

ImplementsHistoryDb == Readers!Spec

\* trim() starts at `first`: no received block lies below it, or it would never
\* be trimmed.
FirstIsLowest ==
  session = "streaming" /\ pc = "idle" /\ first # 0 =>
    \A b \in received_block : first <= Num[b]

\* Reconnecting by itself never repeats --fpg-drop: only an operator's start
\* takes the schema away.
RetryNeverDrops == [][schema /\ ~schema' => session = "stopped"]_vars

\* --fill-stop: no block from the given one on is recorded, and stopping there
\* loses nothing of the blocks before it.
StopIsClean ==
  [][/\ StopBefore # 0 => \A b \in received_block' : Num[b] < StopBefore
     /\ StopAtBlock \/ (CloseStreams /\ then = "stop") => fill_status'.head_id = head_id]_vars

------------------------------------------------------------------------------
(* What the filler keeps true at each of its steps, so that the properties *)
(* above hold at all of them.                                              *)

\* The transaction t of the block at hand is open and the block applied.
Applied == pc = "commit" \/ (pc = "flush" /\ then = "commit")

\* The received blocks as they will be when t commits.
After == IF Applied THEN Received ELSE received_block

\* What each value of pc stands for.
StepInv ==
  /\ session # "streaming" => pc = "idle" /\ table_streams = {}
  /\ pc # "idle" => /\ cur.this_block \in Block /\ Linked(cur)
                    /\ cur.forks => ~cur.bulk
                    /\ cur.forks => Num[cur.this_block] <= head
  /\ pc = "flush" => table_streams # {} /\ (then = "commit" => FlushFirst)
  /\ pc \in {"status", "trim"} => table_streams = {}
  /\ pc = "status" => then # "commit"
  /\ pc = "trim" => first < EndTrim
  /\ pc = "commit" /\ ~FlushFirst => table_streams # {}
  /\ Applied => head_id = cur.this_block

\* The session's head is the newest received block; while no stream is open the
\* status agrees with it.
HistoryInv ==
  /\ IsStretch(received_block) /\ IsStretch(After)
  /\ fill_status.head_id # NoBlock => fill_status.head_id \in received_block
  /\ session = "streaming" => TipIs(After, head_id)
  /\ session = "streaming" /\ pc \in {"idle", "trim", "apply"} /\ table_streams = {} =>
       fill_status.head_id = head_id

\* `first`, in memory and in the status, is at or below every received block.
FirstInv ==
  /\ \A b \in received_block : fill_status.first <= Num[b]
  /\ fill_status.head_id = NoBlock <=> fill_status.first = 0
  /\ session = "streaming" => /\ \A b \in After : first <= Num[b]
                              /\ head_id = NoBlock <=> first = 0

IInv == TypeOK /\ NodeosInv /\ StepInv /\ HistoryInv /\ FirstInv

\* The block at hand is decided about and will be applied.
Pending == pc \in {"trim", "apply"} \/ (pc \in {"flush", "status"} /\ then = "trim")

\* What was decided about the block at hand stays true until t commits: a fork switch
\* goes back to a number the history reaches, any other block is newer than all of it.
DecisionInv ==
  /\ Pending /\ ~cur.forks => head < Num[cur.this_block]
  /\ Applied /\ ~cur.forks => \A b \in received_block : Num[b] < Num[cur.this_block]

\* The blocks whose rows may be committed: received ones, and ahead of t the block at
\* hand, unless it is a fork switch.
Landed == IF Applied /\ ~cur.forks THEN After ELSE received_block

\* A committed row belongs to such a block or was kept by trimming; what a crash
\* left of others lies past the status, where the next truncate reaches it.
RowsInv ==
  /\ \A r \in rows : \/ r.block \in received_block
                     \/ \A b \in received_block : Num[r.block] < Num[b]
                     \/ N(fill_status.head_id) < Num[r.block]
  /\ session = "streaming" =>
       \A r \in rows :
         \/ r.block \in Landed
         \/ received_block # {} /\ \A b \in received_block : Num[r.block] < Num[b]

\* The open streams hold rows of blocks newer than all committed rows, but for the
\* tables a flush has done, and than the status, but for the head of a fork switch.
StreamsInv ==
  /\ \A r \in table_streams : r.block \in After
  /\ ~(Applied /\ cur.forks) =>
       /\ \A r \in table_streams : \/ r.block = fill_status.head_id
                                   \/ N(fill_status.head_id) < Num[r.block]
       /\ \A r \in table_streams, q \in rows :
            \/ Num[q.block] < Num[r.block]
            \/ pc = "flush" /\ \A x \in table_streams : q.table # x.table
  /\ pc = "commit" /\ cur.forks => table_streams = RowsOf(cur.this_block)
  /\ pc = "apply" /\ cur.forks => table_streams = {}
  /\ pc = "commit" /\ FlushFirst => table_streams = {}

\* --fill-stop: the block stopped at and those after it are not applied.
StopInv ==
  StopBefore # 0 =>
    /\ \A b \in received_block \cup After : Num[b] < StopBefore
    /\ Pending => Num[cur.this_block] < StopBefore

RowInv == DecisionInv /\ RowsInv /\ StreamsInv /\ StopInv

\* A session never starts again with "drop" left to do.
OptionsInv == "drop" \notin options

\* What fill-pg takes to be irreversible once the block at hand is applied.
Mark == IF Pending THEN Fixed(cur) ELSE EndTrim

\* A message, and whatever nodeos is still to send, leaves block n as it is.
Beyond(n, m) == m.this_block # NoBlock => n < N(m.this_block) /\ n <= m.lib
SendsBeyond(n) == n < next \/ n < begin

\* No message goes back to what an earlier one, or the history, has irreversible.
LineInv ==
  /\ session # "streaming" => wire = <<>> /\ next = 0
  /\ \A k \in DOMAIN wire :
       /\ wire[k].lib <= lib /\ Anchored(wire[k])
       /\ Beyond(Mark, wire[k]) /\ SendsBeyond(Fixed(wire[k]))
       /\ \A j \in 1..(k - 1) : Beyond(Fixed(wire[j]), wire[k])
  /\ Pending => cur.lib <= lib /\ Anchored(cur) /\ Beyond(EndTrim, cur)
  /\ session = "streaming" => irreversible <= lib /\ SendsBeyond(Mark)

\* The irreversible block the status names is nodeos's, and the session never falls
\* behind it.
StatusInv ==
  /\ fill_status.irreversible <= N(fill_status.head_id)
  /\ fill_status.irreversible <= lib
  /\ \A b \in received_block :
       OnRoot(b) /\ (Num[b] = fill_status.irreversible => b \in chain)
  /\ session = "streaming" =>
       /\ schema /\ fill_status.irreversible <= EndTrim
       /\ \A b \in After : OnRoot(b) /\ (Num[b] = EndTrim => b \in chain)
       /\ pc \in {"idle", "trim", "apply"} /\ table_streams = {} =>
            fill_status.irreversible = EndTrim
  /\ Applied => fill_status.irreversible < Num[cur.this_block]

BranchInv == RootInv /\ LineInv /\ StatusInv

\* The history and its head as the block at hand is going to leave them.
Standing == IF Pending THEN Below(received_block, Num[cur.this_block]) \cup {cur.this_block}
                       ELSE After
StandingHead == IF Pending THEN cur.this_block ELSE head_id

Stopping == pc \in {"flush", "status"} /\ then = "stop"

\* The messages link to the history they will find, one after the other.
LinkInv ==
  session = "streaming" /\ ~Stopping =>
    /\ Pending => /\ \A b \in received_block : Links(cur, b)
                  /\ head_id # NoBlock => Reaches(head, Num[cur.this_block], SkipTo)
    /\ \A b \in Standing : Followed(b, 0)
    /\ StandingHead # NoBlock => Reached(StandingHead, 0, SkipTo)
    /\ \A i \in DOMAIN wire :
         wire[i].this_block # NoBlock =>
           Followed(wire[i].this_block, i) /\ Reached(wire[i].this_block, i, SkipTo)

\* A row that trimming kept: older than every received block.
Old(r) == received_block # {} /\ \A b \in received_block : Num[r.block] < Num[b]

\* Rows that trimming kept are of the branch the received blocks are on.  They stay of
\* it because a fork switch never takes all received blocks: one is irreversible.
KeptInv ==
  \A r \in rows : Old(r) =>
    /\ \A b \in received_block : r.block \in Branch[b]
    /\ \E b \in received_block : Num[b] <= fill_status.irreversible

\* All of it: every step keeps each part true, given the parts before it.
Inv == IInv /\ RowInv /\ BranchInv /\ HeightInv /\ LinkInv /\ KeptInv

------------------------------------------------------------------------------
(* The rows behind the status.  After a fork switch the status may run    *)
(* ahead by the rows of its head, which only the open streams hold.        *)

\* No fork switch is committed: then no status runs ahead of the rows.
NoForkCommits == [][~(CommitBlock /\ cur.forks)]_vars

\* No session ends while its open streams hold rows that the status covers.
NoHeadLost == [][session = "streaming" /\ session' # "streaming" => FilledToHead]_vars

\* The rows of a received block are committed or held.
HeldInv ==
  session = "streaming" =>
    /\ \A b \in received_block : RowsOf(b) \subseteq rows \cup table_streams
    /\ Applied => RowsOf(cur.this_block) \subseteq rows \cup table_streams

FilledInv == HeldInv /\ FilledAfterSession

ContentInv == \A r \in rows \cup table_streams : r \in RowsOf(r.block)

\* A filler is sent every block from this one on.
FirstServed == Max({SkipTo, begin})

\* The first block to come is the first one served, or older.
Opening ==
  /\ \A k \in DOMAIN wire :
       /\ wire[k].this_block # NoBlock
       /\ \A j \in 1..(k - 1) : wire[j].this_block = NoBlock
       => N(wire[k].this_block) <= FirstServed
  /\ (\A k \in DOMAIN wire : wire[k].this_block = NoBlock) => next <= FirstServed

\* Until a status names a head, the oldest block of the history is, or will be, such a one.
OpenInv ==
  /\ begin # 0
  /\ session = "streaming" /\ fill_status.head_id = NoBlock =>
       IF received_block # {} THEN \E b \in received_block : Num[b] <= FirstServed
       ELSE IF Pending \/ Applied THEN Num[cur.this_block] <= FirstServed
       ELSE Opening

\* There is a newer row of r's key, at or before the oldest block kept.
Replaced(r) ==
  \E q \in Stored : /\ q.table = r.table /\ q.key = r.key
                    /\ Num[r.block] < Num[q.block] /\ Num[q.block] <= Lowest

\* f is where the history begins, or once began: a fork switch reaches back to it, and
\* past it, only as long as nothing is irreversible.  From f on no row of a keyed table is
\* missing from the branch of the status's head, unless a newer one makes up for it.
CompleteFrom(f) ==
  /\ \A b \in received_block : f <= Num[b]
  /\ \E b \in received_block : Num[b] = f \/ Num[b] <= fill_status.irreversible
  /\ \A r \in Stored : Num[r.block] <= N(fill_status.head_id) => f <= Num[r.block]
  /\ \A b \in Branch[fill_status.head_id] : f <= Num[b] =>
       \A r \in RowsOf(b) : r.table \notin SimpleTable => r \in Stored \/ Replaced(r)

CompleteInv == fill_status.head_id # NoBlock => \E f \in 0..FirstServed : CompleteFrom(f)

FillInv == FilledInv /\ ContentInv /\ OpenInv /\ CompleteInv

------------------------------------------------------------------------------
\* The callbacks of a session run whenever they can and the timer fires; nodeos
\* sends what was asked for.  No fairness is put on nodeos's blocks, on the
\* operator or on faults.
Fairness ==
  /\ WF_vars(FillerStep)
  /\ WF_vars(SendBlocksResult /\ UNCHANGED <<dbVars, session, options, memVars, stepVars>>)

FairSpec == Spec /\ Fairness

\* Once the branch stays as it is and nothing fails, a running filler records
\* its newest block as the head.  (A branch shorter than the recorded one, as
\* nodeos has it in the middle of a fork switch or after losing reversible
\* blocks, gives nodeos nothing to send until it has grown.)
CatchesUp ==
  (<>[][/\ ~Fault /\ UNCHANGED chain]_vars /\ <>[](session # "stopped"))
     => <>[](fill_status.head_id = Tip(chain) \/ Height < N(fill_status.head_id))
==============================================================================
