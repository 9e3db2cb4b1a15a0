# A verification project for history-tools

history-tools copies the history of an EOSIO chain out of a nodeos process into a
database (the *fillers*) and answers questions about it (*wasm-ql*). This directory
holds TLA+ models of those programs, the TLC runs that check them on small
instances, and proofs that TLAPS checks for every value of the constants.

- `X.tla` models or states properties, `MCX.tla` gives an instance for TLC,
  `XProofs.tla` holds theorems, `<run>.cfg` is one run. PROJECT.json lists the runs,
  the mutants, which source lines every definition stands for, the findings, the
  hazards and the theorems.
- Run: `tlc -workers 2 -config <run>.cfg <module>`; prove: `tlapm <X>Proofs.tla`.

Source lines below are those of `src/` in the repository. The repository's README
(line 99) declares fill-rocksdb, both wasm-ql programs and the combined history-tools
binary deprecated and disables their build; their source is still there, and is
modelled as it stands. fill-pg is the part in use and comes first.

## 1. The system

```
              get_status / get_blocks (websocket)           SQL, several connections
   nodeos  ------------------------------------>  fill-pg  --------------------------> postgresql
   + state-history plugin                                                                  |
              ------------------------------------>  fill-rocksdb --> rocksdb (in process) | SQL
                                                                          |                |
   client  <---- http, pipelined ----  wasm-ql: http server -> query() -> query session ---+
   (js + client wasm)                               runs a server wasm
```

### fill-pg (`fill_pg_plugin.cpp`): modelled

*State.* In postgresql: the schema, `received_block` (block numbers and ids),
`fill_status` (one row: head, irreversible block, `first`), and the rows of every other
table. In the process: `head_id`, `irreversible`, `first`, the open `table_streams`
(one postgresql connection and one uncommitted COPY for each table), and the
connection to nodeos.

*Operations.* `start` (drop, create), `received_abi`, `received(status)` (load the
status, `truncate(head + 1)`, request blocks), `process_blocks_result` (bulk or not,
closing streams, `trim`, fork switch, applying, flushing, committing), stop, retry.

*What is hard.* One block is committed in several transactions on several
connections, and the process can die, or a call throw, between any two. `received_block`
runs ahead of `fill_status` while loading in bulk; streams run ahead of both. A fork
switch deletes in one transaction and inserts on others. Reconnecting must begin at
the right block, on whatever branch nodeos is by then.

*Correct when.* After any fault the received blocks are one stretch of one branch that
holds the status's head; no commit can hit a duplicate key; no row of an abandoned
branch survives; the irreversible part stays; trimming changes no answer for blocks
still covered; the filler catches up with a branch that stays.

### State-history connection (`state_history_connection.hpp`): partly

One websocket, callbacks on one thread, a handler (the filler) called for every
message. It asks for the status, then for blocks from the greatest of `--fill-skip-to`,
`head + 1` and the first block nodeos serves, with the positions it has. It closes
either for good or with a retry after one second. Modelled with each filler: order of
messages, start block, both ways to close. Left: resolving and connecting, the choice
between protocol versions, the abi.

### fill_plugin and `--fill-trx` (`fill_plugin.cpp`, `state_history.hpp`): partly

A list of rules, first match decides, over transactions that may carry the trace of a
failed deferred one. Correct when what is written is what the rules let pass and the
ordinals, part of a primary key, are neither repeated nor reordered.

### fill-rocksdb (`fill_rocksdb_plugin.cpp`, `state_history_rocksdb.hpp`): modelled

*State.* Content keys (rows, `received_block`), index keys and the status in one rocksdb
with the write-ahead log off; a content and an index batch in memory. *Operations* as
fill-pg's. *Hard.* A crash leaves the database as after any batch since the last flush;
the order of batches carries the whole burden of consistency. *Correct when* no index
entry lacks its row, the status names only what is on the disk, and a restart cleans
up whatever a crash left.

### Rows in rocksdb (`state_history_kv.hpp`, `query_config.hpp`): modelled, partly

*State.* None of their own: encodings of values and keys, and query-config.json with its
tables, indexes, queries and joins, which the filler and wasm-ql both read. *Hard.* The
order of bytes has to be the order of values, ranges end at an increased prefix, keys are
taken from places in a row that are found by walking over its fields, and the config has
to describe what the filler writes. *Correct when* no two rows share a key, every row has
its index entries and every entry its row, and a query gives what the rows mean.

### Rows in postgresql (`abieos_sql_converter.cpp`, `state_history_pg.hpp`): modelled

Types of nodeos's abi become columns and composite types, a variant the union of its
alternatives' fields; a row becomes a line of COPY text, escaped once for each level.
*Correct when* postgresql takes the schema and reads back what nodeos sent.

### wasm-ql (`wasm_ql.cpp`, `wasm_ql_http.cpp`, `wasm_ql_pg_plugin.cpp`, `wasm_ql_rocksdb_plugin.cpp`)

*Request execution* (partly): a list of requests, each a run of a server wasm, retried
from a new session when the head is found gone. Every `query_database` is a transaction
of its own while the filler writes. *Http server* (modelled): connections with
pipelined requests, a bounded queue of responses, callbacks on any of several threads,
a cache of thread states. *Query sessions* (partly): one page of a range of keys at a
snapshot; postgresql through generated functions, rocksdb through a loop over index
keys. *Correct when* no answer mixes branches, all replies of a response come from one
try, a page's end loses nothing, responses come in order, and no thread state is shared.

### Server wasms and clients (`wasms/`, `eosio/database.hpp`, `test-client.js`): modelled, legacy partly

*State.* None between requests: a client that reads page by page sends back the `more` of
the last answer. *Hard.* Each server computes `more` by its own means, for the index its
query happens to use; blocks arrive between pages; rows that are erased or filtered count
towards a page. *Correct when* the pages together leave nothing out and repeat nothing.

### Not modelled

| part | why |
|---|---|
| pg_plugin, main, util, wasm-ql plugin | options and start-up of appbase |
| json, printing of floating-point numbers, serialisation in the wasm library | text and bytes that no property tells apart |
| the legacy server's get_producer_schedule, get_currency_balance | for an erased row they read address 0 of the wasm's memory (legacy-server.cpp:500, 554) |
| its get_block for a block id | it sets no reply (line 626): what the client gets is whatever `thread_state.reply` still has |
| demo apps | examples |
| tests, build, packaging | not part of the running system |

## 2. The modules

| module | models | extends |
|---|---|---|
| `BlockTree` | block ids, numbers, parents; lookups by number; what a stretch of one branch is | |
| `Nodeos` | nodeos and its state-history session (external) | `BlockTree` |
| `FillPg` | fill-pg, with its connection | `Nodeos` |
| `FillPgProperties` | its properties, inductive invariant and fairness | `FillPg` |
| `HistoryDb` | abstract: what a filler promises readers of its database | `BlockTree` |
| `TrxFilter` | `--fill-trx` and `receive_traces` | |
| `FillRocksdb` | fill-rocksdb, with its connection; its properties | `Nodeos` |
| `WasmQl` | `query()` and the postgresql session beside a running fill-pg | `FillPgProperties` |
| `StateQuery`, `Paging` | query functions of both backends; a client paging through them | |
| `KeyValue` | encodings of values and keys, key layouts, positions of fields | |
| `QueryConfig` | query-config.json as `prepare` cross-references it | |
| `RocksRows` | a database of such keys: adding, truncating, querying with joins; its properties | `KeyValue`, `QueryConfig` |
| `PgText` | how postgresql reads COPY text, composite values, arrays, bytea (external) | |
| `SqlRows` | abi types as columns, rows as lines; its properties | `PgText` |
| `QueryKeys` | key structs of the wasm library, `from_data`, `increment_key`, sort keys | |
| `ServerWasms` | chain, token and legacy server, a client between whose pages blocks arrive | `QueryKeys` |
| `HttpServer` | wasm-ql's http server | |
| `NodeosProofs` | lemmas about branches, and about nodeos's steps and messages for either filler | `Nodeos` |
| `FillPgProofs` <- `FillPgBranchProofs` | theorems about fill-pg, the first and the last parts of its invariant | `FillPgProperties`, then the one before |
| `AnswerProofs` | theorems about what readers are answered | `WasmQl`, `FillPgBranchProofs` |
| `FillRocksdbProofs` | theorems about fill-rocksdb | `FillRocksdb`, `NodeosProofs` |
| `TrxFilterProofs`, `HttpServerProofs`, `PagingProofs` | theorems about these modules | `TrxFilter`, `HttpServer`, `Paging` |
| `MCContents` | `TrxFilter`, `RocksRows`, `SqlRows`, `Paging` and `ServerWasms` as parts of one instance | these, with their MC modules |

### Composition

`FillPg` and `FillRocksdb` share nodeos: `chain`, `lib`, `begin` are what nodeos has,
`next` and `wire` the session between them. `WasmQl` adds a reader to all of fill-pg:
each of its steps is one transaction and leaves the filler's variables alone, and every
filler step leaves the reader's alone, so all interleavings of commits and queries are
there. `FillPgProperties` states `Readers == INSTANCE HistoryDb WITH exists <- schema,
history <- Covered, final <- fill_status.irreversible`: seen through `fill_status`, the
filler is the atomic machine of `HistoryDb`.

### State and actions against the code

*Nodeos* is not in the repository; it is what the fillers rely on. `ApplyBlock` extends
or switches the branch above the irreversible block, `SendBlocksResult` streams from
`next`, `StreamFrom` is get_blocks_request with positions, `ReplaceNode` restarts nodeos
without its reversible blocks or puts another node, whose logs begin later, in its place.

*FillPg.* A step is one thing another party can see: a commit on one connection, a
message taken, the end of a session. `process_blocks_result` is cut at its commits, with
`pc` at the place reached:

| step | code |
|---|---|
| `OperatorStart`, `Retry` | `start`, `schedule_retry`; `Remaining` = options cleared after dropping |
| `ReceivedAbi`, `ReceivedStatus` | create tables; load status, `truncate(head + 1)`, request |
| `BeginBlock` | bulk, large, forks; streams to close first (438-465) |
| `FlushStream(t)` | `flush_streams`, one stream's commit, in the order of the map of table names (`Rank`) |
| `CloseStreams` | the status after them |
| `Trim` | `trim_history` in its own transaction |
| `ApplyBlockRows` | fork switch in `t`, `prev_block` check, rows on the streams |
| `CommitBlock` | `t`: deletions, `received_block`, status unless bulk |
| `StopAtBlock`, `PrevMismatch`, `SkipResult` | the ways out |
| `ConnectionLost`, `Die` | close(true); process death, or a throwing postgresql call: close(false) |

A row is a table, a block and a key. Every block has a `block_info` row.

*FillRocksdb.* A handler is one step: nothing else reads the database. What can tear it
apart is a crash: every batch adds the state after it to `kept`, a waited-for flush
empties it, and `Die` picks any of them. What a flush inside the handler takes out of `kept`
goes to `passed`: `DieInside` is the crash before that flush, in `received_abi`'s clean-up, a
fork switch or `trim`, and leaves one of those. `torn` records that a crash cut a fork switch in
two. An index entry has a block number and no id, as the key has. A key's `present` byte
is not modelled.

*WasmQl.* `phase`, `num_tries`, `snap` (the status read at the beginning of a try),
`reply` (the run's), `result` (finished runs of the list). `OpenSession`,
`QueryDatabase`, `ForkFound`, `NextRequest`, `Respond`, `RunThrows` are the statements of
`retry_loop` and `query` between two transactions. One thread stands for all: threads
share nothing another could change.

*HttpServer.* `reads` and `writes` count outstanding operations of a stream; callbacks
of one connection exclude each other (strand); a query holds its strand and thread until
it ends. `GetState`, `QueryEnds` are `thread_state_cache`; a query that throws loses its
state. A request that does not parse, a failed or timed-out socket, and a half-closing
client are steps of their own.

*RocksRows.* `AddRow` is `add_row` with its index entries, `Truncate` is `truncate` with
`remove_row` for each row. `rows` is what nodeos sent, the yardstick. A value's bytes are
laid out by `Written`, what the filler's code puts there; its fields are found by
`RowPositions` from the config's fields, as in the code. Batches and crashes are
`FillRocksdb`'s business.

*SqlRows.* `CreateTables` is `create_tables`, `WriteRow` one line of a stream. `UnionFields` is
`union_fields_t` with its list of fields waiting for a place; `ToSqlValue` walks the same
types again. Text is a sequence of characters, since escaping is what the property is
about; how a number or a time is printed is not modelled.

*ServerWasms.* A record is a row with its block and whether it is present. `QueryRows` is
what `query_database` gives for a key struct (StateQuery and RocksRows have the two databases');
`Transfers`, `Accounts`, `BalancesOfTokens` and so on are the servers' functions, with `more`
computed as each does. `RunQuery` is one round trip, `NewBlock` a block that arrives between
two. `LibraryRange` stands for a wasm that reads a range with `increment_key` alone, so that
all key structs of `database.hpp` are used.

*StateQuery, Paging.* A key is its place in the order of an index's sort keys. `Scan`
is the page loop with its count; `PgState`/`PgTraces` are the generated functions,
`RdbState`/`RdbTraces` the rocksdb loop. `NextKey` is the wasm's increase of the last
key, which wraps.

## 3. The runs

| run | module | question | instance |
|---|---|---|---|
| `forks` | MCFillPg | across fork switches, in memory and on reconnecting, with faults anywhere: resumable, linked, one branch at a time, catching up | branches a1..a3 and b3, b4; a large block; trim on |
| `operators` | MCFillPg | bulk and trim on one branch; drop, create, skip-to, stop, nodes that begin later | 5 blocks, a large one, skip 2, stop 5, logs from 1, 2, 4 |
| `read` | MCWasmQl | what a client of wasm-ql can be told while fill-pg switches forks and crashes | a1 with branches a2 and b2, b3; 2 requests of one query, 2 tries |
| `http` | MCHttpServer | pipelining, the queue's limit, shared states | 2 connections, 2 threads, limit 2, 3 requests |
| `rdb` | MCFillRocksdb | fill-rocksdb with a crash after any batch | a1..a4 and b2, a large block, trim, stop 4 |
| `contents` | MCContents | the way of a block's contents to a client, in five parts | below |
| `forkcrash` | MCFillPg | *violated*: when a session has ended, a covered block has all its rows | fork instance |
| `rdbleftout` | Paging | *violated*: rocksdb pages give every record | rocksdb only |
| `rdbcrash` | MCFillRocksdb | *violated*: the clean-up leaves nothing past the head | fork instance |
| `rowslost` | MCRocksRows | *violated*: every row keeps a key of its own | the permission table as configured |
| `sqlbytes` | MCSqlRows | *violated*: postgresql reads back what was sent | bytes inside an array of structs |
| `secondary` | MCServers | *violated*: an index is shown as it is at the snapshot | a row whose secondary key changes |

A behavior of `contents` is one of one part; the parts share no state and each has its own
initial states:

| part | question | instance |
|---|---|---|
| filter | which traces are written, in which order | 42 rule lists, 81 blocks of 2 transactions |
| rocksdb | rows as keys: none lost, index and rows agree, queries with joins | 4 tables of query-config.json with 2 joins, 4 rows at most, bytes of 4 values, numbers that carry |
| postgresql | is what postgresql reads what nodeos sent | 4 tables with nested variants, arrays, optionals, strings with every character that is escaped |
| pages | are pages of a range complete, ordered, finite | every table over 3 usable keys and 2 blocks, both backends |
| servers | is what pages or one answer give complete while blocks arrive | histories of 3 blocks, requests of all 15 kinds, pages of 1 and 2 |

### What the passing runs show

- `Recoverable`, `FilledToHead` (operators): no commit order leaves the status naming a block
  whose rows are missing, on one branch. With forks only the head can be affected
  (`OnlyHeadAtRisk`): from the commit of a fork switch to the next flush its rows are on the
  streams alone, and finding 1 is a session that ends in between.
- `QueriesExact`: for every covered block number from the lowest kept one on, the newest
  row of each key among the committed rows is the one a complete history gives; so trimming
  and truncating do not change answers. The run has one branch: with fork switches, as
  long as no session ends as in finding 1, this holds of all but the head (`ReadersExact`,
  section 4).
- `BlocksLink`: the positions and the start block always make the stream continue the
  recorded branch. The exceptions are named in the property: a node that no longer
  serves the head, and `--fill-skip-to` past it.
- `NoDuplicateKey`, `NoOrphanRows`: the truncate on restart removes what bulk loading,
  streams and forks left beyond the status.
- `ImplementsHistoryDb`: readers of the status see one stretch of one branch that moves
  in single steps and never loses its irreversible part.
- `IrreversibleStays`, `RetryNeverDrops`, `StopIsClean`: what operators rely on.
- `NoForeignRows`, `SettledExact`, `OneSnapshot`: with `did_fork` as it is, a response holds
  no row of another branch unless the head left and came back within the try, replies
  below the head are exact, and none is left over from a failed try.
- `OneReadOneWrite`, `ResponsesInOrder`, `StatesApart`, `EverythingAnswered`: see the module.
- `OnlyPassingWritten`, `PlainTransactionsFiltered`, `OrdinalsFollowNesting`: the first rule that
  matches decides, and ordinals are dense and follow the nesting.
- `RowsKept`, `IndexMatchesRows`, `QueriesMeanRows`: with block_num and present in a table's
  fields, keys are unique, indexes are exact also after truncating, and what a query gives
  in bytes is what the rows mean in values, joins included (finding 4 for the tables
  without them).
- `ReadsBack`, `SchemaStands`: names and order of a variant's columns, and every level of
  escaping, are right, but for bytes below the level of the table (finding 5).
- `PgEveryKeyOnce`, `SnapshotKept`, `Ends`: paging with postgresql is exact; with rocksdb
  what is given is right, but can be incomplete (finding 2).
- `PagesComplete`: whatever was there throughout a reading is given once and in order, for
  every server and every key struct, though more blocks arrive between pages.
- `AnswersOnce`: the legacy server's single answers, `abi`, `code` and `tapos`.
- `LinkedInv`, `IndexHasRow`, `StatusLast`, `CleanedUpUnlessTorn`: the batch order of
  fill-rocksdb is right everywhere but inside a fork switch (finding 3), and `CatchesUp` holds
  in spite of it. `LinkedInv` is its inductive invariant (section 4) and contains `RdbInv`, which implies
  `FirstIsLowest`.

`TypeOK` of the fillers and the http server is a part of `IInv`, `LinkedInv` and
`OneReadOneWrite`.

Every property of every passing run has a mutant in PROJECT.json, a plausible mistake in
the code it is about, under which TLC finds it violated.

### Bounds

| constant | code | runs | why it is enough |
|---|---|---|---|
| blocks | unbounded | 4 or 5, two branches at most | a fork switch, a second one back, a block on each side of every limit |
| `BulkMargin`, `NearMargin` | 4 | 0 or 1 | bulk, the end of bulk and normal blocks all occur in 5 blocks |
| `CloseEvery`, `CommitEvery` | 200 | 2 or 3 | a bulk interval ends within the branch |
| `MaxWire` | 2^32 - 1 | 1 | messages in transit only delay; one already crosses a fork in nodeos |
| tables, keys | many | one simple, one keyed; 1 to 3 keys | trimming treats tables one by one, keys one by one |
| `MaxTries` | 4 | 2 | a retry and giving up |
| `Limit` | 8 | 2 | below, at and back from the limit with 3 requests |
| `ByteValues` | 256 | 4 | values with one and two bytes, carries, the half that a varuint32 uses |
| `MaxRows` | unbounded | 4 (`rowslost` 3) | two keys with two blocks each, or a row with both it joins |
| `Top` | 2^64 - 1, 2^32 - 1, 2^256 - 1 | 3 | keys with every member at both ends, so that increments carry through all |
| `LastHead` | unbounded | 3 | a block before, between and after the pages; heads 1 to 3 at the beginning |
| page size | 100, in test-client.js and query-config.json | 1, 2 | one page ends in the middle of what two give |
| `LargeBlock` | 10 MiB, 10000 rows | one block | membership is all the code asks |

The rows of a block, in `MCContent`, give keys written once, twice on one branch, and on both
branches, and a block without deltas. In `operators` the operator drops and
nodes' logs begin later, on one branch; in `rdb` nodes may also lose their reversible blocks.
`forks` has neither: a switch back to the shorter branch takes blocks away too, and what the
theorems of section 4 state holds for both.

CHECK_DEADLOCK is FALSE in `http` (clients send finitely many requests), and in `contents`,
`rowslost`, `sqlbytes`, `secondary` and `rdbleftout` (a block's traces, the rows, a line or
the client's pages end). The fillers never stop: an
operator can always start them.

### Fairness

`FairSpec` of both fillers has weak fairness on the filler's own steps (its io_service
runs what is ready, the retry timer fires) and on `SendBlocksResult` (nodeos answers an
outstanding request). None on blocks, the irreversible block, the operator or faults; the
liveness properties therefore assume a branch that stays and a session that lasts. `http` has
weak fairness on each connection's server steps: a thread runs what is posted, queries
end. Failing reads are not fair: nothing promises that a bad request arrives. `Paging`, and
`ContentsSpec` with it, has weak fairness on the client's next page. No strong fairness is used.

## 4. What is proved

Every theorem holds for all values of the constants: any block tree, table set, options,
margins, bound on the wire, rule list, block, number of connections and threads.

*Assumptions.* `TreeAssumption` (numbers follow parents); `NodeosAssumption` (nodeos begins
with one stretch of a branch that has a newest block); `GenesisAssumption` (that
branch goes back to a block without a parent); `FillAssumption`, among it that every block
carries a row; `FilterAssumption` (rules are rules, a block is a sequence of transactions,
each with at least one trace); and that numbers are numbers: `HttpAssumption`,
`WasmQlAssumption`, `QueryAssumption`, `PagingAssumption`. Nothing else. TLC evaluates them on
every run that extends their modules.

`NodeosProofs`: cutting a stretch from above (`StretchBelow`), from below
(`StretchFrom`), extending it (`StretchExtended`), and `TipBelow`: after a cut at n the
block found at n - 1 is the newest. This is why `truncate` may look its head up by number.
`Branch`, a recursive function, is shown to be `Ancestry` (`BranchIs`), the least set that has
the block and, with each of its blocks, the parent; from that, that a branch has one block at
a number and that a stretch lies on the branch of its newest block (`StretchOnBranch`). What `Nodeos`
says in its last section of nodeos's branch (`HeightInv`, `RootInv`, `Anchored`) and of the
messages under way (`Followed`, `Reached`) is shown there to survive nodeos's steps and the
taking of a message (`FollowedSent`, `PlaceForward` and their like), once for both fillers.

### fill-pg

| module | theorem | statement |
|---|---|---|
| `FillPgProofs` | `Invariant` | `Spec => []IInv` |
| | `TypeCorrect` | `Spec => []TypeOK` |
| | `AlwaysRecoverable` | `Spec => []Recoverable` |
| | `FirstStaysLowest` | `Spec => []FirstIsLowest` |
| | `RowsInvariant` | `Spec => [](IInv /\ RowInv)` |
| | `NeverDuplicateKey` | `Spec => []NoDuplicateKey` |
| | `NeverOrphanRows` | `Spec => []NoOrphanRows` |
| | `OnlyHeadEverAtRisk` | `Spec => OnlyHeadAtRisk` |
| | `StopAlwaysClean` | `Spec => StopIsClean` |
| | `RetryNeverDropsSchema` | `Spec => RetryNeverDrops` |
| `FillPgBranchProofs` | `BranchInvariant` | `Spec => [](IInv /\ RowInv /\ BranchInv)` |
| | `IrreversibleAlwaysStays` | `Spec => IrreversibleStays` |
| | `Refinement` | `Spec => ImplementsHistoryDb` |
| | `LinkInvariant` | `Spec => []Inv` |
| | `BlocksAlwaysLink` | `Spec => []BlocksLink` |

`Inv` of `FillPgProperties` is the inductive invariant, in five parts. Each is inductive
given the parts before it; run `forks` has TLC check all of `Inv`.

1. `IInv`. `Recoverable` is not inductive: whether a commit keeps the received blocks a
   stretch depends on what the session holds in memory between commits. Added are
   `NodeosInv` (nodeos's branch is a stretch and every message in transit links), `StepInv`
   (what each value of `pc` stands for), `HistoryInv` (the received blocks, and those as
   they will be when the open transaction commits, `After`, are stretches whose newest
   block is the session's head; with no stream open, the status agrees) and `FirstInv`
   (`first` is at or below every received block, and 0 exactly when there is no head;
   without it trimming could cut a hole). The delicate cases are `BaseIsTip` (the head a
   fork switch falls back to) and `TrimInv`.
2. `RowInv`, for the rows, which are committed on other connections than the blocks.
   `DecisionInv`: what `process_blocks_result` decided about the block at hand stays true
   until its transaction commits. `RowsInv`: a committed row is of a received block, or is
   older than all of them (trimming kept it), or lies past the status, where the next
   `truncate(head + 1)` reaches it. `StreamsInv`: what the open streams hold is newer than
   everything committed to their tables. `StopInv` is for `--fill-stop`. `OnlyHeadAtRisk`
   is then an action property: the lemma for each step says which rows it may lose.
3. `BranchInv`, for the irreversible block. nodeos never takes back what it called
   irreversible, but fill-pg hears of it later, by messages of older states of the
   branch. `LineInv` relates the messages in transit to one another: whatever an earlier
   one marks as irreversible (`Mark`, `Fixed`), no later one, nor anything nodeos is still
   to send, goes back to. `RootInv` and `Anchored` say that the irreversible part of a
   message's branch is nodeos's. `StatusInv` carries it to the database. The refinement of
   `HistoryDb` needs it: a fork switch is a step of it only if it
   leaves the irreversible part alone.
4. `HeightInv` and `LinkInv`, for `prev_block`. Every block of the history is followed, in
   the wire or by what nodeos sends next, by messages that leave it in place or link to it
   (`Followed`), and no number is left out after the head (`Reached`), unless nodeos no
   longer serves it or `--fill-skip-to` lies beyond it: the two exceptions of `BlocksLink`.
   The delicate case is `ReceivedStatus`, where the positions fill-pg offers have to reach
   the fork with whatever branch nodeos has by then.

5. `KeptInv`, for trimming, which keeps the newest row of each key: such rows are older than
   every received block (`Old`) and of the branch those are on. A fork switch that took all
   received blocks would leave them on no branch; it cannot, as one of the received blocks is
   then irreversible, since `trim` goes no further than the irreversible block.

There is a lemma for each action that changes a part, others for the steps that leave
it alone (`FillerUnchanged`, `SessionEnded` and their like in each module), and one that
combines them.

### What readers are answered

| theorem of `AnswerProofs` | statement |
|---|---|
| `FilledWithoutForks` | `Spec /\ NoForkCommits => []FilledToHead` |
| `AnswersWhileHeadKept` | `Spec /\ NoHeadLost => []ReadersExact` |
| `AnswersWithoutForks` | `Spec /\ NoForkCommits => []QueriesExact` |
| `ReadInvariant` | `ReadSpec => []ReadInv` |
| `AlwaysOneSnapshot` | `ReadSpec => OneSnapshot` |
| `NeverForeignRows` | `ReadSpec => NoForeignRows` |
| `AlwaysSettledExact` | `ReadSpec => SettledExact` |

*The database as it stands.* `FilledToHead` (the status covers no block whose rows are not
committed) and `QueriesExact` (the committed rows, asked as of a covered, untrimmed block, give
what the whole history of the head's branch would) are not invariants of `Spec`. A fork switch
commits its status before its rows: until the next flush a reader is denied rows of the head,
and if the session ends in between they are lost (finding 1), so that later blocks may be
answered wrongly too. The theorems say how far that goes. `NoForkCommits`: no step is the commit of a
fork switch; then both hold, however sessions end. `NoHeadLost`, which is weaker: fork switches
commit, but no session ends, by a fault or otherwise, while the status covers rows that are
not committed; then `ReadersExact` holds: as of every covered, untrimmed block the
committed rows answer exactly, except as of the head itself while an open stream of the
session holds a row of it. That gap is real, in every fork switch, and no theorem says when
it ends. Nothing else is assumed of crashes, retries, options, trimming or what nodeos
sends. The invariant, `FillInv`, is inductive given `Inv`:

- `HeldInv`: in a session the rows of every received block are committed or on a stream; out
  of one, `FilledToHead`. The delicate steps are `FlushStream`, which commits one table after
  another, and `CloseStreams`, whose status comes after all of them.
- `ContentInv`: a row is one of those its block carries.
- `OpenInv`: while no status has named a head, the oldest block of the history is, or the
  first message to come will be, at most `FirstServed`, the first block a filler is sent.
- `CompleteInv`: there is a number f, at most `FirstServed`, from which on no row of the
  head's branch is missing unless a newer one at or before the oldest kept block makes up for
  it (`Replaced`, what trimming deletes). f is where the history begins or once began.
  Trimming moves the oldest block and not f, so a fork switch below f has to be
  excluded: either a received block is f, or one is irreversible.

`CompleteAnswers` counts the open streams in (`Stored`) and finds every answer exact: the
newest row of a key on the branch, if it is from f on, is stored, as a replaced one is not the
newest; and if it is older than f nothing at all is stored for the key, since what is stored
is of the branch (`RowOnBranch`, by `KeptInv`). `FillAnswers` goes from there to what readers see: a
stored row that is not committed and not past the status is of the status's head
(`StoredBelowHead`), so the committed rows give the same answers as of any earlier block, and
as of the head too once its rows are committed (`CommittedAnswers`).

*Readers beside the filler.* `ReadInv` adds to `Inv` what the thread keeps true: its status is
one, a run's replies carry the head it began with, and, unless that head left the
database in between (`left`), it is covered and nothing answered is of another branch
(`BranchKept`). The steps to look at are the filler's: each commit that may take a block away
(`ReceivedStatus`, `CommitBlock`, a drop) either leaves the reader's head and every row at or
below it, or sets `left`; then `did_fork` sees it, unless the head is back.

For `SettledExact` the answers of one try were read at different moments. `AnswersSettled`
says of each that it is the branch's, or misses a row that is not there now either. A missing
row stays missing (`MissingStays`): the streams hold nothing below the status's head. So if
at the end no row is missing but for those that trimming replaced (`Filled`), each answer was
exact when it was read.

### The trx filter

| theorem | statement |
|---|---|
| `FilterInvariant` | `Spec => []FilterInv` |
| `OnlyPassingEverWritten` | `Spec => []OnlyPassingWritten` |
| `PlainTransactionsAlwaysFiltered` | `Spec => []PlainTransactionsFiltered` |
| `OrdinalsAlwaysFollowNesting` | `Spec => []OrdinalsFollowNesting` |

`FilterAction` (the loop over the rules) and `Levels` (write_transaction_trace, which calls
itself) are recursive functions. A recursive function is the function that satisfies its
equation, if there is one: for each, a formula without recursion is shown to satisfy it
(`FirstInStep`, `TopStep` with `DownwardsStep`), and any other that does to be the same
(`AgreeDownwards`, by the least number at which two differ). So `FilterActionFirst` says that
the loop decides by the first rule that matches, and `LevelsAreDownwards` that the levels
written are those from some level down to the outermost, all failed traces among them
passing. `FilterInv` follows the rows: each is of a trace that was read and passes
(`WrittenRows`), none twice (`WrittenOnce`), and the row of a failed trace is followed by the
row of its carrier.

### The http server

| theorem | statement |
|---|---|
| `Invariant` | `Spec => []HttpInv` |
| `AlwaysOneReadOneWrite` | `Spec => []OneReadOneWrite` |
| `AlwaysInOrder` | `Spec => []ResponsesInOrder` |
| `AlwaysApart` | `Spec => []StatesApart` |

`HttpInv` has a part for the connections and one for the thread states. A read is
outstanding, or its request in hand, only while the queue has room for one more response,
and a write only while the queue has one to write: so neither of the two callbacks that
call do_read, on_read and on_write, ever begins a second read. Requests are numbered
through the socket, the query, the queue and what the client has received. A query's
state is neither in the cache nor another query's, and states in use and cached together
are no more than the threads, by cardinalities of finite sets.

### fill-rocksdb

| theorem | statement |
|---|---|
| `RdbInvariant` | `Spec => []RdbInv` |
| `EveryEntryHasItsRow` | `Spec => []IndexHasRow` |
| `RestartCleansUp` | `Spec => []CleanedUpUnlessTorn` |
| `NothingBelowFirst` | `Spec => []FirstIsLowest` |
| `LinkedInvariant` | `Spec => []LinkedInv` |
| `BlocksLinkUnlessTorn` | `Spec => [](~torn => BlocksLink)` |

`CleanedUpUnlessTorn`, `FirstIsLowest` and most parts of the invariants are stated for as long
as no crash has cut a fork switch in two (`~torn`); `IndexHasRow` needs no such condition.

The invariant speaks of every state of the database that a crash may leave (`kept`), not only
of the one the filler reads. `DiskInv`: in each of them every index entry has its row.
`CrashInv`: unless a crash has cut a fork switch in two, a restart can go on from each
(`Resumable`): the received blocks up to the status's head are one stretch of one branch that
ends in it, and none lies below the status's `first`. Blocks past the head may be there, and
the clean-up deletes them; it finds its head by number, so the stretch is what makes
`CleanedUpUnlessTorn` hold, which is not inductive by itself. `SessionInv` is the same for
what a session has in memory (`Sound`): the blocks in the database and those in its batch
together. Its `first` is what `trim` begins at, and the reason why trimming leaves a stretch.

Each function that writes batches (`EndWrite`, `EndPart`, `Truncate`, `Switch`, `CleanUp`, `Trim`)
has lemmas of two kinds: every state after one of its batches, or that its flush passed, keeps
entries and rows together, torn or not (`...Rows`, `...Keeps`); and, from a sound session, is
resumable or marked as inside a fork switch, with the session sound again afterwards
(`...Ready`). A handler is a composition of these functions, and a crash picks one of the
states (`CrashKeeps`).

`LinkedInv` adds to `RdbInv` what relates the filler to nodeos, by fill-pg's argument for
`BlocksLink` (parts 3 and 4 of its invariant). `FixInv`: as long as no crash has cut a fork
switch in two, the received blocks up to the irreversible one, of the session and of every
database a crash may leave, are nodeos's for good. The database may name an older irreversible
block than the session knows, so a restart offers more positions than it needs, never too
few. `LineInv`: a later message never has an older irreversible block. `LinkInv`: every
received block is followed by messages that leave it in place or link to it. Each function
that writes batches only removes received blocks (`...Narrows`), but for `Applied`, whose new
block takes the irreversible block of its message (`AppliedSettles`). In a fork switch the
head is found by number, so it is the block that the new one was to follow (`BaseSettles`).

### Pages

| theorem of `PagingProofs` | statement |
|---|---|
| `PagingInvariant` | `PagingSpec => []PagingInv` |
| `AlwaysSnapshotKept` | `PagingSpec => []SnapshotKept` |
| `PgAlwaysEveryKeyOnce` | `PagingSpec => []PgEveryKeyOnce` |

For every table, range, snapshot, page size and limit. The loop of `query_database` is a
recursive function over its turns. That it exists is not taken for granted: were there a
least number of turns for which it is not what its definition says, the function up to there,
with one turn more, would be a counterexample (`ScanIs`; `PresentKept` does the same for the
wasm's loop over the rows of a page). Then, by the least number of turns for which it fails,
what a page is: one row for each of its keys, ascending, from the first one asked for; every
key up to its last one that has rows is among them; and a page without rows means that no key
is left (`ScanFinds`). `...Finds` applies it to the four queries. For rocksdb a key without
a row at the snapshot adds nothing, so the last part is not true of it: that is the finding
`rdbleftout`.

`PagingInv` carries it across pages: every key given lies below where the next page begins,
the keys given are ascending and are wanted, and with postgresql no wanted key below that is
left out. The increase of the last key wraps only at `MaxKey`, which no row has.

### Model-checked only

Liveness and fairness (`CatchesUp`, `EverythingAnswered`, `Ends`): ENABLED is out of the
prover's reach. fill-rocksdb's `StatusLast` is not proved, nor `BlocksLink` after a crash has cut
a fork switch in two (run `rdb` checks it there too). `RocksRows`, `SqlRows` and `ServerWasms` compute over bytes, characters and
records by RECURSIVE operators; their properties stay with TLC.

## 5. Findings

1. **A fork block's rows can be lost** (`forkcrash`, fill_pg_plugin.cpp:485). In a fork
   switch the status is committed while the block's rows wait on open streams; a fault
   before the next block loses them, where the run's trace ends. The next session asks for the
   blocks after the status's head (line 218), so it does not fetch them.
2. **rocksdb pages can end early** (`rdbleftout`, wasm_ql_rocksdb_plugin.cpp:146). Keys whose
   rows are all newer than the snapshot count towards the page; an empty page ends a
   client's reading before the range does.
3. **A crash inside a rocksdb fork switch is not cleaned up** (`rdbcrash`,
   fill_rocksdb_plugin.cpp:404). The status names a deleted head; the restart keeps blocks
   past its head, which `--frdb-check` calls out of range. Blocks streamed again overwrite
   them.

4. **Rows overwrite each other in rocksdb** (`rowslost`, fill_rocksdb_plugin.cpp:538). For
   the tables that query-config.json lists without block_num and present (permission at
   line 707, and contract_table, generated_transaction, permission_link, resource_limits,
   resource_usage) keys are read from the wrong bytes of a row, so two
   permissions of one account can get one key.
5. **Bytes inside composite values are stored as text** (`sqlbytes`,
   abieos_sql_converter.cpp:280). Their backslash, escaped for COPY already, is escaped again
   at each level.
6. **A changed secondary key leaves a stale entry** (`secondary`, query-config.json:1041). The
   secondary key is part of the sort key, so the old entry never gets a newer row; a query
   by the old key still gives it, and get_table_rows shows the row there.

Seen while modelling, without a run:

- a trace without actions passes no rule (state_history.hpp:119), where
  doc/database-fillers.md:72 says all transactions pass by default;
- a filtered failed trace takes its outer transaction with it, where
  doc/database-fillers.md:67 says any passing action suffices;
- `trim_history` commits before the status with the new `first`, so a reader can see
  `first` at a block already gone (doc/balance-snapshot.md:131 takes it for the oldest block to answer for);
- rocksdb answers for traces ignore the snapshot block (database.hpp:379);
- the head of a fork may be answered from part of its rows, since `did_fork`
  (wasm_ql.cpp:94) only asks whether its header is there;
- `starts_with` of the legacy server compares the terminating zero too
  (legacy-server.cpp:246), so the index names it is called with never match a longer text;
- get_producer_schedule sorts the first 21 producers by owner, not the 21 with the most
  votes (legacy-server.cpp:475, 505);
- get_actions takes the absolute value of `offset` and ignores `pos` (line 608);
- a token whose contract has every bit set would be followed by a skipped symbol
  (token-server.cpp:144 increases it a second time); no account has that name;
- a rocksdb filler whose database begins above the irreversible block cannot restart
  (fill_rocksdb_plugin.cpp:367), and `--frdb-check` throws for an empty database (line 140).

Hazards that no property covers have a note in PROJECT.json.

## 6. Plan

Done: fill-pg with its core proof, the trx filter, fill-rocksdb, request execution,
paging, the http server, encodings and layout of rocksdb's rows with queries and joins,
the sql converter, the server wasms.

Models still to write, in this order:

1. The connection's lifecycle: resolving, connecting, `get_status` before and after the
   first abi, protocol versions, close against a pending timer; against an abstract "at
   most one session, and one while wanted".
2. The rocksdb query session beside a running fill-rocksdb (iterators as snapshots, and what
   `did_fork` can see).
3. wasm callbacks and the reply that is never cleared (wasm_ql.cpp:155).
4. Joins of the generated sql functions in `StateQuery` (RocksRows has rocksdb's).

Proofs still to write, in this order:

1. `FillRocksdb`: `StatusLast`, for `--fill-skip-to` up to 1.
2. `FillRocksdb`: `BlocksLink` after a crash has cut a fork switch in two.
