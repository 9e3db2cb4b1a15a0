------------------------------ MODULE ServerWasms ------------------------------
(***************************************************************************)
(* The server wasms and the client that reads from them: the chain and the *)
(* token server, which answer a range page by page with `more`, any wasm   *)
(* that pages through a query with increment_key, and the legacy server,   *)
(* which answers once.  Blocks may arrive between two pages; a request     *)
(* that names its blocks from the head sees them, one with a fixed         *)
(* snapshot does not.                                                      *)
(*                                                                         *)
(* A record is a row of the database: in is its table, block_num the block *)
(* it was written for, present FALSE for an erased one.                    *)
(***************************************************************************)
EXTENDS QueryKeys, SequencesExt

CONSTANTS
  Cases,        \* set of [histories, requests]: sets of sets of records, and of requests
  LastHead      \* bound: blocks of the history

VARIABLES
  history,      \* all records, those of blocks to come included
  head,         \* the database's head
  begun,        \* the head when the client began
  request,      \* what the client asks for
  next_key,     \* where its next page begins
  given,        \* the records of all answers
  served        \* the last answer is there

serverVars == <<history, head, begun, request, next_key, given, served>>

ServersInit ==
  /\ head \in 1..LastHead /\ begun = head
  /\ \E case \in Cases : history \in case.histories /\ request \in case.requests
  /\ next_key = request.first /\ given = <<>> /\ served = FALSE

------------------------------------------------------------------------------
(* The database *)

\* get_block_num, of <<"absolute" | "head" | "irreversible", number>>.
Irreversible(at) == at - 1
GetBlockNumAt(sel, at) ==
  LET base == CASE sel[1] = "absolute" -> 0
                [] sel[1] = "head" -> at
                [] sel[1] = "irreversible" -> Irreversible(at)
  IN Max({0, base + sel[2]})
GetBlockNum(sel) == GetBlockNumAt(sel, head)

IsDelta(q) == q.table \notin {"block_info", "action_trace"}

\* query_database (StateQuery has the two databases' own): the first keys of the
\* range that have rows; of a delta table the newest row at the snapshot for each,
\* and an erased one of block 0 where that is not there yet.
QueryRows(q, first, last, snapshot, max_results) ==
  LET known == {r \in history : r.in = q.table /\ r.block_num <= head
                                /\ (q.table = "action_trace" => r.block_num <= snapshot)}
      keys == {k \in {SortKey(q, r) : r \in known} : ~Before(k, first) /\ ~Before(last, k)}
      page == {k \in keys : Cardinality({j \in keys : Before(j, k)}) < max_results}
      rowOf(k) ==
        LET all  == {r \in known : SortKey(q, r) = k}
            seen == {r \in all : IsDelta(q) => r.block_num <= snapshot}
        IN IF seen = {} THEN [(CHOOSE r \in all : TRUE) EXCEPT !.block_num = 0, !.present = FALSE]
           ELSE CHOOSE r \in seen : \A s \in seen : s.block_num <= r.block_num
      inOrder == SetToSortSeq(page, Before)
  IN [i \in DOMAIN inOrder |-> rowOf(inOrder[i])]

\* An answer: the rows that go into it, and where the next page begins, which is
\* set at every row.
NoMore == <<>>
SetByShown(rows, shown) == shown
SetBy(rows, shown) == rows
Answer(rows, Shown(_), Next(_)) ==
  LET shown == SelectSeq(rows, Shown)
      by == SetBy(rows, shown)
  IN [rows |-> shown, more |-> IF by = <<>> THEN NoMore ELSE Next(Last(by))]
AnswerOnce(rows, Shown(_)) == [rows |-> SelectSeq(rows, Shown), more |-> NoMore]
Always(r) == TRUE
IsPresent(r) == r.present

------------------------------------------------------------------------------
(* chain-server *)

BlockInfo ==
  Answer(QueryRows(BlockInfoRange, <<GetBlockNum(next_key)>>, <<GetBlockNum(request.last)>>, 0,
                   request.max_results),
         Always, LAMBDA r : <<"absolute", r.block_num + 1>>)

Accounts ==
  Answer(QueryRows(AcctmetaRange, next_key, request.last, GetBlockNum(request.snapshot),
                   request.max_results),
         IsPresent, LAMBDA r : <<r.name + 1>>)

\* tapos: the block that a transaction refers to.
BlockNumbered(n) == AnswerOnce(QueryRows(BlockInfoRange, <<n>>, <<n>>, 0, 1), Always)
Tapos == BlockNumbered(GetBlockNum(request.ref_block))

\* abi, code: of each name asked for, the row or that there is none.
NoAccount(name) == [name |-> name, present |-> FALSE]
Named(q) ==
  LET one(name) == SelectSeq(QueryRows(q, <<name>>, <<name>>, GetBlockNum(request.snapshot), 1), IsPresent)
      names == request.names
  IN [rows |-> [i \in DOMAIN names |-> IF one(names[i]) = <<>> THEN NoAccount(names[i]) ELSE one(names[i])[1]],
      more |-> NoMore]

------------------------------------------------------------------------------
(* token-server: contract names stand for themselves, "accounts" is AccountsTable *)

AccountsTable == 1
Transfer == 1

\* transfer: more is the key after the last row, shown or not, without its name.
IsShown(r) ==
  LET notify == r.receiver # r.act_account
  IN /\ r.status = "executed"
     /\ \/ request.incoming /\ notify /\ r.receiver = r.to
        \/ request.outgoing /\ notify /\ r.receiver = r.from
        \/ request.nonnotify /\ ~notify
TransferKey(key) == <<Transfer, key[1], key[2], GetBlockNum(key[3]), key[4], key[5]>>
MoreTransfers(key) == <<key[2], key[3], <<"absolute", key[4]>>, key[5], key[6]>>
Transfers ==
  Answer(QueryRows(ActionTraceRange, TransferKey(next_key), TransferKey(request.last),
                   GetBlockNum(request.snapshot), request.max_results),
         IsShown, LAMBDA r : MoreTransfers(IncrementKey(ActionTraceRange, FromData(ActionTraceRange, r))))

\* bal.mult.acc: of one token the accounts' balances; a value is unpacked as it is.
BalancesOfAccounts ==
  LET key(account) == <<request.code, AccountsTable, request.sym, account[1]>>
  IN Answer(QueryRows(RowsByPk, key(next_key), key(request.last), GetBlockNum(request.snapshot),
                      request.max_results),
            LAMBDA r : r.present /\ r.value # "empty", LAMBDA r : <<r.scope + 1>>)

\* bal.mult.tok: of one account the tokens' balances, with bfmt_key's ++ and one
\* more carry for a shown row.  A value must be a balance of the row's symbol.
NextToken(r) ==
  LET code == (r.code + 1) % (Top + 1)
      wrapped == IF code = 0 THEN 1 ELSE 0
      shown == r.present /\ r.value = "asset"
  IN <<r.primary_key + wrapped + (IF shown THEN wrapped ELSE 0), code>>
BalancesOfTokens ==
  LET key(token) == <<request.account, AccountsTable, token[1], token[2]>>
  IN Answer(QueryRows(RowsOfScope, key(next_key), key(request.last), GetBlockNum(request.snapshot),
                      request.max_results),
            LAMBDA r : r.present /\ r.value = "asset", NextToken)

------------------------------------------------------------------------------
(* A wasm that reads all of a range of any query, with from_data and increment_key *)

QueryNamed(short_name) == CHOOSE q \in Queries : q.short_name = short_name
LibraryRange ==
  LET q == QueryNamed(request.query)
  IN Answer(QueryRows(q, next_key, request.last, GetBlockNum(request.snapshot), request.max_results),
            IsPresent, LAMBDA r : IF Wraps(q, FromData(q, r)) THEN NoMore
                                  ELSE IncrementKey(q, FromData(q, r)))

------------------------------------------------------------------------------
(* legacy-server: one answer, at the head, of `limit` rows at most, erased ones counted *)

LegacyMax == 100
LegacyRows ==
  LET key(pk) == <<request.code, request.table, request.scope, pk>>
  IN AnswerOnce(QueryRows(RowsByScope, key(request.lower), key(request.upper), head,
                          Min({LegacyMax, request.limit})), IsPresent)

\* By the secondary key, from the lowest primary key to the highest; the row comes
\* with the entry (join contract_row).
RowPresent(r) ==
  LET key == <<r.code, r.table, r.scope, r.primary_key>>
  IN \E row \in ToSet(QueryRows(RowsByScope, key, key, head, 1)) : row.present
LowestPrimaryKey == 0
LastPrimaryKey == Top
LegacySecondary ==
  LET key(sk, pk) == <<request.code, request.table, request.scope, sk, pk>>
  IN AnswerOnce(QueryRows(Index64, key(request.lower, 0), key(request.upper, LastPrimaryKey), head,
                          Min({LegacyMax, request.limit})), LAMBDA r : r.present /\ RowPresent(r))

LegacyActions ==
  AnswerOnce(QueryRows(ReceiptReceiver, <<request.account, 0, 0, 0>>, <<request.account, Top, Top, Top>>,
                       Top, request.limit), Always)
LegacyTransaction ==
  AnswerOnce(QueryRows(TransactionReceipt, <<request.id, 0, 0>>, <<request.id, Top, Top>>, Top, 1), Always)

\* get_block of a number; get_account, get_code and get_abi of a name.
LegacyBlock == BlockNumbered(request.block_num_or_id)
LegacyAccount ==
  AnswerOnce(QueryRows(AccountRange, <<request.account_name>>, <<request.account_name>>, Top, 1), Always)

------------------------------------------------------------------------------
Reply ==
  CASE request.kind = "block.info"      -> BlockInfo
    [] request.kind = "tapos"           -> Tapos
    [] request.kind = "account"         -> Accounts
    [] request.kind = "abi"             -> Named(AccountRange)
    [] request.kind = "code"            -> Named(CodeRange)
    [] request.kind = "transfer"        -> Transfers
    [] request.kind = "bal.mult.acc"    -> BalancesOfAccounts
    [] request.kind = "bal.mult.tok"    -> BalancesOfTokens
    [] request.kind = "range"           -> LibraryRange
    [] request.kind = "get_table_rows"  -> LegacyRows
    [] request.kind = "secondary"       -> LegacySecondary
    [] request.kind = "get_actions"     -> LegacyActions
    [] request.kind = "get_transaction" -> LegacyTransaction
    [] request.kind = "get_block"       -> LegacyBlock
    [] request.kind = "get_account"     -> LegacyAccount

\* run_query, and the client: it adds the answer to what it has and asks again
\* from `more`, as src/test-client.js does.
RunQuery ==
  /\ ~served
  /\ given' = given \o Reply.rows
  /\ served' = (Reply.more = NoMore)
  /\ next_key' = IF Reply.more = NoMore THEN next_key ELSE Reply.more
  /\ UNCHANGED <<history, head, begun, request>>

\* The filler commits a block while the client is between two pages.
NewBlock ==
  /\ ~served /\ head < LastHead
  /\ head' = head + 1
  /\ UNCHANGED <<history, begun, request, next_key, given, served>>

ServersNext == RunQuery \/ NewBlock
ServersSpec == ServersInit /\ [][ServersNext]_serverVars

------------------------------------------------------------------------------
\* What a request means, in the history as it is at head `at`.
Current(table, ids, snapshot, at) ==
  LET upto == {r \in history : r.in = table /\ r.block_num <= at /\ r.block_num <= snapshot}
  IN {r \in upto : r.present /\ \A s \in upto :
        (\A f \in ids : s[f] = r[f]) => s.block_num <= r.block_num}
RowIds == {"code", "table", "scope", "primary_key"}
Between(key, first, last) == ~Before(key, first) /\ ~Before(last, key)

Asked(at) ==
  LET num(sel) == GetBlockNumAt(sel, at)
      current(table, ids) == Current(table, ids, num(request.snapshot), at)
      rows == current("contract_row", RowIds)
      traces == {r \in history : r.in = "action_trace" /\ r.block_num <= at}
      balances == {r \in rows : r.table = AccountsTable /\ r.value # "empty"}
      transferKey(key) == [key EXCEPT ![3] = num(@)]
  IN CASE request.kind = "block.info" ->
            {r \in history : r.block_num <= at /\ r.block_num \in num(request.first)..num(request.last)}
       [] request.kind = "account" ->
            {r \in current("account_metadata", {"name"}) : Between(<<r.name>>, request.first, request.last)}
       [] request.kind = "transfer" ->
            {r \in traces : /\ r.act_name = Transfer /\ r.block_num <= num(request.snapshot) /\ IsShown(r)
                            /\ Between(Tail(SortKey(ActionTraceRange, r)),
                                       transferKey(request.first), transferKey(request.last))}
       [] request.kind = "bal.mult.acc" ->
            {r \in balances : /\ r.code = request.code /\ r.primary_key = request.sym
                              /\ Between(<<r.scope>>, request.first, request.last)}
       [] request.kind = "bal.mult.tok" ->
            {r \in balances : /\ r.scope = request.account /\ r.value = "asset"
                              /\ Between(<<r.primary_key, r.code>>, request.first, request.last)}
       [] request.kind = "range" ->
            LET q == QueryNamed(request.query)
            IN {r \in IF IsDelta(q) THEN current(q.table, ToSet(q.sort_keys)) ELSE traces :
                  Between(SortKey(q, r), request.first, request.last)}
       [] request.kind = "get_table_rows" ->
            {r \in Current("contract_row", RowIds, at, at) :
               /\ r.code = request.code /\ r.table = request.table /\ r.scope = request.scope
               /\ r.primary_key \in request.lower..request.upper}
       [] request.kind = "secondary" ->
            {r \in Current("contract_index64", RowIds, at, at) :
               /\ r.code = request.code /\ r.table = request.table /\ r.scope = request.scope
               /\ r.secondary_key \in request.lower..request.upper}
       [] request.kind = "get_actions" -> {r \in traces : r.receiver = request.account}
       [] request.kind = "get_transaction" -> {r \in traces : r.transaction_id = request.id}
       [] request.kind = "tapos" -> {r \in history : r.block_num <= at /\ r.block_num = num(request.ref_block)}
       [] request.kind = "get_block" ->
            {r \in history : r.block_num <= at /\ r.block_num = request.block_num_or_id}
       [] request.kind = "get_account" ->
            {r \in Current("account", {"name"}, at, at) : r.name = request.account_name}
       [] OTHER -> Current(request.table, {"name"}, num(request.snapshot), at)

\* The order of what a request gives.
PlaceOf(r) ==
  CASE request.kind \in {"block.info", "tapos", "get_block"} -> SortKey(BlockInfoRange, r)
    [] request.kind \in {"account", "abi", "code", "get_account"} -> <<r.name>>
    [] request.kind = "transfer" -> SortKey(ActionTraceRange, r)
    [] request.kind = "bal.mult.acc" -> <<r.scope>>
    [] request.kind = "bal.mult.tok" -> <<r.primary_key, r.code>>
    [] request.kind = "range" -> SortKey(QueryNamed(request.query), r)
    [] request.kind = "get_table_rows" -> <<r.primary_key>>
    [] request.kind = "secondary" -> <<r.secondary_key, r.primary_key>>
    [] request.kind = "get_actions" -> SortKey(ReceiptReceiver, r)
    [] OTHER -> SortKey(TransactionReceipt, r)
PlacesOf(records) == {PlaceOf(r) : r \in records}

Paged == {"block.info", "account", "transfer", "bal.mult.acc", "bal.mult.tok", "range"}

\* Pages read one after the other while blocks arrive leave nothing out and give
\* nothing twice: what was there from the first page to the last is given, in the
\* order of the keys, and nothing that never was.  A page's `more` has to be the
\* next key of the very index the query reads, across every member that wraps, and
\* to be set by rows that are not shown.
PagesComplete ==
  request.kind \in Paged =>
    /\ \A i \in DOMAIN given : \E at \in begun..head : given[i] \in Asked(at)
    /\ \A i \in 1..(Len(given) - 1) : Before(PlaceOf(given[i]), PlaceOf(given[i + 1]))
    /\ served => \A p \in PlacesOf(Asked(head)) :
         (\A at \in begun..head : p \in PlacesOf(Asked(at))) => p \in PlacesOf(ToSet(given))

\* One answer, of the legacy server or to tapos: in the order of the key asked for,
\* each record once, none that is not there, and all of them if the limit allows all
\* and the erased ones it counts; and abi and code answer for every name, in the
\* order asked.
AnswersOnce ==
  served /\ request.kind \notin Paged =>
    IF request.kind \in {"abi", "code"}
      THEN /\ Len(given) = Len(request.names)
           /\ \A i \in DOMAIN given :
                given[i] \in {r \in Asked(head) : r.name = request.names[i]}
                  \/ /\ given[i] = NoAccount(request.names[i])
                     /\ \A r \in Asked(head) : r.name # request.names[i]
      ELSE LET all == SetToSortSeq(Asked(head), LAMBDA a, b : Before(PlaceOf(a), PlaceOf(b)))
               erased == {r \in history : ~r.present}
           IN /\ IsPrefix(given, all)
              /\ Cardinality(Asked(head)) + Cardinality(erased) <= request.limit => given = all

\* database.hpp:772 on query_contract_index64_range_code_table_scope_sk_pk, "Look at
\* this point of time in history": an entry given is one that the index has then.
AtThisPoint ==
  request.kind = "secondary" => \A i \in DOMAIN given : given[i] \in Asked(head)
==============================================================================
