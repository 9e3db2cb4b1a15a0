------------------------------- MODULE MCServers -------------------------------
(***************************************************************************)
(* Requests of every kind on small histories of three blocks.  Accounts    *)
(* and contracts are 0 to 2, no account having a name with all bits set;   *)
(* for ranges read through the library the keys have 0 and the highest     *)
(* value in every member, so that increments carry through all of them.    *)
(***************************************************************************)
EXTENDS ServerWasms

Rec(table, block, present) == [in |-> table, block_num |-> block, present |-> present]

\* What a key's rows may be: made early, late, changed or erased in between.
Lives == {<<>>, <<<<1, TRUE>>>>, <<<<3, TRUE>>>>, <<<<1, TRUE>>, <<2, TRUE>>>>, <<<<1, TRUE>>, <<2, FALSE>>>>}
RowsLived(table, lives, Fields(_)) ==
  UNION {{Fields(k) @@ Rec(table, lives[k][i][1], lives[k][i][2]) : i \in DOMAIN lives[k]} : k \in DOMAIN lives}

PageSizes == {1, 2}
Sels == {<<"head", 0>>, <<"irreversible", 0>>, <<"absolute", 2>>}
Reading(kind, snapshots, first, last) ==
  {[kind |-> kind, snapshot |-> s, first |-> first, last |-> last, max_results |-> m] : s \in snapshots, m \in PageSizes}

Blocks1 == {{Rec("block_info", n, TRUE) : n \in 1..LastHead}}
BlockInfos == UNION {Reading("block.info", {<<"head", 0>>}, f, l) :
  f \in {<<"absolute", 0>>, <<"head", -2>>, <<"irreversible", 0>>}, l \in Sels \cup {<<"head", 1>>}}

OneBlock ==
  {[kind |-> "tapos", ref_block |-> r, limit |-> 1, first |-> <<>>] : r \in Sels}
    \cup {[kind |-> "get_block", block_num_or_id |-> n, limit |-> 1, first |-> <<>>] : n \in 0..LastHead}

AccountLives == [0..2 -> Lives]
AccountHistories == {RowsLived("account_metadata", l, LAMBDA k : [name |-> k]) : l \in AccountLives}
AccountRequests == Reading("account", Sels, <<0>>, <<2>>) \cup Reading("account", Sels, <<1>>, <<1>>)
NameHistories(table) == {RowsLived(table, l, LAMBDA k : [name |-> k]) : l \in [0..1 -> Lives]}
NameRequests(kind, table) ==
  {[kind |-> kind, table |-> table, snapshot |-> s, names |-> ns, first |-> <<>>] :
     s \in Sels, ns \in {<<>>, <<1>>, <<1, 0>>, <<2, 1, 1>>}}

OneAccount == {[kind |-> "get_account", account_name |-> n, limit |-> 1, first |-> <<>>] : n \in 0..1}

CRow(code, table, scope, pk) == [code |-> code, table |-> table, scope |-> scope, primary_key |-> pk]
Balance(v) == [value |-> v]
AccHistories == {RowsLived("contract_row", l, LAMBDA k : CRow(1, AccountsTable, k, 2) @@ Balance("asset"))
                   \cup {CRow(1, AccountsTable, 1, s) @@ Balance(v) @@ Rec("contract_row", 2, TRUE)} :
                   l \in {f \in AccountLives : f[1] = <<>>}, s \in {1, 2}, v \in {"asset", "empty"}}
AccRequests == {[code |-> 1, sym |-> 2] @@ r : r \in Reading("bal.mult.acc", Sels, <<0>>, <<2>>)}
TokHistories == {RowsLived("contract_row", l, LAMBDA k : CRow(k[2], AccountsTable, 1, k[1]) @@ Balance(IF k = <<2, 0>> THEN v ELSE "asset")) :
                   l \in [{<<1, 2>>, <<2, 0>>, <<2, 2>>} -> Lives], v \in {"asset", "other"}}
TokRequests == {[account |-> 1] @@ r : r \in Reading("bal.mult.tok", Sels, <<0, 0>>, <<2, 2>>)
                                           \cup Reading("bal.mult.tok", Sels, <<1, 3>>, <<2, 0>>)}

TraceRec(receiver, block, trx, ordinal, status) ==
  [receiver |-> receiver, act_account |-> 2, act_name |-> Transfer, transaction_id |-> trx,
   action_ordinal |-> ordinal, status |-> status, from |-> 0, to |-> 1] @@ Rec("action_trace", block, TRUE)
AllTraces == {TraceRec(1, 1, 3, 3, "executed"), TraceRec(1, 2, 0, 3, "executed"), TraceRec(1, 2, 1, 0, "executed"),
           TraceRec(1, 3, 0, 1, "soft_fail"), TraceRec(1, 3, 3, 3, "executed"), TraceRec(2, 1, 3, 1, "executed"),
           TraceRec(2, 2, 1, 3, "executed"), TraceRec(2, 3, 3, 0, "hard_fail")}
TraceHistories == {h \in SUBSET AllTraces : Cardinality(h) <= 4}
TransferRequests ==
  {[incoming |-> i, outgoing |-> FALSE, nonnotify |-> n] @@ r : i, n \in BOOLEAN,
     r \in Reading("transfer", {<<"irreversible", 0>>}, <<1, 2, <<"absolute", 0>>, 0, 0>>, <<2, 2, <<"irreversible", 0>>, 3, 3>>)}
ActionRequests ==
  {[kind |-> "get_actions", account |-> 1, limit |-> l, first |-> <<>>] : l \in {1, 2, 4}}
    \cup {[kind |-> "get_transaction", id |-> i, limit |-> 1, first |-> <<>>] : i \in {1, 3}}

LegacyHistories ==
  {RowsLived("contract_row", l, LAMBDA k : CRow(1, 2, 1, k)) \cup {CRow(1, 2, s, 1) @@ Rec("contract_row", 1, TRUE)} :
     l \in [{0, 2, 3} -> Lives], s \in {0, 1}}
LegacyRequests ==
  {[kind |-> "get_table_rows", code |-> 1, table |-> 2, scope |-> 1, lower |-> b[1], upper |-> b[2],
    limit |-> l, first |-> <<>>] : b \in {<<0, 3>>, <<1, 2>>}, l \in {1, 2, 8}}

\* A row with its entry in a secondary index; the row may be erased with its entry.
Entry(pk, sk, block, present) ==
  {CRow(1, 2, 1, pk) @@ [secondary_key |-> sk] @@ Rec("contract_index64", block, present),
   CRow(1, 2, 1, pk) @@ Rec("contract_row", block, present)}
Kept == {UNION {Entry(p, keys[p], 1, TRUE) : p \in {0, 3}} \cup e :
           keys \in [{0, 3} -> 1..2], e \in {{}, Entry(2, 2, 2, TRUE), Entry(2, 1, 3, TRUE)}}
IndexHistories == Kept \cup {h \cup Entry(3, 1, 3, FALSE) : h \in {k \in Kept : Entry(3, 1, 1, TRUE) \subseteq k}}
IndexRequests ==
  {[r EXCEPT !.kind = "secondary", !.lower = b[1], !.upper = b[2]] : r \in LegacyRequests, b \in {<<0, 3>>, <<1, 1>>, <<2, 2>>}}

\* Two rows of a table, as far apart as can be or next to each other, in block 3.
Extremes == {0, Top}
Pairs(records) == {h \in SUBSET records : Cardinality(h) = 2}
RangeRows == {CRow(c, t, s, p) @@ Rec("contract_row", 3, TRUE) : c \in 0..1, t, s, p \in Extremes}
RangeEntries == {CRow(0, t, s, p) @@ [secondary_key |-> k] @@ Rec("contract_index64", 3, TRUE) : t \in 0..1, s, p, k \in Extremes}
RangeTraces == {TraceRec(r, 3, x, o, "executed") : r \in 0..1, x, o \in Extremes}
RangeOf(q) ==
  {[query |-> q.short_name] @@ r : r \in Reading("range", {<<"head", 0>>}, [i \in DOMAIN q.members |-> 0],
                                               [i \in DOMAIN q.members |-> Top])}
Ranges1(qs) == UNION {RangeOf(q) : q \in qs}

Case(histories, requests) == [histories |-> histories, requests |-> requests]
MCCases ==
  {Case(Blocks1, BlockInfos \cup OneBlock), Case(AccountHistories, AccountRequests),
   Case(NameHistories("account"), NameRequests("abi", "account")),
   Case({h \in NameHistories("account") : \A r \in h : r.present}, OneAccount),
   Case(NameHistories("account_metadata"), NameRequests("code", "account_metadata")),
   Case(AccHistories, AccRequests), Case(TokHistories, TokRequests),
   Case(TraceHistories, TransferRequests \cup ActionRequests),
   Case(LegacyHistories, LegacyRequests), Case(IndexHistories, IndexRequests),
   Case(Pairs(RangeRows), Ranges1({RowsByPk, RowsByScope, RowsOfScope})),
   Case(Pairs(RangeEntries), Ranges1({Index64})),
   Case(Pairs(RangeTraces), Ranges1({ActionTraceRange, ReceiptReceiver, TransactionReceipt}))}

\* An entry whose secondary key is changed: nodeos sends the new entry only.
ChangedCases ==
  {Case({Entry(3, 1, 1, TRUE) \cup Entry(3, 2, 2, TRUE)}, IndexRequests)}
==============================================================================
