------------------------------- MODULE QueryKeys -------------------------------
(***************************************************************************)
(* The keys of query_database as a server wasm sees them (database.hpp):   *)
(* for each query the members of its key struct in the order they are      *)
(* packed in, the field of a row that from_data takes for each, and the    *)
(* order in which increment_key carries; and the sort keys of its index in *)
(* query-config.json, by which the database reads a packed key and sorts.  *)
(* A query whose range is one name or number has that as its only member.  *)
(***************************************************************************)
EXTENDS Naturals, Sequences, FiniteSetsExt

CONSTANT Top    \* the value with every bit set, of each member

ASSUME QueryKeysAssumption == Top \in Nat \ {0}

KeyStruct(short_name, table, members, from, carries, sort_keys) ==
  [short_name |-> short_name, table |-> table, members |-> members, from |-> from,
   carries |-> carries, sort_keys |-> sort_keys]

Only(short_name, table, member) ==
  KeyStruct(short_name, table, <<member>>, <<member>>, <<member>>, <<member>>)

BlockInfoRange == Only("block.info", "block_info", "block_num")
AccountRange == Only("account", "account", "name")
AcctmetaRange == Only("acctmeta.jn", "account_metadata", "name")
CodeRange == Only("meta.jn.code", "account_metadata", "name")

ActionTraceRange == KeyStruct("at.e.nra", "action_trace",
  <<"name", "receiver", "account", "block_num", "transaction_id", "action_ordinal">>,
  <<"act_name", "receiver", "act_account", "block_num", "transaction_id", "action_ordinal">>,
  <<"action_ordinal", "transaction_id", "block_num", "account", "receiver", "name">>,
  <<"act_name", "receiver", "act_account", "block_num", "transaction_id", "action_ordinal">>)

ReceiptReceiver == KeyStruct("receipt.rcvr", "action_trace",
  <<"receipt_receiver", "block_num", "transaction_id", "action_ordinal">>,
  <<"receiver", "block_num", "transaction_id", "action_ordinal">>,
  <<"action_ordinal", "transaction_id", "block_num", "receipt_receiver">>,
  <<"receiver", "block_num", "transaction_id", "action_ordinal">>)

TransactionReceipt == KeyStruct("transaction", "action_trace",
  <<"transaction_id", "block_num", "action_ordinal">>,
  <<"transaction_id", "block_num", "action_ordinal">>,
  <<"action_ordinal", "block_num", "transaction_id">>,
  <<"transaction_id", "block_num", "action_ordinal">>)

RowsByPk == KeyStruct("cr.ctps", "contract_row",
  <<"code", "table", "primary_key", "scope">>, <<"code", "table", "primary_key", "scope">>,
  <<"scope", "primary_key", "table", "code">>, <<"code", "table", "primary_key", "scope">>)

RowsByScope == KeyStruct("cr.ctsp", "contract_row",
  <<"code", "table", "scope", "primary_key">>, <<"code", "table", "scope", "primary_key">>,
  <<"primary_key", "scope", "table", "code">>, <<"code", "table", "scope", "primary_key">>)

RowsOfScope == KeyStruct("cr.stpc", "contract_row",
  <<"scope", "table", "primary_key", "code">>, <<"scope", "table", "primary_key", "code">>,
  <<"code", "primary_key", "table", "scope">>, <<"scope", "table", "primary_key", "code">>)

Index64 == KeyStruct("ci1.cts2p", "contract_index64",
  <<"code", "table", "scope", "secondary_key", "primary_key">>,
  <<"code", "table", "scope", "secondary_key", "primary_key">>,
  <<"primary_key", "secondary_key", "scope", "table", "code">>,
  <<"code", "table", "scope", "secondary_key", "primary_key">>)

Queries == {BlockInfoRange, AccountRange, AcctmetaRange, CodeRange, ActionTraceRange,
            ReceiptReceiver, TransactionReceipt, RowsByPk, RowsByScope, RowsOfScope, Index64}

\* from_data
FromData(q, row) == [i \in DOMAIN q.members |-> row[q.from[i]]]

\* increment_key: the first member of carries, and each next one when all before
\* it have wrapped.
Carried(q, key, i) ==
  \E j \in DOMAIN q.carries :
    /\ q.carries[j] = q.members[i]
    /\ \A k \in 1..(j - 1) : \E m \in DOMAIN key : q.members[m] = q.carries[k] /\ key[m] = Top
IncrementKey(q, key) ==
  [i \in DOMAIN key |-> IF Carried(q, key, i) THEN (key[i] + 1) % (Top + 1) ELSE key[i]]

\* What it returns: the key wrapped as a whole.
Wraps(q, key) == \A m \in DOMAIN key : key[m] = Top

\* The place of a row in the index, and the order there.
SortKey(q, row) == [i \in DOMAIN q.sort_keys |-> row[q.sort_keys[i]]]
Before(a, b) ==
  \E i \in DOMAIN a : a[i] < b[i] /\ \A j \in 1..(i - 1) : a[j] = b[j]
==============================================================================
