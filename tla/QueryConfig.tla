----------------------------- MODULE QueryConfig -----------------------------
(***************************************************************************)
(* query-config.json and what config::prepare makes of it: tables with     *)
(* fields and keys, indexes on tables, queries on indexes, and queries     *)
(* that join another query's index.  Names are resolved through maps: of   *)
(* two tables or queries with one name the later is found, two indexes     *)
(* with one name are refused.                                              *)
(*                                                                         *)
(*   table [name, short_name, fields, is_delta, trim_index, keys]          *)
(*   index [index, short_name, table, only_for_trim, sort_keys]            *)
(*   query [short_name, index, table, has_block_snapshot, max_results,     *)
(*          join, join_query_short_name, join_key_values,                  *)
(*          fields_from_join]                                              *)
(*                                                                         *)
(* keys, sort_keys, join_key_values (by join_src_name) and                 *)
(* fields_from_join are sequences of field names; "" is an absent name.    *)
(***************************************************************************)
EXTENDS Naturals, Sequences, FiniteSetsExt

\* Places in a list of what a map finds under a key: the last one put there.
Places(list, Is(_)) == {i \in DOMAIN list : Is(list[i])}
Known(list, Is(_)) == Places(list, Is) # {}
Found(list, Is(_)) == list[Max(Places(list, Is))]

\* table_map, table_name_map, field_map, index_map
TableNamed(c, name) == Found(c.tables, LAMBDA t : t.name = name)
TableShort(c, short) == Found(c.tables, LAMBDA t : t.short_name = short)
FieldNamed(table, name) == Found(table.fields, LAMBDA f : f.name = name)
IndexNamed(c, name) == Found(c.indexes, LAMBDA x : x.index = name)

\* set_key_fields, set_join_key_fields: the fields that keys name.
KeysKnown(table, names) ==
  \A i \in DOMAIN names : Known(table.fields, LAMBDA f : f.name = names[i])
KeyFields(table, names) == [i \in DOMAIN names |-> FieldNamed(table, names[i])]

\* table.indexes, join_query
IndexesOf(c, table) == SelectSeq(c.indexes, LAMBDA x : x.table = table.name)
JoinQuery(c, query) ==
  LET upto == Max(Places(c.queries, LAMBDA q : q.short_name = query.short_name))
  IN Found(SubSeq(c.queries, 1, upto), LAMBDA q : q.short_name = query.join_query_short_name)

\* What prepare throws at; types are those of abi_type_to_kv_type.
TablePrepared(table, types) ==
  /\ \A i \in DOMAIN table.fields : table.fields[i].type \in types
  /\ KeysKnown(table, table.keys)

IndexPrepared(c, i) ==
  LET x == c.indexes[i]
  IN /\ \A j \in 1..(i - 1) :
          c.indexes[j].index # x.index /\ c.indexes[j].short_name # x.short_name
     /\ Known(c.tables, LAMBDA t : t.name = x.table)
     /\ KeysKnown(TableNamed(c, x.table), x.sort_keys)

\* A query's join is looked up among the queries up to it.
JoinKnown(c, i) ==
  \E j \in 1..i : c.queries[j].short_name = c.queries[i].join_query_short_name

QueryPrepared(c, i) ==
  LET q == c.queries[i]
  IN /\ Known(c.indexes, LAMBDA x : x.index = q.index)
     /\ Known(c.tables, LAMBDA t : t.name = q.table)
     /\ ~IndexNamed(c, q.index).only_for_trim
     /\ KeysKnown(TableNamed(c, q.table), q.join_key_values)
     /\ q.join # "" =>
          /\ Known(c.tables, LAMBDA t : t.name = q.join)
          /\ KeysKnown(TableNamed(c, q.join), q.fields_from_join)
          /\ JoinKnown(c, i)

TrimPrepared(c, table) ==
  table.trim_index # "" =>
    Known(IndexesOf(c, table), LAMBDA x : x.index = table.trim_index)

Prepared(c, types) ==
  /\ \A i \in DOMAIN c.tables : TablePrepared(c.tables[i], types)
  /\ \A i \in DOMAIN c.indexes : IndexPrepared(c, i)
  /\ \A i \in DOMAIN c.queries : QueryPrepared(c, i)
  /\ \A i \in DOMAIN c.tables : TrimPrepared(c, c.tables[i])

\* What init_tables adds with --fill-trim: a delta table has a trim index, and no
\* other has.
TrimIndexesMatch(c) ==
  \A i \in DOMAIN c.tables : c.tables[i].is_delta <=> c.tables[i].trim_index # ""
==============================================================================
