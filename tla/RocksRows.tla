------------------------------ MODULE RocksRows ------------------------------
(***************************************************************************)
(* Rows in rocksdb, as bytes: the filler's add_row and remove_row, what    *)
(* --frdb-check verifies, and the query session's query_database with its  *)
(* joins.  Both sides read one query-config; `Written` is what the filler  *)
(* puts in a row of a table, field by field, which the config's fields are *)
(* meant to describe.                                                      *)
(***************************************************************************)
EXTENDS KeyValue, QueryConfig

CONSTANTS
  Configs,    \* query-config.json files
  Written,    \* [table name -> Seq(field)]: the layout of the rows the filler writes
  Sent,       \* rows nodeos may send: [table, vals], vals[f] Absent for a field left out
  Absent,     \* an optional part that is not there
  Ranges,     \* [query short_name -> set of <<first, last>>]: tuples of sort keys
  QuerySnapshots,  \* blocks queries are asked at
  MaxRows     \* bound: rows in the database

VARIABLES
  config,     \* the config, as loaded
  content,    \* rows: a function from keys to values
  index,      \* index entries: keys
  rows        \* history: the rows sent and not taken back, one for each key

rocksVars == <<config, content, index, rows>>

\* abi_type_to_kv_type has these types, and float64.
KvTypes == DOMAIN Width \cup {"varuint32", "bytes", "float64"}

\* open_query_config: without a config that prepares nothing is opened.
RocksInit ==
  /\ config \in {c \in Configs : Prepared(c, KvTypes) /\ TrimIndexesMatch(c)}
  /\ content = <<>> /\ index = {} /\ rows = {}

------------------------------------------------------------------------------
(* The filler *)

\* fill, receive_block, receive_deltas, write_action_trace: a row's bytes.
Value(r) ==
  LET fs == Written[r.table]
  IN FlattenSeq([i \in DOMAIN fs |->
       IF r.vals[fs[i].name] = Absent THEN <<>> ELSE ToBin(fs[i].type, r.vals[fs[i].name])])

\* present_k: of deltas the row's, of all others true.
PresentK(table, r) == table.is_delta => r.vals["present"] = 1

RowKey(table, r, at) ==
  TablePrefix(r.vals["block_num"], PresentK(table, r), table.short_name)
    \o ExtractKeys(Value(r), KeyFields(table, table.keys), at)

\* The index entries of a row, from its bytes.
Entries(table, value, at, block, present) ==
  {IndexPrefix(table.short_name, x.short_name)
     \o ExtractKeys(value, KeyFields(table, x.sort_keys), at)
     \o IndexSuffix(block, present) : x \in ToSet(IndexesOf(config, table))}

\* What a row is in nodeos, less its fields that are not part of its key.
RowId(r) ==
  LET t == TableNamed(config, r.table)
  IN <<r.table, r.vals["block_num"], [i \in DOMAIN t.keys |-> r.vals[t.keys[i]]]>>

\* add_row.  Blocks come in order, and a block has a row once.
AddRow(r) ==
  LET t     == TableNamed(config, r.table)
      value == Value(r)
      at    == RowPositions(value, t.fields)
  IN /\ Cardinality(rows) < MaxRows
     /\ \A s \in rows : s.vals["block_num"] <= r.vals["block_num"] /\ RowId(s) # RowId(r)
     /\ content' = (RowKey(t, r, at) :> value) @@ content
     /\ index' = index \cup Entries(t, value, at, r.vals["block_num"], PresentK(t, r))
     /\ rows' = rows \cup {r}
     /\ UNCHANGED config

\* truncate: remove_row of all rows from a block on; what it takes out of the
\* indexes comes from the row's key and value.
EntriesShown(key) ==
  LET t == TableShort(config, TableOf(key))
  IN Entries(t, content[key], RowPositions(content[key], t.fields), BlockOf(key), TRUE)
EntriesOfRow(key) ==
  LET t == TableShort(config, TableOf(key))
  IN Entries(t, content[key], RowPositions(content[key], t.fields), BlockOf(key), PresentOf(key))
RowsAfter(block) ==
  {k \in DOMAIN content : ~KeyLess(k, TablesFrom(block + 1)) /\ ~MemLess(<<TableTag>>, k)}
RowsSince(block) ==
  {k \in DOMAIN content : ~KeyLess(k, TablesFrom(block)) /\ ~MemLess(<<TableTag>>, k)}
Truncate(block) ==
  LET gone == RowsSince(block)
  IN /\ gone # {}
     /\ content' = [k \in DOMAIN content \ gone |-> content[k]]
     /\ index' = index \ UNION {EntriesOfRow(k) : k \in gone}
     /\ rows' = {r \in rows : r.vals["block_num"] < block}
     /\ UNCHANGED config

RocksNext ==
  \/ \E r \in Sent : AddRow(r)
  \/ \E r \in rows : Truncate(r.vals["block_num"])

------------------------------------------------------------------------------
(* The query session *)

\* for_each: the first entry from lower on, if it is not past upper; both may be
\* prefixes.
Within(lower, upper) == {k \in index : ~KeyLess(k, lower) /\ ~MemLess(upper, k)}
FirstIn(keys) == CHOOSE k \in keys : \A j \in keys : ~KeyLess(j, k)

RowOfKey(pk) == content[pk]
RowAt(entry, table, x) ==
  RowOfKey(ExtractPkFromIndex(entry, [keys |-> KeyFields(table, table.keys)],
                         table.short_name, KeyFields(table, x.sort_keys)))

\* append_fields: a row's fields, copied by bin_to_bin or, for a key, bin_to_key.
AppendFields(value, fields, at) ==
  FlattenSeq([i \in DOMAIN fields |->
    LET pos == at[fields[i].name]
        end == SkipBin(fields[i].type, value, pos)
    IN IF fields[i].type = "bytes"
         THEN Bytes(value, pos, 1 + value[pos + 1])     \* sizes of one byte only
         ELSE Bytes(value, pos, end - pos)])

\* fill_empty
EmptyField(f) == IF f.type = "bytes" THEN <<0>> ELSE [i \in 1..Width[f.type] |-> 0]
FillEmpty(fields) == FlattenSeq([i \in DOMAIN fields |-> EmptyField(fields[i])])

\* The key range of one sort key at a snapshot: the entries of its block or older.
LimitBlock(prefix, table, snapshot) ==
  IF table.is_delta THEN prefix \o BlockSuffix(snapshot) ELSE prefix

\* The part of a row that comes from the joined table.
Joined(q, value, snapshot) ==
  LET table  == TableNamed(config, q.table)
      jtable == TableNamed(config, q.join)
      jquery == JoinQuery(config, q)
      at     == RowPositions(value, table.fields)
      keys   == KeyFields(table, q.join_key_values)
      key    == IndexPrefix(jtable.short_name, q.join_query_short_name)
                  \o ExtractKeys(value, keys, at)
      found  == Within(LimitBlock(key, TableNamed(config, jquery.table), snapshot), key)
      jvalue == RowAt(FirstIn(found), jtable, IndexNamed(config, jquery.index))
  IN IF HavePositions(keys, at) /\ found # {}
       THEN AppendFields(jvalue, KeyFields(jtable, q.fields_from_join),
                         RowPositions(jvalue, jtable.fields))
       ELSE FillEmpty(jtable.fields)

\* query_database: the sort keys from first to last (for_each_subkey), for each
\* the newest row at the snapshot.  A sort key counts whether or not it has one.
QueryDatabase(q, range, snapshot, max_results) ==
  LET table  == TableNamed(config, q.table)
      x      == IndexNamed(config, q.index)
      types  == KeyFields(table, x.sort_keys)
      prefix(tuple) ==
        IndexPrefix(table.short_name, x.short_name)
          \o FlattenSeq([i \in DOMAIN types |-> ToKey(types[i].type, tuple[i])])
      lower  == prefix(range[1])
      upper  == prefix(range[2])
      size   == Len(lower)
      at     == IF q.has_block_snapshot THEN snapshot ELSE 0
      rowsOf(key) ==
        LET found == Within(LimitBlock(key, table, at), key)
            value == RowAt(FirstIn(found), table, x)
        IN IF found = {} THEN <<>>
           ELSE << value \o IF q.join = "" THEN <<>> ELSE Joined(q, value, at) >>
      keys   == {lower} \cup {IncKey(SubSeq(k, 1, size)) : k \in Within(lower, upper)}
      scan[from \in keys, n \in 1..Cardinality(index) + 1] ==
        LET found == Within(from, upper)
            key   == SubSeq(FirstIn(found), 1, size)
        IN IF found = {} THEN <<>>
           ELSE rowsOf(key) \o IF n < max_results THEN scan[IncKey(key), n + 1] ELSE <<>>
  IN scan[lower, 1]

------------------------------------------------------------------------------
\* Every row sent is in the database: two rows of a table and block with different
\* primary keys never share a database key (state_history_kv.hpp:228, "key_tag::table,
\* block_num, table_name, present_k, pk"), and taking blocks back takes no other row.
RowsKept ==
  /\ \A r \in rows : \E k \in DOMAIN content : content[k] = Value(r)
  /\ Cardinality(DOMAIN content) = Cardinality(rows)

\* check(): every index entry leads to a row.  And the other way: every row has
\* its entry in each index, or queries would not find it and trim not see it.
IndexMatchesRows ==
  /\ \A k \in DOMAIN content : EntriesOfRow(k) \subseteq index
  /\ \A e \in index : \E x \in ToSet(config.indexes) :
       LET t == TableNamed(config, x.table)
       IN /\ IsPrefix(IndexPrefix(t.short_name, x.short_name), e)
          /\ HavePositions(KeyFields(t, t.keys), IndexWalk(e, KeyFields(t, x.sort_keys)).at)
          /\ ExtractPkFromIndex(e, [keys |-> KeyFields(t, t.keys)], t.short_name,
                                KeyFields(t, x.sort_keys)) \in DOMAIN content

\* What a query means, in values and not in bytes.
Tuple(r, names) == [i \in DOMAIN names |-> r.vals[names[i]]]
Newest(rs) == CHOOSE r \in rs : \A s \in rs : s.vals["block_num"] <= r.vals["block_num"]
RowsWith(table, names, tuple, snapshot) ==
  {r \in rows : /\ r.table = table.name /\ Tuple(r, names) = tuple
                /\ table.is_delta => r.vals["block_num"] <= snapshot}

MeantJoin(q, r, snapshot) ==
  LET jtable == TableNamed(config, q.join)
      names  == IndexNamed(config, JoinQuery(config, q).index).sort_keys
      found  == RowsWith(jtable, names, Tuple(r, q.join_key_values), snapshot)
      fields == KeyFields(jtable, q.fields_from_join)
  IN FlattenSeq([i \in DOMAIN fields |->
       IF found = {} THEN EmptyField(fields[i])
       ELSE ToBin(fields[i].type, Newest(found).vals[fields[i].name])])

Meant(q, range, snapshot, max_results) ==
  LET table == TableNamed(config, q.table)
      names == IndexNamed(config, q.index).sort_keys
      all   == {t \in {Tuple(r, names) : r \in {s \in rows : s.table = q.table}} :
                  ~KeyLess(t, range[1]) /\ ~KeyLess(range[2], t)}
      page  == SetToSortSeq({t \in all : Cardinality({u \in all : KeyLess(u, t)}) < max_results},
                            KeyLess)
  IN FlattenSeq([i \in DOMAIN page |->
       LET found == RowsWith(table, names, page[i], snapshot)
       IN IF found = {} THEN <<>>
          ELSE << Value(Newest(found))
                    \o IF q.join = "" THEN <<>> ELSE MeantJoin(q, Newest(found), snapshot) >>])

\* query_database gives what the rows mean: the keys of the range in the order of
\* their values, the newest row at the snapshot for each, the newest row of the
\* joined table, zeros where there is none.  A reader takes a row's fields from
\* its front, so that what is after them does not matter: a join that finds
\* nothing appends zeros for all the joined table's fields and not only for those
\* the query asks for.
QueriesMeanRows ==
  \A i \in DOMAIN config.queries :
    LET q == config.queries[i]
    IN \A range \in Ranges[q.short_name], snapshot \in QuerySnapshots, max \in 1..2 :
         LET got   == QueryDatabase(q, range, snapshot, max)
             meant == Meant(q, range, snapshot, max)
         IN Len(got) = Len(meant) /\ \A j \in DOMAIN got : IsPrefix(meant[j], got[j])
==============================================================================
