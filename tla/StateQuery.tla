------------------------------ MODULE StateQuery ------------------------------
(***************************************************************************)
(* query_database over a range of keys: the functions create-init-sql.js   *)
(* generates for postgresql, and the loop of the rocksdb query session.    *)
(*                                                                         *)
(* A key is the tuple of an index's sort keys, here its place in their     *)
(* order; MaxKey has every bit set.  A table holds, for a key and a block, *)
(* a row, an erased row (present = false) or nothing; a table that is not  *)
(* delta (action traces) has one row for a key, whose block is part of it. *)
(* Joins are left out.                                                     *)
(***************************************************************************)
EXTENDS Naturals, Sequences, FiniteSetsExt

CONSTANTS
  MaxKey,
  MaxBlock,
  QueryMax      \* max_results of the query in query-config.json

ASSUME QueryAssumption == MaxKey \in Nat /\ MaxBlock \in Nat /\ QueryMax \in Nat \ {0}

Keys == 0..MaxKey
BlockNums == 1..MaxBlock
Table == [Keys -> [BlockNums -> {"none", "row", "erased"}]]

BlocksOf(table, k) == {b \in BlockNums : table[k][b] # "none"}
KeysOf(table) == {k \in Keys : BlocksOf(table, k) # {}}

Row(k, b, present) == [key |-> k, block_num |-> b, present |-> present]

\* The rows of key k a query shows: its newest one at or before block n, and for
\* postgresql an empty one when there is none (block_num 0, not present).
NewestAt(table, k, n) == Max({b \in BlocksOf(table, k) : b <= n})
RowsAt(table, k, n) ==
  IF \A b \in BlocksOf(table, k) : b > n THEN <<>>
  ELSE LET b == NewestAt(table, k, n) IN << Row(k, b, table[k][b] = "row") >>
PgRowsAt(table, k, n) ==
  IF RowsAt(table, k, n) = <<>> THEN << Row(k, 0, FALSE) >> ELSE RowsAt(table, k, n)

\* One pass over the keys from lo on, up to last: `left` more keys are looked at, and
\* rows[k] are those that key k adds.
Scan(keys, last, rows, count) ==
  LET scan[left \in 0..count] ==
        [lo \in 0..(MaxKey + 1) |->
          IF left = 0 \/ \A k \in keys : k < lo \/ k > last THEN <<>>
          ELSE LET k == Min({j \in keys : j >= lo})
               IN rows[k] \o scan[left - 1][k + 1]]
  IN scan

\* The sql functions: generate_state for a delta table, generate_nonstate for one
\* of traces, which looks at the rows up to the snapshot only.
PgMax(ask) == Min({ask.max_results, QueryMax})
PgState(table, ask) ==
  Scan(KeysOf(table), ask.last, [k \in Keys |-> PgRowsAt(table, k, ask.snapshot)], PgMax(ask))
    [PgMax(ask)][ask.first]
PgTraces(table, ask) ==
  LET shown == {k \in Keys : RowsAt(table, k, ask.snapshot) # <<>>}
  IN Scan(shown, ask.last, [k \in Keys |-> RowsAt(table, k, ask.snapshot)], PgMax(ask))
       [PgMax(ask)][ask.first]

\* The rocksdb session counts a key after it, so looks at one at least; keys
\* without a row at the snapshot add nothing and count.  For a table that is not
\* delta the index key has no block after it and the snapshot is not looked at.
RdbMax(ask) == Max({1, PgMax(ask)})
RdbState(table, ask) ==
  Scan(KeysOf(table), ask.last, [k \in Keys |-> RowsAt(table, k, ask.snapshot)], RdbMax(ask))
    [RdbMax(ask)][ask.first]
RdbTraces(table, ask) ==
  Scan(KeysOf(table), ask.last, [k \in Keys |-> RowsAt(table, k, MaxBlock)], RdbMax(ask))
    [RdbMax(ask)][ask.first]
==============================================================================
