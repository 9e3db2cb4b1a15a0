------------------------------- MODULE KeyValue -------------------------------
(***************************************************************************)
(* How fill-rocksdb and wasm-ql's rocksdb session write rows and keys as   *)
(* bytes (state_history_kv.hpp).  A table is an ordered map: a row's key   *)
(* has its block, table and primary key, an index entry's key has the sort *)
(* keys and then the block, complemented, so that newer rows come first.   *)
(*                                                                         *)
(* A byte has ByteValues values here and the integer types few bytes; the  *)
(* order of the bytes and of the parts of a key is the code's.             *)
(***************************************************************************)
EXTENDS Integers, Sequences, FiniteSetsExt, SequencesExt

CONSTANT ByteValues     \* 256 in the code

ASSUME KeyValueAssumption == ByteValues \in Nat /\ ByteValues > 2 /\ ByteValues % 2 = 0

\* Bytes of the types whose values all have the same size.
Width == [bool |-> 1, uint8 |-> 1, uint32 |-> 2, name |-> 4, checksum256 |-> 2]
Sized(type) == type \in DOMAIN Width
MaxOf(type) == ByteValues ^ Width[type] - 1

\* fixup_key: the types that can be part of a key; varuint32 is one as a uint32.
KeyType(type) == IF type = "varuint32" THEN "uint32" ELSE type
IsKeyType(type) == Sized(KeyType(type))

------------------------------------------------------------------------------
(* Values as bytes *)

Little(n, w) == [i \in 1..w |-> (n \div ByteValues ^ (i - 1)) % ByteValues]
Number(bytes) ==
  LET upto[i \in 0..Len(bytes)] ==
        IF i = 0 THEN 0 ELSE upto[i - 1] + bytes[i] * ByteValues ^ (i - 1)
  IN upto[Len(bytes)]

\* varuint32: the upper half of a byte's values say that another byte follows.
Half == ByteValues \div 2
Varuint(n) == IF n < Half THEN <<n>> ELSE <<Half + (n % Half), n \div Half>>

\* native_to_bin
ToBin(type, v) ==
  CASE type = "varuint32" -> Varuint(v)
    [] type = "bytes" -> Varuint(Len(v)) \o v
    [] OTHER -> Little(v, Width[type])

\* native_to_key, query_to_key: the bytes reversed, for the order of bytes to be
\* the order of values.
ToKey(type, v) == Reverse(Little(v, Width[KeyType(type)]))

\* skip_bin, skip_key: where what follows the value at pos begins; Unknown for a
\* type that cannot be skipped.  A position is a number of bytes from the start.
Unknown == -1
SkipBin(type, bin, pos) ==
  CASE type = "varuint32" -> pos + (IF bin[pos + 1] < Half THEN 1 ELSE 2)
    [] Sized(type) -> pos + Width[type]
    [] OTHER -> Unknown
SkipKey(type, bin, pos) == IF IsKeyType(type) THEN pos + Width[KeyType(type)] ELSE Unknown

Bytes(bin, pos, n) == SubSeq(bin, pos + 1, pos + n)

\* bin_to_key: the value at pos of a row, as part of a key.
BinToKey(type, bin, pos) ==
  LET size == SkipBin(type, bin, pos) - pos
      v    == Bytes(bin, pos, size)
  IN ToKey(type, IF type # "varuint32" THEN Number(v)
                 ELSE IF size = 1 THEN v[1] ELSE v[1] - Half + Half * v[2])

\* key_to_key: a part of a key, as part of another key.
KeyToKey(type, bin, pos) == Bytes(bin, pos, Width[KeyType(type)])

\* key_to_native
FromKey(type, bin, pos) == Number(Reverse(Bytes(bin, pos, Width[type])))

\* memcmp over the size of the shorter one, and the order of an iterator.
SamePrefix(a, b) == \A i \in 1..Min({Len(a), Len(b)}) : a[i] = b[i]
MemLess(a, b) ==
  \E i \in 1..Min({Len(a), Len(b)}) : a[i] < b[i] /\ \A j \in 1..(i - 1) : a[j] = b[j]
KeyLess(a, b) == MemLess(a, b) \/ (SamePrefix(a, b) /\ Len(a) < Len(b))

\* inc_key: the next key of the same size; it carries, and wraps.
IncLastByte(key) == [key EXCEPT ![Len(key)] = (@ + 1) % ByteValues]
IncKey(key) ==
  LET carries(i) == \A j \in (i + 1)..Len(key) : key[j] = ByteValues - 1
  IN [i \in DOMAIN key |-> IF carries(i) THEN (key[i] + 1) % ByteValues ELSE key[i]]

------------------------------------------------------------------------------
(* Keys *)

\* The tags of a key, in their order: key_tag.
TableTag == 1
IndexTag == 2

FlagKey(flag) == ToKey("bool", IF flag THEN 1 ELSE 0)
TablesFrom(block) == <<TableTag>> \o ToKey("uint32", block)
TablePrefix(block, present, table) ==
  TablesFrom(block) \o ToKey("name", table) \o FlagKey(present)
IndexPrefix(table, index) == <<IndexTag>> \o ToKey("name", table) \o ToKey("name", index)
BlockSuffix(block) == ToKey("uint32", MaxOf("uint32") - block)
IndexSuffix(block, present) == BlockSuffix(block) \o FlagKey(~present)

\* read_table_prefix, read_index_suffix: the block and whether the row is present.
TableOf(key) == FromKey("name", key, 1 + Width["uint32"])
BlockOf(key) == FromKey("uint32", key, 1)
PresentOf(key) == FromKey("bool", key, 1 + Width["uint32"] + Width["name"]) = 1
SuffixOf(entry, pos) ==
  [block |-> MaxOf("uint32") - FromKey("uint32", entry, pos),
   present |-> FromKey("bool", entry, pos + Width["uint32"]) = 0]

------------------------------------------------------------------------------
(* The positions of fields *)

\* A field: [name, type, begin_optional, end_optional].  Those from one with
\* begin_optional, a bool, to one with end_optional are there if it is set.
\*
\* fill_positions_impl: the walk over bin from pos on.  It goes on while it knows
\* where the next field begins; `at` has the fields whose place is known.
Walk(bin, pos, fields, skip(_, _, _)) ==
  LET step[i \in 0..Len(fields)] ==
        IF i = 0 THEN [at |-> <<>>, pos |-> pos, present |-> TRUE]
        ELSE LET s == step[i - 1]
                 f == fields[i]
                 next == IF f.begin_optional THEN s.pos + 1
                         ELSE IF s.present THEN skip(f.type, bin, s.pos) ELSE s.pos
             IN IF s.pos = Unknown THEN s
                ELSE [at |-> IF s.present THEN (f.name :> s.pos) @@ s.at ELSE s.at,
                      pos |-> next,
                      present |-> IF f.begin_optional THEN bin[s.pos + 1] = 1
                                  ELSE s.present \/ f.end_optional]
  IN step[Len(fields)]

\* fill_positions, of a row
RowPositions(value, fields) == Walk(value, 0, fields, SkipBin).at

\* fill_positions_from_index: positions count from the start of the entry.
IndexWalk(entry, keys) == Walk(entry, Len(IndexPrefix(0, 0)), keys, SkipKey)

\* keys_have_positions; without them extract_keys and extract_pk throw.
HavePositions(keys, at) == \A i \in DOMAIN keys : keys[i].name \in DOMAIN at

\* extract_keys
ExtractKeys(value, keys, at) ==
  FlattenSeq([i \in DOMAIN keys |-> BinToKey(keys[i].type, value, at[keys[i].name])])

\* extract_pk_from_index: the key of the row that an index entry stands for.
ExtractPkFromIndex(entry, table, short_name, sort_keys) ==
  LET walk == IndexWalk(entry, sort_keys)
      s    == SuffixOf(entry, walk.pos)
  IN TablePrefix(s.block, s.present, short_name)
       \o FlattenSeq([i \in DOMAIN table.keys |->
            KeyToKey(table.keys[i].type, entry, walk.at[table.keys[i].name])])
==============================================================================
