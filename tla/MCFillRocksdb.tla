---------------------------- MODULE MCFillRocksdb ----------------------------
(***************************************************************************)
(* An instance of fill-rocksdb for TLC: a branch a1..a4 with a second      *)
(* branch, b2, from a1; one simple and one delta table.                    *)
(***************************************************************************)
EXTENDS FillRocksdb

ForkBlock == {"a1", "a2", "a3", "a4", "b2"}

MCNum == [b \in Block |->
  CASE b = "a1" -> 1 [] b \in {"a2", "b2"} -> 2 [] b = "a3" -> 3 [] b = "a4" -> 4]

MCParent == [b \in Block |->
  CASE b = "a1" -> NoBlock [] b \in {"a2", "b2"} -> "a1" [] b = "a3" -> "a2" [] b = "a4" -> "a3"]

\* a1 and a3 write k1; a2 and b2 write k2.
MCContent == [b \in Block |->
  {<<"block_info", "k1">>} \cup
  CASE b \in {"a1", "a3"} -> {<<"contract_row", "k1">>}
    [] b \in {"a2", "b2"} -> {<<"contract_row", "k2">>}
    [] OTHER -> {}]

Genesis1 == {"a1"}
==============================================================================
