------------------------------- MODULE MCWasmQl -------------------------------
(***************************************************************************)
(* An instance of fill-pg with a wasm-ql reader for TLC: a1 with the       *)
(* branches a2 and b2, b3 on it.                                           *)
(***************************************************************************)
EXTENDS WasmQl

ForkBlock == {"a1", "a2", "b2", "b3"}

MCNum == [b \in Block |->
  CASE b = "a1" -> 1 [] b \in {"a2", "b2"} -> 2 [] b = "b3" -> 3]

MCParent == [b \in Block |->
  CASE b = "a1" -> NoBlock [] b \in {"a2", "b2"} -> "a1" [] b = "b3" -> "b2"]

\* Every block has a header; a1 and b2 write k.
MCContent == [b \in Block |->
  {<<"block_info", "k">>} \cup IF b \in {"a1", "b2"} THEN {<<"contract_row", "k">>} ELSE {}]

MCRank == [t \in Table |-> IF t = "block_info" THEN 1 ELSE 2]

Genesis1 == {"a1"}
PlainStart == {{"create"}, {}}
==============================================================================
