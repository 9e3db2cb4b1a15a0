------------------------------- MODULE MCFillPg -------------------------------
(***************************************************************************)
(* Instances of fill-pg for TLC: a branch a1..a5, or a1..a3 with a second  *)
(* branch b3, b4 from a2; one simple and one keyed table.                  *)
(***************************************************************************)
EXTENDS FillPgProperties

LineBlock == {"a1", "a2", "a3", "a4", "a5"}
ForkBlock == {"a1", "a2", "a3", "b3", "b4"}

MCNum == [b \in Block |->
  CASE b = "a1" -> 1 [] b = "a2" -> 2 [] b \in {"a3", "b3"} -> 3
    [] b \in {"a4", "b4"} -> 4 [] b = "a5" -> 5]

MCParent == [b \in Block |->
  CASE b = "a1" -> NoBlock [] b = "a2" -> "a1" [] b \in {"a3", "b3"} -> "a2"
    [] b = "a4" -> "a3" [] b = "b4" -> "b3" [] b = "a5" -> "a4"]

\* a1, a3 and b4 write k1; a2, b3 and a5 write k2; a4 has no deltas.
MCContent == [b \in Block |->
  {<<"block_info", "header">>} \cup
  CASE b \in {"a1", "a3", "b4"} -> {<<"contract_row", "k1">>}
    [] b \in {"a2", "b3", "a5"} -> {<<"contract_row", "k2">>}
    [] OTHER -> {}]

MCRank == [t \in Table |-> IF t = "block_info" THEN 1 ELSE 2]

Genesis1 == {"a1"}
PlainStart == {{}, {"create"}}
ResetStart == {{}, {"create"}, {"drop", "create"}}
==============================================================================
