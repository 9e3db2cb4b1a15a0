------------------------------ MODULE HistoryDb ------------------------------
(***************************************************************************)
(* What a filler promises the readers of its database, whatever happens to *)
(* the filler: at every moment the database names one unbroken stretch of  *)
(* one branch.  It grows and switches branches above its irreversible      *)
(* block in single steps, and only its oldest, irreversible part is ever   *)
(* trimmed away.                                                           *)
(***************************************************************************)
EXTENDS BlockTree

VARIABLES
  exists,     \* there is a database
  history,    \* the blocks it answers for
  final       \* number of the newest of them that is irreversible

dbvars == <<exists, history, final>>

UpTo(S, n) == {b \in S : Num[b] <= n}

Init == exists = FALSE /\ history = {} /\ final = 0

Create == ~exists /\ exists' = TRUE /\ UNCHANGED <<history, final>>

\* Newer blocks, on the same branch or on one that leaves it above the
\* irreversible block, and a newer irreversible block among them.
Advance(h, f) ==
  /\ exists
  /\ IsStretch(h)
  /\ UpTo(h, final) = UpTo(history, final)
  /\ final <= f /\ \E b \in h : f <= Num[b]
  /\ history' = h /\ final' = f /\ UNCHANGED exists

\* The blocks below n, irreversible ones, are trimmed away.
Forget(n) ==
  /\ exists
  /\ history' = {b \in history : Num[b] >= n}
  /\ UNCHANGED <<exists, final>>

\* The operator wipes the database to start over.
Drop == exists' = FALSE /\ history' = {} /\ final' = 0

Next == \/ Create
        \/ Advance(history', final')
        \/ \E n \in 0..final : Forget(n)
        \/ Drop

Spec == Init /\ [][Next]_dbvars
==============================================================================
