------------------------------ MODULE TrxFilter ------------------------------
(***************************************************************************)
(* Which transaction traces of a block fill-pg writes: the --fill-trx      *)
(* rules, and receive_traces, which walks a block's traces and gives those *)
(* it writes their ordinals.  A trace may carry the trace of a deferred    *)
(* transaction that failed; a transaction is here the sequence of traces   *)
(* nested that way, the outermost first.                                   *)
(***************************************************************************)
EXTENDS Naturals, Sequences, FiniteSets, SequencesExt

CONSTANTS
  Status,     \* transaction_status values
  Name,       \* account and action names
  Unset,      \* an optional field of a rule that is not set
  Rules,      \* the --fill-trx lists to consider, <<>> when the option is absent
  Blocks      \* the blocks to consider: sequences of transactions

Action == [receiver : Name, account : Name, name : Name]
Rule == [include : BOOLEAN, status : Status \cup {Unset}, receiver : Name \cup {Unset},
         act_account : Name \cup {Unset}, act_name : Name \cup {Unset}]
Trace == [status : Status, action_traces : Seq(Action)]

ASSUME FilterAssumption ==
  /\ Unset \notin Status \cup Name
  /\ Rules \subseteq Seq(Rule)
  /\ Blocks \subseteq Seq(Seq(Trace) \ {<<>>})

\* get_trx_filters: without --fill-trx there is one rule, which includes all.
DefaultRule == [include |-> TRUE, status |-> Unset, receiver |-> Unset,
                act_account |-> Unset, act_name |-> Unset]
Filters(given) == IF given = <<>> THEN <<DefaultRule>> ELSE given

\* matches: every field that is set has the action's value.
Allows(field, value) == field \in {Unset, value}

Matches(r, status, a) ==
  /\ Allows(r.status, status)
  /\ Allows(r.receiver, a.receiver)
  /\ Allows(r.act_account, a.account)
  /\ Allows(r.act_name, a.name)

\* filter, for an action: the loop over the rules stops at the first that matches.
FilterActionLast(filters, status, a) ==
  LET passes[i \in 0..Len(filters)] ==
        i # 0 /\ IF Matches(filters[i], status, a) THEN filters[i].include ELSE passes[i - 1]
  IN passes[Len(filters)]
FilterAction(filters, status, a) ==
  LET passes[i \in 1..Len(filters) + 1] ==
        i <= Len(filters) /\ IF Matches(filters[i], status, a) THEN filters[i].include
                                                           ELSE passes[i + 1]
  IN passes[1]

\* filter, for a trace: some action passes.
FilterTrace(filters, t) ==
  \E i \in DOMAIN t.action_traces : FilterAction(filters, t.status, t.action_traces[i])

\* write_transaction_trace: the nesting levels of trx it writes, in order.  The
\* failed inner trace is written before the outer one, and when it does not pass
\* the filter the outer one is not written either.
LevelsOuterFirst(filters, trx) ==
  LET from[k \in 1..Len(trx)] ==
        IF k = Len(trx) THEN <<k>>
        ELSE IF FilterTrace(filters, trx[k + 1]) THEN <<k>> \o from[k + 1] ELSE <<>>
  IN from[1]
LevelsUnfiltered(filters, trx) == [k \in 1..Len(trx) |-> Len(trx) + 1 - k]
Levels(filters, trx) ==
  LET from[k \in 1..Len(trx)] ==
        IF k = Len(trx) THEN <<k>>
        ELSE IF FilterTrace(filters, trx[k + 1]) THEN from[k + 1] \o <<k>> ELSE <<>>
  IN from[1]

VARIABLES
  rules,         \* config->trx_filters
  block,         \* the block's transactions
  nread,         \* how many of them receive_traces has read
  num_ordinals,
  written        \* rows of transaction_trace: ordinal, transaction, level

vars == <<rules, block, nread, num_ordinals, written>>

Init ==
  /\ rules \in {Filters(given) : given \in Rules}
  /\ block \in Blocks
  /\ nread = 0 /\ num_ordinals = 0 /\ written = <<>>

\* The rows one transaction adds: ++num_ordinals for each trace written.
RowsFrom(n, j, levels) ==
  [k \in DOMAIN levels |-> [ordinal |-> n + k, trx |-> j, level |-> levels[k]]]

\* One turn of receive_traces' loop.
ReceiveTrace ==
  LET trx    == block[nread + 1]
      levels == IF FilterTrace(rules, trx[1]) THEN Levels(rules, trx) ELSE <<>>
  IN /\ nread < Len(block)
     /\ written' = written \o RowsFrom(num_ordinals, nread + 1, levels)
     /\ num_ordinals' = num_ordinals + Len(levels)
     /\ nread' = nread + 1
     /\ UNCHANGED <<rules, block>>

Next == ReceiveTrace

Spec == Init /\ [][Next]_vars

------------------------------------------------------------------------------
IsWritten(j, k) == \E r \in ToSet(written) : r.trx = j /\ r.level = k

\* doc/database-fillers.md: a rule list is read in order, the first rule that
\* matches an action decides, an action no rule matches does not pass.  This is
\* that text, not the code's loop.
Passes(status, a) ==
  \E m \in DOMAIN rules :
    /\ rules[m].include
    /\ Matches(rules[m], status, a)
    /\ \A e \in 1..m - 1 : ~Matches(rules[e], status, a)
SomeActionPasses(t) == \E k \in DOMAIN t.action_traces : Passes(t.status, t.action_traces[k])

\* Nothing is written that the rules keep out: of every written trace, inner or
\* outer, some action passes, with that trace's own status.
OnlyPassingWritten ==
  \A r \in ToSet(written) : SomeActionPasses(block[r.trx][r.level])

\* A transaction that carries no failed trace is written exactly when the rules
\* let one of its actions pass.
PlainTransactionsFiltered ==
  \A j \in 1..nread : Len(block[j]) = 1 => (IsWritten(j, 1) <=> SomeActionPasses(block[j][1]))

\* The primary key (block_num, transaction_ordinal) is never used twice in a
\* block, and a failed trace comes right before the one that carries it.
OrdinalsFollowNesting ==
  /\ \A k \in DOMAIN written : written[k].ordinal = k
  /\ \A k, m \in DOMAIN written :
       written[k].trx = written[m].trx /\ written[k].level = written[m].level + 1 => m = k + 1
==============================================================================
