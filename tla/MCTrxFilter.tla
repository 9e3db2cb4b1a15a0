----------------------------- MODULE MCTrxFilter -----------------------------
(***************************************************************************)
(* Rule lists of one to three rules and blocks of two transactions, with   *)
(* and without a failed inner trace and with traces that have no action.   *)
(***************************************************************************)
EXTENDS TrxFilter

AnyAction == [include |-> TRUE, status |-> Unset, receiver |-> Unset, act_account |-> Unset, act_name |-> Unset]
Spam == [AnyAction EXCEPT !.include = FALSE, !.act_account = "spam"]
Executed == [AnyAction EXCEPT !.status = "executed"]
SoftFail == [AnyAction EXCEPT !.status = "soft_fail"]
ToAlice == [AnyAction EXCEPT !.receiver = "alice"]
NotTransfer == [AnyAction EXCEPT !.include = FALSE, !.act_name = "transfer"]

MCRules == {<<>>} \cup [1..1 -> {Executed, ToAlice, Spam}]
             \cup [1..2 -> {Spam, Executed, SoftFail, ToAlice, NotTransfer, AnyAction}]
             \cup {<<Spam, NotTransfer, Executed>>, <<ToAlice, Spam, Executed>>}

A(r, a, n) == [receiver |-> r, account |-> a, name |-> n]
T(s, as) == [status |-> s, action_traces |-> as]

Actions == {<<A("alice", "token", "transfer")>>,
            <<A("bob", "spam", "post"), A("bob", "token", "transfer")>>}

\* What nodeos reports: an executed transaction; one that waits for its delay,
\* whose actions have not run; and the onerror transaction of a failed deferred
\* one, which carries the failed trace.
Transactions == {<<T("executed", as)>> : as \in Actions}
                  \cup {<<T("delayed", <<>>)>>}
                  \cup {<<T("soft_fail", as), T("hard_fail", bs)>> :
                          as \in Actions, bs \in Actions \cup {<<>>}}

MCBlocks == {<<x, y>> : x, y \in Transactions}
==============================================================================
