-------------------------------- MODULE WasmQl --------------------------------
(***************************************************************************)
(* A wasm-ql server thread answering a client's request from the database  *)
(* that fill-pg is writing to: wasm_ql::query with its retry_loop, over    *)
(* the postgresql query session.  Each of the session's calls is a         *)
(* transaction of its own and sees what the filler has committed by then.  *)
(*                                                                         *)
(* A request is a list of requests, one run of a server wasm for each; a   *)
(* run asks the database for the newest row of a key of a state table at   *)
(* or before a block.  Server threads share nothing the filler or another  *)
(* thread could change, so one thread stands for all of them.              *)
(***************************************************************************)
EXTENDS FillPgProperties

CONSTANTS
  HeaderTable,    \* block_info
  NumRequests,    \* requests in the list
  MaxCalls,       \* bound on query_database calls in one run
  MaxTries,       \* 4 in the code
  Snapshot        \* block numbers a wasm asks for, beyond the head as well

ASSUME WasmQlAssumption ==
  /\ HeaderTable \in SimpleTable
  /\ NumRequests \in Nat \ {0} /\ MaxCalls \in Nat \ {0} /\ MaxTries \in Nat \ {0}
  /\ Snapshot \subseteq Nat

VARIABLES
  phase,        \* where the thread is with the request: "idle", "open" or "running"
  num_tries,
  snap,         \* thread_state.fill_status, read once a try
  calls,        \* query_database calls the run at hand has made
  reply,        \* thread_state.reply: the run's head and what its calls returned
  result,       \* replies of the requests already done
  left          \* history variable: the try's head has been out of received_block

askVars == <<phase, num_tries, snap, calls, reply, result>>
allVars == <<vars, askVars, left>>

NoReply == [head_id |-> NoBlock, answers |-> {}]

ReadInit ==
  /\ Init
  /\ phase = "idle" /\ num_tries = 0 /\ snap = NoStatus /\ calls = 0
  /\ reply = NoReply /\ result = <<>> /\ left = FALSE

\* get_block_id: the header row of block n, if there is one.
HeaderAt(n) == {r.block : r \in {q \in rows : q.table = HeaderTable /\ Num[q.block] = n}}

\* did_fork, at the end of each run.
OnlyMissing == HeaderAt(N(snap.head_id)) = {}
DidForkNow == fill_status.head_id \notin HeaderAt(N(fill_status.head_id))
DidFork == snap.head_id \notin HeaderAt(N(snap.head_id))

------------------------------------------------------------------------------
\* query(): a request is taken.
Request ==
  /\ phase = "idle"
  /\ phase' = "open"
  /\ UNCHANGED <<num_tries, snap, calls, reply, result, left>>

\* The request is over, answered or not; its query session goes away.
Over ==
  /\ phase' = "idle" /\ num_tries' = 0 /\ snap' = NoStatus /\ calls' = 0
  /\ reply' = NoReply /\ result' = <<>> /\ left' = FALSE

\* The head of a try; what earlier tries had answered is dropped.
KeptResult == result
FreshResult == <<>>

\* One turn of retry_loop: a new query session, its fill_status, and the request
\* from the start.  No table and no block are errors.
OpenSession ==
  /\ phase = "open"
  /\ IF ~schema \/ fill_status.head_id = NoBlock
       THEN Over
       ELSE /\ phase' = "running" /\ snap' = fill_status /\ result' = FreshResult
            /\ reply' = [NoReply EXCEPT !.head_id = fill_status.head_id] /\ calls' = 0
            /\ left' = FALSE
            /\ UNCHANGED num_tries

\* The block a query is answered for: the one asked for, but not past the head
\* of the try's status.
Clamped(n) == Min({n, N(snap.head_id)})

\* query_database: the newest row of the key, in a transaction of its own.
AnswerTo(n, t, k) ==
  [n |-> Clamped(n), table |-> t, key |-> k, rows |-> Newest(rows, t, k, Clamped(n))]

QueryDatabase(n, t, k) ==
  /\ phase = "running" /\ calls < MaxCalls
  /\ schema
  /\ calls' = calls + 1
  /\ reply' = [reply EXCEPT !.answers = @ \cup {AnswerTo(n, t, k)}]
  /\ UNCHANGED <<phase, num_tries, snap, result, left>>

\* The wasm threw, or a statement did (the schema was dropped meanwhile).
RunThrows == phase = "running" /\ Over

\* The wasm is done and has set its output.  A run without a query is left out:
\* it has no answer.
Ran == phase = "running" /\ calls > 0 /\ schema

\* Tries are counted at forks only; the last one throws.
Tries == num_tries + 1

\* After the run did_fork finds the head gone: start over from a new session.
ForkFound ==
  /\ Ran
  /\ DidFork
  /\ IF Tries >= MaxTries
       THEN Over
       ELSE /\ phase' = "open" /\ num_tries' = Tries /\ snap' = NoStatus /\ left' = FALSE
            /\ calls' = 0 /\ reply' = NoReply /\ UNCHANGED result

\* Or it does not: take the run's reply and go on to the next request,
NextRequest ==
  /\ Ran
  /\ ~DidFork
  /\ Len(result) + 1 < NumRequests
  /\ result' = Append(result, reply)
  /\ calls' = 0 /\ reply' = [NoReply EXCEPT !.head_id = snap.head_id]
  /\ UNCHANGED <<phase, num_tries, snap, left>>

\* or, after the last one, send the response.
Response == Append(result, reply)
Respond ==
  /\ Ran
  /\ ~DidFork
  /\ Len(result) + 1 >= NumRequests
  /\ Over

AskStep ==
  \/ OpenSession \/ RunThrows \/ ForkFound \/ NextRequest \/ Respond
  \/ \E n \in Snapshot, t \in Table \ SimpleTable, k \in Key : QueryDatabase(n, t, k)

Watch == left' = (left \/ (snap.head_id # NoBlock /\ snap.head_id \notin received_block'))

ReadNext == \/ Next /\ Watch /\ UNCHANGED askVars
            \/ (Request \/ AskStep) /\ UNCHANGED vars

ReadSpec == ReadInit /\ [][ReadNext]_allVars

------------------------------------------------------------------------------
Answers == UNION {Response[i].answers : i \in DOMAIN Response}

\* The answer a complete history of the branch of the status's head gives.
Truth(a) == Newest(UNION {RowsOf(b) : b \in Branch[snap.head_id]}, a.table, a.key, a.n)
Exact(a) == a.rows = Truth(a)

\* The head left the database during the try and is back.
CameBack == left /\ snap.head_id \in HeaderAt(N(snap.head_id))

\* did_fork (wasm_ql.cpp:94) looks at the head alone, after the run: unless the
\* head left and came back within the try, no answer sent holds a row of another
\* branch, however runs, fork switches and crashes of the filler interleave.
NoForeignRows ==
  [][Respond =>
       CameBack \/ \A a \in Answers : \A r \in a.rows : r.block \in Branch[snap.head_id]]_allVars

\* No row of the branch up to block n is missing, unless a newer one that trimming kept
\* makes up for it.
Filled(n) ==
  \A b \in Branch[snap.head_id] : Num[b] <= n =>
    \A r \in RowsOf(b) : r.table \notin SimpleTable => r \in rows \/ Replaced(r)

\* What database.hpp:601 says of snapshot_block, "Look at this point of time in
\* history": below the head, and unless rows there were lost by a crash or never
\* asked for, an answer is the one a complete history gives, whatever the filler commits
\* while the request is being answered.  (The head itself may be answered from part of
\* its rows.)
SettledExact ==
  [][Respond =>
       CameBack \/ \A a \in Answers :
         a.n \in Lowest..(N(snap.head_id) - 1) /\ Filled(a.n) => Exact(a)]_allVars

\* A response has one reply for each request of the list, and all of them come
\* from one try, although earlier tries may have got half way.
OneSnapshot ==
  [][Respond => /\ Len(Response) = NumRequests
                /\ \A i \in DOMAIN Response : Response[i].head_id = snap.head_id]_allVars

------------------------------------------------------------------------------
(* What the thread keeps true, so that the properties above hold.          *)

Answer == [n : Nat, table : Table \ SimpleTable, key : Key, rows : SUBSET Row]
Reply == [head_id : MaybeBlock, answers : SUBSET Answer]

AskTypeOK ==
  /\ phase \in {"idle", "open", "running"}
  /\ snap \in FillStatus /\ reply \in Reply /\ result \in Seq(Reply)
  /\ left \in BOOLEAN

\* What a try has so far is all of its own status.
ReplyInv ==
  phase = "running" =>
    /\ snap.head_id # NoBlock /\ reply.head_id = snap.head_id
    /\ Len(result) < NumRequests
    /\ \A i \in DOMAIN result : result[i].head_id = snap.head_id

\* A head that has stayed is still covered, by the status at hand, and nothing answered
\* so far is of another branch.
BranchKept ==
  phase = "running" /\ ~left =>
    /\ snap.head_id \in Covered
    /\ \A a \in Answers : \A r \in a.rows : r.block \in Branch[snap.head_id]

ReadInv == Inv /\ AskTypeOK /\ ReplyInv /\ BranchKept

\* Below the head an answer is the branch's, or there is a row it should have and has not,
\* which no step commits any more.
AnswersSettled ==
  phase = "running" /\ ~left =>
    \A a \in Answers : a.n < N(snap.head_id) => Exact(a) \/ \E r \in Truth(a) : r \notin rows

SettledInv == ContentInv /\ AnswersSettled
==============================================================================
