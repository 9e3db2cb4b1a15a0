----------------------------- MODULE AnswerProofs -----------------------------
(***************************************************************************)
(* What readers are answered: by wasm-ql, which reads in transactions of   *)
(* its own while fill-pg commits, and by the database as it stands.        *)
(***************************************************************************)
EXTENDS WasmQl, FillPgBranchProofs

------------------------------------------------------------------------------
(* The thread's own state *)

LEMMA ClampedBelow ==
  ASSUME NEW n \in Nat, snap \in FillStatus
  PROVE  Clamped(n) \in Nat /\ Clamped(n) <= n /\ Clamped(n) <= N(snap.head_id)
<1>1. N(snap.head_id) \in Nat
  BY NIsNat DEF FillStatus
<1> QED
  BY <1>1, MinInSet DEF Clamped

\* What a query finds is committed, and not past the block asked for.
LEMMA NewestFound ==
  ASSUME NEW rs, NEW t, NEW k, NEW n
  PROVE  \A r \in Newest(rs, t, k, n) : r \in rs /\ r.table = t /\ r.key = k /\ Num[r.block] <= n
BY DEF Newest

LEMMA AskTypes ==
  ASSUME TypeOK, AskTypeOK, Request \/ AskStep
  PROVE  AskTypeOK'
<1>1. NoReply \in Reply /\ NoStatus \in FillStatus
  BY DEF NoReply, Reply, NoStatus, FillStatus, MaybeBlock
<1>2. <<>> \in Seq(Reply)
  OBVIOUS
<1>3. CASE Request
  BY <1>3 DEF Request, AskTypeOK
<1>4. CASE OpenSession
  <2>1. [NoReply EXCEPT !.head_id = fill_status.head_id] \in Reply
    BY DEF TypeOK, FillStatus, NoReply, Reply
  <2> QED
    BY <1>1, <1>2, <1>4, <2>1 DEF OpenSession, Over, FreshResult, AskTypeOK, TypeOK
<1>5. CASE RunThrows \/ Respond
  BY <1>1, <1>2, <1>5 DEF RunThrows, Respond, Over, AskTypeOK
<1>6. CASE ForkFound
  BY <1>1, <1>2, <1>6 DEF ForkFound, Over, AskTypeOK
<1>7. CASE NextRequest
  <2>1. [NoReply EXCEPT !.head_id = snap.head_id] \in Reply
    BY DEF AskTypeOK, FillStatus, NoReply, Reply
  <2>2. Append(result, reply) \in Seq(Reply)
    BY DEF AskTypeOK
  <2> QED
    BY <1>7, <2>1, <2>2 DEF NextRequest, AskTypeOK
<1>8. CASE \E n \in Snapshot, t \in Table \ SimpleTable, k \in Key : QueryDatabase(n, t, k)
  <2>1. PICK n \in Snapshot, t \in Table \ SimpleTable, k \in Key : QueryDatabase(n, t, k)
    BY <1>8
  <2> DEFINE a == AnswerTo(n, t, k)
  <2>2. a \in Answer
    <3>1. n \in Nat /\ Clamped(n) \in Nat
      BY ClampedBelow, WasmQlAssumption DEF AskTypeOK
    <3>2. Newest(rows, t, k, Clamped(n)) \in SUBSET Row
      BY NewestFound DEF TypeOK
    <3> QED
      BY <3>1, <3>2 DEF Answer, AnswerTo
  <2>3. reply' = [reply EXCEPT !.answers = @ \cup {a}] /\ UNCHANGED <<phase, snap, result, left>>
    BY <2>1 DEF QueryDatabase
  <2> HIDE DEF a
  <2>4. reply' \in Reply
    BY <2>2, <2>3 DEF AskTypeOK, Reply
  <2> QED
    BY <2>3, <2>4 DEF AskTypeOK
<1> QED
  BY <1>3, <1>4, <1>5, <1>6, <1>7, <1>8 DEF AskStep

LEMMA ReplyStep ==
  ASSUME AskTypeOK, ReplyInv, Request \/ AskStep
  PROVE  ReplyInv'
<1>1. CASE Request \/ RunThrows \/ ForkFound \/ Respond
  BY <1>1 DEF Request, RunThrows, ForkFound, Respond, Over, ReplyInv
<1>2. CASE OpenSession
  BY <1>2, WasmQlAssumption DEF OpenSession, Over, FreshResult, NoReply, ReplyInv
<1>3. CASE NextRequest
  <2>1. /\ phase = "running" /\ Len(result) + 1 < NumRequests
        /\ result' = Append(result, reply) /\ result \in Seq(Reply) /\ reply \in Reply
        /\ reply'.head_id = snap.head_id /\ UNCHANGED <<phase, snap>>
    BY <1>3 DEF NextRequest, Ran, AskTypeOK, NoReply
  <2>2. Len(result') = Len(result) + 1
    BY <2>1
  <2>3. \A i \in DOMAIN result' : result'[i] = IF i = Len(result) + 1 THEN reply ELSE result[i]
    BY <2>1
  <2>4. \A i \in DOMAIN result' : i # Len(result) + 1 => i \in DOMAIN result
    BY <2>1
  <2> QED
    BY <2>1, <2>2, <2>3, <2>4, WasmQlAssumption DEF ReplyInv
<1>4. CASE \E n \in Snapshot, t \in Table \ SimpleTable, k \in Key : QueryDatabase(n, t, k)
  <2>1. /\ UNCHANGED <<phase, snap, result>>
        /\ reply'.head_id = reply.head_id
    BY <1>4 DEF QueryDatabase, AskTypeOK, Reply
  <2> QED
    BY <2>1 DEF ReplyInv
<1> QED
  BY <1>1, <1>2, <1>3, <1>4 DEF AskStep

------------------------------------------------------------------------------
(* The branch of the answers *)

\* A step that writes the head of the status leaves no received block above it.
LEMMA HeadIsNewest ==
  ASSUME IInv, Next, NEW b \in received_block', N(b) <= N(fill_status.head_id)
  PROVE  N(b) <= N(fill_status'.head_id)
<1>1. CASE fill_status'.head_id = fill_status.head_id
  BY <1>1
<1>2. CASE fill_status'.head_id # fill_status.head_id
  <2>1. CASE \E opts \in StartOptions : OperatorStart(opts)
    BY <1>2, <2>1 DEF OperatorStart, StartSession, dbVars
  <2>2. CASE Retry
    BY <1>2, <2>2 DEF Retry, StartSession, dbVars
  <2>3. CASE CloseStreams
    <3>1. /\ fill_status'.head_id = head_id /\ received_block' = received_block
          /\ session = "streaming" /\ ~Applied
      BY <2>3 DEF CloseStreams, StatusToWrite, IInv, StepInv, Applied
    <3>2. After = received_block
      BY <3>1 DEF After
    <3>3. Num[b] <= head /\ N(b) = Num[b]
      BY <3>1, <3>2, Facts
    <3> QED
      BY <3>1, <3>3 DEF head
  <2>4. CASE CommitBlock
    <3>1. /\ fill_status'.head_id = head_id /\ received_block' = Received
          /\ session = "streaming" /\ Applied
      BY <1>2, <2>4 DEF CommitBlock, StatusCommitted, StatusToWrite, IInv, StepInv, Applied
    <3>2. After = Received
      BY <3>1 DEF After
    <3>3. Num[b] <= head
      BY <3>1, <3>2, Facts
    <3>4. b # NoBlock
      BY <3>1, <3>2, TreeAssumption
         DEF IInv, TypeOK, Received, TruncatedReceived, Below, StepInv, Applied
    <3> QED
      BY <3>1, <3>3, <3>4 DEF head, N
  <2>5. CASE ~(CloseStreams \/ CommitBlock \/ Retry \/ \E opts \in StartOptions : OperatorStart(opts))
    <3>1. UNCHANGED fill_status
      BY <2>5 DEF Next, NodeosStep, FillerStep, ProcessBlock, Fault, SkipResult, StopAtBlock,
         BeginBlock, FlushStream, Trim, ApplyBlockRows, PrevMismatch, ReceivedAbi,
         ReceivedStatus, ConnectionLost, Die, dbVars
    <3> QED
      BY <1>2, <3>1
  <2> QED
    BY <2>1, <2>2, <2>3, <2>4, <2>5
<1> QED
  BY <1>1, <1>2

\* A row up to a head that the status covers is of the head's branch: a received block's,
\* one that trimming kept, and none that a crash left.
LEMMA RowOnBranch ==
  ASSUME IInv, RowInv, KeptInv, NEW h \in Covered, NEW r \in rows, Num[r.block] <= N(h)
  PROVE  r.block \in Branch[h]
<1>1. /\ h \in received_block /\ h \in Block /\ N(h) = Num[h] /\ Num[h] \in Nat
      /\ Num[r.block] \in Nat /\ N(fill_status.head_id) \in Nat
      /\ Num[h] <= N(fill_status.head_id)
  BY Facts DEF Covered, Below, Row
<1>2. ~(N(fill_status.head_id) < Num[r.block])
  BY <1>1
<1>3. CASE r.block \in received_block
  BY <1>1, <1>3, Facts, StretchOnBranch DEF IInv, HistoryInv
<1>4. CASE \A b \in received_block : Num[r.block] < Num[b]
  BY <1>1, <1>4 DEF KeptInv, Old
<1> QED
  BY <1>2, <1>3, <1>4 DEF RowInv, RowsInv

\* fill-pg's steps, seen by a thread that has read the status before.
LEMMA BranchKeptWatch ==
  ASSUME IInv, AskTypeOK, ReplyInv, BranchKept, Next, Watch, UNCHANGED askVars
  PROVE  BranchKept'
<1>1. UNCHANGED <<phase, snap, reply, result>> /\ Answers' = Answers
  BY DEF askVars, Answers, Response
<1> SUFFICES ASSUME phase = "running", ~left'
             PROVE  snap.head_id \in Covered'
  BY <1>1 DEF BranchKept, Watch
<1>2. snap.head_id \in Covered /\ snap.head_id \in received_block'
  BY DEF Watch, BranchKept, ReplyInv
<1>3. N(snap.head_id) <= N(fill_status.head_id)
  BY <1>2, Facts DEF Covered, Below
<1>4. N(snap.head_id) <= N(fill_status'.head_id)
  BY <1>2, <1>3, HeadIsNewest
<1>5. fill_status'.head_id \in MaybeBlock
  BY StepKeepsInv DEF IInv, TypeOK, FillStatus
<1>6. snap.head_id \in Block /\ snap.head_id # NoBlock
  BY <1>2, Facts DEF Covered, Below
<1> QED
  BY <1>2, <1>4, <1>5, <1>6, NIsNat, TreeAssumption DEF Covered, Below, N

\* Where the answers of a running try come from.
LEMMA AnswersStep ==
  ASSUME AskTypeOK, Request \/ AskStep, phase' = "running"
  PROVE  \/ OpenSession /\ fill_status.head_id # NoBlock /\ snap' = fill_status /\ Answers' = {}
         \/ /\ phase = "running" /\ UNCHANGED <<snap, left>>
            /\ \/ Answers' \subseteq Answers
               \/ \E n \in Snapshot, t \in Table \ SimpleTable, k \in Key :
                    Answers' \subseteq Answers \cup {AnswerTo(n, t, k)}
<1>1. CASE Request \/ RunThrows \/ ForkFound \/ Respond
  BY <1>1 DEF Request, RunThrows, ForkFound, Respond, Over
<1>2. CASE OpenSession
  <2>1. /\ fill_status.head_id # NoBlock /\ snap' = fill_status /\ result' = <<>>
        /\ reply'.answers = {}
    BY <1>2 DEF OpenSession, Over, FreshResult, NoReply
  <2>2. Response' = Append(<<>>, reply')
    BY <2>1 DEF Response
  <2>3. DOMAIN Response' = {1} /\ Response'[1] = reply'
    BY <2>2
  <2> QED
    BY <1>2, <2>1, <2>3 DEF Answers
<1>3. CASE NextRequest
  <2>1. /\ phase = "running" /\ result' = Append(result, reply)
        /\ result \in Seq(Reply) /\ reply \in Reply
        /\ reply' = [NoReply EXCEPT !.head_id = snap.head_id]
        /\ UNCHANGED <<phase, snap, left>>
    BY <1>3 DEF NextRequest, Ran, AskTypeOK
  <2>2. reply'.answers = {} /\ result' \in Seq(Reply) /\ result' = Response
    BY <2>1 DEF NoReply, Response
  <2>3. Response' = Append(Response, reply')
    BY <2>2 DEF Response
  <2>4. \A i \in DOMAIN Response' :
          Response'[i].answers = IF i \in DOMAIN Response THEN Response[i].answers ELSE {}
    <3>1. ASSUME NEW s \in Seq(Reply), NEW x, NEW i \in DOMAIN Append(s, x)
          PROVE  Append(s, x)[i] = IF i \in DOMAIN s THEN s[i] ELSE x
      BY <3>1
    <3> QED
      BY <2>2, <2>3, <3>1
  <2>5. \A a \in Answers' : a \in Answers
    BY <2>4 DEF Answers
  <2> QED
    BY <2>1, <2>5
<1>4. CASE \E n \in Snapshot, t \in Table \ SimpleTable, k \in Key : QueryDatabase(n, t, k)
  <2>1. PICK n \in Snapshot, t \in Table \ SimpleTable, k \in Key : QueryDatabase(n, t, k)
    BY <1>4
  <2> DEFINE a == AnswerTo(n, t, k)
  <2>2. /\ phase = "running" /\ reply' = [reply EXCEPT !.answers = @ \cup {a}]
        /\ result \in Seq(Reply) /\ reply \in Reply
        /\ UNCHANGED <<phase, snap, result, left>>
    BY <2>1 DEF QueryDatabase, AskTypeOK
  <2> HIDE DEF a
  <2>3. /\ Response = Append(result, reply) /\ Response' = Append(result, reply')
        /\ reply'.answers = reply.answers \cup {a}
    BY <2>2 DEF Response, Reply
  <2>4. DOMAIN Response' = DOMAIN Response
    BY <2>2, <2>3
  <2>5. \A i \in DOMAIN Response : Response'[i].answers \subseteq Response[i].answers \cup {a}
    BY <2>2, <2>3
  <2>6. Answers' \subseteq Answers \cup {a}
    BY <2>4, <2>5 DEF Answers
  <2> QED
    BY <2>2, <2>6 DEF a
<1> QED
  BY <1>1, <1>2, <1>3, <1>4 DEF AskStep

\* Opening a session finds a status whose head it covers, and each query rows of its branch.
LEMMA BranchKeptAsk ==
  ASSUME Inv, AskTypeOK, ReplyInv, BranchKept, Request \/ AskStep, UNCHANGED vars
  PROVE  BranchKept'
<1>1. IInv /\ RowInv /\ KeptInv
  BY DEF Inv
<1>2. UNCHANGED <<received_block, fill_status, Covered>>
  BY DEF vars, dbVars, Covered
<1> SUFFICES ASSUME phase' = "running", ~left' PROVE BranchKept'
  BY DEF BranchKept
<1>3. CASE fill_status.head_id # NoBlock /\ snap' = fill_status /\ Answers' = {}
  <2>1. fill_status.head_id \in Covered
    BY <1>1, <1>3, Facts DEF Covered, Below
  <2> QED
    BY <1>2, <1>3, <2>1 DEF BranchKept
<1>4. CASE phase = "running" /\ UNCHANGED <<snap, left>> /\ Answers' \subseteq Answers
  BY <1>2, <1>4 DEF BranchKept
<1>5. ASSUME phase = "running", UNCHANGED <<snap, left>>, NEW n \in Snapshot, NEW t, NEW k,
             NEW r \in AnswerTo(n, t, k).rows
      PROVE  r.block \in Branch[snap.head_id]
  <2>1. r \in rows /\ Num[r.block] <= Clamped(n)
    BY <1>5, NewestFound DEF AnswerTo
  <2>2. Clamped(n) \in Nat /\ Clamped(n) <= N(snap.head_id)
    BY ClampedBelow, WasmQlAssumption DEF AskTypeOK
  <2>3. snap.head_id \in Covered
    BY <1>5 DEF BranchKept
  <2>4. Num[r.block] \in Nat /\ N(snap.head_id) \in Nat
    BY <1>1, <2>1, <2>3, Facts DEF Row, Covered, Below
  <2> QED
    BY <1>1, <2>1, <2>2, <2>3, <2>4, RowOnBranch
<1> QED
  BY <1>2, <1>3, <1>4, <1>5, AnswersStep DEF BranchKept

------------------------------------------------------------------------------
(* The theorems about wasm-ql *)

LEMMA ReadInitInv ==
  ASSUME ReadInit
  PROVE  ReadInv
<1>1. Inv
  BY InitAll DEF ReadInit
<1>2. AskTypeOK
  <2>1. NoReply \in Reply /\ NoStatus \in FillStatus
    BY DEF NoReply, Reply, NoStatus, FillStatus, MaybeBlock
  <2>2. <<>> \in Seq(Reply)
    OBVIOUS
  <2> QED
    BY <2>1, <2>2 DEF ReadInit, AskTypeOK
<1> QED
  BY <1>1, <1>2 DEF ReadInit, ReadInv, ReplyInv, BranchKept

LEMMA ReadStep ==
  ASSUME ReadInv, [ReadNext]_allVars
  PROVE  ReadInv'
<1> USE DEF ReadInv
<1>1. [Next]_vars
  BY DEF ReadNext, allVars
<1>2. Inv' /\ IInv /\ TypeOK
  BY <1>1, StepAll DEF Inv, IInv
<1>3. CASE Next /\ Watch /\ UNCHANGED askVars
  <2>1. AskTypeOK' /\ ReplyInv'
    BY <1>3 DEF askVars, Watch, AskTypeOK, ReplyInv
  <2> QED
    BY <1>2, <1>3, <2>1, BranchKeptWatch
<1>4. CASE (Request \/ AskStep) /\ UNCHANGED vars
  BY <1>2, <1>4, AskTypes, ReplyStep, BranchKeptAsk
<1>5. CASE UNCHANGED allVars
  <2>1. AskTypeOK' /\ ReplyInv'
    BY <1>5 DEF allVars, askVars, AskTypeOK, ReplyInv
  <2>2. UNCHANGED <<Covered, Answers, phase, snap, left>>
    BY <1>5 DEF allVars, askVars, vars, dbVars, Covered, Answers, Response
  <2> QED
    BY <1>2, <2>1, <2>2 DEF BranchKept
<1> QED
  BY <1>3, <1>4, <1>5 DEF ReadNext

\* fill-pg and a thread together: what a try has answered is of one status and of its
\* branch, as long as the status's head stays in the database.
THEOREM ReadInvariant == ReadSpec => []ReadInv
<1>1. ReadInit => ReadInv
  BY ReadInitInv
<1>2. ReadInv /\ [ReadNext]_allVars => ReadInv'
  BY ReadStep
<1> QED
  BY <1>1, <1>2, PTL DEF ReadSpec

\* retry_loop starts over from an empty result: a response has one reply for each
\* request, all of them from one try, although earlier tries may have got half way.
THEOREM AlwaysOneSnapshot == ReadSpec => OneSnapshot
<1>1. ASSUME AskTypeOK, ReplyInv, Respond
      PROVE  /\ Len(Response) = NumRequests
             /\ \A i \in DOMAIN Response : Response[i].head_id = snap.head_id
  <2>1. /\ phase = "running" /\ Len(result) + 1 >= NumRequests
        /\ result \in Seq(Reply) /\ reply \in Reply
    BY <1>1 DEF Respond, Ran, AskTypeOK
  <2>2. Len(Response) = Len(result) + 1
    BY <2>1 DEF Response
  <2>3. \A i \in DOMAIN Response :
          Response[i] = IF i = Len(result) + 1 THEN reply ELSE result[i]
    BY <2>1 DEF Response
  <2>4. \A i \in DOMAIN Response : i # Len(result) + 1 => i \in DOMAIN result
    BY <2>1 DEF Response
  <2> QED
    BY <1>1, <2>1, <2>2, <2>3, <2>4, WasmQlAssumption DEF ReplyInv
<1>2. ReadInv =>
        [Respond => /\ Len(Response) = NumRequests
                    /\ \A i \in DOMAIN Response : Response[i].head_id = snap.head_id]_allVars
  BY <1>1 DEF ReadInv
<1> QED
  BY <1>2, ReadInvariant, PTL DEF OneSnapshot

\* did_fork, although it looks at the head alone and only after the run: unless the head
\* left and came back within the try, no answer sent holds a row of another branch.
THEOREM NeverForeignRows == ReadSpec => NoForeignRows
<1>1. ASSUME ReadInv, Respond
      PROVE  CameBack \/ \A a \in Answers : \A r \in a.rows : r.block \in Branch[snap.head_id]
  <2>1. phase = "running" /\ snap.head_id \in HeaderAt(N(snap.head_id))
    BY <1>1 DEF Respond, Ran, DidFork
  <2>2. CASE left
    BY <2>1, <2>2 DEF CameBack
  <2>3. CASE ~left
    BY <1>1, <2>1, <2>3 DEF ReadInv, BranchKept
  <2> QED
    BY <2>2, <2>3
<1>2. ReadInv =>
        [Respond =>
           CameBack \/ \A a \in Answers : \A r \in a.rows : r.block \in Branch[snap.head_id]]_allVars
  BY <1>1
<1> QED
  BY <1>2, ReadInvariant, PTL DEF NoForeignRows

------------------------------------------------------------------------------
(* Every row is there or held *)

LEMMA HeldSame ==
  ASSUME HeldInv,
         session' = "streaming" =>
           /\ session = "streaming" /\ UNCHANGED received_block
           /\ rows \cup table_streams \subseteq rows' \cup table_streams'
           /\ Applied' => RowsOf(cur'.this_block) \subseteq rows' \cup table_streams'
  PROVE  HeldInv'
BY DEF HeldInv, RowsOf

LEMMA FilledSame ==
  ASSUME FilledToHead, UNCHANGED <<received_block, fill_status>>, rows \subseteq rows'
  PROVE  FilledToHead'
<1>1. Covered' = Covered
  BY DEF Covered
<1> QED
  BY <1>1 DEF FilledToHead, RowsOf

\* What a status session takes over is covered.
LEMMA StatusLeaves ==
  ASSUME IInv, FilledToHead, ReceivedStatus, schema
  PROVE  /\ received_block' = Covered /\ Covered' = Covered
         /\ \A b \in Covered : RowsOf(b) \subseteq rows'
<1> DEFINE n == N(fill_status.head_id) + 1
<1>1. /\ received_block' = Covered /\ UNCHANGED fill_status
      /\ rows' = {r \in rows : Num[r.block] < n}
  BY DEF ReceivedStatus, TruncatedReceived, TruncatedRows, Covered
<1>2. \A b \in Covered : RowsOf(b) \subseteq rows'
  BY <1>1 DEF FilledToHead, Covered, Below, RowsOf
<1> QED
  BY <1>1, <1>2 DEF Covered, Below

\* trim takes no row of a block it leaves.
LEMMA TrimLeaves ==
  ASSUME IInv, HeldInv, Trim
  PROVE  \A b \in received_block' : RowsOf(b) \subseteq rows'
<1>1. /\ pc = "trim" /\ session = "streaming" /\ table_streams = {}
      /\ received_block' = {b \in received_block : ~InTrim(Num[b])}
  BY DEF Trim, IInv, StepInv
<1>2. /\ EndTrim \in Nat /\ first \in Nat
      /\ \A b \in received_block : first <= Num[b] /\ Num[b] \in Nat
  <2>1. ~Applied
    BY <1>1 DEF Applied
  <2> QED
    BY <1>1, <2>1, Facts DEF EndTrim, TypeOK, FillerInv, FirstInv
<1>3. \A b \in received_block' : b \in received_block /\ EndTrim <= Num[b]
  BY <1>1, <1>2 DEF InTrim
<1> SUFFICES ASSUME NEW b \in received_block', NEW r \in RowsOf(b) PROVE r \in rows'
  OBVIOUS
<1>4. r \in rows /\ r.block = b
  BY <1>1, <1>3 DEF HeldInv, RowsOf
<1>5. ~InTrim(Num[b])
  BY <1>2, <1>3 DEF InTrim
<1>6. ~Superseded(r)
  <2> SUFFICES ASSUME NEW q \in rows, Num[q.block] \in (first + 1)..EndTrim,
                      Num[b] < Num[q.block]
               PROVE  FALSE
    BY <1>4 DEF Superseded
  <2> QED
    BY <1>2, <1>3
<1> QED
  BY <1>4, <1>5, <1>6 DEF Trim

\* The commit of t, fork switch or not.
LEMMA CommitHolds ==
  ASSUME IInv, RowInv, HeldInv, CommitBlock
  PROVE  /\ session = "streaming" /\ session' = "streaming" /\ ~Applied' /\ Applied
         /\ cur.this_block \in received_block'
         /\ \A b \in received_block' : RowsOf(b) \subseteq rows' \cup table_streams'
<1> DEFINE c == cur.this_block
<1>1. /\ pc = "commit" /\ session = "streaming" /\ session' = session /\ Applied
      /\ received_block' = Received /\ table_streams' = table_streams
      /\ rows' = IF cur.forks THEN TruncatedRows(Num[c]) ELSE rows
      /\ pc' = "idle" \/ (pc' = "flush" /\ then' = "idle")
      /\ c \in Received
  BY DEF CommitBlock, Received, IInv, StepInv, Applied, memVars
<1>2. ~Applied'
  BY <1>1 DEF Applied
<1>3. CASE ~cur.forks
  BY <1>1, <1>2, <1>3 DEF HeldInv, Received
<1>4. CASE cur.forks
  <2>1. table_streams = RowsOf(c)
    BY <1>1, <1>4 DEF RowInv, StreamsInv
  <2>2. ASSUME NEW b \in received_block, Num[b] < Num[c], NEW r \in RowsOf(b) PROVE r \in rows'
    <3>1. r.block = b
      BY <2>2 DEF RowsOf
    <3>2. r \notin RowsOf(c)
      BY <2>2, <3>1, Facts DEF RowsOf
    <3> QED
      BY <1>1, <1>4, <2>1, <2>2, <3>1, <3>2 DEF HeldInv, TruncatedRows
  <2>3. ASSUME NEW b \in received_block' PROVE RowsOf(b) \subseteq rows' \cup table_streams'
    BY <1>1, <1>4, <2>1, <2>2 DEF Received, TruncatedReceived, Below
  <2> QED
    BY <1>1, <1>2, <2>3
<1> QED
  BY <1>3, <1>4

LEMMA HeldStep ==
  ASSUME IInv, RowInv, FilledInv, [Next]_vars
  PROVE  HeldInv'
<1> USE DEF FilledInv, FilledAfterSession
<1>1. CASE session' # "streaming"
  BY <1>1 DEF HeldInv
<1>2. CASE NodeosStep \/ UNCHANGED vars
  <2>1. UNCHANGED <<received_block, rows, table_streams, session, cur, Applied>>
    BY <1>2 DEF NodeosStep, vars, dbVars, memVars, stepVars, Applied
  <2> QED
    BY <2>1, HeldSame DEF HeldInv
<1>3. CASE \/ Retry \/ ReceivedAbi \/ StopAtBlock \/ PrevMismatch \/ ConnectionLost \/ Die
           \/ \E opts \in StartOptions : OperatorStart(opts)
  BY <1>1, <1>3 DEF Retry, OperatorStart, StartSession, ReceivedAbi, StopAtBlock, PrevMismatch,
     ConnectionLost, Die, EndSession
<1>4. CASE ReceivedStatus /\ session' = "streaming"
  <2>1. schema /\ session = "querying" /\ UNCHANGED pc
    BY <1>4 DEF ReceivedStatus, EndSession, stepVars
  <2>2. ~Applied'
    BY <2>1 DEF IInv, StepInv, Applied
  <2> QED
    BY <1>4, <2>1, <2>2, StatusLeaves DEF HeldInv, RowsOf
<1>5. CASE SkipResult \/ BeginBlock
  <2>1. UNCHANGED <<dbVars, session, table_streams>> /\ (Applied' => Applied /\ cur' = cur)
    BY <1>5 DEF SkipResult, BeginBlock, Applied, memVars, stepVars, AfterClose
  <2> QED
    BY <2>1, HeldSame DEF HeldInv, dbVars
<1>6. CASE ApplyBlockRows
  BY <1>6, HeldSame DEF ApplyBlockRows, dbVars
<1>7. CASE \E t \in Table : FlushStream(t)
  <2>1. PICK t \in Table : FlushStream(t)
    BY <1>7
  <2>2. /\ UNCHANGED <<received_block, session, cur>> /\ pc = "flush"
        /\ rows' = rows \cup {r \in table_streams : r.table = t}
        /\ table_streams' = table_streams \ {r \in table_streams : r.table = t}
    BY <2>1 DEF FlushStream
  <2>3. rows' \cup table_streams' = rows \cup table_streams
    BY <2>2
  <2>4. Applied' => Applied
    BY <2>1 DEF FlushStream, Applied
  <2> QED
    BY <2>2, <2>3, <2>4, HeldSame DEF HeldInv
<1>8. CASE CloseStreams /\ session' = "streaming"
  <2>1. /\ session = "streaming" /\ UNCHANGED <<received_block, rows, table_streams>>
        /\ pc' \in {"idle", "trim", "apply"}
    BY <1>8 DEF CloseStreams, IInv, StepInv, EndSession, AfterClose, memVars
  <2>2. ~Applied'
    BY <2>1 DEF Applied
  <2> QED
    BY <2>1, <2>2, HeldSame
<1>9. CASE Trim
  <2>1. ~Applied' /\ session = "streaming"
    BY <1>9 DEF Trim, Applied, IInv, StepInv
  <2> QED
    BY <1>9, <2>1, TrimLeaves DEF HeldInv, RowsOf
<1>10. CASE CommitBlock
  BY <1>10, CommitHolds DEF HeldInv, RowsOf
<1> QED
  BY <1>1, <1>2, <1>3, <1>4, <1>5, <1>6, <1>7, <1>8, <1>9, <1>10
     DEF Next, FillerStep, ProcessBlock, Fault

\* The status is written when no row is held, but for that of a fork switch.
LEMMA FilledStep ==
  ASSUME IInv, RowInv, HeldInv, FilledToHead, [Next]_vars, ~(CommitBlock /\ cur.forks)
  PROVE  FilledToHead'
<1>1. CASE \/ NodeosStep \/ ReceivedAbi \/ SkipResult \/ StopAtBlock \/ BeginBlock \/ PrevMismatch
           \/ ApplyBlockRows \/ ConnectionLost \/ Die \/ UNCHANGED vars
  <2>1. UNCHANGED <<received_block, rows, fill_status>>
    BY <1>1 DEF NodeosStep, ReceivedAbi, SkipResult, StopAtBlock, BeginBlock, PrevMismatch,
       ApplyBlockRows, ConnectionLost, Die, vars, dbVars
  <2> QED
    BY <2>1, FilledSame
<1>2. CASE Retry \/ \E opts \in StartOptions : OperatorStart(opts)
  <2>1. PICK opts : StartSession(opts)
    BY <1>2 DEF Retry, OperatorStart
  <2>2. CASE "drop" \in opts
    BY <2>1, <2>2 DEF StartSession, FilledToHead, Covered, Below
  <2>3. CASE "drop" \notin opts
    BY <2>1, <2>3, FilledSame DEF StartSession, dbVars
  <2> QED
    BY <2>2, <2>3
<1>3. CASE ReceivedStatus
  <2>1. CASE ~schema
    BY <1>3, <2>1, FilledSame DEF ReceivedStatus, dbVars
  <2> QED
    BY <1>3, <2>1, StatusLeaves DEF FilledToHead, RowsOf
<1>4. CASE \E t \in Table : FlushStream(t)
  BY <1>4, FilledSame DEF FlushStream
<1>5. CASE CloseStreams
  <2>1. /\ session = "streaming" /\ table_streams = {} /\ UNCHANGED <<received_block, rows>>
    BY <1>5 DEF CloseStreams, IInv, StepInv
  <2>2. \A b \in Covered' : b \in received_block
    BY <2>1 DEF Covered, Below
  <2> QED
    BY <2>1, <2>2 DEF HeldInv, FilledToHead, RowsOf
<1>6. CASE Trim
  <2>1. \A b \in Covered' : b \in received_block'
    BY DEF Covered, Below
  <2> QED
    BY <1>6, <2>1, TrimLeaves DEF FilledToHead, RowsOf
<1>7. CASE CommitBlock
  <2> DEFINE c == cur.this_block
  <2>1. /\ pc = "commit" /\ Applied /\ c \in Block /\ received_block' = received_block \cup {c}
        /\ fill_status' = StatusCommitted /\ UNCHANGED <<rows, table_streams>>
    BY <1>7 DEF CommitBlock, Received, IInv, StepInv, Applied, memVars
  <2>2. CASE cur.bulk
    <3>1. UNCHANGED fill_status
      BY <2>1, <2>2 DEF StatusCommitted
    <3>2. c \notin Covered'
      <4>1. ASSUME fill_status.head_id # NoBlock PROVE N(fill_status.head_id) < Num[c]
        BY <1>7, <2>1, <4>1, Facts DEF RowInv, DecisionInv
      <4>2. N(NoBlock) = 0 /\ Num[c] \in Nat \ {0} /\ N(fill_status.head_id) \in Nat
        BY <2>1, Facts DEF N
      <4> QED
        BY <3>1, <4>1, <4>2 DEF Covered, Below
    <3>3. \A b \in Covered' : b \in Covered
      BY <2>1, <3>1, <3>2 DEF Covered, Below
    <3> QED
      BY <2>1, <3>3 DEF FilledToHead, RowsOf
  <2>3. CASE ~cur.bulk
    <3>1. table_streams = {}
      BY <1>7, <2>1, <2>3 DEF FlushFirst, RowInv, StreamsInv
    <3>2. \A b \in Covered' : b \in received_block'
      BY DEF Covered, Below
    <3> QED
      BY <1>7, <2>1, <3>1, <3>2, CommitHolds DEF FilledToHead, RowsOf
  <2> QED
    BY <2>2, <2>3
<1> QED
  BY <1>1, <1>2, <1>3, <1>4, <1>5, <1>6, <1>7 DEF Next, FillerStep, ProcessBlock, Fault

\* As long as no fork switch commits, fill_status never claims a block whose rows are not
\* committed, whatever commit a crash falls behind.
THEOREM FilledWithoutForks == Spec /\ NoForkCommits => []FilledToHead
<1>1. Init => HeldInv /\ FilledToHead
  BY DEF Init, HeldInv, FilledToHead, Covered, Below
<1>2. ASSUME IInv, RowInv, HeldInv, FilledToHead, [Next]_vars, [~(CommitBlock /\ cur.forks)]_vars
      PROVE  HeldInv' /\ FilledToHead'
  <2>1. HeldInv'
    BY <1>2, HeldStep DEF FilledInv, FilledAfterSession
  <2>2. CASE UNCHANGED vars
    BY <1>2, <2>1, <2>2, FilledSame DEF vars, dbVars
  <2> QED
    BY <1>2, <2>1, <2>2, FilledStep
<1> QED
  BY <1>1, <1>2, RowsInvariant, PTL DEF Spec, NoForkCommits

------------------------------------------------------------------------------
(* The rows are what their blocks carry *)

LEMMA ContentStep ==
  ASSUME ContentInv, [Next]_vars
  PROVE  ContentInv'
<1>1. \A b, r : r \in RowsOf(b) => r.block = b
  BY DEF RowsOf
<1>2. ASSUME NEW r \in rows' \cup table_streams', r \notin rows \cup table_streams
      PROVE  r \in RowsOf(cur.this_block)
  <2>1. CASE \/ NodeosStep \/ SkipResult \/ StopAtBlock \/ BeginBlock \/ PrevMismatch
             \/ ConnectionLost \/ Die \/ Retry \/ \E opts \in StartOptions : OperatorStart(opts)
    BY <1>2, <2>1 DEF NodeosStep, SkipResult, StopAtBlock, BeginBlock, PrevMismatch,
       ConnectionLost, Die, Retry, OperatorStart, StartSession, EndSession, dbVars, memVars
  <2>2. CASE ReceivedAbi \/ ReceivedStatus
    BY <1>2, <2>2 DEF ReceivedAbi, ReceivedStatus, EndSession, dbVars, memVars, TruncatedRows
  <2>3. CASE \E t \in Table : FlushStream(t)
    BY <1>2, <2>3 DEF FlushStream
  <2>4. CASE CloseStreams \/ Trim \/ CommitBlock
    BY <1>2, <2>4 DEF CloseStreams, Trim, CommitBlock, EndSession, dbVars, memVars, TruncatedRows
  <2>5. CASE ApplyBlockRows
    BY <1>2, <2>5 DEF ApplyBlockRows, dbVars
  <2>6. CASE UNCHANGED vars
    BY <1>2, <2>6 DEF vars, dbVars, memVars
  <2> QED
    BY <2>1, <2>2, <2>3, <2>4, <2>5, <2>6 DEF Next, FillerStep, ProcessBlock, Fault
<1>3. ASSUME NEW r \in rows' \cup table_streams' PROVE r \in RowsOf(r.block)
  BY <1>1, <1>2, <1>3 DEF ContentInv
<1> QED
  BY <1>3 DEF ContentInv, RowsOf

------------------------------------------------------------------------------
(* The first block of a history *)

LEMMA FirstServedIs ==
  ASSUME NEW s \in Nat, NEW n \in Nat
  PROVE  Max({s, n}) = IF s <= n THEN n ELSE s
<1>1. \E x \in {s, n} : \A y \in {s, n} : x >= y
  OBVIOUS
<1> DEFINE m == Max({s, n})
<1>2. m \in {s, n} /\ \A y \in {s, n} : m >= y
  BY <1>1 DEF Max
<1> HIDE DEF m
<1>3. m = IF s <= n THEN n ELSE s
  BY <1>2
<1> QED
  BY <1>3 DEF m

LEMMA ServedFacts ==
  ASSUME begin \in Nat
  PROVE  FirstServed \in Nat /\ SkipTo <= FirstServed /\ begin <= FirstServed /\ SkipTo \in Nat
BY FirstServedIs, FillAssumption DEF FirstServed

\* A history begins at the first block asked for.
LEMMA FirstWantedServed ==
  ASSUME begin \in Nat \ {0}
  PROVE  FirstWanted(NoBlock) \in Nat /\ FirstWanted(NoBlock) <= FirstServed
<1> DEFINE S == {SkipTo, 1, begin}
<1>1. FirstWanted(NoBlock) = Max(S)
  BY DEF FirstWanted, N
<1>2. SkipTo \in Nat
  BY FillAssumption
<1>3. \E x \in S : \A y \in S : x >= y
  BY <1>2
<1>4. Max(S) \in S
  BY <1>3 DEF Max
<1> QED
  BY <1>1, <1>2, <1>4, ServedFacts

\* nodeos's branch goes down to block 1.
LEMMA ChainFromOne ==
  ASSUME IInv, RootInv, chain # {}
  PROVE  \E c \in chain : Num[c] = 1
<1>1. chain \in SUBSET Block /\ \A b \in Block : Num[b] \in Nat \ {0}
  BY TreeAssumption DEF IInv, TypeOK, NodeosTypeOK
<1>2. Genesis \in SUBSET Block /\ Genesis # {}
  BY NodeosAssumption DEF RootInv, OnRoot
<1> DEFINE D == {Num[g] : g \in Genesis}
<1>3. D \in SUBSET Nat /\ D # {}
  BY <1>1, <1>2
<1>4. PICK n \in D : \A k \in D : n <= k
  BY <1>3, LeastNumber
<1>5. PICK g \in Genesis : Num[g] = n
  OBVIOUS
<1>6. Parent[g] \notin Genesis
  <2> SUFFICES ASSUME Parent[g] \in Genesis PROVE FALSE
    OBVIOUS
  <2>1. Num[g] = Num[Parent[g]] + 1 /\ Num[Parent[g]] \in Nat
    BY <1>1, <1>2, TreeAssumption
  <2>2. Num[Parent[g]] \in D
    OBVIOUS
  <2>3. n <= Num[Parent[g]]
    BY <1>4, <2>2
  <2> QED
    BY <1>5, <2>1, <2>3
<1>7. Num[g] = 1
  BY <1>2, <1>5, <1>6, GenesisAssumption, TreeAssumption
<1>8. PICK d \in chain : Num[d] <= Num[g]
  BY DEF RootInv
<1> QED
  BY <1>1, <1>7, <1>8

\* Up to its newest block, nodeos has none only below its logs.
LEMMA IdServed ==
  ASSUME IInv, RootInv, HeightInv, NEW n \in 1..Height
  PROVE  IF Id(n) = NoBlock THEN n < begin ELSE N(Id(n)) = n
<1>1. chain \in SUBSET Block /\ IsStretch(chain) /\ \A b \in Block : Num[b] \in Nat \ {0}
  BY TreeAssumption DEF IInv, TypeOK, NodeosTypeOK, NodeosInv
<1>2. Tip(chain) # NoBlock
  BY DEF Height, N
<1>3. Tip(chain) \in chain /\ Height = Num[Tip(chain)]
  BY <1>2 DEF HeightInv, TipIs, Height, N
<1>4. PICK c \in chain : Num[c] = 1
  BY <1>3, ChainFromOne
<1>5. n \in Num[c]..Num[Tip(chain)]
  BY <1>3, <1>4
<1>6. \E d \in chain : Num[d] = n
  BY <1>1, <1>3, <1>5 DEF IsStretch
<1>7. At(chain, n) \in chain /\ Num[At(chain, n)] = n
  BY <1>6 DEF At
<1>8. At(chain, n) # NoBlock
  BY <1>1, <1>7, TreeAssumption
<1>9. begin \in Nat
  BY DEF IInv, TypeOK, NodeosTypeOK
<1> QED
  BY <1>7, <1>8, <1>9 DEF Id, N

LEMMA OpenOutOfSession ==
  ASSUME OpenInv, session' # "streaming", begin' = begin
  PROVE  OpenInv'
BY DEF OpenInv

LEMMA OpenSame ==
  ASSUME OpenInv, UNCHANGED <<begin, wire, next, received_block>>,
         session' = "streaming" =>
           /\ session = "streaming"
           /\ fill_status'.head_id = NoBlock => fill_status.head_id = NoBlock
           /\ received_block = {} => /\ Pending' \/ Applied' <=> Pending \/ Applied
                                     /\ Pending \/ Applied => cur' = cur
  PROVE  OpenInv'
<1>1. FirstServed' = FirstServed /\ (Opening => Opening')
  BY DEF FirstServed, Opening
<1> QED
  BY <1>1 DEF OpenInv

LEMMA OpenNodeos ==
  ASSUME IInv, BranchInv, HeightInv, OpenInv, NodeosStep
  PROVE  OpenInv'
<1>1. UNCHANGED <<dbVars, session, memVars, stepVars>>
  BY DEF NodeosStep
<1>2. UNCHANGED <<received_block, fill_status, session, cur, Pending, Applied>>
  BY <1>1 DEF dbVars, stepVars, Pending, Applied
<1>3. begin \in Nat /\ begin # 0 /\ next \in Nat /\ wire \in Seq(BlocksResult)
  BY LineTypes DEF OpenInv
<1>4. ASSUME NEW n \in 0..Height, NEW bg \in LogBegins, ReplaceNode(n, bg),
             session # "streaming"
      PROVE  OpenInv'
  <2>1. begin' # 0
    BY <1>4, NodeosAssumption DEF ReplaceNode
  <2> QED
    BY <1>2, <1>4, <2>1 DEF OpenInv
<1>5. ASSUME UNCHANGED <<begin, wire>>, next' \in Nat, next' <= next
      PROVE  OpenInv'
  <2>1. FirstServed' = FirstServed /\ FirstServed \in Nat
    BY <1>3, <1>5, ServedFacts DEF FirstServed
  <2>2. Opening => Opening'
    BY <1>3, <1>5, <2>1 DEF Opening
  <2> QED
    BY <1>2, <1>5, <2>1, <2>2 DEF OpenInv
<1>6. CASE \E b \in Block : ApplyBlock(b)
  <2>1. PICK b \in Block : ApplyBlock(b)
    BY <1>6
  <2>2. UNCHANGED <<begin, wire>> /\ next' = (IF Num[b] < next THEN Num[b] ELSE next)
        /\ Num[b] \in Nat
    BY <2>1, TreeAssumption DEF ApplyBlock
  <2> QED
    BY <1>3, <1>5, <2>2
<1>7. CASE AdvanceLib
  BY <1>3, <1>5, <1>7 DEF AdvanceLib
<1>8. CASE SendBlocksResult
  <2> DEFINE m == [this_block |-> Id(next), prev_block |-> Id(next - 1), lib |-> lib]
             L == Len(wire)
  <2>1. next \in 1..Height /\ wire' = Append(wire, m) /\ next' = next + 1 /\ UNCHANGED begin
    BY <1>8 DEF SendBlocksResult
  <2>2. /\ FirstServed' = FirstServed /\ FirstServed \in Nat /\ begin <= FirstServed
    BY <1>3, <2>1, ServedFacts DEF FirstServed
  <2>3. IF Id(next) = NoBlock THEN next < begin ELSE N(Id(next)) = next
    BY <2>1, IdServed DEF BranchInv
  <2>4. /\ DOMAIN wire = 1..L /\ DOMAIN wire' = 1..(L + 1) /\ L \in Nat
        /\ wire'[L + 1] = m /\ \A k \in 1..L : wire'[k] = wire[k]
    BY <1>3, <2>1
  <2> HIDE DEF m
  <2>5. m.this_block = Id(next)
    BY DEF m
  <2>6. ASSUME Opening PROVE Opening'
    <3>1. ASSUME NEW k \in DOMAIN wire', wire'[k].this_block # NoBlock,
                 \A j \in 1..(k - 1) : wire'[j].this_block = NoBlock
          PROVE  N(wire'[k].this_block) <= FirstServed
      <4>1. CASE k \in 1..L
        <5>1. \A j \in 1..(k - 1) : j \in 1..L
          BY <2>4, <4>1
        <5> QED
          BY <2>4, <2>6, <3>1, <4>1, <5>1 DEF Opening
      <4>2. CASE k = L + 1
        <5>1. \A j \in 1..L : wire[j].this_block = NoBlock
          BY <2>4, <3>1, <4>2
        <5>2. next <= FirstServed
          BY <2>4, <2>6, <5>1 DEF Opening
        <5> QED
          BY <2>3, <2>4, <2>5, <3>1, <4>2, <5>2
      <4> QED
        BY <2>4, <4>1, <4>2
    <3>2. ASSUME \A k \in DOMAIN wire' : wire'[k].this_block = NoBlock
          PROVE  next' <= FirstServed
      <4>1. Id(next) = NoBlock
        BY <2>4, <2>5, <3>2
      <4> QED
        BY <1>3, <2>1, <2>2, <2>3, <4>1
    <3> QED
      BY <2>2, <3>1, <3>2 DEF Opening
  <2> QED
    BY <1>2, <2>1, <2>2, <2>6 DEF OpenInv
<1> QED
  BY <1>4, <1>5, <1>6, <1>7, <1>8 DEF NodeosStep

LEMMA OpenReceivedStatus ==
  ASSUME IInv, BranchInv, OpenInv, ReceivedStatus
  PROVE  OpenInv'
<1>1. begin' = begin /\ begin \in Nat \ {0}
  BY LineTypes DEF ReceivedStatus, EndSession, SessionGone, OpenInv
<1>2. CASE ~schema
  BY <1>1, <1>2, OpenOutOfSession DEF ReceivedStatus, EndSession
<1>3. CASE schema /\ fill_status.head_id # NoBlock
  BY <1>1, <1>3 DEF ReceivedStatus, OpenInv
<1>4. CASE schema /\ fill_status.head_id = NoBlock
  <2>1. N(fill_status.head_id) = 0
    BY <1>4 DEF N
  <2>2. /\ received_block' = {b \in received_block : Num[b] < 1}
        /\ next' = StreamFrom(FirstWanted(TruncatedHead(1)), Positions)
        /\ pc' = "idle" /\ wire' = <<>> /\ FirstServed' = FirstServed
    BY <1>1, <1>4, <2>1 DEF ReceivedStatus, TruncatedReceived, Below, IInv, StepInv, BranchInv,
       LineInv, stepVars, FirstServed
  <2>3. \A b \in received_block : Num[b] \in Nat \ {0} /\ Num[b] \in Nat
    BY Facts
  <2>4. received_block' = {} /\ Positions = {} /\ TruncatedHead(1) = NoBlock
    BY <2>1, <2>2, <2>3 DEF Positions, TruncatedHead, At
  <2>5. FirstWanted(NoBlock) \in Nat /\ FirstWanted(NoBlock) <= FirstServed
    BY <1>1, FirstWantedServed
  <2> DEFINE w == FirstWanted(NoBlock)
  <2>6. next' = Min({w})
    BY <2>2, <2>4 DEF StreamFrom
  <2> HIDE DEF w
  <2>7. next' = w
    BY <2>6 DEF Min
  <2>8. Opening'
    BY <2>2, <2>5, <2>7 DEF Opening, w
  <2>9. ~Pending' /\ ~Applied'
    BY <2>2 DEF Pending, Applied
  <2> QED
    BY <1>1, <2>4, <2>8, <2>9 DEF OpenInv
<1> QED
  BY <1>2, <1>3, <1>4

\* The message taken is the first of the line.
LEMMA OpenTake ==
  ASSUME IInv, RowInv, OpenInv, SkipResult \/ BeginBlock
  PROVE  OpenInv'
<1>1. /\ session = "streaming" /\ pc = "idle" /\ wire # <<>> /\ wire' = Tail(wire)
      /\ UNCHANGED <<begin, next, received_block, fill_status, session, table_streams>>
  BY DEF SkipResult, BeginBlock, dbVars, memVars
<1>2. /\ wire \in Seq(BlocksResult) /\ 1 \in DOMAIN wire /\ Head(wire) = wire[1]
      /\ \A k \in DOMAIN wire' : k \in Nat /\ k + 1 \in DOMAIN wire /\ wire'[k] = wire[k + 1]
      /\ \A k \in DOMAIN wire : k \in Nat /\ (k # 1 => k - 1 \in DOMAIN wire' /\ wire'[k - 1] = wire[k])
  <2>1. wire \in Seq(BlocksResult)
    BY LineTypes
  <2> QED
    BY <1>1, <2>1
<1>3. FirstServed' = FirstServed
  BY <1>1 DEF FirstServed
<1>4. ~Pending /\ ~Applied
  BY <1>1 DEF Pending, Applied
<1> SUFFICES ASSUME fill_status.head_id = NoBlock, received_block = {}, Opening
             PROVE  IF Pending' \/ Applied' THEN Num[cur'.this_block] <= FirstServed ELSE Opening'
  BY <1>1, <1>3, <1>4 DEF OpenInv
<1>5. CASE SkipResult
  <2>1. wire[1].this_block = NoBlock /\ ~Pending' /\ ~Applied'
    BY <1>2, <1>4, <1>5 DEF SkipResult, stepVars, Pending, Applied
  <2>2. ASSUME NEW k \in DOMAIN wire', wire'[k].this_block # NoBlock,
               \A j \in 1..(k - 1) : wire'[j].this_block = NoBlock
        PROVE  N(wire'[k].this_block) <= FirstServed
    <3>1. ASSUME NEW j \in 1..((k + 1) - 1) PROVE wire[j].this_block = NoBlock
      <4>1. k \in Nat /\ j \in Nat /\ k + 1 \in DOMAIN wire
        BY <1>2
      <4>2. DOMAIN wire = 1..Len(wire) /\ Len(wire) \in Nat
        BY <1>2
      <4>3. j \in DOMAIN wire
        BY <3>1, <4>1, <4>2
      <4>4. CASE j # 1
        <5>1. j - 1 \in 1..(k - 1)
          BY <4>1, <4>4
        <5>2. wire'[j - 1] = wire[j]
          BY <1>2, <4>3, <4>4
        <5> QED
          BY <2>2, <5>1, <5>2
      <4> QED
        BY <2>1, <4>4
    <3>2. k + 1 \in DOMAIN wire /\ wire'[k] = wire[k + 1]
      BY <1>2
    <3> QED
      BY <2>2, <3>1, <3>2 DEF Opening
  <2>3. ASSUME \A k \in DOMAIN wire' : wire'[k].this_block = NoBlock
        PROVE  next <= FirstServed
    BY <1>2, <2>1, <2>3 DEF Opening
  <2> QED
    BY <1>1, <1>3, <2>1, <2>2, <2>3 DEF Opening
<1>6. CASE BeginBlock
  <2>1. wire[1].this_block # NoBlock /\ cur' = Decide(wire[1])
    BY <1>2, <1>6 DEF BeginBlock
  <2>2. N(wire[1].this_block) <= FirstServed
    BY <1>2, <2>1 DEF Opening
  <2>3. cur'.this_block = wire[1].this_block
    BY <2>1 DEF Decide
  <2>4. table_streams = {}
    BY <1>1, <1>4 DEF After, RowInv, StreamsInv
  <2>5. pc' \in {"trim", "apply"}
    BY <1>6, <2>4 DEF BeginBlock, AfterClose
  <2> QED
    BY <2>1, <2>2, <2>3, <2>5 DEF N, Pending
<1> QED
  BY <1>5, <1>6
LEMMA OpenCommitBlock ==
  ASSUME IInv, OpenInv, CommitBlock
  PROVE  OpenInv'
<1>1. /\ session = "streaming" /\ session' = session /\ begin' = begin
      /\ received_block' = Received /\ cur.this_block \in Received
      /\ Applied /\ FirstServed' = FirstServed /\ (cur.forks => ~cur.bulk)
  BY DEF CommitBlock, IInv, StepInv, Received, Applied, nodeosVars, FirstServed
<1> SUFFICES ASSUME fill_status'.head_id = NoBlock
             PROVE  \E b \in received_block' : Num[b] <= FirstServed
  BY <1>1 DEF OpenInv
<1>2. head_id # NoBlock
  BY <1>1, TreeAssumption DEF CommitBlock, IInv, StepInv
<1>3. fill_status.head_id = NoBlock /\ cur.bulk
  BY <1>2 DEF CommitBlock, StatusCommitted, StatusToWrite
<1>4. received_block \subseteq received_block'
  BY <1>1, <1>3 DEF Received
<1> QED
  BY <1>1, <1>3, <1>4 DEF OpenInv

LEMMA OpenTrim ==
  ASSUME IInv, OpenInv, Trim
  PROVE  OpenInv'
<1>1. /\ session = "streaming" /\ pc = "trim" /\ table_streams = {} /\ first < EndTrim
      /\ UNCHANGED <<begin, fill_status, session>>
  BY DEF Trim, IInv, StepInv, nodeosVars
<1>2. fill_status.head_id = head_id
  BY <1>1 DEF IInv, HistoryInv
<1>3. EndTrim <= head /\ EndTrim \in Nat /\ first \in Nat /\ head \in Nat
  BY LineTypes, Facts DEF IInv, TypeOK
<1>4. head_id # NoBlock
  BY <1>1, <1>3 DEF head, N
<1> QED
  BY <1>1, <1>2, <1>4 DEF OpenInv

LEMMA OpenCloseStreams ==
  ASSUME IInv, OpenInv, CloseStreams
  PROVE  OpenInv'
<1>1. CASE then = "stop"
  BY <1>1, OpenOutOfSession DEF CloseStreams, EndSession, SessionGone
<1>2. CASE then # "stop"
  <2>1. /\ session = "streaming" /\ pc = "status" /\ fill_status'.head_id = head_id
        /\ UNCHANGED <<begin, wire, next, received_block, session>>
        /\ pc' = (IF then = "trim" THEN AfterClose ELSE "idle") /\ then' = "none"
        /\ then = "trim" => cur' = cur
    BY <1>2 DEF CloseStreams, StatusToWrite, IInv, StepInv, nodeosVars
  <2>2. ~Applied /\ After = received_block
    BY <2>1 DEF Applied, After
  <2>3. head_id = NoBlock => fill_status.head_id = NoBlock
    BY <2>1, <2>2 DEF IInv, HistoryInv, TipIs
  <2>4. Pending' \/ Applied' <=> Pending \/ Applied
    BY <2>1, <2>2 DEF Pending, Applied, AfterClose
  <2>5. Pending => cur' = cur
    BY <2>1 DEF Pending
  <2> QED
    BY <2>1, <2>2, <2>3, <2>4, <2>5, OpenSame
<1> QED
  BY <1>1, <1>2

LEMMA OpenStep ==
  ASSUME IInv, RowInv, BranchInv, HeightInv, OpenInv, [Next]_vars
  PROVE  OpenInv'
<1>1. CASE Retry \/ \E opts \in StartOptions : OperatorStart(opts)
  BY <1>1, OpenOutOfSession DEF Retry, OperatorStart, StartSession, nodeosVars
<1>2. CASE ReceivedAbi
  BY <1>2, OpenOutOfSession DEF ReceivedAbi, EndSession, SessionGone, nodeosVars
<1>3. CASE StopAtBlock \/ PrevMismatch \/ ConnectionLost \/ Die
  BY <1>3, OpenOutOfSession
     DEF StopAtBlock, PrevMismatch, ConnectionLost, Die, EndSession, SessionGone
<1>4. CASE \E t \in Table : FlushStream(t)
  <2>1. PICK t \in Table : FlushStream(t)
    BY <1>4
  <2>2. /\ UNCHANGED <<begin, wire, next, received_block, fill_status, session, cur>>
        /\ pc = "flush" /\ session = "streaming"
        /\ \/ UNCHANGED <<pc, then>>
           \/ then = "commit" /\ pc' = "commit"
           \/ then # "commit" /\ pc' = "status" /\ then' = then
    BY <2>1 DEF FlushStream, nodeosVars, IInv, StepInv
  <2>3. Pending' \/ Applied' <=> Pending \/ Applied
    BY <2>2 DEF Pending, Applied
  <2> QED
    BY <2>2, <2>3, OpenSame
<1>5. CASE ApplyBlockRows
  <2>1. /\ UNCHANGED <<begin, wire, next, received_block, fill_status, session, cur>>
        /\ session = "streaming" /\ Pending /\ Applied'
    BY <1>5 DEF ApplyBlockRows, dbVars, nodeosVars, Pending, Applied, IInv, StepInv
  <2> QED
    BY <2>1, OpenSame
<1>6. CASE UNCHANGED vars
  <2>1. /\ UNCHANGED <<begin, wire, next, received_block, fill_status, session, cur>>
        /\ UNCHANGED <<Pending, Applied>>
    BY <1>6 DEF vars, nodeosVars, dbVars, stepVars, Pending, Applied
  <2> QED
    BY <2>1, OpenSame
<1> QED
  BY <1>1, <1>2, <1>3, <1>4, <1>5, <1>6, OpenNodeos, OpenReceivedStatus, OpenTake,
     OpenCloseStreams, OpenTrim, OpenCommitBlock
     DEF Next, FillerStep, ProcessBlock, Fault
------------------------------------------------------------------------------
(* No row is missing from the first block on *)

LEMMA OldestNumber ==
  ASSUME NEW S \in SUBSET Block, S # {}
  PROVE  LET n == Min({Num[b] : b \in S})
         IN  n \in Nat /\ (\A b \in S : n <= Num[b]) /\ \E b \in S : n = Num[b]
<1> DEFINE D == {Num[b] : b \in S}
<1>1. D \in SUBSET Nat /\ D # {}
  BY TreeAssumption
<1>2. \A b \in S : Num[b] \in D
  OBVIOUS
<1>3. \A k \in D : \E b \in S : k = Num[b]
  OBVIOUS
<1> HIDE DEF D
<1>4. Min(D) \in D /\ \A k \in D : Min(D) <= k
  BY <1>1, MinInSet
<1>5. /\ Min(D) \in Nat /\ \A b \in S : Min(D) <= Num[b]
      /\ \E b \in S : Min(D) = Num[b]
  BY <1>1, <1>2, <1>3, <1>4
<1> QED
  BY <1>5 DEF D

LEMMA GreatestNumber ==
  ASSUME NEW m \in Nat, NEW S \in SUBSET (0..m), S # {}
  PROVE  \E n \in S : \A k \in S : k <= n
<1> DEFINE D == {m - k : k \in S}
<1>1. D \in SUBSET Nat /\ D # {}
  <2>1. \A k \in S : k \in Nat /\ k <= m
    OBVIOUS
  <2>2. \A k \in S : m - k \in Nat
    BY <2>1
  <2> QED
    BY <2>2
<1>2. PICK d \in D : \A k \in D : d <= k
  BY <1>1, LeastNumber
<1>3. PICK n \in S : d = m - n
  OBVIOUS
<1>4. ASSUME NEW k \in S PROVE k <= n
  <2>1. d <= m - k
    BY <1>2
  <2> QED
    BY <1>3, <2>1
<1> QED
  BY <1>4

\* A step that leaves the status as it is, and what is stored up to its head.
LEMMA CompleteAgrees ==
  ASSUME IInv, BranchInv, CompleteInv, UNCHANGED fill_status,
         FirstServed \in Nat, FirstServed' \in Nat, FirstServed <= FirstServed',
         received_block' \in SUBSET Block,
         \A b \in received_block : Num[b] <= N(fill_status.head_id) => b \in received_block',
         \A b \in received_block' : b \in received_block \/ N(fill_status.head_id) < Num[b],
         \A r \in Stored : Num[r.block] <= N(fill_status.head_id) => r \in Stored',
         \A r \in Stored' : Num[r.block] <= N(fill_status.head_id) => r \in Stored
  PROVE  CompleteInv'
<1> DEFINE h == fill_status.head_id
<1> SUFFICES ASSUME h # NoBlock PROVE CompleteInv'
  BY DEF CompleteInv
<1>1. /\ h \in received_block /\ h \in Block /\ N(h) = Num[h] /\ Num[h] \in Nat
      /\ received_block \in SUBSET Block /\ \A b \in Block : Num[b] \in Nat
      /\ rows \in SUBSET Row /\ table_streams \in SUBSET Row
  BY Facts
<1>2. PICK f \in 0..FirstServed : CompleteFrom(f)
  BY DEF CompleteInv
<1>3. f \in Nat /\ f <= Num[h] /\ \A b \in received_block : f <= Num[b]
  BY <1>1, <1>2 DEF CompleteFrom
<1>4. h \in received_block'
  BY <1>1
<1>5. Lowest \in Nat /\ Lowest <= Num[h] /\ Lowest' \in Nat /\ Lowest <= Lowest'
  <2>1. /\ Lowest = Min({Num[b] : b \in received_block})
        /\ Lowest' = Min({Num[b] : b \in received_block'})
    BY <1>1, <1>4 DEF Lowest
  <2>2. /\ Lowest \in Nat /\ \A b \in received_block : Lowest <= Num[b]
        /\ Lowest' \in Nat /\ \E b \in received_block' : Lowest' = Num[b]
    BY <1>1, <1>4, <2>1, OldestNumber
  <2> QED
    BY <1>1, <2>2
<1>6. ASSUME NEW r, Replaced(r) PROVE Replaced(r)'
  <2>1. PICK q \in Stored : /\ q.table = r.table /\ q.key = r.key
                            /\ Num[r.block] < Num[q.block] /\ Num[q.block] <= Lowest
    BY <1>6 DEF Replaced
  <2>2. Num[q.block] \in Nat
    BY <1>1 DEF Stored, Row
  <2>3. q \in Stored' /\ Num[q.block] <= Lowest'
    BY <1>1, <1>5, <2>1, <2>2
  <2> QED
    BY <2>1, <2>3 DEF Replaced
<1>7. ASSUME NEW b \in received_block' PROVE f <= Num[b]
  BY <1>1, <1>3
<1>8. \E b \in received_block' : Num[b] = f \/ Num[b] <= fill_status.irreversible
  <2>1. PICK b \in received_block : Num[b] = f \/ Num[b] <= fill_status.irreversible
    BY <1>2 DEF CompleteFrom
  <2>2. fill_status.irreversible \in Nat /\ fill_status.irreversible <= Num[h]
    BY <1>1, Facts DEF BranchInv, StatusInv, TypeOK, FillStatus
  <2>3. Num[b] <= Num[h]
    BY <1>1, <1>3, <2>1, <2>2
  <2> QED
    BY <1>1, <2>1, <2>3
<1>9. ASSUME NEW b \in Branch[h], f <= Num[b], NEW r \in RowsOf(b), r.table \notin SimpleTable
      PROVE  r \in Stored' \/ Replaced(r)'
  <2>1. r.block = b /\ Num[b] <= Num[h]
    BY <1>1, BranchBelow DEF RowsOf
  <2> QED
    BY <1>1, <1>2, <1>6, <1>9, <2>1 DEF CompleteFrom
<1>10. CompleteFrom(f)'
  BY <1>2, <1>7, <1>8, <1>9 DEF CompleteFrom, RowsOf
<1> QED
  BY <1>2, <1>3, <1>10 DEF CompleteInv

LEMMA CompleteSame ==
  ASSUME IInv, BranchInv, CompleteInv, UNCHANGED <<received_block, fill_status>>,
         Stored' = Stored,
         FirstServed \in Nat, FirstServed' \in Nat, FirstServed <= FirstServed'
  PROVE  CompleteInv'
BY Facts, CompleteAgrees

\* The session is lost when the streams hold no row the status covers.
LEMMA CompleteDropped ==
  ASSUME IInv, RowInv, BranchInv, ContentInv, CompleteInv, UNCHANGED <<received_block, rows, fill_status>>,
         FilledToHead, pc' = "idle", table_streams' = {},
         FirstServed \in Nat, FirstServed' = FirstServed
  PROVE  CompleteInv'
<1> DEFINE h == fill_status.head_id
<1> SUFFICES ASSUME h # NoBlock PROVE CompleteInv'
  BY DEF CompleteInv
<1>1. /\ h \in received_block /\ h \in Block /\ N(h) = Num[h] /\ Num[h] \in Nat
      /\ received_block \in SUBSET Block
      /\ \A r \in table_streams : Num[r.block] \in Nat
  BY Facts, TreeAssumption DEF Row
<1>2. Stored' = rows /\ rows \subseteq Stored
  BY DEF Stored
<1>3. ASSUME NEW r \in Stored, Num[r.block] <= N(h) PROVE r \in rows
  <2> SUFFICES ASSUME r \notin rows PROVE FALSE
    OBVIOUS
  <2>1. r \in table_streams /\ ~(Applied /\ cur.forks)
    BY <1>3 DEF Stored, Applied, IInv, StepInv, FlushFirst
  <2>2. r.block = h
    BY <1>1, <1>3, <2>1 DEF RowInv, StreamsInv
  <2>3. r \in RowsOf(h) /\ h \in Covered
    BY <1>1, <2>1, <2>2 DEF ContentInv, Covered, Below
  <2> QED
    BY <2>3 DEF FilledToHead
<1> QED
  BY <1>1, <1>2, <1>3, CompleteAgrees

LEMMA CompleteReceivedStatus ==
  ASSUME IInv, BranchInv, CompleteInv, ReceivedStatus, FirstServed \in Nat,
         FirstServed' = FirstServed
  PROVE  CompleteInv'
<1> DEFINE n == N(fill_status.head_id) + 1
<1>1. /\ session = "querying" /\ pc = "idle" /\ pc' = "idle" /\ table_streams = {}
      /\ table_streams' = {} /\ UNCHANGED fill_status
  BY DEF ReceivedStatus, IInv, StepInv, EndSession, stepVars, dbVars
<1>2. Stored = rows /\ Stored' = rows'
  BY <1>1 DEF Stored
<1>3. CASE ~schema
  BY <1>1, <1>2, <1>3, CompleteSame DEF ReceivedStatus, dbVars
<1>4. CASE schema
  <2>1. /\ received_block' = {b \in received_block : Num[b] < n}
        /\ rows' = {r \in rows : Num[r.block] < n}
    BY <1>4 DEF ReceivedStatus, TruncatedReceived, TruncatedRows, Below
  <2>2. /\ N(fill_status.head_id) \in Nat /\ received_block \in SUBSET Block
        /\ \A b \in received_block : Num[b] \in Nat
        /\ \A r \in rows : Num[r.block] \in Nat
    BY Facts, TreeAssumption DEF Row
  <2> QED
    BY <1>1, <1>2, <2>1, <2>2, CompleteAgrees
<1> QED
  BY <1>3, <1>4

LEMMA CompleteFlushStream ==
  ASSUME IInv, BranchInv, CompleteInv, FirstServed \in Nat, FirstServed' = FirstServed,
         NEW t \in Table, FlushStream(t)
  PROVE  CompleteInv'
<1>1. /\ pc = "flush" /\ UNCHANGED <<received_block, fill_status, cur>>
      /\ rows' = rows \cup {r \in table_streams : r.table = t}
      /\ table_streams' = table_streams \ {r \in table_streams : r.table = t}
      /\ pc' = "commit" => then = "commit"
  BY DEF FlushStream
<1>2. ~(pc' = "commit" /\ cur.forks)
  BY <1>1 DEF IInv, StepInv, FlushFirst
<1>3. Stored' = Stored
  BY <1>1, <1>2 DEF Stored
<1> QED
  BY <1>1, <1>3, CompleteSame

\* The block at hand is newer than the status's head; a fork switch is not seen yet.
LEMMA CompleteApplyBlock ==
  ASSUME IInv, RowInv, BranchInv, CompleteInv, ApplyBlockRows,
         FirstServed \in Nat, FirstServed' = FirstServed
  PROVE  CompleteInv'
<1>1. /\ pc = "apply" /\ session = "streaming" /\ UNCHANGED <<received_block, rows, fill_status, cur>>
      /\ table_streams' = table_streams \cup RowsOf(cur.this_block)
      /\ pc' = IF FlushFirst THEN "flush" ELSE "commit"
  BY DEF ApplyBlockRows, dbVars, IInv, StepInv
<1>2. CASE cur.forks
  <2>1. table_streams = {} /\ pc' = "commit"
    BY <1>1, <1>2 DEF RowInv, StreamsInv, FlushFirst
  <2>2. Stored' = Stored
    BY <1>1, <1>2, <2>1 DEF Stored
  <2> QED
    BY <1>1, <2>2, CompleteSame
<1>3. CASE ~cur.forks
  <2>1. Stored = rows \cup table_streams /\ Stored' = Stored \cup RowsOf(cur.this_block)
    BY <1>1, <1>3 DEF Stored
  <2>2. ~Applied /\ head < Num[cur.this_block] /\ cur.this_block \in Block
    BY <1>1, <1>3 DEF Applied, Pending, RowInv, DecisionInv, IInv, StepInv
  <2>3. N(fill_status.head_id) <= head
    <3>1. CASE fill_status.head_id = NoBlock
      BY <3>1, Facts DEF N
    <3>2. CASE fill_status.head_id # NoBlock
      BY <1>1, <2>2, <3>2, Facts
    <3> QED
      BY <3>1, <3>2
  <2>4. \A r \in RowsOf(cur.this_block) : ~(Num[r.block] <= N(fill_status.head_id))
    BY <2>2, <2>3, Facts DEF RowsOf
  <2>5. received_block' \in SUBSET Block
    BY <1>1, Facts
  <2> QED
    BY <1>1, <2>1, <2>4, <2>5, CompleteAgrees
<1> QED
  BY <1>2, <1>3

\* A status that names a newer head of the same history: up to the old head the rows were
\* there before, and from it on its blocks' rows are.
LEMMA CompleteAdvance ==
  ASSUME IInv, BranchInv, KeptInv, CompleteInv, FirstServed \in Nat, FirstServed' = FirstServed,
         NEW R \in SUBSET Block, received_block' = R, received_block \subseteq R, IsStretch(R),
         \A b \in R \ received_block : \A c \in received_block : Num[c] < Num[b],
         NEW h \in R, fill_status'.head_id = h, \A b \in R : Num[b] <= Num[h],
         fill_status'.irreversible \in Nat,
         fill_status.irreversible <= fill_status'.irreversible,
         Stored = rows, Stored' = rows, \A b \in R : RowsOf(b) \subseteq rows,
         \A r \in rows : r.block \in R \/ Old(r),
         \E b \in R : fill_status.head_id = NoBlock => Num[b] <= FirstServed
  PROVE  CompleteInv'
<1>1. /\ \A b \in Block : Num[b] \in Nat \ {0} /\ Num[b] \in Nat /\ b # NoBlock
      /\ h \in Block /\ N(h) = Num[h] /\ rows \in SUBSET Row
      /\ received_block \in SUBSET Block
      /\ fill_status.irreversible \in Nat
      /\ fill_status.irreversible <= N(fill_status.head_id)
  BY Facts, TreeAssumption DEF N, BranchInv, StatusInv, TypeOK, FillStatus
<1>2. \A b \in R : b \in Branch[h]
  BY StretchOnBranch
<1>3. ASSUME NEW b \in Branch[h], NEW g \in R, Num[g] <= Num[b] PROVE b \in R
  <2>1. b \in Block /\ Num[b] <= Num[h]
    BY <1>1, BranchBelow
  <2>2. Num[b] \in Num[g]..Num[h]
    BY <1>1, <1>3, <2>1
  <2>3. PICK d \in R : Num[d] = Num[b]
    BY <2>2 DEF IsStretch
  <2> QED
    BY <1>1, <1>2, <2>1, <2>3, BranchOnce
<1>4. CASE fill_status.head_id = NoBlock
  <2> DEFINE f == Min({Num[b] : b \in R})
  <2>1. f \in Nat /\ (\A b \in R : f <= Num[b]) /\ \E b \in R : Num[b] = f
    BY OldestNumber
  <2> HIDE DEF f
  <2>2. f \in 0..FirstServed
    <3>1. PICK b \in R : Num[b] <= FirstServed
      BY <1>4
    <3>2. f <= Num[b] /\ Num[b] \in Nat
      BY <1>1, <2>1
    <3> QED
      BY <2>1, <3>1, <3>2
  <2>3. ASSUME NEW r \in rows PROVE r.block \in R
    <3>1. fill_status.irreversible <= 0
      BY <1>1, <1>4 DEF N
    <3>2. ~Old(r)
      BY <1>1, <3>1 DEF KeptInv
    <3> QED
      BY <3>2
  <2>4. ASSUME NEW b \in Branch[h], f <= Num[b] PROVE RowsOf(b) \subseteq rows
    BY <1>3, <2>1, <2>4
  <2>5. CompleteFrom(f)'
    BY <2>1, <2>3, <2>4 DEF CompleteFrom, RowsOf
  <2> QED
    BY <2>2, <2>5 DEF CompleteInv
<1>5. CASE fill_status.head_id # NoBlock
  <2> DEFINE g == fill_status.head_id
  <2>1. PICK f \in 0..FirstServed : CompleteFrom(f)
    BY <1>5 DEF CompleteInv
  <2>2. /\ g \in received_block /\ g \in R /\ g \in Block /\ N(g) = Num[g]
        /\ f \in Nat /\ f <= Num[g] /\ \A b \in received_block : f <= Num[b]
    BY <1>1, <1>5, <2>1, Facts DEF CompleteFrom
  <2>3. Lowest <= Lowest' /\ Lowest \in Nat /\ Lowest' \in Nat
    <3>1. received_block # {} /\ R # {}
      BY <2>2
    <3>2. Lowest = Min({Num[b] : b \in received_block}) /\ Lowest' = Min({Num[b] : b \in R})
      BY <3>1 DEF Lowest
    <3>3. /\ Lowest \in Nat /\ \A b \in received_block : Lowest <= Num[b]
          /\ Lowest' \in Nat /\ \E b \in R : Lowest' = Num[b]
      BY <1>1, <3>1, <3>2, OldestNumber
    <3>4. PICK b \in R : Lowest' = Num[b]
      BY <3>3
    <3>5. CASE b \in received_block
      BY <3>3, <3>4, <3>5
    <3>6. CASE b \notin received_block
      <4>1. Num[g] < Num[b] /\ Lowest <= Num[g]
        BY <2>2, <3>3, <3>6
      <4> QED
        BY <1>1, <2>2, <3>3, <3>4, <4>1
    <3> QED
      BY <3>3, <3>5, <3>6
  <2>4. \A r : Replaced(r) => Replaced(r)'
    <3>1. ASSUME NEW q \in rows, Num[q.block] <= Lowest PROVE Num[q.block] <= Lowest'
      <4>1. Num[q.block] \in Nat
        BY <1>1 DEF Row
      <4> QED
        BY <2>3, <3>1, <4>1
    <3> QED
      BY <3>1 DEF Replaced
  <2>5. ASSUME NEW b \in R PROVE f <= Num[b]
    <3>1. CASE b \in received_block
      BY <2>2, <3>1
    <3>2. CASE b \notin received_block
      BY <1>1, <2>2, <3>2
    <3> QED
      BY <3>1, <3>2
  <2>6. \E b \in R : Num[b] = f \/ Num[b] <= fill_status'.irreversible
    BY <1>1, <2>1 DEF CompleteFrom
  <2>7. ASSUME NEW r \in rows PROVE f <= Num[r.block]
    <3>1. Num[r.block] \in Nat
      BY <1>1 DEF Row
    <3>2. CASE Num[r.block] <= Num[g]
      BY <2>1, <2>2, <3>2 DEF CompleteFrom
    <3> QED
      BY <1>1, <2>2, <3>1, <3>2
  <2>8. ASSUME NEW b \in Branch[h], f <= Num[b], NEW r \in RowsOf(b), r.table \notin SimpleTable
        PROVE  r \in rows \/ Replaced(r)'
    <3>1. b \in Block /\ Num[b] \in Nat /\ Num[g] \in Nat
      BY <1>1, <2>2, BranchBelow
    <3>2. CASE Num[b] <= Num[g]
      <4>1. g \in Branch[h]
        BY <1>2, <2>2
      <4>2. b \in Branch[g]
        BY <1>1, <3>2, <4>1, BranchLine
      <4>3. r \in rows \/ Replaced(r)
        BY <2>1, <2>8, <4>2 DEF CompleteFrom
      <4> QED
        BY <2>4, <4>3
    <3>3. CASE Num[g] <= Num[b]
      BY <1>3, <2>2, <2>8, <3>3
    <3> QED
      BY <3>1, <3>2, <3>3
  <2>9. CompleteFrom(f)'
    BY <2>5, <2>6, <2>7, <2>8 DEF CompleteFrom, RowsOf
  <2> QED
    BY <2>1, <2>9 DEF CompleteInv
<1> QED
  BY <1>4, <1>5

LEMMA CompleteCloseStreams ==
  ASSUME IInv, IInv', RowInv, BranchInv, KeptInv, HeldInv, OpenInv, CompleteInv, CloseStreams,
         FirstServed \in Nat, FirstServed' = FirstServed
  PROVE  CompleteInv'
<1>1. /\ pc = "status" /\ session = "streaming" /\ table_streams = {} /\ ~Applied
      /\ fill_status' = StatusToWrite /\ UNCHANGED <<received_block, rows>>
      /\ table_streams' = {} /\ pc' # "commit"
  BY DEF CloseStreams, IInv, StepInv, Applied, EndSession, AfterClose, memVars
<1>2. /\ After = received_block /\ TipIs(received_block, head_id)
      /\ received_block \in SUBSET Block /\ IsStretch(received_block)
      /\ rows \in SUBSET Row
  BY <1>1, Facts DEF IInv, HistoryInv
<1> SUFFICES ASSUME head_id # NoBlock PROVE CompleteInv'
  BY <1>1 DEF CompleteInv, StatusToWrite
<1>3. head_id \in received_block /\ \A b \in received_block : Num[b] <= Num[head_id]
  BY <1>2 DEF TipIs
<1>4. \A b \in received_block : RowsOf(b) \subseteq rows
  BY <1>1 DEF HeldInv
<1>5. \A r \in rows : r.block \in received_block \/ Old(r)
  BY <1>1 DEF RowInv, RowsInv, Landed, Old
<1>6. \E b \in received_block : fill_status.head_id = NoBlock => Num[b] <= FirstServed
  BY <1>1, <1>3 DEF OpenInv
<1>7. Stored = rows /\ Stored' = rows
  BY <1>1 DEF Stored
<1>8. /\ fill_status'.head_id = head_id /\ fill_status'.irreversible = EndTrim
      /\ EndTrim \in Nat /\ fill_status.irreversible <= EndTrim
  BY <1>1, LineTypes DEF StatusToWrite, BranchInv, StatusInv
<1> QED
  BY <1>1, <1>2, <1>3, <1>4, <1>5, <1>6, <1>7, <1>8, CompleteAdvance

LEMMA CompleteCommitBlock ==
  ASSUME IInv, IInv', RowInv, BranchInv, KeptInv, HeldInv, OpenInv, CompleteInv,
         CommitBlock, ~cur.forks, FirstServed \in Nat, FirstServed' = FirstServed
  PROVE  CompleteInv'
<1> DEFINE c == cur.this_block
           R == received_block \cup {c}
<1>1. /\ pc = "commit" /\ session = "streaming" /\ Applied /\ c \in Block /\ head_id = c
      /\ received_block' = R /\ UNCHANGED <<rows, table_streams>>
      /\ After = R /\ IsStretch(R) /\ TipIs(R, head_id) /\ pc' # "commit"
  BY DEF CommitBlock, IInv, StepInv, Applied, Received, After, HistoryInv, memVars
<1>2. /\ received_block \in SUBSET Block /\ \A b \in Block : Num[b] \in Nat
      /\ \A b \in received_block : N(fill_status.head_id) \in Nat
  BY Facts
<1>3. \A b \in received_block : Num[b] < Num[c]
  BY <1>1 DEF RowInv, DecisionInv
<1>4. CASE cur.bulk
  <2>1. fill_status' = fill_status
    BY <1>4 DEF CommitBlock, StatusCommitted
  <2>2. Stored' = Stored
    BY <1>1 DEF Stored
  <2>3. CASE fill_status.head_id = NoBlock
    BY <2>1, <2>3 DEF CompleteInv
  <2>4. CASE fill_status.head_id # NoBlock
    <3>1. N(fill_status.head_id) < Num[c]
      BY <1>3, <2>4, Facts
    <3> QED
      BY <1>1, <1>2, <2>1, <2>2, <3>1, CompleteAgrees
  <2> QED
    BY <2>3, <2>4
<1>5. CASE ~cur.bulk
  <2>1. fill_status'.head_id = c /\ fill_status'.irreversible = EndTrim
    BY <1>1, <1>5 DEF CommitBlock, StatusCommitted, StatusToWrite
  <2>2. table_streams = {}
    BY <1>1, <1>5 DEF RowInv, StreamsInv, FlushFirst
  <2>3. \A b \in R : RowsOf(b) \subseteq rows
    BY <1>1, <2>2 DEF HeldInv
  <2>4. \A r \in rows : r.block \in R \/ Old(r)
    BY <1>1 DEF RowInv, RowsInv, Landed, Old
  <2>5. \E b \in R : fill_status.head_id = NoBlock => Num[b] <= FirstServed
    BY <1>1 DEF OpenInv
  <2>6. R \in SUBSET Block /\ c \in R /\ \A b \in R : Num[b] <= Num[c]
    BY <1>1, <1>2, <1>3
  <2>7. Stored = rows /\ Stored' = rows
    BY <1>1, <2>2 DEF Stored
  <2>8. EndTrim \in Nat /\ fill_status.irreversible <= EndTrim
    BY <1>1, LineTypes DEF BranchInv, StatusInv
  <2> QED
    BY <1>1, <1>3, <2>1, <2>3, <2>4, <2>5, <2>6, <2>7, <2>8, CompleteAdvance
<1> QED
  BY <1>4, <1>5
\* A fork switch: the history falls back to the block before the new one, or, if it has no
\* older block, begins anew with the new one; that only happens above all that is irreversible.
LEMMA CompleteSwitch ==
  ASSUME IInv, RowInv, BranchInv, KeptInv, HeldInv, OpenInv, CompleteInv,
         CommitBlock, cur.forks, FirstServed \in Nat, FirstServed' = FirstServed
  PROVE  CompleteInv'
<1> DEFINE c == cur.this_block
           n == Num[c]
           B == {b \in received_block : Num[b] < n}
           R == B \cup {c}
           g == fill_status.head_id
<1>1. /\ pc = "commit" /\ session = "streaming" /\ Applied /\ c \in Block /\ head_id = c
      /\ received_block' = R /\ rows' = {r \in rows : Num[r.block] < n}
      /\ table_streams' = table_streams /\ After = R /\ IsStretch(R) /\ pc' # "commit"
      /\ fill_status'.head_id = c /\ fill_status'.irreversible = EndTrim
  BY DEF CommitBlock, IInv, StepInv, Applied, Received, TruncatedReceived, Below, TruncatedRows,
     After, HistoryInv, memVars, StatusCommitted, StatusToWrite
<1>2. /\ received_block \in SUBSET Block /\ rows \in SUBSET Row /\ R \in SUBSET Block
      /\ \A b \in Block : Num[b] \in Nat \ {0} /\ Num[b] \in Nat /\ b # NoBlock /\ N(b) = Num[b]
      /\ n \in Nat /\ \A r \in rows : Num[r.block] \in Nat
      /\ g # NoBlock => g \in received_block
  BY <1>1, Facts, TreeAssumption DEF N, Row
<1>3. /\ fill_status.irreversible \in Nat /\ fill_status.irreversible < n
      /\ EndTrim \in Nat /\ fill_status.irreversible <= EndTrim
      /\ fill_status.irreversible <= N(g)
  BY <1>1, LineTypes, Facts DEF BranchInv, StatusInv, TypeOK, FillStatus
<1>4. Stored = rows /\ Stored' = rows' \cup RowsOf(c)
  BY <1>1 DEF Stored, RowInv, StreamsInv
<1>5. \A r \in rows : r.block \in received_block \/ Old(r)
  BY <1>1 DEF RowInv, RowsInv, Landed, Old
<1>6. \A r \in RowsOf(c) : r.block = c
  BY DEF RowsOf
<1>7. ASSUME NEW b \in B PROVE RowsOf(b) \subseteq rows'
  <2>1. table_streams = RowsOf(c)
    BY <1>1 DEF RowInv, StreamsInv
  <2>2. \A r \in RowsOf(b) : r.block = b /\ Num[b] < n
    BY DEF RowsOf
  <2>3. RowsOf(b) \subseteq rows \cup RowsOf(c)
    BY <1>1, <2>1 DEF HeldInv
  <2> QED
    BY <1>1, <1>2, <1>6, <2>2, <2>3
<1>8. \A b \in R : b \in Branch[c]
  <2>1. \A b \in R : Num[b] <= Num[c]
    BY <1>2
  <2> QED
    BY <1>1, <1>2, <2>1, StretchOnBranch
<1>9. ASSUME NEW b \in Branch[c], NEW x \in R, Num[x] <= Num[b] PROVE b \in R
  <2>1. b \in Block /\ Num[b] <= Num[c]
    BY <1>1, BranchBelow
  <2>2. Num[b] \in Num[x]..Num[c]
    BY <1>2, <1>9, <2>1
  <2>3. PICK d \in R : Num[d] = Num[b]
    BY <1>1, <2>2 DEF IsStretch
  <2> QED
    BY <1>1, <1>8, <2>1, <2>3, BranchOnce
<1>10. ASSUME NEW b \in R PROVE RowsOf(b) \subseteq Stored'
  BY <1>4, <1>7
<1>11. ASSUME fill_status.head_id = NoBlock \/ B = {}, NEW r \in rows, Num[r.block] < n
       PROVE  r.block \in B
  <2> SUFFICES ASSUME Old(r) PROVE FALSE
    BY <1>5, <1>11
  <2>1. PICK b \in received_block : Num[b] <= fill_status.irreversible
    BY DEF KeptInv
  <2>2. b \in B
    BY <1>2, <1>3, <2>1
  <2>3. fill_status.head_id = NoBlock
    BY <1>11, <2>2
  <2>4. fill_status.irreversible <= 0
    BY <1>3, <2>3 DEF N
  <2> QED
    BY <1>2, <1>3, <2>1, <2>4
<1> HIDE DEF B, R
<1>12. B \subseteq R /\ c \in R /\ \A b \in R : b \in B \/ b = c
  BY DEF R
<1>13. \A b \in B : b \in received_block /\ b \in Block /\ Num[b] < n /\ Num[b] \in Nat
  BY <1>2 DEF B
<1>14. \A b \in received_block : Num[b] < n => b \in B
  BY DEF B
<1>15. CASE g = NoBlock \/ B = {}
  <2>1. PICK f \in Nat : (\A b \in R : f <= Num[b]) /\ \E b \in R : Num[b] = f
    <3>1. /\ Min({Num[b] : b \in R}) \in Nat /\ \A b \in R : Min({Num[a] : a \in R}) <= Num[b]
          /\ \E b \in R : Num[b] = Min({Num[a] : a \in R})
      BY <1>2, <1>12, OldestNumber
    <3> QED
      BY <3>1
  <2>2. f <= FirstServed
    <3>1. CASE g = NoBlock
      <4>1. CASE received_block = {}
        BY <1>1, <1>2, <1>12, <2>1, <3>1, <4>1 DEF OpenInv
      <4>2. CASE received_block # {}
        <5>1. PICK b \in received_block : Num[b] <= FirstServed
          BY <1>1, <3>1, <4>2 DEF OpenInv
        <5>2. f <= Num[b]
          <6>1. CASE Num[b] < n
            BY <1>12, <1>14, <2>1, <6>1
          <6>2. CASE ~(Num[b] < n)
            BY <1>2, <1>12, <2>1, <6>2
          <6> QED
            BY <6>1, <6>2
        <5> QED
          BY <1>2, <2>1, <5>1, <5>2
      <4> QED
        BY <4>1, <4>2
    <3>2. CASE g # NoBlock /\ B = {}
      <4>1. PICK k \in 0..FirstServed : CompleteFrom(k)
        BY <3>2 DEF CompleteInv
      <4>2. PICK b \in received_block : Num[b] = k \/ Num[b] <= fill_status.irreversible
        BY <4>1 DEF CompleteFrom
      <4>3. ~(Num[b] < n)
        BY <1>14, <3>2
      <4>4. Num[b] = k /\ n <= k
        BY <1>2, <1>3, <4>2, <4>3
      <4>5. f <= n
        BY <1>12, <2>1
      <4> QED
        BY <1>2, <2>1, <4>4, <4>5
    <3> QED
      BY <1>15, <3>1, <3>2
  <2>3. ASSUME NEW r \in Stored' PROVE f <= Num[r.block]
    <3>1. CASE r \in RowsOf(c)
      BY <1>6, <1>12, <2>1, <3>1
    <3>2. CASE r \in rows'
      BY <1>1, <1>11, <1>12, <1>15, <2>1, <3>2
    <3> QED
      BY <1>4, <3>1, <3>2
  <2>4. ASSUME NEW b \in Branch[c], f <= Num[b] PROVE RowsOf(b) \subseteq Stored'
    BY <1>9, <1>10, <2>1, <2>4
  <2>5. \A b \in Branch[c] : f <= Num[b] =>
          \A r \in RowsOf(b) : r.table \notin SimpleTable => r \in Stored' \/ Replaced(r)'
    BY <2>4
  <2>6. \E b \in R : Num[b] = f \/ Num[b] <= EndTrim
    BY <2>1
  <2>7. CompleteFrom(f)'
    BY <1>1, <2>1, <2>3, <2>5, <2>6 DEF CompleteFrom, RowsOf
  <2>8. f \in 0..FirstServed'
    BY <2>1, <2>2
  <2> QED
    BY <2>7, <2>8 DEF CompleteInv
<1>16. CASE g # NoBlock /\ B # {}
  <2>1. PICK f \in 0..FirstServed : CompleteFrom(f)
    BY <1>16 DEF CompleteInv
  <2>2. f \in Nat /\ \A b \in received_block : f <= Num[b]
    BY <2>1 DEF CompleteFrom
  <2>3. /\ Lowest = Min({Num[b] : b \in received_block})
        /\ Lowest' = Min({Num[b] : b \in R})
    BY <1>1, <1>12, <1>16, <1>2 DEF Lowest
  <2>4. /\ Lowest \in Nat /\ \A b \in received_block : Lowest <= Num[b]
        /\ \E b \in received_block : Lowest = Num[b]
        /\ Lowest' \in Nat /\ \E b \in R : Lowest' = Num[b]
    BY <1>2, <1>12, <1>16, <2>3, OldestNumber
  <2>5. PICK x \in received_block : Lowest = Num[x]
    BY <2>4
  <2>6. PICK y \in B : TRUE
    BY <1>16
  <2>7. x \in B /\ Num[x] < n /\ Num[x] \in Nat /\ f < n
    <3>1. Num[x] <= Num[y]
      BY <1>13, <2>4, <2>5
    <3>2. Num[x] < n /\ Num[x] \in Nat
      BY <1>2, <1>13, <2>4, <2>5, <3>1
    <3>3. f <= Num[x]
      BY <2>2
    <3> QED
      BY <1>2, <1>14, <2>2, <3>2, <3>3
  <2>8. Lowest <= Lowest'
    BY <1>2, <1>12, <1>13, <2>4, <2>5, <2>7
  <2>9. ASSUME NEW b \in R PROVE f <= Num[b]
    BY <1>2, <1>12, <1>13, <2>2, <2>7, <2>9
  <2>10. \E b \in R : Num[b] = f \/ Num[b] <= EndTrim
    <3>1. PICK b \in received_block : Num[b] = f \/ Num[b] <= fill_status.irreversible
      BY <2>1 DEF CompleteFrom
    <3>2. Num[b] < n /\ Num[b] \in Nat
      BY <1>2, <1>3, <2>7, <3>1
    <3> QED
      BY <1>2, <1>3, <1>12, <1>14, <3>1, <3>2
  <2>11. ASSUME NEW r \in Stored' PROVE f <= Num[r.block]
    <3>1. CASE r \in RowsOf(c)
      BY <1>2, <1>6, <2>2, <2>7, <3>1
    <3>2. CASE r \in rows' /\ r.block \in received_block
      BY <2>2, <3>2
    <3>3. CASE r \in rows' /\ Old(r)
      <4>1. r \in rows /\ Num[r.block] < Num[g] /\ N(g) = Num[g] /\ Num[g] \in Nat
        BY <1>1, <1>2, <1>16, <3>3 DEF Old
      <4> QED
        BY <1>2, <1>4, <2>1, <4>1 DEF CompleteFrom
    <3> QED
      BY <1>1, <1>4, <1>5, <3>1, <3>2, <3>3
  <2>12. ASSUME NEW r, Replaced(r) PROVE Replaced(r)'
    <3>1. PICK q \in rows : /\ q.table = r.table /\ q.key = r.key
                            /\ Num[r.block] < Num[q.block] /\ Num[q.block] <= Lowest
      BY <1>4, <2>12 DEF Replaced
    <3>2. Num[q.block] \in Nat
      BY <1>2
    <3>3. Num[q.block] < n /\ Num[q.block] <= Lowest'
      BY <1>2, <2>4, <2>5, <2>7, <2>8, <3>1, <3>2
    <3>4. q \in Stored'
      BY <1>1, <1>4, <3>3
    <3> QED
      BY <3>1, <3>3, <3>4 DEF Replaced
  <2>13. ASSUME NEW b \in Branch[c], f <= Num[b], NEW r \in RowsOf(b), r.table \notin SimpleTable
         PROVE  r \in Stored' \/ Replaced(r)'
    <3>1. b \in Block /\ Num[b] \in Nat
      BY <1>1, <1>2, BranchBelow
    <3>2. CASE Num[x] <= Num[b]
      BY <1>9, <1>10, <1>12, <2>7, <2>13, <3>2
    <3>3. CASE Num[b] <= Num[x] /\ Num[b] # Num[x]
      <4>1. b \in Branch[x]
        BY <1>1, <1>8, <1>12, <2>7, <3>3, BranchLine
      <4>2. g \in received_block /\ g \in Block /\ Num[x] <= Num[g]
        BY <1>2, <1>16, <2>4, <2>5
      <4>3. x \in Branch[g]
        BY <1>2, <4>2, StretchOnBranch DEF IInv, HistoryInv
      <4>4. b \in Branch[g]
        BY <4>1, <4>2, <4>3, BranchTransitive
      <4>5. r \in rows \/ Replaced(r)
        BY <1>4, <2>1, <2>13, <4>4 DEF CompleteFrom
      <4>6. r.block = b /\ Num[b] < n
        BY <1>2, <2>7, <3>1, <3>3 DEF RowsOf
      <4> QED
        BY <1>1, <1>4, <2>12, <4>5, <4>6
    <3> QED
      BY <2>7, <3>1, <3>2, <3>3
  <2>14. CompleteFrom(f)'
    BY <1>1, <2>9, <2>10, <2>11, <2>13 DEF CompleteFrom, RowsOf
  <2> QED
    BY <2>1, <2>14 DEF CompleteInv
<1> QED
  BY <1>15, <1>16
\* A row that trimming takes has a newer one of its key, and the newest of those stays.
LEMMA CompleteTrim ==
  ASSUME IInv, BranchInv, CompleteInv, Trim, FirstServed \in Nat, FirstServed' = FirstServed
  PROVE  CompleteInv'
<1> DEFINE h == fill_status.head_id
<1>1. /\ session = "streaming" /\ pc = "trim" /\ table_streams = {} /\ first < EndTrim
      /\ UNCHANGED fill_status /\ h = head_id
      /\ received_block' = {b \in received_block : ~InTrim(Num[b])}
      /\ rows' \subseteq rows
      /\ \A r \in rows : r.table \notin SimpleTable /\ ~Superseded(r) => r \in rows'
  BY DEF Trim, IInv, StepInv, HistoryInv
<1>2. /\ EndTrim <= head /\ EndTrim \in Nat /\ first \in Nat /\ head \in Nat
      /\ received_block \in SUBSET Block /\ rows \in SUBSET Row
      /\ \A b \in Block : Num[b] \in Nat
  BY LineTypes, Facts DEF IInv, TypeOK
<1>3. h # NoBlock /\ h \in received_block /\ h \in Block /\ head = Num[h]
  BY <1>1, <1>2, Facts DEF head, N
<1>4. ASSUME NEW b \in received_block PROVE b \in received_block' <=> EndTrim <= Num[b]
  <2>1. first <= Num[b]
    BY <1>1, Facts DEF Applied, IInv, FirstInv
  <2> QED
    BY <1>1, <1>2, <2>1 DEF InTrim
<1>5. h \in received_block' /\ received_block' \in SUBSET Block
      /\ received_block' \subseteq received_block
  BY <1>1, <1>2, <1>3, <1>4
<1>6. EndTrim <= Lowest' /\ Lowest <= Lowest' /\ Lowest \in Nat /\ Lowest' \in Nat
  <2>1. /\ Lowest = Min({Num[b] : b \in received_block})
        /\ Lowest' = Min({Num[b] : b \in received_block'})
    BY <1>3, <1>5 DEF Lowest
  <2>2. /\ Lowest \in Nat /\ \A b \in received_block : Lowest <= Num[b]
        /\ Lowest' \in Nat /\ \E b \in received_block' : Lowest' = Num[b]
    BY <1>2, <1>3, <1>5, <2>1, OldestNumber
  <2> QED
    BY <1>4, <1>5, <2>2
<1>7. ASSUME NEW r \in rows, r.table \notin SimpleTable, r \notin rows'
      PROVE  \E q \in rows' : /\ q.table = r.table /\ q.key = r.key
                              /\ Num[r.block] < Num[q.block] /\ Num[q.block] <= EndTrim
  <2> DEFINE Q == {q \in rows : /\ q.table = r.table /\ q.key = r.key
                                /\ Num[q.block] \in (first + 1)..EndTrim}
             D == {Num[q.block] : q \in Q}
  <2>1. PICK s \in Q : Num[r.block] < Num[s.block]
    BY <1>1, <1>7 DEF Superseded
  <2>2. D \in SUBSET (0..EndTrim) /\ D # {}
    BY <1>2
  <2>3. PICK n \in D : \A k \in D : k <= n
    BY <1>2, <2>2, GreatestNumber
  <2>4. PICK q \in Q : n = Num[q.block]
    OBVIOUS
  <2>5. \A x \in Q : Num[x.block] <= Num[q.block]
    BY <2>3, <2>4
  <2>6. \A x \in rows : Num[x.block] \in Nat
    BY <1>2 DEF Row
  <2>7. ~Superseded(q)
    <3>1. SUFFICES ASSUME NEW x \in rows, x.table = q.table, x.key = q.key,
                          Num[x.block] \in (first + 1)..EndTrim
                   PROVE  ~(Num[q.block] < Num[x.block])
      BY DEF Superseded
    <3>2. x \in Q
      BY <3>1
    <3> QED
      BY <2>5, <2>6, <3>1, <3>2
  <2>8. q \in rows' /\ q.table = r.table /\ q.key = r.key /\ Num[q.block] <= EndTrim
    BY <1>1, <1>2, <1>7, <2>7
  <2>9. Num[r.block] < Num[q.block]
    BY <2>1, <2>5, <2>6
  <2> QED
    BY <2>8, <2>9
<1>8. PICK f \in 0..FirstServed : CompleteFrom(f)
  BY <1>3 DEF CompleteInv
<1>9. Stored = rows /\ Stored' = rows'
  BY <1>1 DEF Trim, Stored
<1>10. /\ fill_status.irreversible = EndTrim
       /\ f \in Nat /\ \A b \in received_block : f <= Num[b]
  BY <1>1, <1>8 DEF BranchInv, StatusInv, CompleteFrom
<1>11. \E b \in received_block' : Num[b] = f \/ Num[b] <= EndTrim
  <2>1. PICK x \in received_block : Num[x] = f \/ Num[x] <= EndTrim
    BY <1>8, <1>10 DEF CompleteFrom
  <2>2. CASE EndTrim <= Num[x]
    BY <1>4, <2>1, <2>2
  <2>3. CASE ~(EndTrim <= Num[x])
    <3>1. EndTrim \in Num[x]..Num[h]
      BY <1>2, <1>3, <2>3
    <3>2. PICK d \in received_block : Num[d] = EndTrim
      BY <1>3, <3>1, Facts DEF IInv, HistoryInv, IsStretch
    <3> QED
      BY <1>2, <1>4, <3>2
  <2> QED
    BY <2>2, <2>3
<1>12. ASSUME NEW r \in rows, r.table \notin SimpleTable PROVE r \in rows' \/ Replaced(r)'
  <2>1. SUFFICES ASSUME r \notin rows' PROVE Replaced(r)'
    OBVIOUS
  <2>2. PICK q \in rows' : /\ q.table = r.table /\ q.key = r.key
                           /\ Num[r.block] < Num[q.block] /\ Num[q.block] <= EndTrim
    BY <1>7, <1>12, <2>1
  <2>3. Num[q.block] \in Nat
    BY <1>1, <1>2 DEF Row
  <2>4. Num[q.block] <= Lowest'
    BY <1>2, <1>6, <2>2, <2>3
  <2> QED
    BY <1>9, <2>2, <2>4 DEF Replaced
<1>13. ASSUME NEW r, r.table \notin SimpleTable, Replaced(r), Num[r.block] \in Nat
       PROVE  Replaced(r)'
  <2>1. PICK q \in rows : /\ q.table = r.table /\ q.key = r.key
                          /\ Num[r.block] < Num[q.block] /\ Num[q.block] <= Lowest
    BY <1>13, <1>9 DEF Replaced
  <2>2. Num[q.block] \in Nat
    BY <1>2 DEF Row
  <2>3. CASE q \in rows'
    <3>1. Num[q.block] <= Lowest'
      BY <1>6, <2>1, <2>2
    <3> QED
      BY <1>9, <2>1, <2>3, <3>1 DEF Replaced
  <2>4. CASE q \notin rows'
    <3>1. PICK x \in rows' : /\ x.table = q.table /\ x.key = q.key
                             /\ Num[q.block] < Num[x.block] /\ Num[x.block] <= Lowest'
      BY <1>12, <1>13, <1>9, <2>1, <2>4 DEF Replaced
    <3>2. Num[x.block] \in Nat
      BY <1>1, <1>2 DEF Row
    <3>3. Num[r.block] < Num[x.block]
      BY <1>13, <2>1, <2>2, <3>1, <3>2
    <3> QED
      BY <1>9, <2>1, <3>1, <3>3 DEF Replaced
  <2> QED
    BY <2>3, <2>4
<1>14. ASSUME NEW b \in Branch[h], f <= Num[b], NEW r \in RowsOf(b), r.table \notin SimpleTable
       PROVE  r \in rows' \/ Replaced(r)'
  <2>1. r.block = b /\ b \in Block /\ Num[b] \in Nat
    BY <1>2, <1>3, BranchBelow DEF RowsOf
  <2>2. r \in rows \/ Replaced(r)
    BY <1>8, <1>14, <1>9 DEF CompleteFrom
  <2> QED
    BY <1>12, <1>13, <1>14, <2>1, <2>2
<1>15. CompleteFrom(f)'
  BY <1>1, <1>5, <1>8, <1>14, <1>9, <1>10, <1>11 DEF CompleteFrom, RowsOf
<1> QED
  BY <1>8, <1>15 DEF CompleteInv

LEMMA CompleteStartSession ==
  ASSUME IInv, BranchInv, CompleteInv, FirstServed \in Nat, FirstServed' = FirstServed,
         NEW opts, StartSession(opts)
  PROVE  CompleteInv'
<1>1. CASE "drop" \in opts
  BY <1>1 DEF StartSession, NoStatus, CompleteInv
<1>2. CASE "drop" \notin opts
  <2>1. UNCHANGED <<received_block, fill_status, Stored>>
    BY <1>2 DEF StartSession, dbVars, memVars, stepVars, Stored
  <2> QED
    BY <2>1, CompleteSame
<1> QED
  BY <1>1, <1>2

LEMMA CompleteStep ==
  ASSUME Inv, IInv', FillInv, [Next]_vars,
         session = "streaming" /\ session' # "streaming" => FilledToHead
  PROVE  CompleteInv'
<1>1. /\ IInv /\ RowInv /\ BranchInv /\ KeptInv
      /\ FilledInv /\ HeldInv /\ ContentInv /\ OpenInv /\ CompleteInv
  BY DEF Inv, FillInv, FilledInv
<1>2. FirstServed \in Nat /\ FirstServed' \in Nat
  <2>1. begin \in Nat /\ begin' \in Nat
    BY <1>1 DEF IInv, TypeOK, NodeosTypeOK
  <2> QED
    BY <2>1, FirstServedIs, FillAssumption DEF FirstServed
<1>3. CASE NodeosStep
  <2>1. UNCHANGED <<received_block, fill_status, Stored>> /\ begin' >= begin
    BY <1>1, <1>3, LineTypes DEF NodeosStep, dbVars, memVars, stepVars, Stored, ApplyBlock,
       AdvanceLib, SendBlocksResult, ReplaceNode
  <2>2. begin \in Nat /\ begin' \in Nat
    BY <1>1 DEF IInv, TypeOK, NodeosTypeOK
  <2>3. FirstServed <= FirstServed'
    BY <2>1, <2>2, FirstServedIs, FillAssumption DEF FirstServed
  <2> QED
    BY <1>1, <1>2, <2>1, <2>3, CompleteSame
<1>4. CASE \/ Retry \/ ReceivedAbi \/ ReceivedStatus \/ ProcessBlock \/ Fault
           \/ \E opts \in StartOptions : OperatorStart(opts)
  <2>1. FirstServed' = FirstServed
    BY <1>4 DEF Retry, OperatorStart, StartSession, ReceivedAbi, ReceivedStatus, ProcessBlock,
       Fault, SkipResult, StopAtBlock, BeginBlock, FlushStream, CloseStreams, Trim,
       ApplyBlockRows, PrevMismatch, CommitBlock, ConnectionLost, Die, EndSession, SessionGone,
       nodeosVars, FirstServed
  <2>2. CASE Retry \/ \E opts \in StartOptions : OperatorStart(opts)
    BY <1>1, <1>2, <2>1, <2>2, CompleteStartSession DEF Retry, OperatorStart
  <2>3. CASE SkipResult \/ BeginBlock
    <3>1. UNCHANGED <<dbVars, table_streams>> /\ pc = "idle" /\ (pc' = "commit" => pc' = pc)
      BY <2>3 DEF SkipResult, BeginBlock, memVars, stepVars, AfterClose
    <3>2. UNCHANGED <<received_block, fill_status, Stored>>
      BY <3>1 DEF dbVars, Stored
    <3> QED
      BY <1>1, <1>2, <2>1, <3>2, CompleteSame
  <2>4. CASE ReceivedAbi
    <3>1. /\ UNCHANGED <<received_block, rows, fill_status>> /\ pc = "idle" /\ pc' = "idle"
          /\ table_streams = {} /\ table_streams' = {}
      BY <1>1, <2>4 DEF ReceivedAbi, EndSession, dbVars, memVars, stepVars, IInv, StepInv
    <3>2. Stored' = Stored
      BY <3>1 DEF Stored
    <3> QED
      BY <1>1, <1>2, <2>1, <3>1, <3>2, CompleteSame
  <2>5. CASE StopAtBlock \/ PrevMismatch \/ ConnectionLost \/ Die
    <3>1. /\ UNCHANGED <<received_block, rows, fill_status>> /\ session' # "streaming"
          /\ pc' = "idle" /\ table_streams' = {}
      BY <2>5 DEF StopAtBlock, PrevMismatch, ConnectionLost, Die, EndSession, dbVars
    <3>2. FilledToHead
      BY <1>1, <3>1 DEF FilledInv, FilledAfterSession
    <3> QED
      BY <1>1, <1>2, <2>1, <3>1, <3>2, CompleteDropped
  <2> QED
    BY <1>1, <1>2, <1>4, <2>1, <2>2, <2>3, <2>4, <2>5, CompleteReceivedStatus,
       CompleteFlushStream, CompleteApplyBlock, CompleteCloseStreams, CompleteTrim,
       CompleteCommitBlock, CompleteSwitch DEF ProcessBlock, Fault
<1>5. CASE UNCHANGED vars
  <2>1. UNCHANGED <<received_block, fill_status, Stored>> /\ FirstServed' = FirstServed
    BY <1>5 DEF vars, nodeosVars, dbVars, memVars, stepVars, Stored, FirstServed
  <2> QED
    BY <1>1, <1>2, <2>1, CompleteSame
<1> QED
  BY <1>3, <1>4, <1>5 DEF Next, FillerStep
------------------------------------------------------------------------------
(* The answers of a complete database *)

LEMMA NewestExists ==
  ASSUME NEW S \in SUBSET Row, NEW n \in Nat, NEW x \in S, Num[x.block] <= n
  PROVE  \E y \in Newest(S, x.table, x.key, n) : Num[x.block] <= Num[y.block]
<1> DEFINE old == {r \in S : r.table = x.table /\ r.key = x.key /\ Num[r.block] <= n}
           D == {Num[r.block] : r \in old}
<1>1. \A r \in S : Num[r.block] \in Nat
  BY TreeAssumption DEF Row
<1>2. x \in old
  OBVIOUS
<1>3. D \in SUBSET (0..n) /\ D # {}
  BY <1>1, <1>2
<1>4. PICK m \in D : \A k \in D : k <= m
  BY <1>3, GreatestNumber
<1>5. PICK y \in old : m = Num[y.block]
  OBVIOUS
<1>6. \A r \in old : Num[r.block] <= Num[y.block]
  BY <1>4, <1>5
<1> QED
  BY <1>2, <1>5, <1>6 DEF Newest

\* What the streams hold, the rows of a fork switch apart, is not below the status's head.
LEMMA StreamsAtHead ==
  ASSUME IInv, RowInv, NEW r \in table_streams, ~(pc = "commit" /\ cur.forks),
         Num[r.block] <= N(fill_status.head_id)
  PROVE  r.block = fill_status.head_id
<1>1. ~(Applied /\ cur.forks)
  BY DEF Applied, IInv, StepInv, FlushFirst
<1>2. N(fill_status.head_id) \in Nat /\ Num[r.block] \in Nat
  BY Facts DEF Row
<1> QED
  BY <1>1, <1>2 DEF RowInv, StreamsInv

\* What is stored up to the status's head is of the head's branch.
LEMMA StoredOnBranch ==
  ASSUME IInv, RowInv, KeptInv, ContentInv, fill_status.head_id # NoBlock,
         NEW r \in Stored, Num[r.block] <= N(fill_status.head_id)
  PROVE  /\ r \in Row /\ r \in RowsOf(r.block)
         /\ r.block \in Branch[fill_status.head_id]
<1> DEFINE h == fill_status.head_id
<1>1. /\ h \in received_block /\ h \in Block /\ N(h) = Num[h] /\ Num[h] \in Nat
      /\ rows \in SUBSET Row /\ table_streams \in SUBSET Row
  BY Facts
<1>2. r \in Row /\ r \in RowsOf(r.block) /\ Num[r.block] \in Nat
  <2>1. r \in rows \cup table_streams
    BY DEF Stored
  <2> QED
    BY <1>1, <2>1, TreeAssumption DEF ContentInv, Row
<1>3. CASE r \in rows
  <2>1. h \in Covered
    BY <1>1 DEF Covered, Below
  <2> QED
    BY <1>2, <1>3, <2>1, RowOnBranch
<1>4. CASE r \notin rows
  <2>1. r \in table_streams /\ ~(pc = "commit" /\ cur.forks)
    BY <1>4 DEF Stored
  <2>2. r.block = h
    BY <2>1, StreamsAtHead
  <2> QED
    BY <1>1, <1>2, <2>2, BranchBelow
<1> QED
  BY <1>3, <1>4

\* With the open streams counted in, every answer is exact.
LEMMA CompleteAnswers ==
  ASSUME IInv, RowInv, KeptInv, FillInv, fill_status.head_id # NoBlock, FirstServed \in Nat,
         NEW n \in Lowest..N(fill_status.head_id)
  PROVE  AnswersExactly(Stored, n)
<1> DEFINE h == fill_status.head_id
           history == UNION {RowsOf(b) : b \in Branch[h]}
<1>1. /\ h \in received_block /\ h \in Block /\ N(h) = Num[h] /\ Num[h] \in Nat
      /\ received_block \in SUBSET Block /\ rows \in SUBSET Row
  BY Facts
<1>2. Lowest \in Nat /\ n \in Nat /\ Lowest <= n /\ n <= Num[h]
  BY <1>1, OldestNumber DEF Lowest
<1>7. \A r \in Row : Num[r.block] \in Nat
  BY TreeAssumption DEF Row
<1>3. PICK f \in 0..FirstServed : CompleteFrom(f)
  BY DEF FillInv, CompleteInv
<1>4. f \in Nat /\ f <= FirstServed /\ f <= Num[h]
  BY <1>1, <1>3, <1>7 DEF CompleteFrom
<1>5. ASSUME NEW r \in history
      PROVE  r \in Row /\ r \in RowsOf(r.block) /\ r.block \in Branch[h]
  <2>1. PICK b \in Branch[h] : r \in RowsOf(b)
    OBVIOUS
  <2>2. b \in Block
    BY <1>1, BranchBelow
  <2>3. r.block = b
    BY <2>1 DEF RowsOf
  <2> QED
    BY <2>1, <2>2, <2>3, RowsTyped
<1>6. ASSUME NEW r \in Stored, Num[r.block] <= n
      PROVE  r \in history /\ r \in Row /\ f <= Num[r.block]
  <2>1. Num[r.block] <= N(h)
    <3>1. r \in rows \cup table_streams
      BY DEF Stored
    <3>2. Num[r.block] \in Nat
      BY <3>1, Facts DEF Row
    <3> QED
      BY <1>1, <1>2, <1>6, <3>2
  <2>2. r \in Row /\ r \in RowsOf(r.block) /\ r.block \in Branch[h]
    BY <2>1, StoredOnBranch DEF FillInv
  <2>3. f <= Num[r.block]
    BY <1>3, <2>1 DEF CompleteFrom
  <2> QED
    BY <2>2, <2>3
<1> HIDE DEF history
<1>9. ASSUME NEW t \in Table \ SimpleTable, NEW k \in Key,
             NEW y \in Newest(history, t, k, n), f <= Num[y.block]
      PROVE  y \in Stored
  <2>1. /\ y \in history /\ y.table = t /\ y.key = k /\ Num[y.block] <= n
        /\ \A q \in history : q.table = t /\ q.key = k /\ Num[q.block] <= n
                                => Num[q.block] <= Num[y.block]
    BY <1>9 DEF Newest
  <2>2. y \in Stored \/ Replaced(y)
    BY <1>3, <1>5, <1>9, <2>1 DEF CompleteFrom
  <2>3. ~Replaced(y)
    <3>1. SUFFICES ASSUME NEW q \in Stored, q.table = t, q.key = k,
                          Num[y.block] < Num[q.block], Num[q.block] <= Lowest
                   PROVE  FALSE
      BY <2>1 DEF Replaced
    <3>2. Num[q.block] \in Nat /\ Num[y.block] \in Nat
      <4>1. q \in Row
        BY <3>1, Facts DEF Stored
      <4> QED
        BY <1>5, <1>7, <2>1, <4>1
    <3>3. Num[q.block] <= n
      BY <1>2, <3>1, <3>2
    <3>4. q \in history
      BY <1>6, <3>1, <3>3
    <3> QED
      BY <2>1, <3>1, <3>2, <3>3, <3>4
  <2> QED
    BY <2>2, <2>3
<1>10. ASSUME NEW t \in Table \ SimpleTable, NEW k \in Key
       PROVE  LET answer == Newest(Stored, t, k, n)
                  truth == Newest(history, t, k, n)
              IN  answer = truth \/
                    answer \cup {r \in truth : Num[r.block] >= Max({SkipTo, begin})} = {}
  <2> DEFINE answer == Newest(Stored, t, k, n)
             truth == Newest(history, t, k, n)
  <2>1. CASE \E y \in truth : f <= Num[y.block]
    <3>1. PICK y \in truth : f <= Num[y.block]
      BY <2>1
    <3>2. \A q \in history : q.table = t /\ q.key = k /\ Num[q.block] <= n
                               => Num[q.block] <= Num[y.block]
      BY <3>1 DEF Newest
    <3>3. y \in Stored /\ y.table = t /\ y.key = k /\ Num[y.block] <= n /\ Num[y.block] \in Nat
      BY <1>5, <1>7, <1>9, <3>1 DEF Newest
    <3>4. ASSUME NEW a \in answer PROVE a \in truth
      <4>1. a \in Stored /\ a.table = t /\ a.key = k /\ Num[a.block] <= n
            /\ Num[y.block] <= Num[a.block]
        BY <3>3, <3>4 DEF Newest
      <4>2. a \in history /\ Num[a.block] \in Nat
        BY <1>6, <1>7, <4>1
      <4>3. Num[a.block] = Num[y.block]
        BY <3>2, <3>3, <4>1, <4>2
      <4> QED
        BY <3>2, <4>1, <4>2, <4>3 DEF Newest
    <3>5. ASSUME NEW x \in truth PROVE x \in answer
      <4>1. /\ x \in history /\ x.table = t /\ x.key = k /\ Num[x.block] <= n
            /\ \A q \in history : q.table = t /\ q.key = k /\ Num[q.block] <= n
                                    => Num[q.block] <= Num[x.block]
        BY <3>5 DEF Newest
      <4>2. Num[x.block] \in Nat /\ Num[y.block] <= Num[x.block]
        BY <1>5, <1>6, <1>7, <3>3, <4>1
      <4>3. f <= Num[x.block]
        BY <1>4, <3>1, <3>3, <4>2
      <4>4. x \in Stored
        BY <1>9, <3>5, <4>3
      <4>5. \A q \in Stored : q.table = t /\ q.key = k /\ Num[q.block] <= n
                                => Num[q.block] <= Num[x.block]
        BY <1>6, <4>1
      <4> QED
        BY <4>1, <4>4, <4>5 DEF Newest
    <3> QED
      BY <3>4, <3>5
  <2>2. CASE ~\E y \in truth : f <= Num[y.block]
    <3>1. ASSUME NEW a \in answer PROVE FALSE
      <4>1. a \in Stored /\ a.table = t /\ a.key = k /\ Num[a.block] <= n
        BY <3>1 DEF Newest
      <4>2. a \in history /\ f <= Num[a.block] /\ Num[a.block] \in Nat /\ history \in SUBSET Row
        BY <1>5, <1>6, <1>7, <4>1
      <4>3. PICK y \in truth : Num[a.block] <= Num[y.block]
        BY <1>2, <4>1, <4>2, NewestExists
      <4>4. Num[y.block] \in Nat
        BY <1>5, <1>7, <4>3 DEF Newest
      <4> QED
        BY <1>4, <2>2, <4>2, <4>3, <4>4
    <3>2. ASSUME NEW y \in truth PROVE ~(Num[y.block] >= FirstServed)
      <4>1. Num[y.block] \in Nat
        BY <1>5, <1>7, <3>2 DEF Newest
      <4> QED
        BY <1>4, <2>2, <3>2, <4>1
    <3> QED
      BY <3>1, <3>2 DEF FirstServed
  <2> QED
    BY <2>1, <2>2
<1> QED
  BY <1>10 DEF AnswersExactly, history

\* What is committed answers as what is stored does, if no row that counts is on a stream.
LEMMA CommittedAnswers ==
  ASSUME IInv, RowInv, KeptInv, FillInv, fill_status.head_id # NoBlock, FirstServed \in Nat,
         NEW n \in Lowest..N(fill_status.head_id),
         \A r \in Stored : Num[r.block] <= n => r \in rows
  PROVE  AnswersExactly(rows, n)
<1>1. rows \subseteq Stored
  BY DEF Stored
<1>2. ASSUME NEW t, NEW k PROVE Newest(rows, t, k, n) = Newest(Stored, t, k, n)
  <2>1. {r \in rows : r.table = t /\ r.key = k /\ Num[r.block] <= n}
          = {r \in Stored : r.table = t /\ r.key = k /\ Num[r.block] <= n}
    BY <1>1
  <2> QED
    BY <2>1 DEF Newest
<1>3. AnswersExactly(Stored, n)
  BY CompleteAnswers
<1> QED
  BY <1>2, <1>3 DEF AnswersExactly

\* A row that counts is committed or of the status's head.
LEMMA StoredBelowHead ==
  ASSUME IInv, RowInv, NEW n \in Lowest..N(fill_status.head_id),
         NEW r \in Stored, r \notin rows, Num[r.block] <= n
  PROVE  r \in table_streams /\ r.block = fill_status.head_id /\ n = N(fill_status.head_id)
<1>1. r \in table_streams /\ ~(pc = "commit" /\ cur.forks)
  BY DEF Stored
<1>2. n \in Int /\ n <= N(fill_status.head_id) /\ N(fill_status.head_id) \in Nat
  BY Facts
<1>3. r.block \in Block /\ Num[r.block] \in Nat /\ N(r.block) = Num[r.block]
  BY <1>1, Facts, TreeAssumption DEF Row, N
<1>4. Num[r.block] <= N(fill_status.head_id)
  BY <1>2, <1>3
<1>5. r.block = fill_status.head_id
  BY <1>1, <1>4, StreamsAtHead
<1> QED
  BY <1>1, <1>2, <1>3, <1>5

LEMMA FillAnswers ==
  ASSUME Inv, FillInv
  PROVE  ReadersExact /\ (FilledToHead => QueriesExact)
<1>1. IInv /\ RowInv /\ KeptInv /\ FilledInv /\ ContentInv
  BY DEF Inv, FillInv
<1>2. FirstServed \in Nat
  BY <1>1, LineTypes, ServedFacts
<1>3. CASE fill_status.head_id # NoBlock
  <2>1. ASSUME NEW n \in Lowest..N(fill_status.head_id), ~AnswersExactly(rows, n)
        PROVE  \E r \in table_streams : /\ r.block = fill_status.head_id /\ r \notin rows
                                         /\ n = N(fill_status.head_id)
    <3>1. PICK r \in Stored : Num[r.block] <= n /\ r \notin rows
      BY <1>1, <1>2, <1>3, <2>1, CommittedAnswers
    <3> QED
      BY <1>1, <3>1, StoredBelowHead
  <2>2. ReadersExact
    <3>1. table_streams # {} => session = "streaming"
      BY <1>1 DEF IInv, StepInv
    <3> QED
      BY <2>1, <3>1 DEF ReadersExact
  <2>3. ASSUME FilledToHead PROVE QueriesExact
    <3>1. fill_status.head_id \in Covered
      BY <1>1, <1>3, Facts DEF Covered, Below
    <3>2. ASSUME NEW r \in table_streams, r.block = fill_status.head_id PROVE r \in rows
      BY <1>1, <2>3, <3>1, <3>2 DEF ContentInv, FilledToHead
    <3> QED
      BY <2>1, <3>2 DEF QueriesExact
  <2> QED
    BY <2>2, <2>3
<1>4. CASE fill_status.head_id = NoBlock
  <2>1. ASSUME NEW n \in Lowest..0 PROVE AnswersExactly(rows, n)
    <3> SUFFICES ASSUME NEW t \in Table \ SimpleTable, NEW k \in Key
                 PROVE  Newest(rows, t, k, n)
                          = Newest(UNION {RowsOf(b) : b \in Branch[NoBlock]}, t, k, n)
      BY <1>4 DEF AnswersExactly
    <3>1. n <= 0
      OBVIOUS
    <3>2. \A r \in rows : Num[r.block] \in Nat \ {0}
      BY <1>1, Facts, TreeAssumption DEF Row
    <3>3. \A r \in rows : ~(Num[r.block] <= n)
      BY <3>1, <3>2
    <3>4. Branch[NoBlock] = {}
      BY BranchIs DEF MaybeBlock
    <3> QED
      BY <3>3, <3>4 DEF Newest
  <2>2. N(fill_status.head_id) = 0
    BY <1>4 DEF N
  <2> QED
    BY <2>1, <2>2 DEF ReadersExact, QueriesExact
<1> QED
  BY <1>3, <1>4

LEMMA FillInit == Init => FillInv
<1> SUFFICES ASSUME Init PROVE FillInv
  OBVIOUS
<1>1. FilledInv /\ ContentInv
  BY DEF Init, FilledInv, HeldInv, FilledAfterSession, FilledToHead, Covered, Below, ContentInv
<1>2. OpenInv
  BY DEF Init, NodeosInit, OpenInv
<1>3. CompleteInv
  BY DEF Init, NoStatus, CompleteInv
<1> QED
  BY <1>1, <1>2, <1>3 DEF FillInv

LEMMA FillStep ==
  ASSUME Inv, IInv', FillInv, [Next]_vars,
         session = "streaming" /\ session' # "streaming" => FilledToHead
  PROVE  FillInv'
<1>1. /\ IInv /\ RowInv /\ BranchInv /\ HeightInv
      /\ FilledInv /\ HeldInv /\ ContentInv /\ OpenInv
  BY DEF Inv, FillInv, FilledInv
<1>2. HeldInv'
  BY <1>1, HeldStep
<1>3. ASSUME session' # "streaming" PROVE FilledToHead'
  <2>1. FilledToHead
    BY <1>1, <1>3 DEF FilledInv, FilledAfterSession
  <2>2. CASE UNCHANGED vars
    BY <2>1, <2>2, FilledSame DEF vars, dbVars
  <2>3. ~CommitBlock
    BY <1>1, <1>3 DEF CommitBlock, IInv, StepInv
  <2> QED
    BY <1>1, <2>1, <2>2, <2>3, FilledStep
<1>4. ContentInv' /\ OpenInv' /\ CompleteInv'
  BY <1>1, ContentStep, OpenStep, CompleteStep
<1> QED
  BY <1>2, <1>3, <1>4 DEF FillInv, FilledInv, FilledAfterSession

LEMMA FillInvariant == Spec /\ NoHeadLost => [](Inv /\ FillInv)
<1>1. Init => FillInv
  BY FillInit
<1>2. ASSUME Inv, IInv', FillInv, [Next]_vars,
             [session = "streaming" /\ session' # "streaming" => FilledToHead]_vars
      PROVE  FillInv'
  <2>1. session = "streaming" /\ session' # "streaming" => FilledToHead
    BY <1>2 DEF vars
  <2> QED
    BY <1>2, <2>1, FillStep
<1>3. Inv => IInv
  BY DEF Inv
<1> QED
  BY <1>1, <1>2, <1>3, LinkInvariant, PTL DEF Spec, NoHeadLost

\* Whatever fork switches, crashes, retries, restarts and trimming did, as long as no session
\* ended while its streams held rows the status covers: the committed rows of the tables of
\* the state give, as of any covered block that is not trimmed away, what a complete history
\* of the head's branch would give, but as of the head itself while a fork switch has left
\* rows of it on the open streams.
THEOREM AnswersWhileHeadKept == Spec /\ NoHeadLost => []ReadersExact
<1>1. Inv /\ FillInv => ReadersExact
  BY FillAnswers
<1> QED
  BY <1>1, FillInvariant, PTL

\* When no fork switch commits, the committed rows answer exactly as of the head too, however
\* sessions end: no status runs ahead of the rows.
THEOREM AnswersWithoutForks == Spec /\ NoForkCommits => []QueriesExact
<1>1. FilledToHead
        => [session = "streaming" /\ session' # "streaming" => FilledToHead]_vars
  OBVIOUS
<1>2. Inv /\ FillInv /\ FilledToHead => QueriesExact
  BY FillAnswers
<1> QED
  BY <1>1, <1>2, FilledWithoutForks, FillInvariant, PTL DEF NoHeadLost
------------------------------------------------------------------------------
(* Answers below the head *)

\* A row below a head that is covered, once missing, is not committed any more: what the
\* streams hold is not below the status's head.
LEMMA MissingStays ==
  ASSUME IInv, RowInv, Next, NEW h \in Covered, NEW r \in Row, r \notin rows,
         Num[r.block] < N(h)
  PROVE  r \notin rows'
<1>1. CASE rows' \subseteq rows
  BY <1>1
<1>2. CASE \E t \in Table : FlushStream(t)
  <2> SUFFICES ASSUME r \in table_streams PROVE FALSE
    BY <1>2 DEF FlushStream
  <2>1. /\ h \in Block /\ N(h) \in Nat /\ N(h) <= N(fill_status.head_id)
        /\ N(fill_status.head_id) \in Nat /\ Num[r.block] \in Nat
    BY Facts, TreeAssumption DEF Covered, Below, Row
  <2>2. r.block = fill_status.head_id
    BY <1>2, <2>1, StreamsAtHead DEF FlushStream
  <2>3. N(r.block) = Num[r.block]
    BY TreeAssumption DEF Row, N
  <2> QED
    BY <2>1, <2>2, <2>3
<1>3. CASE ~\E t \in Table : FlushStream(t)
  <2>1. rows' \subseteq rows
    BY <1>3 DEF Next, NodeosStep, FillerStep, ProcessBlock, Fault, Retry, OperatorStart,
       StartSession, ReceivedAbi, ReceivedStatus, SkipResult, StopAtBlock, BeginBlock,
       CloseStreams, Trim, ApplyBlockRows, PrevMismatch, CommitBlock, ConnectionLost, Die,
       EndSession, dbVars, TruncatedRows
  <2> QED
    BY <2>1
<1> QED
  BY <1>2, <1>3

\* A query as of a block below the head finds the branch's newest row, if none of those
\* is missing.
LEMMA AnswerSettled ==
  ASSUME Inv, ContentInv, NEW h \in Covered, NEW t, NEW k, NEW n \in Nat, n < N(h),
         Newest(UNION {RowsOf(b) : b \in Branch[h]}, t, k, n) \subseteq rows
  PROVE  Newest(rows, t, k, n) = Newest(UNION {RowsOf(b) : b \in Branch[h]}, t, k, n)
<1> DEFINE history == UNION {RowsOf(b) : b \in Branch[h]}
           truth == Newest(history, t, k, n)
           answer == Newest(rows, t, k, n)
<1>1. /\ IInv /\ RowInv /\ KeptInv /\ h \in Block /\ N(h) \in Nat
      /\ rows \in SUBSET Row /\ \A r \in Row : Num[r.block] \in Nat
  BY Facts, TreeAssumption DEF Inv, Covered, Below, Row
<1>2. history \in SUBSET Row
  <2> SUFFICES ASSUME NEW r \in history PROVE r \in Row
    OBVIOUS
  <2>1. PICK b \in Branch[h] : r \in RowsOf(b)
    OBVIOUS
  <2> QED
    BY <1>1, <2>1, BranchBelow, RowsTyped
<1>3. ASSUME NEW r \in rows, Num[r.block] <= n PROVE r \in history
  <2>1. r.block \in Branch[h]
    BY <1>1, <1>3, RowOnBranch
  <2>2. r \in RowsOf(r.block)
    BY DEF ContentInv
  <2> QED
    BY <2>1, <2>2
<1> HIDE DEF history
<1>4. ASSUME NEW x \in truth, NEW y \in answer PROVE Num[x.block] = Num[y.block]
  <2>1. x \in rows /\ x.table = t /\ x.key = k /\ Num[x.block] <= n
    BY <1>4 DEF Newest, history
  <2>2. y \in history /\ y.table = t /\ y.key = k /\ Num[y.block] <= n
    BY <1>3, <1>4 DEF Newest
  <2>3. Num[y.block] <= Num[x.block] /\ Num[x.block] <= Num[y.block]
    BY <1>4, <2>1, <2>2 DEF Newest
  <2> QED
    BY <1>1, <1>2, <2>1, <2>2, <2>3
<1>5. ASSUME NEW y \in answer PROVE y \in truth
  <2>1. y \in history /\ y.table = t /\ y.key = k /\ Num[y.block] <= n
    BY <1>3, <1>5 DEF Newest
  <2>2. PICK x \in truth : Num[y.block] <= Num[x.block]
    BY <1>2, <2>1, NewestExists
  <2> QED
    BY <1>4, <1>5, <2>1, <2>2 DEF Newest
<1>6. ASSUME NEW x \in truth PROVE x \in answer
  <2>1. x \in rows /\ x.table = t /\ x.key = k /\ Num[x.block] <= n
    BY <1>6 DEF Newest, history
  <2>2. \A q \in rows : q.table = t /\ q.key = k /\ Num[q.block] <= n
                          => Num[q.block] <= Num[x.block]
    BY <1>3, <1>6 DEF Newest
  <2> QED
    BY <2>1, <2>2 DEF Newest
<1> QED
  BY <1>5, <1>6 DEF history

LEMMA AnswersTyped == ASSUME AskTypeOK PROVE Answers \subseteq Answer
<1> SUFFICES ASSUME NEW i \in DOMAIN Response PROVE Response[i].answers \subseteq Answer
  BY DEF Answers
<1>1. result \in Seq(Reply) /\ reply \in Reply
  BY DEF AskTypeOK
<1>2. Response[i] \in Reply
  BY <1>1 DEF Response
<1> QED
  BY <1>2 DEF Reply

\* The answers that are missing rows at a given time keep missing them.
LEMMA SettledStep ==
  ASSUME ReadInv, SettledInv, [ReadNext]_allVars
  PROVE  SettledInv'
<1>1. /\ Inv /\ IInv /\ RowInv /\ AskTypeOK /\ ReplyInv /\ BranchKept /\ ContentInv
      /\ [Next]_vars
  BY DEF ReadInv, Inv, SettledInv, ReadNext, allVars
<1>2. ContentInv'
  BY <1>1, ContentStep
<1> SUFFICES ASSUME phase' = "running", ~left' PROVE AnswersSettled'
  BY <1>2 DEF SettledInv, AnswersSettled
<1>3. CASE Next /\ Watch /\ UNCHANGED askVars
  <2>1. UNCHANGED <<phase, snap, reply, result, Answers>> /\ ~left
    BY <1>3 DEF askVars, Watch, Answers, Response
  <2>2. snap.head_id \in Covered
    BY <1>1, <2>1 DEF BranchKept
  <2> SUFFICES ASSUME NEW a \in Answers, a.n < N(snap.head_id), NEW r \in Truth(a), r \notin rows
               PROVE  r \notin rows'
    BY <2>1 DEF SettledInv, AnswersSettled, Exact, Truth, RowsOf
  <2>3. a.n \in Nat
    BY <1>1, AnswersTyped DEF Answer
  <2>4. PICK b \in Branch[snap.head_id] : r \in RowsOf(b)
    BY DEF Truth, Newest
  <2>5. r \in Row /\ Num[r.block] <= a.n
    <3>1. snap.head_id \in Block
      BY <1>1, <2>2, Facts DEF Covered, Below
    <3> QED
      BY <2>4, <3>1, BranchBelow, RowsTyped DEF Truth, Newest
  <2>6. Num[r.block] < N(snap.head_id)
    <3>1. Num[r.block] \in Nat /\ N(snap.head_id) \in Nat
      BY <1>1, <2>2, <2>5, Facts, TreeAssumption DEF Covered, Below, Row
    <3> QED
      BY <2>3, <2>5, <3>1
  <2> QED
    BY <1>1, <1>3, <2>2, <2>5, <2>6, MissingStays
<1>4. CASE (Request \/ AskStep) /\ UNCHANGED vars
  <2>1. UNCHANGED rows
    BY <1>4 DEF vars, dbVars
  <2>2. CASE Answers' = {}
    BY <2>2 DEF AnswersSettled
  <2>3. CASE phase = "running" /\ UNCHANGED <<snap, left>> /\ Answers' \subseteq Answers
    BY <2>1, <2>3 DEF SettledInv, AnswersSettled, Exact, Truth, RowsOf
  <2>4. ASSUME phase = "running", UNCHANGED <<snap, left>>,
               NEW n \in Snapshot, NEW t \in Table \ SimpleTable, NEW k \in Key,
               AnswerTo(n, t, k).n < N(snap.head_id)
        PROVE  \/ Exact(AnswerTo(n, t, k))
               \/ \E r \in Truth(AnswerTo(n, t, k)) : r \notin rows
    <3>1. snap.head_id \in Covered
      BY <1>1, <2>4 DEF BranchKept
    <3>2. Clamped(n) \in Nat
      BY <1>1, ClampedBelow, WasmQlAssumption DEF AskTypeOK
    <3> QED
      BY <1>1, <2>4, <3>1, <3>2, AnswerSettled DEF AnswerTo, Exact, Truth
  <2>5. ASSUME phase = "running", UNCHANGED <<snap, left>>,
               NEW n \in Snapshot, NEW t \in Table \ SimpleTable, NEW k \in Key,
               Answers' \subseteq Answers \cup {AnswerTo(n, t, k)}
        PROVE  AnswersSettled'
    <3> DEFINE x == AnswerTo(n, t, k)
    <3>1. x.n < N(snap.head_id) => Exact(x) \/ \E r \in Truth(x) : r \notin rows
      BY <2>4, <2>5
    <3> HIDE DEF x
    <3>2. \A a \in Answers' : a \in Answers \/ a = x
      BY <2>5 DEF x
    <3> QED
      BY <2>1, <2>5, <3>1, <3>2 DEF SettledInv, AnswersSettled, Exact, Truth, RowsOf
  <2> QED
    BY <1>1, <1>4, <2>2, <2>3, <2>5, AnswersStep
<1>5. CASE UNCHANGED allVars
  <2>1. UNCHANGED <<phase, snap, left, rows, Answers>>
    BY <1>5 DEF allVars, askVars, vars, dbVars, Answers, Response
  <2> QED
    BY <2>1 DEF SettledInv, AnswersSettled, Exact, Truth, RowsOf
<1> QED
  BY <1>3, <1>4, <1>5 DEF ReadNext

\* A list of requests about blocks below the head, answered in as many transactions as it
\* has queries while the filler commits, crashes, trims and switches forks between them:
\* unless the head left and came back within the try, each answer is the one the whole history
\* of the head's branch gives, provided that no row of it was lost or never asked for.
THEOREM AlwaysSettledExact == ReadSpec => SettledExact
<1>1. ReadInit => SettledInv
  BY DEF ReadInit, Init, SettledInv, ContentInv, AnswersSettled
<1>2. ReadInv /\ SettledInv /\ [ReadNext]_allVars => SettledInv'
  BY SettledStep
<1>3. ASSUME ReadInv, SettledInv, Respond
      PROVE  CameBack \/ \A a \in Answers :
               a.n \in Lowest..(N(snap.head_id) - 1) /\ Filled(a.n) => Exact(a)
  <2>1. phase = "running" /\ snap.head_id \in HeaderAt(N(snap.head_id))
    BY <1>3 DEF Respond, Ran, DidFork
  <2>2. CASE left
    BY <2>1, <2>2 DEF CameBack
  <2>3. CASE ~left
    <3>1. /\ Inv /\ IInv /\ RowInv /\ KeptInv /\ ContentInv /\ AskTypeOK
          /\ snap.head_id \in Covered
      BY <1>3, <2>1, <2>3 DEF ReadInv, Inv, SettledInv, BranchKept
    <3> DEFINE h == snap.head_id
               history == UNION {RowsOf(b) : b \in Branch[h]}
    <3>2. h \in Block /\ N(h) \in Nat /\ h \in received_block /\ N(h) <= N(fill_status.head_id)
      BY <3>1, Facts, TreeAssumption DEF Covered, Below
    <3> SUFFICES ASSUME NEW a \in Answers, a.n \in Lowest..(N(h) - 1), Filled(a.n),
                        NEW y \in Truth(a), y \notin rows
                 PROVE  FALSE
      <4>1. ASSUME NEW a \in Answers, a.n \in Lowest..(N(h) - 1) PROVE a.n < N(h)
        <5>1. Lowest \in Nat
          BY <3>1, <3>2, Facts, OldestNumber DEF Lowest
        <5> QED
          BY <3>2, <4>1, <5>1
      <4> QED
        BY <1>3, <2>1, <2>3, <4>1 DEF SettledInv, AnswersSettled
    <3>3. Lowest \in Nat /\ a.n \in Nat /\ Lowest <= a.n /\ a.n < N(h)
      <4>1. Lowest \in Nat
        BY <3>1, <3>2, Facts, OldestNumber DEF Lowest
      <4> QED
        BY <3>2, <4>1
    <3>4. a.table \notin SimpleTable
      BY <3>1, AnswersTyped DEF Answer
    <3>5. PICK b \in Branch[h] : y \in RowsOf(b)
      BY DEF Truth, Newest
    <3>6. /\ y.block = b /\ y \in Row /\ y.table = a.table /\ y.key = a.key
          /\ Num[y.block] <= a.n /\ Num[y.block] \in Nat
      BY <3>2, <3>5, BranchBelow, RowsTyped, TreeAssumption DEF Truth, Newest, RowsOf, Row
    <3>7. PICK q \in Stored : /\ q.table = y.table /\ q.key = y.key
                              /\ Num[y.block] < Num[q.block] /\ Num[q.block] <= Lowest
      BY <3>4, <3>5, <3>6 DEF Filled, Replaced
    <3>8. q \in Row /\ Num[q.block] \in Nat
      BY <3>1, <3>7, Facts, TreeAssumption DEF Stored, Row
    <3>9. Num[q.block] <= a.n /\ Num[q.block] < N(h)
      BY <3>2, <3>3, <3>7, <3>8
    <3>10. q \in rows
      <4> SUFFICES ASSUME q \notin rows PROVE FALSE
        OBVIOUS
      <4>1. q \in table_streams /\ ~(pc = "commit" /\ cur.forks)
        BY <3>7 DEF Stored
      <4>2. N(fill_status.head_id) \in Nat
        BY <3>1, Facts
      <4>3. q.block = fill_status.head_id
        BY <3>1, <3>2, <3>8, <3>9, <4>1, <4>2, StreamsAtHead
      <4>4. N(q.block) = Num[q.block]
        BY <3>8, TreeAssumption DEF Row, N
      <4> QED
        BY <3>2, <3>8, <3>9, <4>2, <4>3, <4>4
    <3>11. q \in history
      <4>1. q.block \in Branch[h]
        BY <3>1, <3>2, <3>8, <3>9, <3>10, RowOnBranch
      <4>2. q \in RowsOf(q.block)
        BY <3>1, <3>10 DEF ContentInv
      <4> QED
        BY <4>1, <4>2
    <3>12. Num[q.block] <= Num[y.block]
      BY <3>6, <3>7, <3>9, <3>11 DEF Truth, Newest
    <3> QED
      BY <3>6, <3>7, <3>8, <3>12
  <2> QED
    BY <2>2, <2>3
<1>4. ReadInv /\ SettledInv =>
        [Respond => CameBack \/ \A a \in Answers :
           a.n \in Lowest..(N(snap.head_id) - 1) /\ Filled(a.n) => Exact(a)]_allVars
  BY <1>3
<1> QED
  BY <1>1, <1>2, <1>4, ReadInvariant, PTL DEF ReadSpec, SettledExact
==============================================================================
