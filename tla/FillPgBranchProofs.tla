-------------------------- MODULE FillPgBranchProofs --------------------------
(***************************************************************************)
(* nodeos's branch, the messages under way and the irreversible block of   *)
(* the database: no fork switch ever goes back to it, and what readers see *)
(* is the history of HistoryDb.                                            *)
(***************************************************************************)
EXTENDS FillPgProofs

------------------------------------------------------------------------------
(* Branches *)

\* The numbers the line compares are block numbers.
LEMMA LineTypes ==
  ASSUME IInv
  PROVE  /\ lib \in Nat /\ next \in Nat /\ begin \in Nat /\ wire \in Seq(BlocksResult)
         /\ \A m \in BlocksResult : Fixed(m) \in Nat /\ Fixed(m) <= m.lib /\ m.lib \in Nat
                                    /\ Fixed(m) <= N(m.this_block) /\ N(m.this_block) \in Nat
         /\ Fixed(cur) \in Nat /\ Fixed(cur) <= cur.lib /\ Fixed(cur) <= N(cur.this_block)
         /\ cur.lib \in Nat /\ N(cur.this_block) \in Nat /\ cur.this_block \in MaybeBlock
         /\ EndTrim \in Nat /\ EndTrim <= head /\ EndTrim <= irreversible /\ irreversible \in Nat
         /\ Mark \in Nat
<1>1. lib \in Nat /\ next \in Nat /\ begin \in Nat /\ wire \in Seq(BlocksResult)
  BY DEF IInv, TypeOK, NodeosTypeOK
<1>2. ASSUME NEW m, m.lib \in Nat, m.this_block \in MaybeBlock
      PROVE  /\ Fixed(m) \in Nat /\ Fixed(m) <= m.lib
             /\ Fixed(m) <= N(m.this_block) /\ N(m.this_block) \in Nat
  <2>1. N(m.this_block) \in Nat
    BY <1>2, NIsNat
  <2> QED
    BY <1>2, <2>1 DEF Fixed
<1>3. cur.lib \in Nat /\ cur.this_block \in MaybeBlock
  BY DEF IInv, TypeOK, Message
<1>4. \A m \in BlocksResult : m.lib \in Nat /\ m.this_block \in MaybeBlock
  BY DEF BlocksResult
<1>5. EndTrim \in Nat /\ EndTrim <= head /\ EndTrim <= irreversible /\ irreversible \in Nat
  BY Facts DEF EndTrim, TypeOK
<1>6. Mark \in Nat
  BY <1>2, <1>3, <1>5 DEF Mark
<1> QED
  BY <1>1, <1>2, <1>3, <1>4, <1>5, <1>6

------------------------------------------------------------------------------
(* nodeos's steps *)

\* What nodeos does while the filler is not looking: its irreversible part stays, and
\* the session still sends nothing of it.
LEMMA LineKept ==
  ASSUME IInv, LineInv, StatusInv, UNCHANGED <<dbVars, session, memVars, stepVars, wire>>,
         lib' \in Nat, lib <= lib',
         \A b \in chain : Num[b] <= lib => b \in chain',
         session # "streaming" => next' = 0,
         \A n \in Nat : n <= lib /\ SendsBeyond(n) => SendsBeyond(n)'
  PROVE  LineInv' /\ StatusInv'
<1>1. UNCHANGED <<head, EndTrim, Applied, Pending, Received>>
  BY DEF dbVars, memVars, stepVars, head, EndTrim, Applied, Pending, Received,
         TruncatedReceived, Below
<1>2. UNCHANGED <<After, Mark>>
  BY <1>1 DEF After, Mark, Fixed, dbVars, stepVars
<1>3. \A m : Fixed(m) \in Nat /\ Fixed(m) <= lib /\ Anchored(m) => Anchored(m)'
  <2> SUFFICES ASSUME NEW m, Fixed(m) \in Nat, Fixed(m) <= lib, Anchored(m)
               PROVE  Anchored(m)'
    OBVIOUS
  <2>1. \A b \in chain : Num[b] \in Nat
    BY TreeAssumption DEF IInv, TypeOK, NodeosTypeOK
  <2>2. \A b \in chain : Num[b] <= Fixed(m) => b \in chain'
    BY <2>1, LineTypes
  <2> QED
    BY <2>2, AnchoredKept
<1>4. \A k \in DOMAIN wire : wire[k] \in BlocksResult
  BY LineTypes
<1>5. ASSUME NEW k \in DOMAIN wire, NEW m \in BlocksResult, m = wire[k]
      PROVE  /\ m.lib <= lib' /\ Anchored(m)'
             /\ Beyond(Mark, m) /\ (Fixed(m) < next' \/ Fixed(m) < begin')
             /\ \A j \in 1..(k - 1) : Beyond(Fixed(wire[j]), m)
  <2>1. /\ m.lib <= lib /\ Anchored(m) /\ Beyond(Mark, m) /\ SendsBeyond(Fixed(m))
        /\ \A j \in 1..(k - 1) : Beyond(Fixed(wire[j]), m)
    BY <1>5 DEF LineInv
  <2>2. Fixed(m) \in Nat /\ Fixed(m) <= m.lib /\ m.lib \in Nat /\ lib \in Nat
    BY LineTypes
  <2>3. m.lib <= lib' /\ Fixed(m) <= lib
    BY <2>1, <2>2
  <2>4. \A n \in Nat : n <= lib /\ SendsBeyond(n) => n < next' \/ n < begin'
    BY DEF SendsBeyond
  <2>5. Anchored(m)'
    BY <1>3, <2>1, <2>2, <2>3
  <2> QED
    BY <2>1, <2>2, <2>3, <2>4, <2>5
<1>6. LineInv'
  <2>1. ASSUME Pending, NEW m, m = cur
        PROVE  m.lib <= lib' /\ Anchored(m)' /\ Beyond(EndTrim, m)
    <3>1. m.lib <= lib /\ Anchored(m) /\ Beyond(EndTrim, m)
      BY <2>1 DEF LineInv
    <3>2. Fixed(m) \in Nat /\ Fixed(m) <= m.lib /\ m.lib \in Nat /\ lib \in Nat
      BY <2>1, LineTypes
    <3>3. m.lib <= lib' /\ Fixed(m) <= lib
      BY <3>1, <3>2
    <3> QED
      BY <1>3, <3>1, <3>2, <3>3
  <2>2. session = "streaming" => irreversible <= lib' /\ SendsBeyond(Mark)'
    <3> SUFFICES ASSUME session = "streaming" PROVE irreversible <= lib' /\ SendsBeyond(Mark)'
      OBVIOUS
    <3>1. irreversible <= lib /\ SendsBeyond(Mark)
      BY DEF LineInv
    <3>2. Mark <= lib
      BY <3>1, LineTypes DEF Mark, LineInv
    <3> QED
      BY <1>2, <3>1, <3>2, LineTypes
  <2>3. session # "streaming" => wire = <<>>
    BY DEF LineInv
  <2>4. UNCHANGED <<wire, session, irreversible, cur>>
    BY DEF memVars, stepVars
  <2> QED
    BY <1>1, <1>2, <1>4, <1>5, <2>1, <2>2, <2>3, <2>4 DEF LineInv, Beyond, Fixed, SendsBeyond
<1>7. StatusInv'
  <2>1. /\ fill_status.irreversible \in Nat /\ \A b \in Block : Num[b] \in Nat
        /\ After \subseteq Block /\ received_block \subseteq Block
    BY TreeAssumption DEF IInv, TypeOK, FillStatus, After, Received, TruncatedReceived, Below,
                          StepInv, Applied
  <2>2. \A b \in received_block : Num[b] = fill_status.irreversible => b \in chain'
    BY <2>1 DEF StatusInv
  <2>3. session = "streaming" => \A b \in After : Num[b] = EndTrim => b \in chain'
    BY <2>1, LineTypes DEF StatusInv, LineInv
  <2>4. fill_status.irreversible <= lib'
    BY <2>1, LineTypes DEF StatusInv
  <2>5. UNCHANGED <<schema, received_block, fill_status, session, pc, table_streams, cur>>
    BY DEF dbVars, memVars, stepVars
  <2> QED
    BY <1>1, <1>2, <2>2, <2>3, <2>4, <2>5 DEF StatusInv, OnRoot
<1> QED
  BY <1>6, <1>7

LEMMA ApplyBlockBranch ==
  ASSUME IInv, BranchInv, NodeosStep, NEW b \in Block, ApplyBlock(b)
  PROVE  BranchInv'
<1>1. /\ Parent[b] \in chain /\ lib < Num[b] /\ chain' = Below(chain, Num[b]) \cup {b}
      /\ next' = (IF Num[b] < next THEN Num[b] ELSE next)
      /\ UNCHANGED <<lib, begin, wire, dbVars, session, memVars, stepVars>>
  BY DEF ApplyBlock, NodeosStep
<1>2. /\ lib \in Nat /\ next \in Nat /\ begin \in Nat /\ chain \subseteq Block
      /\ \A x \in Block : Num[x] \in Nat
  BY TreeAssumption DEF IInv, TypeOK, NodeosTypeOK
<1>3. RootInv'
  BY ApplyBlockRoot DEF BranchInv, IInv, TypeOK
<1>4. \A c \in chain : Num[c] <= lib => c \in chain'
  BY <1>1, <1>2 DEF Below
<1>5. \A n \in Nat : n <= lib /\ SendsBeyond(n) => SendsBeyond(n)'
  <2>1. \A n \in Nat : n <= lib /\ (n < next \/ n < begin) => n < next' \/ n < begin'
    BY <1>1, <1>2
  <2> QED
    BY <2>1 DEF SendsBeyond
<1>6. session # "streaming" => next' = 0
  BY <1>1, <1>2 DEF BranchInv, LineInv
<1>7. lib' \in Nat /\ lib <= lib'
  BY <1>1, <1>2
<1>8. UNCHANGED <<dbVars, session, memVars, stepVars, wire>>
  BY <1>1
<1> QED
  BY <1>3, <1>4, <1>5, <1>6, <1>7, <1>8, LineKept DEF BranchInv

LEMMA AdvanceLibBranch ==
  ASSUME IInv, BranchInv, NodeosStep, AdvanceLib
  PROVE  BranchInv'
<1>1. /\ lib \in Nat /\ lib' = lib + 1
      /\ UNCHANGED <<chain, begin, next, wire, dbVars, session, memVars, stepVars>>
  BY DEF AdvanceLib, NodeosStep, IInv, TypeOK, NodeosTypeOK
<1>2. RootInv'
  BY <1>1 DEF BranchInv, RootInv, OnRoot
<1>3. \A n \in Nat : n <= lib /\ SendsBeyond(n) => SendsBeyond(n)'
  BY <1>1 DEF SendsBeyond
<1>4. session # "streaming" => next' = 0
  BY <1>1 DEF BranchInv, LineInv
<1>5. lib' \in Nat /\ lib <= lib' /\ \A c \in chain : c \in chain'
  BY <1>1
<1>6. UNCHANGED <<dbVars, session, memVars, stepVars, wire>>
  BY <1>1
<1> QED
  BY <1>2, <1>3, <1>4, <1>5, <1>6, LineKept DEF BranchInv

LEMMA ReplaceNodeBranch ==
  ASSUME IInv, BranchInv, NodeosStep, session # "streaming",
         NEW n \in 0..Height, NEW bg \in LogBegins, ReplaceNode(n, bg)
  PROVE  BranchInv'
<1>1. /\ lib <= n /\ n \in Nat /\ begin <= begin' /\ chain' = {c \in chain : Num[c] < n + 1}
      /\ UNCHANGED <<lib, next, wire, dbVars, session, memVars, stepVars>>
      /\ begin' \in Nat
  BY NodeosAssumption DEF ReplaceNode, NodeosStep, Below
<1>2. /\ lib \in Nat /\ next \in Nat /\ begin \in Nat /\ chain \subseteq Block
      /\ \A x \in Block : Num[x] \in Nat
  BY TreeAssumption DEF IInv, TypeOK, NodeosTypeOK
<1>3. RootInv'
  BY ReplaceNodeRoot DEF BranchInv, IInv, TypeOK
<1>4. \A c \in chain : Num[c] <= lib => c \in chain'
  BY <1>1, <1>2
<1>5. \A m \in Nat : m <= lib /\ SendsBeyond(m) => SendsBeyond(m)'
  <2>1. \A m \in Nat : m < next \/ m < begin => m < next' \/ m < begin'
    BY <1>1, <1>2
  <2> QED
    BY <2>1 DEF SendsBeyond
<1>6. session # "streaming" => next' = 0
  BY <1>1 DEF BranchInv, LineInv
<1>7. lib' \in Nat /\ lib <= lib'
  BY <1>1, <1>2
<1>8. UNCHANGED <<dbVars, session, memVars, stepVars, wire>>
  BY <1>1
<1> QED
  BY <1>3, <1>4, <1>5, <1>6, <1>7, <1>8, LineKept DEF BranchInv

\* What nodeos sends goes back to nothing it had irreversible in an earlier message.
LEMMA SendBranch ==
  ASSUME IInv, BranchInv, NodeosStep, SendBlocksResult
  PROVE  BranchInv'
<1> DEFINE m == [this_block |-> Id(next), prev_block |-> Id(next - 1), lib |-> lib]
           L == Len(wire)
<1>1. /\ next # 0 /\ next' = next + 1 /\ wire' = Append(wire, m)
      /\ UNCHANGED <<chain, lib, begin, dbVars, session, memVars, stepVars>>
  BY DEF SendBlocksResult, NodeosStep
<1>2. /\ lib \in Nat /\ next \in Nat /\ begin \in Nat /\ chain \subseteq Block
      /\ wire \in Seq(BlocksResult) /\ Mark \in Nat
  BY LineTypes DEF IInv, TypeOK, NodeosTypeOK
<1>3. session = "streaming"
  BY <1>1 DEF BranchInv, LineInv
<1>4. m \in BlocksResult
  BY <1>2, AtTyped DEF Id, MaybeBlock, BlocksResult
<1>5. Id(next) # NoBlock => Id(next) \in chain /\ Num[Id(next)] = next /\ begin <= next
  BY <1>2 DEF Id, At
<1>6. /\ m.lib = lib
      /\ m.this_block # NoBlock => m.this_block \in chain /\ N(m.this_block) = next /\ begin <= next
      /\ N(m.this_block) <= next
  <2>1. Id(next) # NoBlock => N(Id(next)) = next
    BY <1>5 DEF N
  <2>2. Id(next) = NoBlock => N(Id(next)) = 0
    BY DEF N
  <2> QED
    BY <1>2, <1>5, <2>1, <2>2
<1>7. Anchored(m)
  <2>1. CASE m.this_block = NoBlock
    BY <2>1 DEF Anchored
  <2>2. CASE m.this_block # NoBlock
    BY <1>4, <1>6, <2>2, SentAnchored DEF BranchInv, IInv, TypeOK
  <2> QED
    BY <2>1, <2>2
<1> HIDE DEF m
<1>8. \A n \in Nat : n <= lib /\ SendsBeyond(n) => Beyond(n, m)
  BY <1>2, <1>6 DEF SendsBeyond, Beyond
<1>9. Fixed(m) \in Nat /\ Fixed(m) < next'
  BY <1>1, <1>2, <1>4, <1>6, LineTypes
<1>10. \A k \in DOMAIN wire' : \/ k \in DOMAIN wire /\ wire'[k] = wire[k] /\ k \in 1..L
                               \/ wire'[k] = m /\ k = L + 1
  BY <1>1, <1>2, <1>4
<1>11. \A j \in 1..L : wire'[j] = wire[j] /\ j \in DOMAIN wire /\ wire[j] \in BlocksResult
  BY <1>1, <1>2, <1>4
<1>12. L \in Nat
  BY <1>2
<1> HIDE DEF L
<1>13. UNCHANGED <<EndTrim, Pending, After, Applied, Mark>>
  <2>1. UNCHANGED <<head, EndTrim, Applied, Pending, Received>>
    BY <1>1 DEF dbVars, memVars, stepVars, head, EndTrim, Applied, Pending, Received,
           TruncatedReceived, Below
  <2> QED
    BY <1>1, <2>1 DEF After, Mark, Fixed, dbVars, stepVars
<1>14. \A x : (Anchored(x) => Anchored(x)') /\ (x \in Nat /\ SendsBeyond(x) => SendsBeyond(x)')
  BY <1>1, <1>2 DEF Anchored, OnRoot, SendsBeyond
<1>15. Mark <= lib /\ SendsBeyond(Mark) /\ irreversible <= lib
  BY <1>2, <1>3, LineTypes DEF BranchInv, LineInv, Mark
<1>16. ASSUME NEW k \in DOMAIN wire', NEW x, x = wire'[k]
       PROVE  /\ x.lib <= lib /\ Anchored(x)' /\ Beyond(Mark, x)
              /\ Fixed(x) < next' \/ Fixed(x) < begin
              /\ \A j \in 1..(k - 1) : Beyond(Fixed(wire'[j]), x)
  <2>1. CASE k \in DOMAIN wire /\ x = wire[k] /\ k \in 1..L
    <3>1. /\ x.lib <= lib /\ Anchored(x) /\ Beyond(Mark, x) /\ SendsBeyond(Fixed(x))
          /\ \A j \in 1..(k - 1) : Beyond(Fixed(wire[j]), x)
      BY <2>1 DEF BranchInv, LineInv
    <3>2. x \in BlocksResult /\ Fixed(x) \in Nat
      BY <1>11, <2>1, LineTypes
    <3>3. \A j \in 1..(k - 1) : j \in 1..L
      BY <1>12, <2>1
    <3> QED
      BY <1>1, <1>2, <1>11, <1>14, <3>1, <3>2, <3>3 DEF SendsBeyond
  <2>2. CASE x = m /\ k = L + 1
    <3>1. \A j \in 1..(k - 1) : j \in 1..L
      BY <1>12, <2>2
    <3>2. ASSUME NEW j \in 1..L PROVE Beyond(Fixed(wire[j]), m)
      <4>1. Fixed(wire[j]) \in Nat /\ Fixed(wire[j]) <= wire[j].lib /\ wire[j].lib \in Nat
        BY <1>11, LineTypes
      <4>2. wire[j].lib <= lib /\ SendsBeyond(Fixed(wire[j]))
        BY <1>11 DEF BranchInv, LineInv
      <4>3. Fixed(wire[j]) <= lib
        BY <1>2, <4>1, <4>2
      <4> QED
        BY <1>8, <4>1, <4>2, <4>3
    <3>3. Beyond(Mark, m)
      BY <1>2, <1>8, <1>15
    <3>4. \A j \in 1..(k - 1) : Beyond(Fixed(wire'[j]), x)
      BY <1>11, <2>2, <3>1, <3>2
    <3>5. Fixed(x) < next' /\ Anchored(x)' /\ x.lib <= lib /\ Beyond(Mark, x)
      BY <1>2, <1>6, <1>7, <1>9, <1>14, <2>2, <3>3
    <3> QED
      BY <3>4, <3>5
  <2> QED
    BY <1>10, <1>16, <2>1, <2>2
<1>17. LineInv'
  <2>1. ASSUME Pending, NEW x, x = cur PROVE x.lib <= lib /\ Anchored(x)' /\ Beyond(EndTrim, x)
    BY <1>14, <2>1 DEF BranchInv, LineInv
  <2>2. Mark < next' \/ Mark < begin
    BY <1>1, <1>2, <1>15 DEF SendsBeyond
  <2>3. UNCHANGED <<lib, begin, session, irreversible, cur>>
    BY <1>1 DEF memVars, stepVars
  <2> QED
    BY <1>3, <1>13, <1>15, <1>16, <2>1, <2>2, <2>3 DEF LineInv, Beyond, Fixed, SendsBeyond
<1>18. StatusInv' /\ RootInv'
  BY <1>1, <1>13 DEF BranchInv, StatusInv, RootInv, OnRoot, dbVars, memVars, stepVars
<1> QED
  BY <1>17, <1>18 DEF BranchInv

LEMMA NodeosBranch ==
  ASSUME IInv, BranchInv, NodeosStep
  PROVE  BranchInv'
BY ApplyBlockBranch, AdvanceLibBranch, SendBranch, ReplaceNodeBranch DEF NodeosStep

------------------------------------------------------------------------------
(* The filler's steps *)

\* Out of a session only what is committed matters.
LEMMA BranchOutOfSession ==
  ASSUME RootInv, session' # "streaming", pc' = "idle", wire' = <<>>, next' = 0,
         UNCHANGED <<chain, lib>>,
         fill_status'.irreversible <= N(fill_status'.head_id),
         fill_status'.irreversible <= lib,
         \A b \in received_block' :
           OnRoot(b) /\ (Num[b] = fill_status'.irreversible => b \in chain)
  PROVE  BranchInv'
<1>1. ~Applied' /\ ~Pending'
  BY DEF Applied, Pending
<1>2. RootInv'
  BY DEF RootInv, OnRoot
<1>3. LineInv'
  BY <1>1 DEF LineInv
<1>4. StatusInv'
  BY <1>1 DEF StatusInv, OnRoot
<1> QED
  BY <1>2, <1>3, <1>4 DEF BranchInv

LEMMA BranchSessionEnded ==
  ASSUME BranchInv, NEW s, s # "streaming", EndSession(s), UNCHANGED dbVars
  PROVE  BranchInv'
<1>1. /\ session' # "streaming" /\ pc' = "idle" /\ wire' = <<>> /\ next' = 0
      /\ UNCHANGED <<chain, lib>>
  BY DEF EndSession, SessionGone
<1>2. UNCHANGED <<received_block, fill_status>>
  BY DEF dbVars
<1> QED
  BY <1>1, <1>2, BranchOutOfSession DEF BranchInv, StatusInv

LEMMA BranchStartSession ==
  ASSUME IInv, BranchInv, session # "streaming", NEW opts, StartSession(opts)
  PROVE  BranchInv'
<1>1. /\ session' # "streaming" /\ pc' = "idle" /\ wire' = <<>> /\ next' = 0
      /\ UNCHANGED <<chain, lib>>
  BY DEF StartSession, IInv, StepInv, BranchInv, LineInv, nodeosVars, stepVars
<1>2. CASE "drop" \in opts
  <2>1. received_block' = {} /\ fill_status' = NoStatus
    BY <1>2 DEF StartSession
  <2>2. fill_status'.irreversible = 0 /\ fill_status'.head_id = NoBlock
    BY <2>1 DEF NoStatus
  <2>3. N(fill_status'.head_id) = 0 /\ lib \in Nat
    BY <2>2, LineTypes DEF N
  <2>4. fill_status'.irreversible <= N(fill_status'.head_id) /\ fill_status'.irreversible <= lib
    BY <2>2, <2>3
  <2> QED
    BY <1>1, <2>1, <2>4, BranchOutOfSession DEF BranchInv
<1>3. CASE "drop" \notin opts
  <2>1. UNCHANGED <<received_block, fill_status>>
    BY <1>3 DEF StartSession, dbVars
  <2> QED
    BY <1>1, <2>1, BranchOutOfSession DEF BranchInv, StatusInv
<1> QED
  BY <1>2, <1>3

LEMMA BranchReceivedAbi ==
  ASSUME IInv, BranchInv, ReceivedAbi
  PROVE  BranchInv'
<1>1. CASE EndSession("stopped") /\ UNCHANGED dbVars
  BY <1>1, BranchSessionEnded
<1>2. CASE ~(EndSession("stopped") /\ UNCHANGED dbVars)
  <2>1. /\ session = "connecting" /\ session' # "streaming"
        /\ UNCHANGED <<received_block, fill_status, nodeosVars, stepVars>>
    BY <1>2 DEF ReceivedAbi
  <2>2. pc' = "idle" /\ wire' = <<>> /\ next' = 0 /\ UNCHANGED <<chain, lib>>
    BY <2>1 DEF IInv, StepInv, BranchInv, LineInv, nodeosVars, stepVars
  <2> QED
    BY <2>1, <2>2, BranchOutOfSession DEF BranchInv, StatusInv
<1> QED
  BY <1>1, <1>2

\* The positions a session offers reach down to the irreversible block, which nodeos
\* has too unless its logs begin later: it sends nothing from there down.
LEMMA StreamsBeyond ==
  ASSUME IInv, BranchInv, NEW h \in MaybeBlock, N(h) = N(fill_status.head_id)
  PROVE  LET n == StreamFrom(FirstWanted(h), Positions)
         IN  fill_status.irreversible < n \/ fill_status.irreversible < begin
<1> DEFINE i == fill_status.irreversible
           start == FirstWanted(h)
           P == {q \in Positions : Num[q] < start /\ Id(Num[q]) # q}
           S == {start} \cup {Num[p] : p \in P}
<1>1. /\ i \in Nat /\ begin \in Nat /\ N(h) \in Nat /\ i <= N(h)
      /\ chain \subseteq Block /\ IsStretch(chain)
      /\ \A b \in Block : Num[b] \in Nat
      /\ received_block \subseteq Block
  BY NIsNat, TreeAssumption
     DEF IInv, TypeOK, NodeosTypeOK, NodeosInv, FillStatus, BranchInv, StatusInv
<1>2. start \in Nat /\ N(h) + 1 <= start
  <2> DEFINE m == N(h) + 1
             T == {SkipTo, m, begin}
  <2>1. m \in Nat /\ SkipTo \in Nat
    BY <1>1, FillAssumption
  <2> HIDE DEF m
  <2>2. \E x \in T : \A y \in T : x >= y
    BY <1>1, <2>1
  <2>3. start = CHOOSE x \in T : \A y \in T : x >= y
    BY DEF FirstWanted, Max, m
  <2> QED
    BY <1>1, <2>1, <2>2, <2>3 DEF m
<1>3. \A p \in P : p \in Positions /\ p \in Block /\ Id(Num[p]) # p
  BY <1>1 DEF Positions
<1> HIDE DEF P, start
<1>4. S \in SUBSET Nat /\ S # {}
  BY <1>1, <1>2, <1>3
<1>5. Min(S) \in S
  BY <1>4, MinInSet
<1>6. CASE Min(S) = start
  BY <1>1, <1>2, <1>6 DEF StreamFrom, P, start
<1>7. CASE Min(S) # start
  <2>1. PICK p \in P : Num[p] = Min(S)
    BY <1>5, <1>7
  <2>2. p \in received_block /\ i <= Num[p] /\ Id(Num[p]) # p /\ Num[p] \in Nat
    BY <1>1, <1>3, <2>1 DEF Positions
  <2>3. CASE i < Num[p]
    BY <2>1, <2>3 DEF StreamFrom, P, start
  <2>4. CASE Num[p] = i
    <3>1. p \in chain
      BY <2>2, <2>4 DEF BranchInv, StatusInv
    <3>2. At(chain, Num[p]) = p
      BY <1>1, <3>1 DEF At, IsStretch
    <3>3. Num[p] < begin
      BY <1>1, <2>2, <3>2 DEF Id
    <3> QED
      BY <2>4, <3>3
  <2> QED
    BY <1>1, <2>2, <2>3, <2>4
<1> QED
  BY <1>6, <1>7

LEMMA BranchReceivedStatus ==
  ASSUME IInv, IInv', BranchInv, ReceivedStatus
  PROVE  BranchInv'
<1>1. CASE ~schema
  BY <1>1, BranchSessionEnded DEF ReceivedStatus, dbVars
<1>2. CASE schema
  <2> DEFINE s == fill_status.head_id
             i == fill_status.irreversible
             n == N(s) + 1
             h == TruncatedHead(n)
  <2>1. /\ session = "querying" /\ session' = "streaming" /\ head_id' = h /\ irreversible' = i
        /\ received_block' = {b \in received_block : Num[b] < n}
        /\ next' = StreamFrom(FirstWanted(h), Positions)
        /\ UNCHANGED <<chain, lib, begin, wire, schema, fill_status, pc>>
    BY <1>2 DEF ReceivedStatus, TruncatedReceived, Below, stepVars
  <2>2. pc = "idle" /\ pc' = "idle" /\ ~Applied' /\ ~Pending' /\ wire' = <<>> /\ table_streams' = {}
    <3>1. pc = "idle" /\ wire = <<>> /\ table_streams' = {}
      BY <1>2, <2>1 DEF IInv, StepInv, BranchInv, LineInv, ReceivedStatus
    <3> QED
      BY <2>1, <3>1 DEF Applied, Pending
  <2>3. After' = received_block'
    BY <2>2 DEF After
  <2>4. s \in MaybeBlock /\ N(s) \in Nat /\ i \in Nat /\ i <= N(s) /\ i <= lib /\ lib \in Nat
    BY Facts, LineTypes DEF TypeOK, FillStatus, BranchInv, StatusInv
  <2>5. head_id' = s
    <3>1. TipIs(received_block', head_id')
      BY <2>1, <2>3 DEF IInv, HistoryInv
    <3>2. fill_status'.head_id = s /\ (s # NoBlock => s \in received_block')
      BY <2>1 DEF IInv, HistoryInv
    <3>3. /\ \A b \in received_block' : b \in Block /\ Num[b] \in Nat /\ Num[b] <= N(s)
          /\ IsStretch(received_block')
      BY <2>1, <2>4, Facts DEF IInv, HistoryInv
    <3>4. CASE s = NoBlock
      <4>1. received_block' = {}
        BY <3>3, <3>4, Facts DEF N
      <4> QED
        BY <3>1, <3>4, <4>1 DEF TipIs
    <3>5. CASE s # NoBlock
      <4>1. head_id' \in received_block' /\ Num[s] <= Num[head_id']
        BY <3>1, <3>2, <3>5 DEF TipIs
      <4>2. Num[head_id'] = Num[s]
        BY <3>2, <3>3, <3>5, <4>1 DEF N
      <4> QED
        BY <3>2, <3>3, <3>5, <4>1, <4>2 DEF IsStretch
    <3> QED
      BY <3>4, <3>5
  <2>6. h \in MaybeBlock /\ N(h) = N(s)
    BY <2>1, <2>4, <2>5
  <2> HIDE DEF h, n
  <2>7. EndTrim' = i
    <3>1. head' = N(s)
      BY <2>5 DEF head
    <3> QED
      BY <2>1, <2>4, <3>1 DEF EndTrim
  <2>8. i < next' \/ i < begin'
    BY <2>1, <2>6, StreamsBeyond
  <2>9. RootInv'
    BY <2>1 DEF BranchInv, RootInv, OnRoot
  <2>10. LineInv'
    <3>1. Mark' = i
      BY <2>2, <2>7 DEF Mark
    <3> QED
      BY <2>1, <2>2, <2>4, <2>8, <3>1 DEF LineInv, SendsBeyond
  <2>11. StatusInv'
    <3>1. \A b \in received_block' : OnRoot(b) /\ (Num[b] = i => b \in chain)
      BY <2>1 DEF BranchInv, StatusInv
    <3> QED
      BY <1>2, <2>1, <2>2, <2>3, <2>4, <2>7, <3>1 DEF StatusInv, OnRoot
  <2> QED
    BY <2>9, <2>10, <2>11 DEF BranchInv
<1> QED
  BY <1>1, <1>2

\* The messages that are left are past what the first of them has irreversible.
LEMMA TailOfLine ==
  ASSUME IInv, BranchInv, session = "streaming", wire # <<>>,
         wire' = Tail(wire), UNCHANGED <<chain, lib, begin, next>>
  PROVE  /\ Head(wire) \in BlocksResult
         /\ Head(wire).lib <= lib /\ Anchored(Head(wire)) /\ Beyond(Mark, Head(wire))
         /\ SendsBeyond(Fixed(Head(wire)))
         /\ \A k \in DOMAIN wire' :
              /\ wire'[k] \in BlocksResult /\ wire'[k].lib <= lib
              /\ Anchored(wire'[k]) /\ Beyond(Mark, wire'[k])
              /\ Beyond(Fixed(Head(wire)), wire'[k])
              /\ SendsBeyond(Fixed(wire'[k]))
              /\ \A j \in 1..(k - 1) : Beyond(Fixed(wire'[j]), wire'[k])
<1>1. wire \in Seq(BlocksResult) /\ 1 \in DOMAIN wire /\ Head(wire) = wire[1]
  BY DEF IInv, TypeOK, NodeosTypeOK
<1>2. \A k \in DOMAIN wire : wire[k] \in BlocksResult
  BY <1>1
<1>3. \A k \in DOMAIN wire' : /\ k + 1 \in DOMAIN wire /\ wire'[k] = wire[k + 1]
                              /\ k \in Nat /\ 1 \in 1..k
  BY <1>1
<1>4. \A k \in DOMAIN wire :
        /\ wire[k].lib <= lib /\ Anchored(wire[k])
        /\ Beyond(Mark, wire[k]) /\ SendsBeyond(Fixed(wire[k]))
        /\ \A j \in 1..(k - 1) : Beyond(Fixed(wire[j]), wire[k])
  BY DEF BranchInv, LineInv
<1>5. /\ Head(wire) \in BlocksResult
      /\ Head(wire).lib <= lib /\ Anchored(Head(wire)) /\ Beyond(Mark, Head(wire))
      /\ SendsBeyond(Fixed(Head(wire)))
  BY <1>1, <1>2, <1>4
<1>6. ASSUME NEW k \in DOMAIN wire'
      PROVE  /\ wire'[k] \in BlocksResult /\ wire'[k].lib <= lib
             /\ Anchored(wire'[k]) /\ Beyond(Mark, wire'[k])
             /\ SendsBeyond(Fixed(wire'[k]))
             /\ Beyond(Fixed(Head(wire)), wire'[k])
             /\ \A j \in 1..(k - 1) : Beyond(Fixed(wire'[j]), wire'[k])
  <2>1. /\ k + 1 \in DOMAIN wire /\ wire'[k] = wire[k + 1] /\ k \in Nat /\ 1 \in 1..k
        /\ (k + 1) - 1 = k
    BY <1>3
  <2>2. \A j \in 1..k : Beyond(Fixed(wire[j]), wire[k + 1])
    BY <1>4, <2>1
  <2>3. ASSUME NEW j \in 1..(k - 1) PROVE Beyond(Fixed(wire'[j]), wire'[k])
    <3>1. j \in DOMAIN wire' /\ j + 1 \in 1..k
      BY <1>1, <2>1
    <3>2. wire'[j] = wire[j + 1]
      BY <1>3, <3>1
    <3> QED
      BY <2>1, <2>2, <3>1, <3>2
  <2> QED
    BY <1>1, <1>2, <1>4, <2>1, <2>2, <2>3
<1> QED
  BY <1>5, <1>6

\* Anchored and SendsBeyond speak of nodeos alone.
LEMMA NodeosAlone ==
  ASSUME UNCHANGED <<chain, lib, begin, next>>
  PROVE  /\ \A x : Anchored(x) => Anchored(x)'
         /\ \A x : SendsBeyond(x) => SendsBeyond(x)'
         /\ RootInv => RootInv'
BY DEF Anchored, OnRoot, SendsBeyond, RootInv

\* What is to hold of the line after a step of a session that stays open.
LEMMA LineAfter ==
  ASSUME UNCHANGED <<chain, lib, begin, next>>, session' = "streaming",
         \A k \in DOMAIN wire' :
           /\ wire'[k].lib <= lib /\ Anchored(wire'[k]) /\ SendsBeyond(Fixed(wire'[k]))
           /\ Beyond(Mark', wire'[k])
           /\ \A j \in 1..(k - 1) : Beyond(Fixed(wire'[j]), wire'[k]),
         Pending' => cur'.lib <= lib /\ Anchored(cur') /\ Beyond(EndTrim', cur'),
         irreversible' <= lib, SendsBeyond(Mark')
  PROVE  LineInv'
BY NodeosAlone DEF LineInv, Beyond, Fixed

\* Steps between taking a message and having applied it leave the line alone.
LEMMA LineSame ==
  ASSUME LineInv, session = "streaming", UNCHANGED <<chain, lib, begin, next, wire, session>>,
         Mark' = Mark, irreversible' <= lib,
         Pending' => Pending /\ cur' = cur /\ EndTrim' = EndTrim
  PROVE  LineInv'
<1>1. \A k \in DOMAIN wire' :
        /\ wire'[k].lib <= lib /\ Anchored(wire'[k]) /\ SendsBeyond(Fixed(wire'[k]))
        /\ Beyond(Mark', wire'[k])
        /\ \A j \in 1..(k - 1) : Beyond(Fixed(wire'[j]), wire'[k])
  BY DEF LineInv
<1>2. Pending' => cur'.lib <= lib /\ Anchored(cur') /\ Beyond(EndTrim', cur')
  BY DEF LineInv
<1>3. SendsBeyond(Mark')
  BY DEF LineInv
<1>4. session' = "streaming"
  OBVIOUS
<1> QED
  BY <1>1, <1>2, <1>3, <1>4, LineAfter

\* The status and the received blocks as they were.
LEMMA StatusSame ==
  ASSUME StatusInv, UNCHANGED <<chain, lib, schema, received_block, fill_status, session>>,
         After' = After, EndTrim' = EndTrim,
         Applied' => Applied /\ cur' = cur,
         pc' \in {"idle", "trim", "apply"} /\ table_streams' = {} =>
           pc \in {"idle", "trim", "apply"} /\ table_streams = {}
  PROVE  StatusInv'
BY DEF StatusInv, OnRoot

LEMMA BranchSkipResult ==
  ASSUME IInv, BranchInv, SkipResult
  PROVE  BranchInv'
<1>1. /\ session = "streaming" /\ wire # <<>> /\ wire' = Tail(wire)
      /\ UNCHANGED <<chain, lib, begin, next, dbVars, session, memVars, stepVars>>
  BY DEF SkipResult
<1>2. UNCHANGED <<EndTrim, Pending, Applied, After, Mark, cur, irreversible>>
  <2>1. UNCHANGED <<head, EndTrim, Applied, Pending, Received>>
    BY <1>1 DEF dbVars, memVars, stepVars, head, EndTrim, Applied, Pending, Received,
           TruncatedReceived, Below
  <2> QED
    BY <1>1, <2>1 DEF After, Mark, Fixed, dbVars, stepVars, memVars
<1>3. LineInv'
  <2>1. session' = "streaming" /\ UNCHANGED <<chain, lib, begin, next>>
    BY <1>1
  <2>2. Pending' => cur'.lib <= lib /\ Anchored(cur') /\ Beyond(EndTrim', cur')
    BY <1>2 DEF BranchInv, LineInv
  <2>3. irreversible' <= lib /\ SendsBeyond(Mark')
    BY <1>1, <1>2 DEF BranchInv, LineInv
  <2>4. \A k \in DOMAIN wire' :
          /\ wire'[k].lib <= lib /\ Anchored(wire'[k]) /\ SendsBeyond(Fixed(wire'[k]))
          /\ Beyond(Mark', wire'[k])
          /\ \A j \in 1..(k - 1) : Beyond(Fixed(wire'[j]), wire'[k])
    BY <1>1, <1>2, TailOfLine
  <2> QED
    BY <2>1, <2>2, <2>3, <2>4, LineAfter
<1>4. StatusInv'
  BY <1>1, <1>2, StatusSame DEF BranchInv, dbVars, memVars, stepVars
<1> QED
  BY <1>1, <1>3, <1>4, NodeosAlone DEF BranchInv

\* A result taken lies past the irreversible block the history has, and all that
\* follow it past the one it brings.
LEMMA BranchBeginBlock ==
  ASSUME IInv, IInv', BranchInv, BeginBlock
  PROVE  BranchInv'
<1> DEFINE m == Head(wire)
<1>1. /\ session = "streaming" /\ pc = "idle" /\ wire # <<>> /\ wire' = Tail(wire)
      /\ cur' = Decide(m)
      /\ UNCHANGED <<chain, lib, begin, next, dbVars, session, memVars>>
      /\ pc' \in {"trim", "apply", "flush"}
      /\ (pc' = "flush" => then' \in {"stop", "trim"} /\ table_streams # {})
      /\ (pc' # "flush" => then' = "none")
  BY DEF BeginBlock, AfterClose
<1>2. cur'.this_block = m.this_block /\ cur'.lib = m.lib
  BY <1>1 DEF Decide
<1>3. /\ ~Pending /\ ~Applied /\ ~Applied'
      /\ UNCHANGED <<head, EndTrim, irreversible, received_block, table_streams>>
  BY <1>1 DEF Pending, Applied, head, EndTrim, dbVars, memVars
<1>4. After' = received_block /\ After = received_block
  BY <1>3 DEF After
<1>5. /\ m \in BlocksResult /\ m.lib <= lib /\ Anchored(m) /\ Beyond(Mark, m)
      /\ SendsBeyond(Fixed(m))
      /\ \A k \in DOMAIN wire' :
           /\ wire'[k].lib <= lib /\ Anchored(wire'[k]) /\ Beyond(Mark, wire'[k])
           /\ Beyond(Fixed(m), wire'[k]) /\ SendsBeyond(Fixed(wire'[k]))
           /\ \A j \in 1..(k - 1) : Beyond(Fixed(wire'[j]), wire'[k])
  BY <1>1, TailOfLine
<1> HIDE DEF m
<1>6. Mark = EndTrim /\ Mark' = (IF Pending' THEN Fixed(m) ELSE EndTrim)
  BY <1>2, <1>3 DEF Mark, Fixed
<1>7. Anchored(cur') /\ Beyond(EndTrim', cur') /\ cur'.lib <= lib
  BY <1>2, <1>3, <1>5, <1>6 DEF Anchored, Beyond, Fixed
<1>8. LineInv'
  <2>1. session' = "streaming" /\ UNCHANGED <<chain, lib, begin, next>>
    BY <1>1
  <2>2. irreversible' <= lib /\ SendsBeyond(Mark')
    BY <1>1, <1>3, <1>5, <1>6 DEF BranchInv, LineInv
  <2>3. \A k \in DOMAIN wire' :
          /\ wire'[k].lib <= lib /\ Anchored(wire'[k]) /\ SendsBeyond(Fixed(wire'[k]))
          /\ Beyond(Mark', wire'[k])
          /\ \A j \in 1..(k - 1) : Beyond(Fixed(wire'[j]), wire'[k])
    BY <1>5, <1>6
  <2> QED
    BY <1>7, <2>1, <2>2, <2>3, LineAfter
<1>9. StatusInv'
  <2>1. Applied' => Applied /\ cur' = cur
    BY <1>3
  <2>2. pc' \in {"idle", "trim", "apply"} /\ table_streams' = {} =>
          pc \in {"idle", "trim", "apply"} /\ table_streams = {}
    BY <1>1, <1>3
  <2>3. UNCHANGED <<chain, lib, schema, received_block, fill_status, session>>
    BY <1>1 DEF dbVars
  <2> QED
    BY <1>3, <1>4, <2>1, <2>2, <2>3, StatusSame DEF BranchInv
<1> QED
  BY <1>1, <1>8, <1>9, NodeosAlone DEF BranchInv

LEMMA BranchFlushStream ==
  ASSUME IInv, BranchInv, NEW t \in Table, FlushStream(t)
  PROVE  BranchInv'
<1>1. /\ pc = "flush" /\ session = "streaming"
      /\ UNCHANGED <<nodeosVars, schema, received_block, fill_status, session,
                     head_id, irreversible, first, cur>>
      /\ \/ pc' = "flush" /\ then' = then
         \/ pc' = "commit" /\ then = "commit"
         \/ pc' = "status" /\ then' = then /\ then # "commit"
  BY DEF FlushStream, IInv, StepInv
<1>2. UNCHANGED <<chain, lib, begin, next, wire>>
  BY <1>1 DEF nodeosVars
<1>3. UNCHANGED <<head, EndTrim, Received>> /\ Applied' = Applied /\ Pending' = Pending
  BY <1>1 DEF head, EndTrim, Received, TruncatedReceived, Below, Applied, Pending
<1>4. UNCHANGED <<After, Mark>>
  BY <1>1, <1>3 DEF After, Mark, Fixed
<1>5. irreversible' <= lib
  BY <1>1 DEF BranchInv, LineInv
<1>6. LineInv'
  BY <1>1, <1>2, <1>3, <1>4, <1>5, LineSame DEF BranchInv
<1>7. StatusInv'
  BY <1>1, <1>2, <1>3, <1>4, StatusSame DEF BranchInv
<1> QED
  BY <1>2, <1>6, <1>7, NodeosAlone DEF BranchInv

\* The status is written where the history agrees with nodeos's branch.
LEMMA BranchCloseStreams ==
  ASSUME IInv, BranchInv, CloseStreams
  PROVE  BranchInv'
<1>1. /\ pc = "status" /\ session = "streaming" /\ then # "commit"
      /\ fill_status'.head_id = head_id /\ fill_status'.irreversible = EndTrim
      /\ UNCHANGED <<schema, received_block>>
  BY DEF CloseStreams, IInv, StepInv, StatusToWrite
<1>2. ~Applied /\ After = received_block
  BY <1>1 DEF Applied, After
<1>3. /\ EndTrim <= N(head_id) /\ EndTrim <= lib
      /\ \A b \in received_block : OnRoot(b) /\ (Num[b] = EndTrim => b \in chain)
  <2>1. irreversible <= lib
    BY <1>1 DEF BranchInv, LineInv
  <2>2. EndTrim <= head /\ EndTrim <= lib
    BY <2>1, LineTypes
  <2> QED
    BY <1>1, <1>2, <2>2 DEF head, BranchInv, StatusInv
<1>4. CASE then = "stop"
  <2>1. /\ session' # "streaming" /\ pc' = "idle" /\ wire' = <<>> /\ next' = 0
        /\ UNCHANGED <<chain, lib>>
    BY <1>4 DEF CloseStreams, EndSession, SessionGone
  <2> QED
    BY <1>1, <1>3, <2>1, BranchOutOfSession DEF BranchInv
<1>5. CASE then # "stop"
  <2>1. /\ UNCHANGED <<chain, lib, begin, next, wire, session, head_id, irreversible,
                       table_streams>>
        /\ pc' \in {"trim", "apply", "idle"}
        /\ pc' # "idle" => then = "trim" /\ cur' = cur
        /\ pc' = "idle" => then # "trim"
    BY <1>5 DEF CloseStreams, memVars, nodeosVars, AfterClose
  <2>2. ~Applied' /\ After' = received_block
    BY <1>1, <2>1 DEF Applied, After
  <2>3. /\ UNCHANGED <<head, EndTrim>> /\ Pending' = Pending
        /\ (Pending' => cur' = cur)
    BY <1>1, <2>1 DEF head, EndTrim, Pending
  <2>4. Mark' = Mark
    BY <2>3 DEF Mark, Fixed
  <2>5. irreversible' <= lib
    BY <1>1, <2>1 DEF BranchInv, LineInv
  <2>6. LineInv'
    BY <1>1, <2>1, <2>3, <2>4, <2>5, LineSame DEF BranchInv
  <2>7. EndTrim <= EndTrim
    BY LineTypes
  <2>8. StatusInv'
    BY <1>1, <1>3, <2>1, <2>2, <2>3, <2>7 DEF StatusInv, OnRoot, BranchInv
  <2> QED
    BY <2>1, <2>6, <2>8, NodeosAlone DEF BranchInv
<1> QED
  BY <1>4, <1>5

LEMMA BranchTrim ==
  ASSUME IInv, BranchInv, Trim
  PROVE  BranchInv'
<1>1. /\ pc = "trim" /\ pc' = "apply" /\ session = "streaming" /\ table_streams = {}
      /\ \A b \in received_block' : b \in received_block
      /\ UNCHANGED <<chain, lib, begin, next, wire, schema, fill_status, session, head_id,
                     irreversible, table_streams, then, cur>>
  BY DEF Trim, IInv, StepInv, nodeosVars
<1>2. ~Applied /\ ~Applied' /\ After = received_block /\ After' = received_block'
  BY <1>1 DEF Applied, After
<1>3. UNCHANGED <<head, EndTrim>> /\ Pending /\ Pending'
  BY <1>1 DEF head, EndTrim, Pending
<1>4. Mark' = Mark
  BY <1>1, <1>3 DEF Mark, Fixed
<1>5. irreversible' <= lib
  BY <1>1 DEF BranchInv, LineInv
<1>6. LineInv'
  BY <1>1, <1>3, <1>4, <1>5, LineSame DEF BranchInv
<1>7. StatusInv'
  BY <1>1, <1>2, <1>3 DEF StatusInv, OnRoot, BranchInv
<1> QED
  BY <1>1, <1>6, <1>7, NodeosAlone DEF BranchInv

\* With the block applied its message's irreversible block is the session's: the
\* history up to it is nodeos's, whatever has happened there since.
LEMMA BranchApplyBlock ==
  ASSUME IInv, IInv', BranchInv, ApplyBlockRows
  PROVE  BranchInv'
<1> DEFINE b == cur.this_block
<1>1. /\ pc = "apply" /\ session = "streaming" /\ b \in Block /\ b # NoBlock
      /\ UNCHANGED <<chain, lib, begin, next, wire, schema, received_block, fill_status,
                     session, cur>>
      /\ head_id' = b /\ irreversible' = cur.lib
      /\ pc' = "commit" \/ (pc' = "flush" /\ then' = "commit")
  BY TreeAssumption DEF ApplyBlockRows, IInv, StepInv, dbVars, nodeosVars
<1>2. Pending /\ ~Pending' /\ ~Applied /\ Applied'
  BY <1>1 DEF Pending, Applied
<1>3. /\ cur.lib <= lib /\ Anchored(cur) /\ EndTrim < Num[b] /\ EndTrim <= cur.lib
      /\ N(b) = Num[b]
  BY <1>1, <1>2 DEF BranchInv, LineInv, Beyond, N
<1>4. EndTrim' = Fixed(cur) /\ Mark' = Fixed(cur) /\ Mark = Fixed(cur)
  <2>1. head' = N(b)
    BY <1>1 DEF head
  <2>2. EndTrim' = Fixed(cur)
    BY <1>1, <2>1 DEF EndTrim, Fixed
  <2> QED
    BY <1>2, <2>2 DEF Mark
<1>5. EndTrim <= Fixed(cur) /\ EndTrim \in Nat /\ Fixed(cur) \in Nat /\ Num[b] \in Nat
  <2>1. EndTrim \in Nat /\ Fixed(cur) \in Nat /\ Num[b] \in Nat
    BY <1>1, LineTypes, TreeAssumption
  <2> QED
    BY <1>3, <2>1 DEF Fixed
<1>6. LineInv'
  BY <1>1, <1>2, <1>3, <1>4, LineSame DEF BranchInv
<1>7. StatusInv'
  <2>1. After' \in SUBSET Block /\ IsStretch(After') /\ b \in After'
    <3>1. After' \in SUBSET Block /\ IsStretch(After')
      BY <1>1, Facts DEF IInv, HistoryInv, After, Received, TruncatedReceived, Below
    <3>2. TipIs(After', b)
      BY <1>1 DEF IInv, HistoryInv
    <3> QED
      BY <1>1, <3>1, <3>2 DEF TipIs
  <2>2. \A c \in After' : OnRoot(c)
    <3>1. \A c \in After' : c \in received_block \/ c = b
      BY <1>1 DEF After, Received, TruncatedReceived, Below
    <3>2. OnRoot(b)
      BY <1>1, <1>3 DEF Anchored
    <3> QED
      BY <3>1, <3>2 DEF BranchInv, StatusInv
  <2>3. \A c \in After' : Num[c] = Fixed(cur) => c \in chain
    <3>1. \A c \in Block \ chain : Num[c] <= Fixed(cur) /\ OnRoot(c) => ~SameBranch(c, b)
      BY <1>1, <1>3 DEF Anchored
    <3>2. \A c \in After' : c \in Block /\ SameBranch(c, b)
      BY <2>1 DEF SameBranch
    <3> QED
      BY <1>5, <2>2, <3>1, <3>2
  <2>4. /\ fill_status.irreversible \in Nat /\ fill_status.irreversible <= EndTrim
        /\ fill_status.irreversible < Num[b] /\ fill_status.irreversible <= Fixed(cur)
    <3>1. fill_status.irreversible \in Nat /\ fill_status.irreversible <= EndTrim
      BY <1>1 DEF IInv, TypeOK, FillStatus, BranchInv, StatusInv
    <3> QED
      BY <1>3, <1>5, <3>1
  <2>5. pc' \notin {"idle", "trim", "apply"}
    BY <1>1
  <2> QED
    BY <1>1, <1>4, <2>2, <2>3, <2>4, <2>5 DEF StatusInv, OnRoot, BranchInv
<1> QED
  BY <1>1, <1>6, <1>7, NodeosAlone DEF BranchInv

LEMMA BranchCommitBlock ==
  ASSUME IInv, BranchInv, CommitBlock
  PROVE  BranchInv'
<1> DEFINE b == cur.this_block
<1>1. /\ pc = "commit" /\ session = "streaming" /\ Applied /\ head_id = b
      /\ (cur.forks => ~cur.bulk) /\ (~FlushFirst => table_streams # {})
      /\ received_block' = Received /\ After = Received
      /\ fill_status' = StatusCommitted
      /\ UNCHANGED <<chain, lib, begin, next, wire, schema, session, head_id, irreversible,
                     table_streams>>
      /\ pc' = "idle" \/ (pc' = "flush" /\ then' = "idle" /\ cur' = cur)
  BY DEF CommitBlock, IInv, StepInv, Applied, After, memVars, nodeosVars
<1>2. ~Applied' /\ ~Pending /\ ~Pending' /\ After' = Received
  BY <1>1 DEF Applied, Pending, After
<1>3. UNCHANGED <<head, EndTrim, Mark>>
  BY <1>1, <1>2 DEF head, EndTrim, Mark
<1>4. irreversible <= lib
  BY <1>1 DEF BranchInv, LineInv
<1>5. LineInv'
  BY <1>1, <1>2, <1>3, <1>4, LineSame DEF BranchInv
<1>6. /\ fill_status.irreversible <= EndTrim /\ fill_status.irreversible < Num[b]
      /\ \A c \in Received : OnRoot(c) /\ (Num[c] = EndTrim => c \in chain)
      /\ fill_status.irreversible <= N(fill_status.head_id)
      /\ fill_status.irreversible <= lib /\ schema /\ fill_status.irreversible \in Nat
  BY <1>1 DEF BranchInv, StatusInv, IInv, TypeOK, FillStatus
<1>7. CASE cur.bulk
  <2>1. fill_status' = fill_status /\ Received = received_block \cup {b}
    BY <1>1, <1>7 DEF StatusCommitted, Received
  <2>2. table_streams # {}
    BY <1>1, <1>7 DEF FlushFirst
  <2>3. \A c \in Received : Num[c] = fill_status.irreversible => c \in chain
    BY <1>6, <2>1 DEF BranchInv, StatusInv
  <2>4. StatusInv'
    BY <1>1, <1>2, <1>3, <1>6, <2>1, <2>2, <2>3 DEF StatusInv, OnRoot
  <2> QED
    BY <1>1, <1>5, <2>4, NodeosAlone DEF BranchInv
<1>8. CASE ~cur.bulk
  <2>1. fill_status'.head_id = head_id /\ fill_status'.irreversible = EndTrim
    BY <1>1, <1>8 DEF StatusCommitted, StatusToWrite
  <2>2. EndTrim <= N(head_id) /\ EndTrim <= lib /\ EndTrim <= EndTrim
    BY <1>4, LineTypes DEF head
  <2>3. StatusInv'
    BY <1>1, <1>2, <1>3, <1>6, <2>1, <2>2 DEF StatusInv, OnRoot
  <2> QED
    BY <1>1, <1>5, <2>3, NodeosAlone DEF BranchInv
<1> QED
  BY <1>7, <1>8

------------------------------------------------------------------------------
(* The invariant *)

LEMMA BranchInit ==
  ASSUME Init
  PROVE  BranchInv
<1>1. /\ pc = "idle" /\ session # "streaming" /\ received_block = {}
      /\ fill_status.irreversible = 0 /\ fill_status.head_id = NoBlock
      /\ chain = Genesis /\ lib = 0 /\ next = 0 /\ wire = <<>>
  BY DEF Init, NodeosInit, NoStatus
<1>2. ~Applied /\ ~Pending /\ N(fill_status.head_id) = 0
  BY <1>1 DEF Applied, Pending, N
<1>3. \A g \in Genesis : Num[g] <= Num[g]
  BY NodeosAssumption, TreeAssumption
<1>4. RootInv
  BY <1>1, <1>3 DEF RootInv, OnRoot
<1>5. LineInv /\ StatusInv
  BY <1>1, <1>2 DEF LineInv, StatusInv
<1> QED
  BY <1>4, <1>5 DEF BranchInv

LEMMA BranchStep ==
  ASSUME IInv, IInv', BranchInv, [Next]_vars
  PROVE  BranchInv'
<1>1. CASE NodeosStep
  BY <1>1, NodeosBranch
<1>2. CASE \E opts \in StartOptions : OperatorStart(opts)
  BY <1>2, BranchStartSession DEF OperatorStart
<1>3. CASE Retry
  BY <1>3, BranchStartSession DEF Retry
<1>4. CASE ReceivedAbi
  BY <1>4, BranchReceivedAbi
<1>5. CASE ReceivedStatus
  BY <1>5, BranchReceivedStatus
<1>6. CASE SkipResult
  BY <1>6, BranchSkipResult
<1>7. CASE StopAtBlock
  BY <1>7, BranchSessionEnded DEF StopAtBlock, dbVars
<1>8. CASE BeginBlock
  BY <1>8, BranchBeginBlock
<1>9. CASE \E t \in Table : FlushStream(t)
  BY <1>9, BranchFlushStream
<1>10. CASE CloseStreams
  BY <1>10, BranchCloseStreams
<1>11. CASE Trim
  BY <1>11, BranchTrim
<1>12. CASE ApplyBlockRows
  BY <1>12, BranchApplyBlock
<1>13. CASE PrevMismatch \/ ConnectionLost \/ Die
  <2>1. PICK s \in {"stopped", "waiting"} : EndSession(s) /\ UNCHANGED dbVars
    BY <1>13 DEF PrevMismatch, ConnectionLost, Die, dbVars
  <2> QED
    BY <2>1, BranchSessionEnded
<1>14. CASE CommitBlock
  BY <1>14, BranchCommitBlock
<1>15. CASE UNCHANGED vars
  <2>1. UNCHANGED <<chain, lib, begin, next, wire, dbVars, session, memVars, stepVars>>
    BY <1>15 DEF vars, nodeosVars
  <2>2. LineInv' /\ StatusInv'
    <3>1. lib' \in Nat /\ lib <= lib' /\ (session # "streaming" => next' = 0)
      BY <2>1, LineTypes DEF BranchInv, LineInv
    <3>2. \A n \in Nat : n <= lib /\ SendsBeyond(n) => SendsBeyond(n)'
      BY <2>1 DEF SendsBeyond
    <3>3. \A c \in chain : c \in chain'
      BY <2>1
    <3>4. UNCHANGED <<dbVars, session, memVars, stepVars, wire>>
      BY <2>1
    <3> QED
      BY <3>1, <3>2, <3>3, <3>4, LineKept DEF BranchInv
  <2> QED
    BY <2>1, <2>2, NodeosAlone DEF BranchInv
<1> QED
  BY <1>1, <1>2, <1>3, <1>4, <1>5, <1>6, <1>7, <1>8, <1>9, <1>10, <1>11, <1>12, <1>13,
     <1>14, <1>15 DEF Next, FillerStep, ProcessBlock, Fault

\* No message under way, and none nodeos will send, goes back to the irreversible
\* block of the session or of the database, which is nodeos's own.
THEOREM BranchInvariant == Spec => [](IInv /\ RowInv /\ BranchInv)
<1>1. Init => IInv /\ RowInv /\ BranchInv
  BY InitInv, RowsInit, BranchInit
<1>2. IInv /\ RowInv /\ BranchInv /\ [Next]_vars => (IInv /\ RowInv /\ BranchInv)'
  BY StepKeepsInv, RowsStep, BranchStep
<1> QED
  BY <1>1, <1>2, PTL DEF Spec

------------------------------------------------------------------------------
(* The irreversible block *)

StaysIrreversible ==
  /\ N(fill_status'.head_id) >= fill_status.irreversible
  /\ \A b \in received_block : Num[b] = fill_status.irreversible => b \in received_block'

LEMMA StepKeepsIrreversible ==
  ASSUME IInv, RowInv, BranchInv, Next, schema, schema'
  PROVE  StaysIrreversible
<1> DEFINE i == fill_status.irreversible
<1>1. /\ i \in Nat /\ i <= N(fill_status.head_id) /\ N(fill_status.head_id) \in Nat
      /\ \A b \in received_block : Num[b] \in Nat
  BY Facts DEF TypeOK, FillStatus, BranchInv, StatusInv
<1>2. CASE UNCHANGED <<received_block, fill_status>>
  BY <1>1, <1>2 DEF StaysIrreversible
<1>3. CASE NodeosStep \/ ReceivedAbi \/ ConnectionLost \/ Die
  BY <1>2, <1>3 DEF NodeosStep, ReceivedAbi, ConnectionLost, Die, dbVars
<1>4. CASE Retry \/ \E opts \in StartOptions : OperatorStart(opts)
  BY <1>2, <1>4 DEF Retry, OperatorStart, StartSession, dbVars
<1>5. CASE SkipResult \/ StopAtBlock \/ BeginBlock \/ ApplyBlockRows \/ PrevMismatch
  BY <1>2, <1>5 DEF SkipResult, StopAtBlock, BeginBlock, ApplyBlockRows, PrevMismatch, dbVars
<1>6. CASE \E t \in Table : FlushStream(t)
  BY <1>2, <1>6 DEF FlushStream
<1>7. CASE ReceivedStatus
  <2>1. /\ received_block' = {b \in received_block : Num[b] < N(fill_status.head_id) + 1}
        /\ fill_status' = fill_status
    BY <1>7 DEF ReceivedStatus, TruncatedReceived, Below
  <2> QED
    BY <1>1, <2>1 DEF StaysIrreversible
<1>8. CASE CloseStreams
  <2>1. /\ pc = "status" /\ fill_status'.head_id = head_id /\ received_block' = received_block
    BY <1>8 DEF CloseStreams, StatusToWrite
  <2>2. session = "streaming"
    BY <2>1 DEF IInv, StepInv
  <2>3. i <= EndTrim
    BY <2>2 DEF BranchInv, StatusInv
  <2>4. i <= N(head_id) /\ N(head_id) \in Nat
    BY <1>1, <2>3, LineTypes, Facts DEF head
  <2> QED
    BY <1>1, <2>1, <2>4 DEF StaysIrreversible
<1>9. CASE Trim
  <2>1. /\ pc = "trim" /\ table_streams = {} /\ session = "streaming"
        /\ received_block' = {b \in received_block : ~InTrim(Num[b])}
        /\ fill_status' = fill_status
    BY <1>9 DEF Trim, IInv, StepInv
  <2>2. i = EndTrim
    BY <2>1 DEF BranchInv, StatusInv
  <2> QED
    BY <1>1, <2>1, <2>2 DEF StaysIrreversible, InTrim
<1>10. CASE CommitBlock
  <2> DEFINE b == cur.this_block
  <2>1. /\ pc = "commit" /\ Applied /\ head_id = b /\ b \in Block
        /\ received_block' = Received /\ fill_status' = StatusCommitted
    BY <1>10 DEF CommitBlock, IInv, StepInv, Applied
  <2>2. i < Num[b] /\ N(b) = Num[b] /\ Num[b] \in Nat
    BY <2>1, TreeAssumption DEF BranchInv, StatusInv, N
  <2>3. fill_status'.head_id \in {fill_status.head_id, b}
    BY <2>1 DEF StatusCommitted, StatusToWrite
  <2>4. N(fill_status'.head_id) >= i
    BY <1>1, <2>2, <2>3
  <2>5. \A c \in received_block : Num[c] = i => c \in Received
    BY <2>2 DEF Received, TruncatedReceived, Below
  <2> QED
    BY <2>1, <2>4, <2>5 DEF StaysIrreversible
<1> QED
  BY <1>3, <1>4, <1>5, <1>6, <1>7, <1>8, <1>9, <1>10 DEF Next, FillerStep, ProcessBlock, Fault

\* No fork switch, crash or trim takes the irreversible block of the database away.
THEOREM IrreversibleAlwaysStays == Spec => IrreversibleStays
<1>1. ASSUME IInv, RowInv, BranchInv, [Next]_vars
      PROVE  [schema /\ schema' =>
                /\ N(fill_status'.head_id) >= fill_status.irreversible
                /\ \A b \in received_block :
                     Num[b] = fill_status.irreversible => b \in received_block']_vars
  <2>1. CASE Next
    BY <1>1, <2>1, StepKeepsIrreversible DEF StaysIrreversible
  <2> QED
    BY <1>1, <2>1
<1> QED
  BY <1>1, BranchInvariant, PTL DEF Spec, IrreversibleStays

------------------------------------------------------------------------------
(* The readers' view *)

\* What readers see when the status names the newest received block.
LEMMA CoveredAll ==
  ASSUME NEW S \in SUBSET Block, NEW h \in S, \A b \in S : Num[b] <= Num[h]
  PROVE  Below(S, N(h) + 1) = S
<1>1. N(h) = Num[h] /\ \A b \in S : Num[b] \in Nat
  BY TreeAssumption DEF N
<1> QED
  BY <1>1 DEF Below

LEMMA ReadersStutter ==
  ASSUME UNCHANGED <<schema, Covered, fill_status>>
  PROVE  UNCHANGED Readers!dbvars
BY DEF Readers!dbvars

\* A status written for a newer head, on the branch of the old irreversible block.
LEMMA ReadersAdvance ==
  ASSUME IInv, BranchInv, schema, schema' = schema, NEW R \in SUBSET Block, received_block' = R,
         IsStretch(R), head_id \in R, \A b \in R : Num[b] <= Num[head_id],
         fill_status'.head_id = head_id, fill_status'.irreversible = EndTrim,
         fill_status.irreversible <= EndTrim,
         \A b \in Block : Num[b] <= fill_status.irreversible => (b \in R <=> b \in received_block)
  PROVE  Readers!Advance(Covered', fill_status'.irreversible)
<1> DEFINE i == fill_status.irreversible
<1>1. /\ i \in Nat /\ i <= N(fill_status.head_id) /\ N(fill_status.head_id) \in Nat
      /\ received_block \in SUBSET Block /\ \A b \in Block : Num[b] \in Nat
  BY Facts DEF TypeOK, FillStatus, BranchInv, StatusInv
<1>2. Covered' = R
  BY CoveredAll DEF Covered
<1>3. EndTrim <= Num[head_id]
  <2>1. N(head_id) = Num[head_id]
    BY TreeAssumption DEF N
  <2> QED
    BY <2>1, LineTypes DEF head
<1>4. {b \in Covered : Num[b] <= i} = {b \in R : Num[b] <= i}
  BY <1>1 DEF Covered, Below
<1>5. Readers!IsStretch(R)
  BY DEF IsStretch, Readers!IsStretch
<1>6. i <= fill_status'.irreversible /\ \E b \in Covered' : fill_status'.irreversible <= Num[b]
  BY <1>2, <1>3
<1> QED
  BY <1>2, <1>4, <1>5, <1>6 DEF Readers!Advance, Readers!UpTo

LEMMA CloseStreamsReaders ==
  ASSUME IInv, BranchInv, CloseStreams
  PROVE  Readers!Next \/ UNCHANGED Readers!dbvars
<1>1. /\ pc = "status" /\ session = "streaming" /\ then # "commit" /\ schema
      /\ fill_status'.head_id = head_id /\ fill_status'.irreversible = EndTrim
      /\ UNCHANGED <<schema, received_block>>
  BY DEF CloseStreams, IInv, StepInv, StatusToWrite, BranchInv, StatusInv
<1>2. ~Applied /\ After = received_block
  BY <1>1 DEF Applied, After
<1>3. /\ fill_status.irreversible <= EndTrim /\ TipIs(received_block, head_id)
      /\ IsStretch(received_block) /\ received_block \in SUBSET Block
  BY <1>1, <1>2, Facts DEF BranchInv, StatusInv, IInv, HistoryInv
<1>4. CASE head_id # NoBlock
  BY <1>1, <1>3, <1>4, ReadersAdvance DEF TipIs, Readers!Next
<1>5. CASE head_id = NoBlock
  <2>1. received_block = {} /\ received_block' = {} /\ Covered = {} /\ Covered' = {}
    BY <1>1, <1>3, <1>5 DEF TipIs, Covered, Below
  <2>2. fill_status.irreversible = 0 /\ EndTrim = 0
    <3>1. N(fill_status.head_id) = 0 /\ head = 0
      BY <1>5, <2>1, Facts DEF N, head
    <3>2. fill_status.irreversible \in Nat /\ fill_status.irreversible <= N(fill_status.head_id)
      BY DEF IInv, TypeOK, FillStatus, BranchInv, StatusInv
    <3> QED
      BY <3>1, <3>2, LineTypes
  <2> QED
    BY <1>1, <2>1, <2>2 DEF Readers!dbvars
<1> QED
  BY <1>4, <1>5

LEMMA TrimReaders ==
  ASSUME IInv, BranchInv, Trim
  PROVE  Readers!Next
<1>1. /\ pc = "trim" /\ table_streams = {} /\ session = "streaming" /\ schema
      /\ received_block' = {b \in received_block : ~InTrim(Num[b])}
      /\ UNCHANGED <<schema, fill_status>> /\ first < EndTrim
  BY DEF Trim, IInv, StepInv, BranchInv, StatusInv
<1>2. ~Applied /\ After = received_block
  BY <1>1 DEF Applied, After
<1>3. /\ fill_status.irreversible = EndTrim /\ EndTrim \in Nat
      /\ \A b \in received_block : first <= Num[b] /\ Num[b] \in Nat
  BY <1>1, <1>2, Facts, LineTypes DEF BranchInv, StatusInv, IInv, FirstInv
<1>4. Covered' = {b \in Covered : Num[b] >= EndTrim}
  BY <1>1, <1>3, LineTypes DEF Covered, Below, InTrim
<1>5. Readers!Forget(EndTrim)
  BY <1>1, <1>4 DEF Readers!Forget
<1>6. EndTrim \in 0..fill_status.irreversible
  BY <1>3
<1> QED
  BY <1>5, <1>6 DEF Readers!Next

LEMMA CommitBlockReaders ==
  ASSUME IInv, RowInv, BranchInv, CommitBlock
  PROVE  Readers!Next \/ UNCHANGED Readers!dbvars
<1> DEFINE b == cur.this_block
           i == fill_status.irreversible
<1>1. /\ pc = "commit" /\ Applied /\ head_id = b /\ b \in Block /\ session = "streaming" /\ schema
      /\ (cur.forks => ~cur.bulk)
      /\ received_block' = Received /\ fill_status' = StatusCommitted /\ schema' = schema
  BY DEF CommitBlock, IInv, StepInv, Applied, BranchInv, StatusInv
<1>2. /\ i < Num[b] /\ i \in Nat /\ i <= EndTrim /\ N(b) = Num[b]
      /\ \A c \in Block : Num[c] \in Nat
  BY <1>1, TreeAssumption DEF BranchInv, StatusInv, N, IInv, TypeOK, FillStatus
<1>3. CASE cur.bulk
  <2>1. /\ fill_status' = fill_status /\ received_block' = received_block \cup {b}
        /\ \A c \in received_block : Num[c] < Num[b]
    BY <1>1, <1>3 DEF StatusCommitted, Received, RowInv, DecisionInv
  <2>2. N(fill_status.head_id) < Num[b] /\ N(fill_status.head_id) \in Nat
    <3>1. CASE fill_status.head_id = NoBlock
      BY <1>1, <1>2, <3>1, TreeAssumption DEF N
    <3>2. CASE fill_status.head_id # NoBlock
      BY <2>1, <3>2, Facts
    <3> QED
      BY <3>1, <3>2
  <2>3. ~(Num[b] < N(fill_status.head_id) + 1)
    BY <1>1, <1>2, <2>2
  <2>4. Covered' = Covered
    BY <2>1, <2>3 DEF Covered, Below
  <2> QED
    BY <1>1, <2>1, <2>4, ReadersStutter
<1>4. CASE ~cur.bulk
  <2>1. fill_status'.head_id = head_id /\ fill_status'.irreversible = EndTrim
    BY <1>1, <1>4 DEF StatusCommitted, StatusToWrite
  <2>2. After = Received
    BY <1>1 DEF After
  <2>3. IsStretch(Received) /\ TipIs(Received, b) /\ Received \in SUBSET Block
    BY <1>1, <2>2, Facts DEF IInv, HistoryInv, Received, TruncatedReceived, Below
  <2>4. b \in Received /\ \A c \in Received : Num[c] <= Num[b]
    BY <1>1, <2>3, TreeAssumption DEF TipIs
  <2>5. \A c \in Block : Num[c] <= i => (c \in Received <=> c \in received_block)
    BY <1>1, <1>2 DEF Received, TruncatedReceived, Below
  <2>6. Readers!Advance(Covered', fill_status'.irreversible)
    BY <1>1, <1>2, <2>1, <2>3, <2>4, <2>5, ReadersAdvance
  <2> QED
    BY <2>6 DEF Readers!Next
<1> QED
  BY <1>3, <1>4

\* Every step is one of HistoryDb's or nothing to the readers.
LEMMA ReadersStep ==
  ASSUME IInv, RowInv, BranchInv, [Next]_vars
  PROVE  Readers!Next \/ UNCHANGED Readers!dbvars
<1>1. CASE UNCHANGED <<schema, received_block, fill_status>>
  <2>1. UNCHANGED Covered
    BY <1>1 DEF Covered, Below
  <2> QED
    BY <1>1, <2>1, ReadersStutter
<1>2. CASE NodeosStep \/ ConnectionLost \/ Die \/ UNCHANGED vars
  BY <1>1, <1>2 DEF NodeosStep, ConnectionLost, Die, dbVars, vars
<1>3. ASSUME NEW opts, StartSession(opts) PROVE Readers!Next \/ UNCHANGED Readers!dbvars
  <2>1. CASE "drop" \in opts
    <3>1. schema' = FALSE /\ received_block' = {} /\ fill_status' = NoStatus
      BY <1>3, <2>1 DEF StartSession
    <3>2. Covered' = {} /\ fill_status'.irreversible = 0
      BY <3>1 DEF Covered, Below, NoStatus
    <3>3. Readers!Drop
      BY <3>1, <3>2 DEF Readers!Drop
    <3> QED
      BY <3>3 DEF Readers!Next
  <2>2. CASE "drop" \notin opts
    BY <1>1, <1>3, <2>2 DEF StartSession, dbVars
  <2> QED
    BY <2>1, <2>2
<1>4. CASE Retry \/ \E opts \in StartOptions : OperatorStart(opts)
  BY <1>3, <1>4 DEF Retry, OperatorStart
<1>5. CASE ReceivedAbi
  <2>1. CASE "create" \in options /\ schema
    BY <1>1, <1>5, <2>1 DEF ReceivedAbi, dbVars
  <2>2. CASE ~("create" \in options /\ schema)
    <3>1. /\ schema' = (schema \/ "create" \in options)
          /\ UNCHANGED <<received_block, fill_status>> /\ schema \in BOOLEAN
      BY <1>5, <2>2 DEF ReceivedAbi, IInv, TypeOK
    <3>2. CASE "create" \in options
      <4>1. UNCHANGED Covered
        BY <3>1 DEF Covered, Below
      <4>2. Readers!Create
        BY <2>2, <3>1, <3>2, <4>1 DEF Readers!Create
      <4> QED
        BY <4>2 DEF Readers!Next
    <3>3. CASE "create" \notin options
      BY <1>1, <3>1, <3>3
    <3> QED
      BY <3>2, <3>3
  <2> QED
    BY <2>1, <2>2
<1>6. CASE ReceivedStatus
  <2>1. /\ UNCHANGED <<schema, fill_status>>
        /\ \/ received_block' = received_block
           \/ received_block' = Below(received_block, N(fill_status.head_id) + 1)
    BY <1>6 DEF ReceivedStatus, TruncatedReceived, dbVars
  <2>2. Covered' = Covered
    BY <2>1 DEF Covered, Below
  <2> QED
    BY <2>1, <2>2, ReadersStutter
<1>7. CASE SkipResult \/ StopAtBlock \/ BeginBlock \/ ApplyBlockRows \/ PrevMismatch
  BY <1>1, <1>7 DEF SkipResult, StopAtBlock, BeginBlock, ApplyBlockRows, PrevMismatch, dbVars
<1>8. CASE \E t \in Table : FlushStream(t)
  BY <1>1, <1>8 DEF FlushStream
<1>9. CASE CloseStreams
  BY <1>9, CloseStreamsReaders
<1>10. CASE Trim
  BY <1>10, TrimReaders
<1>11. CASE CommitBlock
  BY <1>11, CommitBlockReaders
<1> QED
  BY <1>2, <1>4, <1>5, <1>6, <1>7, <1>8, <1>9, <1>10, <1>11
     DEF Next, FillerStep, ProcessBlock, Fault

\* fill-pg implements HistoryDb: whatever it and nodeos do, its readers always have one
\* stretch of one branch that only grows, switches above the irreversible block, and
\* is trimmed below it.
THEOREM Refinement == Spec => ImplementsHistoryDb
<1>1. Init => Readers!Init
  <2> SUFFICES ASSUME Init PROVE Readers!Init
    OBVIOUS
  <2>1. schema = FALSE /\ received_block = {} /\ fill_status.irreversible = 0
    BY DEF Init, NoStatus
  <2>2. Covered = {}
    BY <2>1 DEF Covered, Below
  <2> QED
    BY <2>1, <2>2 DEF Readers!Init
<1>2. IInv /\ RowInv /\ BranchInv /\ [Next]_vars => [Readers!Next]_Readers!dbvars
  BY ReadersStep
<1> QED
  BY <1>1, <1>2, BranchInvariant, PTL DEF Spec, Readers!Spec, ImplementsHistoryDb

------------------------------------------------------------------------------
(* Blocks arrive in an order that links: every message on the wire, and    *)
(* the next one nodeos will send, extends the history it will find, across *)
(* fork switches of nodeos, reconnections, trims and commits.              *)

------------------------------------------------------------------------------
(* The line *)

\* What the line speaks of: blocks of branches that go back to nodeos's first block.
LEMMA LinkFacts ==
  ASSUME IInv, BranchInv, session = "streaming"
  PROVE  /\ chain \subseteq Block /\ IsStretch(chain) /\ begin \in Nat /\ next \in Nat
         /\ wire \in Seq(BlocksResult)
         /\ \A b \in Block : Num[b] \in Nat /\ Num[b] > 0 /\ b # NoBlock /\ N(b) = Num[b]
         /\ received_block \subseteq Block /\ Standing \subseteq Block
         /\ \A b \in Standing : OnRoot(b)
         /\ StandingHead # NoBlock => StandingHead \in Standing
         /\ \A k \in DOMAIN wire :
              /\ wire[k] \in BlocksResult
              /\ wire[k].this_block # NoBlock =>
                   wire[k].this_block \in Block /\ OnRoot(wire[k].this_block)
<1>1. /\ chain \subseteq Block /\ IsStretch(chain) /\ begin \in Nat /\ next \in Nat
      /\ wire \in Seq(BlocksResult) /\ received_block \subseteq Block
  BY DEF IInv, TypeOK, NodeosTypeOK, NodeosInv
<1>2. ASSUME NEW b \in Block
      PROVE  Num[b] \in Nat /\ Num[b] > 0 /\ b # NoBlock /\ N(b) = Num[b]
  <2>1. Num[b] \in Nat \ {0} /\ b # NoBlock
    BY TreeAssumption
  <2> QED
    BY <2>1 DEF N
<1>3. \A k \in DOMAIN wire : wire[k] \in BlocksResult /\ wire[k].this_block \in MaybeBlock
  <2>1. \A k \in DOMAIN wire : wire[k] \in BlocksResult
    BY <1>1
  <2> QED
    BY <2>1 DEF BlocksResult
<1>4. \A k \in DOMAIN wire : wire[k].this_block # NoBlock =>
        wire[k].this_block \in Block /\ OnRoot(wire[k].this_block)
  BY <1>3 DEF BranchInv, LineInv, Anchored, MaybeBlock
<1>5. After \subseteq Block /\ TipIs(After, head_id) /\ \A b \in After : OnRoot(b)
  <2>1. Applied => cur.this_block \in Block
    BY DEF Applied, IInv, StepInv
  <2>2. After \subseteq Block
    BY <1>1, <2>1 DEF After, Received, TruncatedReceived, Below
  <2> QED
    BY <2>2 DEF IInv, HistoryInv, BranchInv, StatusInv
<1>6. /\ Standing \subseteq Block /\ \A b \in Standing : OnRoot(b)
      /\ StandingHead # NoBlock => StandingHead \in Standing
  <2>1. CASE Pending
    <3>1. cur.this_block \in Block /\ OnRoot(cur.this_block)
      BY <1>2, <2>1 DEF Pending, IInv, StepInv, BranchInv, LineInv, Anchored
    <3> QED
      BY <1>1, <2>1, <3>1 DEF Standing, StandingHead, Below, BranchInv, StatusInv
  <2>2. CASE ~Pending
    BY <1>5, <2>2 DEF Standing, StandingHead, TipIs
  <2> QED
    BY <2>1, <2>2
<1> QED
  BY <1>1, <1>2, <1>3, <1>4, <1>6

\* With wire, chain, begin and next as they are, so is all that is said of the line.
LEMMA LineUnchanged ==
  ASSUME UNCHANGED <<chain, begin, next, wire>>
  PROVE  /\ \A b, i : Followed(b, i) => Followed(b, i)'
         /\ \A t, i : Reached(t, i, SkipTo) => Reached(t, i, SkipTo)'
BY DEF Followed, Reached, Spares, Links, Kept, Reaches

\* A session's steps that take nothing from the line: the history only settles into
\* what was to be expected of it.
LEMMA Settled ==
  ASSUME LinkInv, session = "streaming", ~Stopping,
         UNCHANGED <<chain, begin, next, wire>>,
         Standing' \subseteq Standing, StandingHead' = StandingHead,
         Pending' => /\ Pending /\ cur' = cur /\ head_id' = head_id
                     /\ received_block' \subseteq received_block
  PROVE  LinkInv'
<1>1. \A i \in DOMAIN wire :
        wire[i].this_block # NoBlock =>
          Followed(wire[i].this_block, i) /\ Reached(wire[i].this_block, i, SkipTo)
  BY DEF LinkInv
<1>2. /\ \A b \in Standing' : Followed(b, 0)
      /\ StandingHead' # NoBlock => Reached(StandingHead, 0, SkipTo)
  BY DEF LinkInv
<1>3. ASSUME Pending', NEW m, m = cur
      PROVE  /\ \A b \in received_block' : Links(m, b)'
             /\ \A h : h = head_id /\ h # NoBlock => Reaches(N(h), Num[m.this_block], SkipTo)'
  BY <1>3 DEF LinkInv, Links, Reaches, head
<1> QED
  BY <1>1, <1>2, <1>3, LineUnchanged DEF LinkInv, Links, head

\* What has to hold of the line after a step of nodeos.
LEMMA LinkAfter ==
  ASSUME LinkInv, session = "streaming" => ~Stopping,
         UNCHANGED <<dbVars, session, memVars, stepVars, begin>>,
         session = "streaming" =>
           /\ \A b \in Standing : Followed(b, 0)'
           /\ \A t : t = StandingHead /\ t # NoBlock => Reached(t, 0, SkipTo)'
           /\ \A i \in DOMAIN wire' : \A t : t = wire'[i].this_block /\ t # NoBlock =>
                Followed(t, i)' /\ Reached(t, i, SkipTo)'
  PROVE  LinkInv'
<1>1. UNCHANGED <<received_block, session, head_id, pc, then, cur, begin>>
  BY DEF dbVars, memVars, stepVars
<1>2. UNCHANGED <<Pending, Applied, Received, head>>
  BY <1>1 DEF Pending, Applied, Received, TruncatedReceived, Below, head
<1>3. UNCHANGED <<After>>
  BY <1>1, <1>2 DEF After
<1>4. UNCHANGED <<Standing, StandingHead>>
  BY <1>1, <1>2, <1>3 DEF Standing, StandingHead, Below
<1>5. ASSUME Pending, session = "streaming", NEW m, m = cur
      PROVE  /\ \A b \in received_block : Links(m, b)'
             /\ \A h : h = head_id /\ h # NoBlock => Reaches(N(h), Num[m.this_block], SkipTo)'
  BY <1>1, <1>5 DEF LinkInv, Links, Reaches, head
<1> QED
  BY <1>1, <1>2, <1>4, <1>5 DEF LinkInv, Links, head

\* nodeos's steps other than sending.
LEMMA LinkQuiet ==
  ASSUME IInv, BranchInv, LinkInv, UNCHANGED <<dbVars, session, memVars, stepVars, wire, begin>>,
         \/ UNCHANGED <<chain, next>>
         \/ \E c \in Block : ApplyBlock(c)
  PROVE  LinkInv'
<1>1. CASE session # "streaming" \/ Stopping
  BY <1>1 DEF LinkInv, Stopping, stepVars
<1>2. CASE session = "streaming" /\ ~Stopping
  <2>1. /\ \A b \in Block : \A i : Followed(b, i) => Followed(b, i)'
        /\ \A t \in Block : \A i : Reached(t, i, SkipTo) => Reached(t, i, SkipTo)'
    BY FillAssumption, QuietLine DEF IInv, TypeOK
  <2>2. \A b \in Standing : Followed(b, 0)'
    BY <1>2, <2>1, LinkFacts DEF LinkInv
  <2>3. \A t : t = StandingHead /\ t # NoBlock => Reached(t, 0, SkipTo)'
    BY <1>2, <2>1, LinkFacts DEF LinkInv
  <2>4. \A i \in DOMAIN wire' : \A t : t = wire'[i].this_block /\ t # NoBlock =>
          Followed(t, i)' /\ Reached(t, i, SkipTo)'
    BY <1>2, <2>1, LinkFacts DEF LinkInv
  <2> QED
    BY <1>2, <2>2, <2>3, <2>4, LinkAfter
<1> QED
  BY <1>1, <1>2

\* The block nodeos sends is of its branch, and so is the next one.
LEMMA LinkSend ==
  ASSUME IInv, BranchInv, HeightInv, LinkInv, SendBlocksResult,
         UNCHANGED <<dbVars, session, memVars, stepVars>>
  PROVE  LinkInv'
<1>1. CASE session # "streaming" \/ Stopping
  BY <1>1 DEF LinkInv, Stopping, stepVars
<1>2. CASE session = "streaming" /\ ~Stopping
  <2> DEFINE L == Len(wire)
  <2>1. NodeosTypeOK /\ NodeosInv /\ RootInv /\ wire \in Seq(BlocksResult) /\ L \in Nat
        /\ SkipTo \in Nat
    BY FillAssumption DEF IInv, TypeOK, NodeosTypeOK, BranchInv
  <2>2. /\ \A i \in DOMAIN wire : i \in 0..L /\ wire'[i] = wire[i]
        /\ 0 \in 0..L /\ UNCHANGED begin
    <3>1. Id(next) \in MaybeBlock /\ Id(next - 1) \in MaybeBlock /\ lib \in Nat
      BY <2>1, AtTyped DEF Id, NodeosTypeOK, MaybeBlock
    <3> QED
      BY <2>1, <3>1 DEF SendBlocksResult, BlocksResult
  <2>3. \A b \in Standing : Followed(b, 0)'
    BY <1>2, <2>1, <2>2, LinkFacts, FollowedSent DEF LinkInv
  <2>4. \A t : t = StandingHead /\ t # NoBlock => Reached(t, 0, SkipTo)'
    BY <1>2, <2>1, <2>2, LinkFacts, ReachedSent DEF LinkInv
  <2>5. ASSUME NEW i \in DOMAIN wire', NEW t, t = wire'[i].this_block, t # NoBlock
        PROVE  Followed(t, i)' /\ Reached(t, i, SkipTo)'
    <3>1. CASE i \in DOMAIN wire
      <4>1. t = wire[i].this_block /\ i \in 0..L
        BY <2>2, <2>5, <3>1
      <4>2. t \in Block /\ OnRoot(t) /\ Followed(t, i) /\ Reached(t, i, SkipTo)
        BY <1>2, <2>5, <3>1, <4>1, LinkFacts DEF LinkInv
      <4> QED
        BY <2>1, <4>1, <4>2, FollowedSent, ReachedSent
    <3>2. CASE i \notin DOMAIN wire
      BY <2>1, <2>5, <3>2, SentLine
    <3> QED
      BY <3>1, <3>2
  <2> QED
    BY <1>2, <2>2, <2>3, <2>4, <2>5, LinkAfter
<1> QED
  BY <1>1, <1>2

LEMMA LinkNodeos ==
  ASSUME IInv, BranchInv, HeightInv, LinkInv, NodeosStep
  PROVE  LinkInv'
<1>1. UNCHANGED <<dbVars, session, memVars, stepVars>>
  BY DEF NodeosStep
<1>2. ASSUME NEW c \in Block, ApplyBlock(c) PROVE LinkInv'
  BY <1>1, <1>2, LinkQuiet DEF ApplyBlock
<1>3. CASE AdvanceLib
  BY <1>1, <1>3, LinkQuiet DEF AdvanceLib
<1>4. CASE SendBlocksResult
  BY <1>1, <1>4, LinkSend
<1>5. CASE session \in {"stopped", "waiting", "connecting"}
  BY <1>1, <1>5 DEF LinkInv
<1> QED
  BY <1>2, <1>3, <1>4, <1>5 DEF NodeosStep

------------------------------------------------------------------------------
(* The filler's steps *)

LEMMA LinkReceivedStatus ==
  ASSUME IInv, IInv', BranchInv, ReceivedStatus
  PROVE  LinkInv'
<1>1. CASE ~schema
  BY <1>1 DEF ReceivedStatus, EndSession, LinkInv
<1>2. CASE schema
  <2> DEFINE s == fill_status.head_id
             i == fill_status.irreversible
             h == TruncatedHead(N(s) + 1)
  <2>1. /\ session = "querying" /\ session' = "streaming" /\ head_id' = h
        /\ received_block' = {b \in received_block : Num[b] < N(s) + 1}
        /\ next' = StreamFrom(FirstWanted(h), Positions)
        /\ UNCHANGED <<chain, begin, wire, pc>>
    BY <1>2 DEF ReceivedStatus, TruncatedReceived, Below, stepVars
  <2>2. pc' = "idle" /\ wire' = <<>> /\ ~Pending' /\ ~Applied' /\ ~Stopping'
    BY <2>1 DEF IInv, StepInv, BranchInv, LineInv, Pending, Applied, Stopping
  <2>3. Standing' = received_block' /\ StandingHead' = h
    BY <2>1, <2>2 DEF Standing, StandingHead, After
  <2>4. /\ received_block \in SUBSET Block /\ IsStretch(received_block)
        /\ chain \in SUBSET Block /\ IsStretch(chain)
        /\ i \in Nat /\ i <= N(s) /\ N(s) \in Nat /\ begin \in Nat
        /\ s # NoBlock => s \in received_block /\ N(s) = Num[s]
        /\ \A b \in Block : Num[b] \in Nat /\ Num[b] > 0
    BY Facts DEF IInv, HistoryInv, NodeosInv, TypeOK, NodeosTypeOK, FillStatus, BranchInv, StatusInv
  <2>5. h \in MaybeBlock
    BY <2>4, AtTyped DEF TruncatedHead
  <2> HIDE DEF h
  <2>6. /\ next' \in Nat /\ next' <= FirstWanted(h)
        /\ \A b \in Positions : Num[b] < next' => Id(Num[b]) = b
    <3>1. FirstWanted(h) \in Nat /\ Positions \in SUBSET Block
      BY <2>4, <2>5, MaxInSet, NIsNat, FillAssumption DEF FirstWanted, Positions
    <3> QED
      BY <2>1, <3>1, StreamFromLeast
  <2>7. Reaches(N(h), next', SkipTo)
    BY <2>4, <2>5, <2>6, WantedReaches, FillAssumption DEF FirstWanted
  <2>8. ASSUME NEW b \in received_block', Num[b] < next' PROVE b \in chain \/ Num[b] < begin
    <3>1. b \in received_block /\ Num[b] <= N(s) /\ Num[b] \in Nat /\ Num[b] > 0 /\ b # NoBlock
      BY <2>1, <2>4, TreeAssumption
    <3>2. CASE i <= Num[b]
      <4>1. b \in Positions
        BY <2>4, <3>1, <3>2 DEF Positions
      <4>2. Id(Num[b]) = b
        BY <2>6, <2>8, <4>1
      <4> QED
        BY <3>1, <4>2 DEF Id, At
    <3>3. CASE ~(i <= Num[b])
      <4>1. s # NoBlock
        BY <2>4, <3>1 DEF N
      <4>2. PICK c \in received_block : Num[c] = i
        <5>1. i \in Num[b]..Num[s]
          BY <2>4, <3>1, <3>3, <4>1
        <5> QED
          BY <2>4, <3>1, <4>1, <5>1 DEF IsStretch
      <4>3. c \in chain
        BY <4>2 DEF BranchInv, StatusInv
      <4>4. PICK g \in Genesis : Num[g] <= Num[b]
        BY <3>1 DEF BranchInv, StatusInv, OnRoot
      <4>5. PICK d \in chain : Num[d] <= Num[g]
        BY <4>3 DEF BranchInv, RootInv
      <4>6. Num[d] <= Num[b]
        <5>1. Num[d] \in Nat /\ Num[g] \in Nat
          BY <2>4, NodeosAssumption
        <5> QED
          BY <3>1, <4>4, <4>5, <5>1
      <4>7. Num[b] <= Num[c]
        BY <2>4, <3>1, <3>3, <4>2
      <4> QED
        BY <2>4, <3>1, <4>2, <4>3, <4>6, <4>7, StretchesAgree
    <3> QED
      BY <3>2, <3>3
  <2>9. ASSUME NEW b \in Standing' PROVE Followed(b, 0)'
    BY <2>1, <2>2, <2>3, <2>8 DEF Followed, Kept
  <2>10. \A t : t = h => Reached(t, 0, SkipTo)'
    BY <2>1, <2>2, <2>7 DEF Reached, Reaches
  <2> QED
    BY <2>2, <2>3, <2>9, <2>10 DEF LinkInv
<1> QED
  BY <1>1, <1>2

\* The messages left keep linking to each other.
LEMMA LineLeft ==
  ASSUME LinkInv, session = "streaming", ~Stopping, wire \in Seq(BlocksResult), wire # <<>>,
         wire' = Tail(wire), UNCHANGED <<chain, begin, next>>,
         NEW i \in DOMAIN wire', NEW t, t = wire'[i].this_block, t # NoBlock
  PROVE  Followed(t, i)' /\ Reached(t, i, SkipTo)'
<1>1. i \in Nat /\ i + 1 \in DOMAIN wire /\ t = wire[i + 1].this_block
  BY PlaceForward
<1>2. Followed(t, i + 1) /\ Reached(t, i + 1, SkipTo)
  BY <1>1 DEF LinkInv
<1> QED
  BY <1>1, <1>2, PlaceForward

LEMMA LinkSkipResult ==
  ASSUME IInv, BranchInv, LinkInv, SkipResult
  PROVE  LinkInv'
<1>1. /\ session = "streaming" /\ pc = "idle" /\ wire # <<>> /\ wire[1].this_block = NoBlock
      /\ wire' = Tail(wire)
      /\ UNCHANGED <<chain, begin, next, dbVars, session, memVars, stepVars>>
  BY DEF SkipResult
<1>2. ~Stopping /\ wire \in Seq(BlocksResult)
  BY <1>1 DEF Stopping, IInv, TypeOK, NodeosTypeOK
<1>3. \A b : Followed(b, 0) => Followed(b, 0)'
  <2>1. \A b : Spares(wire[1], b)
    BY <1>1 DEF Spares
  <2>2. \A b : Followed(b, 0) => Followed(b, 0 + 1)
    BY <1>1, <1>2, <2>1, PlaceAfterFirst
  <2> QED
    BY <1>1, <1>2, <2>2, PlaceForward
<1>4. \A t : Reached(t, 0, SkipTo) => Reached(t, 0, SkipTo)'
  <2>1. \A t : Reached(t, 0, SkipTo) => Reached(t, 0 + 1, SkipTo)
    BY <1>1, <1>2, PlaceAfterFirst
  <2> QED
    BY <1>1, <1>2, <2>1, PlaceForward
<1>5. \A b \in Standing : Followed(b, 0)'
  BY <1>1, <1>2, <1>3 DEF LinkInv
<1>6. \A t : t = StandingHead /\ t # NoBlock => Reached(t, 0, SkipTo)'
  BY <1>1, <1>2, <1>4 DEF LinkInv
<1>7. \A i \in DOMAIN wire' : \A t : t = wire'[i].this_block /\ t # NoBlock =>
        Followed(t, i)' /\ Reached(t, i, SkipTo)'
  BY <1>1, <1>2, LineLeft
<1> QED
  BY <1>1, <1>2, <1>5, <1>6, <1>7, LinkAfter

\* The message taken links to the history, which becomes what it decides.
LEMMA LinkBeginBlock ==
  ASSUME IInv, BranchInv, LinkInv, BeginBlock
  PROVE  LinkInv'
<1> DEFINE m == wire[1]
<1>1. /\ session = "streaming" /\ pc = "idle" /\ wire # <<>> /\ wire' = Tail(wire)
      /\ m.this_block # NoBlock /\ cur' = Decide(m)
      /\ UNCHANGED <<chain, begin, next, received_block, session, head_id>>
      /\ pc' \in {"trim", "apply", "flush"}
      /\ (pc' = "flush" => then' \in {"stop", "trim"})
  BY DEF BeginBlock, AfterClose, dbVars, memVars
<1>2. cur'.this_block = m.this_block /\ cur'.prev_block = m.prev_block
  BY <1>1 DEF Decide
<1>3. ~Stopping /\ ~Pending /\ ~Applied /\ wire \in Seq(BlocksResult) /\ 1 \in DOMAIN wire
  BY <1>1 DEF Stopping, Pending, Applied, IInv, TypeOK, NodeosTypeOK
<1>4. Standing = received_block /\ StandingHead = head_id
  BY <1>3 DEF Standing, StandingHead, After
<1>5. /\ m \in BlocksResult /\ m.this_block \in Block /\ N(m.this_block) = Num[m.this_block]
      /\ Num[m.this_block] \in Nat /\ \A b \in received_block : Num[b] \in Nat
  BY <1>1, <1>3, LinkFacts
<1> DEFINE t == m.this_block
<1>6. CASE Stopping'
  BY <1>6 DEF LinkInv
<1>7. CASE ~Stopping'
  <2>1. Pending'
    BY <1>1, <1>7 DEF Pending, Stopping
  <2>2. Standing' = {b \in received_block : Num[b] < Num[t]} \cup {t} /\ StandingHead' = t
    BY <1>1, <1>2, <2>1 DEF Standing, StandingHead, Below
  <2>3. \A j \in 1..(1 - 1) : FALSE
    OBVIOUS
  <2>4. \A b \in received_block : Links(m, b)
    BY <1>1, <1>3, <1>4, <2>3 DEF LinkInv, Followed
  <2>5. head_id # NoBlock => Reaches(head, Num[t], SkipTo)
    BY <1>1, <1>3, <1>4, <1>5, <2>3 DEF LinkInv, Reached, head
  <2>6. ASSUME NEW b \in received_block, Num[b] < Num[t] PROVE Followed(b, 0)'
    <3>1. Spares(m, b)
      BY <1>5, <2>6 DEF Spares
    <3>2. Followed(b, 0 + 1)
      BY <1>1, <1>3, <1>4, <3>1, PlaceAfterFirst DEF LinkInv
    <3> QED
      BY <1>1, <1>3, <3>2, PlaceForward
  <2>7. \A x : x = t => Followed(x, 0)' /\ Reached(x, 0, SkipTo)'
    <3>1. Followed(t, 0 + 1) /\ Reached(t, 0 + 1, SkipTo)
      BY <1>1, <1>3 DEF LinkInv
    <3> QED
      BY <1>1, <1>3, <3>1, PlaceForward
  <2>8. \A i \in DOMAIN wire' : \A x : x = wire'[i].this_block /\ x # NoBlock =>
          Followed(x, i)' /\ Reached(x, i, SkipTo)'
    BY <1>1, <1>3, LineLeft
  <2>9. ASSUME NEW b \in Standing' PROVE Followed(b, 0)'
    BY <2>2, <2>6, <2>7
  <2>10. \A b \in received_block' : Links(cur, b)'
    BY <1>1, <1>2, <2>4 DEF Links
  <2>11. head_id' # NoBlock => Reaches(head, Num[cur.this_block], SkipTo)'
    BY <1>1, <1>2, <2>5 DEF Reaches, head
  <2> QED
    BY <2>2, <2>7, <2>8, <2>9, <2>10, <2>11 DEF LinkInv
<1> QED
  BY <1>6, <1>7

LEMMA LinkFlushStream ==
  ASSUME IInv, LinkInv, NEW t \in Table, FlushStream(t)
  PROVE  LinkInv'
<1>1. /\ pc = "flush" /\ session = "streaming"
      /\ UNCHANGED <<nodeosVars, received_block, session, head_id, cur>>
      /\ \/ pc' = "flush" /\ then' = then
         \/ pc' = "commit" /\ then = "commit"
         \/ pc' = "status" /\ then' = then /\ then # "commit"
  BY DEF FlushStream, IInv, StepInv
<1>2. /\ Applied' = Applied /\ Pending' = Pending /\ (Stopping => Stopping')
      /\ UNCHANGED <<Received, chain, begin, next, wire>>
  BY <1>1 DEF Received, TruncatedReceived, Below, Applied, Pending, Stopping, nodeosVars
<1>3. UNCHANGED <<After>>
  BY <1>1, <1>2 DEF After
<1>4. UNCHANGED <<Standing, StandingHead>>
  BY <1>1, <1>2, <1>3 DEF Standing, StandingHead, Below
<1>5. CASE Stopping
  BY <1>2, <1>5 DEF LinkInv
<1>6. CASE ~Stopping
  BY <1>1, <1>2, <1>4, <1>6, Settled
<1> QED
  BY <1>5, <1>6

LEMMA LinkCloseStreams ==
  ASSUME IInv, LinkInv, CloseStreams
  PROVE  LinkInv'
<1>1. CASE then = "stop"
  BY <1>1 DEF CloseStreams, EndSession, LinkInv
<1>2. CASE then # "stop"
  <2>1. /\ pc = "status" /\ session = "streaming" /\ then # "commit"
        /\ UNCHANGED <<chain, begin, next, wire, received_block, session, head_id>>
        /\ pc' \in {"trim", "apply", "idle"}
        /\ pc' # "idle" => then = "trim" /\ cur' = cur
        /\ pc' = "idle" => then # "trim"
    BY <1>2 DEF CloseStreams, memVars, nodeosVars, AfterClose, IInv, StepInv
  <2>2. ~Applied /\ ~Applied' /\ After = received_block /\ After' = received_block
    BY <2>1 DEF Applied, After
  <2>3. Pending' = Pending /\ (Pending => cur' = cur) /\ ~Stopping
    BY <1>2, <2>1 DEF Pending, Stopping
  <2>4. UNCHANGED <<Standing, StandingHead>>
    BY <2>1, <2>2, <2>3 DEF Standing, StandingHead, Below
  <2> QED
    BY <2>1, <2>3, <2>4, Settled
<1> QED
  BY <1>1, <1>2

LEMMA LinkTrim ==
  ASSUME IInv, LinkInv, Trim
  PROVE  LinkInv'
<1>1. /\ pc = "trim" /\ pc' = "apply" /\ session = "streaming"
      /\ received_block' \subseteq received_block
      /\ UNCHANGED <<chain, begin, next, wire, session, head_id, cur>>
  BY DEF Trim, IInv, StepInv, nodeosVars
<1>2. Pending /\ Pending' /\ ~Stopping
  BY <1>1 DEF Pending, Stopping
<1>3. Standing' \subseteq Standing /\ StandingHead' = StandingHead
  BY <1>1, <1>2 DEF Standing, StandingHead, Below
<1> QED
  BY <1>1, <1>2, <1>3, Settled

LEMMA LinkApplyBlock ==
  ASSUME IInv, RowInv, LinkInv, ApplyBlockRows
  PROVE  LinkInv'
<1> DEFINE b == cur.this_block
<1>1. /\ pc = "apply" /\ session = "streaming" /\ b \in Block /\ head_id' = b
      /\ UNCHANGED <<chain, begin, next, wire, received_block, session, cur>>
      /\ pc' = "commit" \/ (pc' = "flush" /\ then' = "commit")
  BY DEF ApplyBlockRows, IInv, StepInv, dbVars, nodeosVars
<1>2. Pending /\ ~Pending' /\ ~Applied /\ Applied' /\ ~Stopping
  BY <1>1 DEF Pending, Applied, Stopping
<1>3. ~cur.forks => \A c \in received_block : Num[c] < Num[b]
  <2>1. After = received_block /\ \A c \in After : Num[c] <= head
    BY <1>1, <1>2, Facts
  <2>2. head \in Nat /\ Num[b] \in Nat /\ \A c \in received_block : Num[c] \in Nat
    BY <1>1, Facts
  <2>3. ~cur.forks => head < Num[b]
    BY <1>2 DEF RowInv, DecisionInv
  <2> QED
    BY <2>1, <2>2, <2>3
<1>4. Standing' = Standing /\ StandingHead' = StandingHead
  <2>1. Standing = Below(received_block, Num[b]) \cup {b} /\ StandingHead = b
    BY <1>2 DEF Standing, StandingHead
  <2>2. Standing' = Received' /\ StandingHead' = b
    BY <1>1, <1>2 DEF Standing, StandingHead, After
  <2>3. Received' = (IF cur.forks THEN Below(received_block, Num[b]) ELSE received_block) \cup {b}
    BY <1>1 DEF Received, TruncatedReceived, Below
  <2>4. ~cur.forks => Below(received_block, Num[b]) = received_block
    BY <1>3 DEF Below
  <2> QED
    BY <2>1, <2>2, <2>3, <2>4
<1> QED
  BY <1>1, <1>2, <1>4, Settled

LEMMA LinkCommitBlock ==
  ASSUME IInv, LinkInv, CommitBlock
  PROVE  LinkInv'
<1>1. /\ pc = "commit" /\ session = "streaming" /\ received_block' = Received
      /\ UNCHANGED <<chain, begin, next, wire, session, head_id>>
      /\ pc' = "idle" \/ (pc' = "flush" /\ then' = "idle")
  BY DEF CommitBlock, IInv, StepInv, memVars, nodeosVars
<1>2. Applied /\ ~Applied' /\ ~Pending /\ ~Pending' /\ ~Stopping
  BY <1>1 DEF Applied, Pending, Stopping
<1>3. Standing' = Standing /\ StandingHead' = StandingHead
  BY <1>1, <1>2 DEF Standing, StandingHead, After
<1> QED
  BY <1>1, <1>2, <1>3, Settled

------------------------------------------------------------------------------
(* The invariant *)

LEMMA LinkStep ==
  ASSUME IInv, IInv', RowInv, BranchInv, HeightInv, LinkInv, [Next]_vars
  PROVE  LinkInv'
<1>1. CASE NodeosStep
  BY <1>1, LinkNodeos
<1>2. CASE session' # "streaming"
  BY <1>2 DEF LinkInv
<1>3. CASE ReceivedStatus
  BY <1>3, LinkReceivedStatus
<1>4. CASE SkipResult
  BY <1>4, LinkSkipResult
<1>5. CASE BeginBlock
  BY <1>5, LinkBeginBlock
<1>6. CASE \E t \in Table : FlushStream(t)
  BY <1>6, LinkFlushStream
<1>7. CASE CloseStreams
  BY <1>7, LinkCloseStreams
<1>8. CASE Trim
  BY <1>8, LinkTrim
<1>9. CASE ApplyBlockRows
  BY <1>9, LinkApplyBlock
<1>10. CASE CommitBlock
  BY <1>10, LinkCommitBlock
<1>11. CASE UNCHANGED vars
  <2>1. UNCHANGED <<dbVars, session, memVars, stepVars, wire, begin, chain, next>>
    BY <1>11 DEF vars, nodeosVars
  <2>2. \A b \in Block : Kept(b) => Kept(b)'
    BY <2>1 DEF Kept
  <2>3. \A n \in Nat : Reaches(n, next, SkipTo) => Reaches(n, next', SkipTo)
    BY <2>1
  <2> QED
    BY <2>1, <2>2, <2>3, LinkQuiet
<1>12. CASE \/ StopAtBlock \/ PrevMismatch \/ ConnectionLost \/ Die \/ ReceivedAbi \/ Retry
            \/ \E opts \in StartOptions : OperatorStart(opts)
  BY <1>2, <1>12 DEF StopAtBlock, PrevMismatch, ConnectionLost, Die, ReceivedAbi, Retry,
                     OperatorStart, StartSession, EndSession
<1> QED
  BY <1>1, <1>3, <1>4, <1>5, <1>6, <1>7, <1>8, <1>9, <1>10, <1>11, <1>12
     DEF Next, FillerStep, ProcessBlock, Fault

\* nodeos's branch always has a newest block, unless it is empty.
LEMMA HeightStep ==
  ASSUME IInv, HeightInv, [Next]_vars
  PROVE  HeightInv'
<1>1. CASE UNCHANGED chain
  BY <1>1 DEF HeightInv, TipIs, Tip
<1>2. CASE NodeosStep
  BY <1>1, <1>2, ApplyBlockHeight, ReplaceNodeHeight
     DEF NodeosStep, AdvanceLib, SendBlocksResult, IInv, TypeOK
<1>3. CASE ~NodeosStep
  <2>1. UNCHANGED chain
    <3>1. ASSUME NEW s, EndSession(s) PROVE UNCHANGED chain
      BY <3>1 DEF EndSession, SessionGone
    <3>2. ASSUME NEW opts, StartSession(opts) PROVE UNCHANGED chain
      BY <3>2 DEF StartSession, nodeosVars
    <3> QED
      BY <1>3, <3>1, <3>2
         DEF Next, FillerStep, ProcessBlock, Fault, OperatorStart, Retry, ReceivedAbi,
             ReceivedStatus, SkipResult, StopAtBlock, BeginBlock, FlushStream, CloseStreams, Trim,
             ApplyBlockRows, PrevMismatch, CommitBlock, ConnectionLost, Die, vars, nodeosVars
  <2> QED
    BY <1>1, <2>1
<1> QED
  BY <1>2, <1>3

LEMMA LinkInit ==
  ASSUME Init
  PROVE  HeightInv /\ LinkInv
BY NodeosAssumption DEF Init, NodeosInit, HeightInv, LinkInv

------------------------------------------------------------------------------
(* What trimming kept *)

LEMMA KeptUnchanged ==
  ASSUME KeptInv, UNCHANGED <<received_block, rows>>,
         fill_status.irreversible <= fill_status'.irreversible,
         fill_status.irreversible \in Nat, fill_status'.irreversible \in Nat,
         received_block \in SUBSET Block
  PROVE  KeptInv'
BY TreeAssumption DEF KeptInv, Old

LEMMA KeptSameDb ==
  ASSUME IInv, KeptInv, UNCHANGED dbVars
  PROVE  KeptInv'
BY DEF KeptInv, Old, dbVars

LEMMA KeptStartSession ==
  ASSUME IInv, KeptInv, NEW opts, StartSession(opts)
  PROVE  KeptInv'
<1>1. CASE "drop" \in opts
  BY <1>1 DEF StartSession, KeptInv
<1>2. CASE "drop" \notin opts
  BY <1>2, KeptSameDb DEF StartSession
<1> QED
  BY <1>1, <1>2

LEMMA KeptReceivedAbi ==
  ASSUME IInv, KeptInv, ReceivedAbi
  PROVE  KeptInv'
<1>1. UNCHANGED <<received_block, rows, fill_status>>
  BY DEF ReceivedAbi, dbVars
<1> QED
  BY <1>1 DEF KeptInv, Old

\* truncate(head + 1) leaves the irreversible block.
LEMMA KeptReceivedStatus ==
  ASSUME IInv, RowInv, BranchInv, KeptInv, ReceivedStatus
  PROVE  KeptInv'
<1>1. CASE ~schema
  BY <1>1, KeptSameDb DEF ReceivedStatus
<1>2. CASE schema
  <2> DEFINE s == fill_status.head_id
             n == N(s) + 1
  <2>1. /\ received_block' = {b \in received_block : Num[b] < n}
        /\ rows' = {r \in rows : Num[r.block] < n}
        /\ UNCHANGED fill_status
    BY <1>2 DEF ReceivedStatus, TruncatedReceived, TruncatedRows, Below
  <2>2. /\ fill_status.irreversible <= N(s) /\ fill_status.irreversible \in Nat /\ N(s) \in Nat
        /\ \A b \in received_block : Num[b] \in Nat
    BY Facts DEF BranchInv, StatusInv, TypeOK, FillStatus
  <2> SUFFICES ASSUME NEW r \in rows', Old(r)'
               PROVE  /\ \A b \in received_block' : r.block \in Branch[b]
                      /\ \E b \in received_block' : Num[b] <= fill_status.irreversible
    BY <2>1 DEF KeptInv
  <2>3. r \in rows /\ Num[r.block] < n /\ Num[r.block] \in Nat
    BY <2>1, Facts DEF Row
  <2>4. r.block \notin received_block
    BY <2>1, <2>3 DEF Old
  <2>5. \A b \in received_block : Num[r.block] < Num[b]
    BY <2>2, <2>3, <2>4 DEF RowInv, RowsInv
  <2>6. Old(r)
    BY <2>1, <2>5 DEF Old
  <2> QED
    BY <2>1, <2>2, <2>3, <2>6 DEF KeptInv
<1> QED
  BY <1>1, <1>2

\* A stream's rows are of received blocks or the block at hand.
LEMMA KeptFlushStream ==
  ASSUME IInv, RowInv, KeptInv, NEW t \in Table, FlushStream(t)
  PROVE  KeptInv'
<1>1. /\ pc = "flush" /\ session = "streaming" /\ UNCHANGED <<received_block, fill_status>>
      /\ \A r \in rows' : r \in rows \/ r \in table_streams
  BY DEF FlushStream, IInv, StepInv
<1>2. Applied => ~cur.forks
  BY <1>1 DEF IInv, StepInv, FlushFirst, Applied
<1>3. \A r \in table_streams : r.block \in received_block \/ (Applied /\ r.block = cur.this_block)
  BY <1>2, Facts DEF RowInv, StreamsInv, After, Received
<1>4. Applied => \A b \in received_block : Num[b] < Num[cur.this_block]
  BY <1>2 DEF RowInv, DecisionInv
<1>5. cur.this_block \in Block /\ \A b \in Block : Num[b] \in Nat
  BY <1>1, TreeAssumption DEF IInv, StepInv
<1>6. ASSUME NEW r \in table_streams PROVE ~Old(r)
  BY <1>3, <1>4, <1>5, <1>6, Facts DEF Old
<1> QED
  BY <1>1, <1>6 DEF KeptInv, Old

\* The status written when the streams are closed, or at a stop, has moved up.
LEMMA KeptCloseStreams ==
  ASSUME IInv, BranchInv, KeptInv, CloseStreams
  PROVE  KeptInv'
<1>1. /\ session = "streaming" /\ fill_status'.irreversible = EndTrim
      /\ UNCHANGED <<received_block, rows>>
  BY DEF CloseStreams, StatusToWrite, IInv, StepInv
<1>2. /\ fill_status.irreversible <= EndTrim /\ fill_status.irreversible \in Nat
      /\ EndTrim \in Nat
  BY <1>1, Facts DEF BranchInv, StatusInv, EndTrim, TypeOK, FillStatus
<1> QED
  BY <1>1, <1>2, KeptUnchanged, Facts

\* What trim takes away ends at the irreversible block, which stays.
LEMMA KeptTrim ==
  ASSUME IInv, RowInv, BranchInv, KeptInv, Trim
  PROVE  KeptInv'
<1>1. /\ pc = "trim" /\ session = "streaming" /\ table_streams = {} /\ first < EndTrim
      /\ received_block' = {b \in received_block : ~InTrim(Num[b])}
      /\ \A r \in rows' : r \in rows
      /\ UNCHANGED fill_status
  BY DEF Trim, IInv, StepInv
<1>2. ~Applied /\ Landed = received_block /\ After = received_block
  BY <1>1 DEF Applied, Landed, After
<1>3. /\ received_block \in SUBSET Block /\ IsStretch(received_block)
      /\ EndTrim \in Nat /\ first \in Nat /\ EndTrim <= head
      /\ \A b \in received_block : first <= Num[b] /\ Num[b] \in Nat
      /\ \A r \in rows : Num[r.block] \in Nat
  <2>1. EndTrim \in Nat /\ EndTrim <= head
    BY Facts DEF EndTrim, TypeOK
  <2> QED
    BY <1>1, <1>2, <2>1, Facts DEF Row, TypeOK, FillerInv, FirstInv, HistoryInv
<1>4. \A b \in received_block : b \in received_block' <=> EndTrim <= Num[b]
  BY <1>1, <1>3 DEF InTrim
<1>5. head_id \in received_block /\ Num[head_id] = head
  <2>1. head_id # NoBlock /\ head = Num[head_id]
    BY <1>1, <1>3 DEF head, N
  <2> QED
    BY <1>1, <1>2, <2>1 DEF IInv, HistoryInv, TipIs
<1>6. fill_status.irreversible = EndTrim
  BY <1>1 DEF BranchInv, StatusInv
<1> SUFFICES ASSUME NEW r \in rows', Old(r)'
             PROVE  /\ \A b \in received_block' : r.block \in Branch[b]
                    /\ \E b \in received_block' : Num[b] <= fill_status.irreversible
  BY <1>1 DEF KeptInv
<1>7. r \in rows /\ Num[r.block] \in Nat /\ \A b \in received_block' : Num[r.block] < Num[b]
  BY <1>1, <1>3 DEF Old
<1>8. r.block \in received_block \/ Old(r)
  BY <1>1, <1>2, <1>7 DEF RowInv, RowsInv, Old
<1>9. ASSUME NEW b \in received_block' PROVE r.block \in Branch[b]
  <2>1. b \in received_block /\ Num[r.block] <= Num[b]
    BY <1>1, <1>3, <1>7, <1>9
  <2>2. CASE r.block \in received_block
    BY <1>3, <2>1, <2>2, StretchOnBranch
  <2>3. CASE Old(r)
    BY <1>7, <2>1, <2>3 DEF KeptInv
  <2> QED
    BY <1>8, <2>2, <2>3
<1>10. \E b \in received_block' : Num[b] <= EndTrim
  <2>1. CASE \E b \in received_block : Num[b] < EndTrim
    <3>1. PICK b \in received_block : Num[b] < EndTrim
      BY <2>1
    <3>2. EndTrim \in Num[b]..Num[head_id]
      BY <1>3, <1>5, <3>1
    <3>3. PICK d \in received_block : Num[d] = EndTrim
      BY <1>3, <1>5, <3>2 DEF IsStretch
    <3> QED
      BY <1>3, <1>4, <3>3
  <2>2. CASE ~\E b \in received_block : Num[b] < EndTrim
    <3>1. \A b \in received_block : b \in received_block'
      BY <1>3, <1>4, <2>2
    <3>2. Old(r)
      BY <1>7, <1>8, <3>1
    <3> QED
      BY <1>6, <1>7, <3>1, <3>2 DEF KeptInv
  <2> QED
    BY <2>1, <2>2
<1> QED
  BY <1>6, <1>9, <1>10

\* A fork switch begins past the irreversible block, which the new branch is on too.
LEMMA KeptCommitBlock ==
  ASSUME IInv, RowInv, BranchInv, KeptInv, CommitBlock
  PROVE  KeptInv'
<1> DEFINE c == cur.this_block
           i == fill_status.irreversible
<1>1. /\ pc = "commit" /\ session = "streaming" /\ c \in Block /\ Applied
      /\ received_block' = Received
      /\ rows' = (IF cur.forks THEN {r \in rows : Num[r.block] < Num[c]} ELSE rows)
      /\ fill_status' = StatusCommitted
  BY DEF CommitBlock, IInv, StepInv, Applied, TruncatedRows
<1>2. /\ After = Received
      /\ Received = (IF cur.forks THEN {b \in received_block : Num[b] < Num[c]}
                                  ELSE received_block) \cup {c}
      /\ Landed = (IF cur.forks THEN received_block ELSE Received)
  BY <1>1 DEF After, Received, TruncatedReceived, Below, Landed
<1>3. /\ Num[c] \in Nat /\ received_block \in SUBSET Block
      /\ \A b \in received_block : Num[b] \in Nat
      /\ \A r \in rows : Num[r.block] \in Nat
  BY <1>1, Facts DEF Row
<1>4. ~cur.forks => \A b \in received_block : Num[b] < Num[c]
  BY <1>1 DEF RowInv, DecisionInv
<1>5. /\ i \in Nat /\ i < Num[c] /\ EndTrim \in Nat /\ i <= EndTrim
  BY <1>1, Facts DEF BranchInv, StatusInv, EndTrim, TypeOK, FillStatus
<1>6. i <= fill_status'.irreversible /\ fill_status'.irreversible \in Nat
  BY <1>1, <1>5 DEF StatusCommitted, StatusToWrite
<1>7. Received \in SUBSET Block /\ IsStretch(Received)
  BY <1>1, <1>2, <1>3 DEF IInv, HistoryInv
<1> SUFFICES ASSUME NEW r \in rows', Old(r)'
             PROVE  /\ \A b \in received_block' : r.block \in Branch[b]
                    /\ \E b \in received_block' : Num[b] <= fill_status'.irreversible
  BY DEF KeptInv
<1>8. r \in rows /\ (cur.forks => Num[r.block] < Num[c]) /\ r.block \notin received_block'
  BY <1>1, <1>3, <1>7 DEF Old
<1>9. Old(r)
  <2>1. r.block \in Landed \/ Old(r)
    BY <1>1, <1>8 DEF RowInv, RowsInv, Old
  <2> QED
    BY <1>1, <1>2, <1>8, <2>1
<1>10. PICK b \in received_block : Num[b] <= i
  BY <1>8, <1>9 DEF KeptInv
<1>11. b \in received_block' /\ Num[b] <= Num[c] /\ r.block \in Branch[b]
  BY <1>1, <1>2, <1>3, <1>5, <1>8, <1>9, <1>10 DEF KeptInv
<1>12. b \in Branch[c]
  BY <1>1, <1>2, <1>7, <1>11, StretchOnBranch
<1>13. r.block \in Branch[c]
  BY <1>1, <1>11, <1>12, BranchTransitive
<1>14. \A d \in received_block' : d = c \/ d \in received_block
  BY <1>1, <1>2
<1> QED
  BY <1>3, <1>5, <1>6, <1>8, <1>9, <1>10, <1>11, <1>13, <1>14 DEF KeptInv

LEMMA KeptStep ==
  ASSUME IInv, RowInv, BranchInv, KeptInv, [Next]_vars
  PROVE  KeptInv'
<1>1. CASE \/ NodeosStep \/ SkipResult \/ StopAtBlock \/ BeginBlock \/ ApplyBlockRows
           \/ PrevMismatch \/ ConnectionLost \/ Die \/ UNCHANGED vars
  <2>1. UNCHANGED dbVars
    BY <1>1 DEF NodeosStep, SkipResult, StopAtBlock, BeginBlock, ApplyBlockRows, PrevMismatch,
                ConnectionLost, Die, vars
  <2> QED
    BY <2>1, KeptSameDb
<1>2. CASE Retry \/ \E opts \in StartOptions : OperatorStart(opts)
  BY <1>2, KeptStartSession DEF Retry, OperatorStart
<1>3. CASE ReceivedAbi
  BY <1>3, KeptReceivedAbi
<1>4. CASE ReceivedStatus
  BY <1>4, KeptReceivedStatus
<1>5. CASE \E t \in Table : FlushStream(t)
  BY <1>5, KeptFlushStream
<1>6. CASE CloseStreams
  BY <1>6, KeptCloseStreams
<1>7. CASE Trim
  BY <1>7, KeptTrim
<1>8. CASE CommitBlock
  BY <1>8, KeptCommitBlock
<1> QED
  BY <1>1, <1>2, <1>3, <1>4, <1>5, <1>6, <1>7, <1>8 DEF Next, FillerStep, ProcessBlock, Fault

------------------------------------------------------------------------------
(* The whole invariant *)

LEMMA InitAll ==
  ASSUME Init
  PROVE  Inv
<1>1. KeptInv
  BY DEF Init, KeptInv
<1> QED
  BY <1>1, InitInv, RowsInit, BranchInit, LinkInit DEF Inv

LEMMA StepAll ==
  ASSUME Inv, [Next]_vars
  PROVE  Inv'
<1>1. IInv' /\ RowInv'
  BY StepKeepsInv, RowsStep DEF Inv
<1> QED
  BY <1>1, BranchStep, HeightStep, LinkStep, KeptStep DEF Inv

\* Every message on the wire, and the next one nodeos will send, links to the block it
\* will find as the history's head, or goes back to one the history has; what trimming
\* kept is of the branch.
THEOREM LinkInvariant == Spec => []Inv
<1>1. Init => Inv
  BY InitAll
<1>2. Inv /\ [Next]_vars => Inv'
  BY StepAll
<1> QED
  BY <1>1, <1>2, PTL DEF Spec

\* 'prev_block does not match', which stops the filler for good, is thrown only when
\* nodeos no longer serves the filler's head or the operator skipped past it.
THEOREM BlocksAlwaysLink == Spec => []BlocksLink
<1>1. ASSUME IInv, RowInv, BranchInv, LinkInv PROVE BlocksLink
  <2> DEFINE t == cur.this_block
             n == Num[t]
  <2> SUFFICES ASSUME pc = "apply", ~PrevMatches
               PROVE  N(BaseHead) < begin \/ N(BaseHead) + 1 < SkipTo
    BY DEF BlocksLink
  <2>1. Pending /\ ~Stopping /\ ~Applied /\ session = "streaming" /\ t \in Block
    BY <1>1 DEF Pending, Stopping, Applied, IInv, StepInv
  <2>2. /\ \A b \in received_block : Links(cur, b) /\ N(b) = Num[b] /\ Num[b] \in Nat
        /\ head_id # NoBlock => Reaches(head, n, SkipTo)
    BY <1>1, <2>1, LinkFacts DEF LinkInv
  <2>3. N(t) = n /\ n \in Nat /\ begin \in Nat
    BY <1>1, <2>1, LinkFacts
  <2>4. BaseHead # NoBlock /\ cur.prev_block # BaseHead
    BY DEF PrevMatches
  <2>5. CASE cur.forks
    <3>1. BaseHead \in received_block /\ Num[BaseHead] = n - 1
      BY <2>4, <2>5 DEF BaseHead, TruncatedHead, At
    <3>2. N(t) = Num[BaseHead] + 1
      BY <2>3, <3>1
    <3> QED
      BY <2>2, <2>4, <3>1, <3>2 DEF Links
  <2>6. CASE ~cur.forks
    <3>1. BaseHead = head_id /\ head_id \in received_block
      BY <1>1, <2>1, <2>4, <2>6, Facts DEF BaseHead, IInv, HistoryInv, TipIs
    <3>2. head < n /\ head \in Nat /\ head = Num[head_id]
      BY <1>1, <2>1, <2>2, <2>6, <3>1, Facts DEF RowInv, DecisionInv, head
    <3>3. n <= head + 1 \/ head < begin \/ head + 1 < SkipTo
      BY <2>2, <2>4, <3>1 DEF Reaches
    <3>4. CASE n <= head + 1
      <4>1. N(t) = Num[head_id] + 1
        BY <2>3, <3>2, <3>4
      <4> QED
        BY <2>2, <2>4, <3>1, <4>1 DEF Links
    <3> QED
      BY <3>1, <3>3, <3>4 DEF head
  <2> QED
    BY <2>5, <2>6
<1> QED
  BY <1>1, LinkInvariant, PTL DEF Inv
==============================================================================
