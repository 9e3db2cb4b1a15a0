--------------------------- MODULE HttpServerProofs ---------------------------
(***************************************************************************)
(* HttpInv is inductive, for any number of connections, threads, requests  *)
(* and any limit of the queue: the pipeline of a connection keeps to one   *)
(* read and one write and answers in order, and queries share no           *)
(* thread_state.                                                           *)
(***************************************************************************)
EXTENDS HttpServer, FiniteSetTheorems, SequenceTheorems, TLAPS

------------------------------------------------------------------------------
(* Queues of requests *)

\* What queueing a response, or receiving it, makes of a queue.
LEMMA Appended ==
  ASSUME NEW q \in Seq(Request), NEW r \in Request
  PROVE  /\ Append(q, r) \in Seq(Request) /\ Append(q, r) # <<>>
         /\ Len(q) \in Nat /\ Len(Append(q, r)) = Len(q) + 1
         /\ DOMAIN q = 1..Len(q) /\ DOMAIN Append(q, r) = 1..(Len(q) + 1)
         /\ \A i \in 1..Len(q) : Append(q, r)[i] = q[i]
         /\ Append(q, r)[Len(q) + 1] = r
BY AppendProperties, LenProperties, EmptySeq

\* What taking the first request from a queue leaves.
LEMMA Taken ==
  ASSUME NEW q \in Seq(Request), q # <<>>
  PROVE  /\ Head(q) \in Request /\ Head(q) = q[1] /\ 1 \in DOMAIN q
         /\ Tail(q) \in Seq(Request)
         /\ Len(q) \in Nat \ {0} /\ Len(Tail(q)) = Len(q) - 1
         /\ DOMAIN q = 1..Len(q) /\ DOMAIN Tail(q) = 1..(Len(q) - 1)
         /\ \A i \in 1..(Len(q) - 1) : Tail(q)[i] = q[i + 1]
<1>1. /\ Head(q) \in Request /\ Tail(q) \in Seq(Request) /\ Len(Tail(q)) = Len(q) - 1
      /\ \A i \in 1..Len(Tail(q)) : Tail(q)[i] = q[i + 1]
  BY HeadTailProperties
<1>2. Len(q) \in Nat \ {0} /\ DOMAIN q = 1..Len(q) /\ DOMAIN Tail(q) = 1..Len(Tail(q))
  BY <1>1, EmptySeq, LenProperties
<1> QED
  BY <1>1, <1>2

\* Numbers run on when the next request is queued.
LEMMA NumberedAppended ==
  ASSUME NEW q \in Seq(Request), NEW n \in Nat, NumberedFrom(n, q),
         NEW r \in Request, r.id = n + Len(q) + 1
  PROVE  NumberedFrom(n, Append(q, r))
BY Appended DEF NumberedFrom

\* The first request taken has the next number, and the rest is numbered from there.
LEMMA NumberedTaken ==
  ASSUME NEW q \in Seq(Request), q # <<>>, NEW n \in Nat, NumberedFrom(n, q)
  PROVE  /\ Head(q).id = n + 1 /\ NumberedFrom(n + 1, Tail(q))
         /\ n + Len(q) = n + 1 + Len(Tail(q))
<1>1. Head(q).id = n + 1
  BY Taken DEF NumberedFrom
<1>2. ASSUME NEW i \in DOMAIN Tail(q) PROVE Tail(q)[i].id = n + 1 + i
  <2>1. i \in 1..(Len(q) - 1) /\ Tail(q)[i] = q[i + 1] /\ i + 1 \in DOMAIN q /\ i \in Nat
    BY Taken
  <2>2. q[i + 1].id = n + (i + 1)
    BY <2>1 DEF NumberedFrom
  <2> QED
    BY <2>1, <2>2
<1>3. n + Len(q) = n + 1 + Len(Tail(q))
  BY Taken
<1> QED
  BY <1>1, <1>2, <1>3 DEF NumberedFrom

\* What the client has stays in order when the next response arrives, if none
\* before it closed the connection.
LEMMA InOrderAppended ==
  ASSUME NEW q \in Seq(Request), \A i \in DOMAIN q : q[i].id = i,
         NEW r \in Request, r.id = Len(q) + 1
  PROVE  \A i \in DOMAIN Append(q, r) : Append(q, r)[i].id = i
BY Appended

LEMMA KeepAliveAppended ==
  ASSUME NEW q \in Seq(Request), \A i \in 1..(Len(q) - 1) : q[i].keep_alive,
         q = <<>> \/ q[Len(q)].keep_alive, NEW r \in Request
  PROVE  \A i \in 1..(Len(Append(q, r)) - 1) : Append(q, r)[i].keep_alive
<1>1. ASSUME NEW i \in 1..(Len(Append(q, r)) - 1)
      PROVE  Append(q, r)[i] = q[i] /\ (i = Len(q) \/ i \in 1..(Len(q) - 1)) /\ q # <<>>
  BY Appended, EmptySeq
<1>2. ASSUME NEW i \in 1..(Len(Append(q, r)) - 1)
      PROVE  Append(q, r)[i].keep_alive
  BY <1>1, <1>2
<1> QED
  BY <1>2

\* A connection's part of HttpTypeOK.
LEMMA SessionTyped ==
  ASSUME HttpTypeOK, NEW s \in Session
  PROVE  /\ asked[s] \in Nat /\ reads[s] \in Nat /\ writes[s] \in Nat
         /\ sock[s] \in Seq(Request) /\ got[s] \in Seq(Request) /\ items[s] \in Seq(Request)
         /\ Len(items[s]) <= Limit /\ handling[s] \in Handling
         /\ InHand(s) \in {0, 1}
         /\ InHand(s) = 1 => handling[s].req \in Request /\ handling[s].state \in Nat
         /\ Len(sock[s]) \in Nat /\ Len(got[s]) \in Nat /\ Len(items[s]) \in Nat
<1>1. /\ handling[s] \in Handling
      /\ sock[s] \in Seq(Request) /\ got[s] \in Seq(Request) /\ items[s] \in Seq(Request)
      /\ asked[s] \in Nat /\ reads[s] \in Nat /\ writes[s] \in Nat /\ Len(items[s]) <= Limit
  BY DEF HttpTypeOK
<1>2. /\ InHand(s) \in {0, 1}
      /\ InHand(s) = 1 => handling[s].req \in Request /\ handling[s].state \in Nat
  <2>1. CASE handling[s] = Nothing
    <3>1. Nothing.busy = FALSE
      BY DEF Nothing
    <3> QED
      BY <2>1, <3>1 DEF InHand
  <2>2. CASE handling[s] \in [busy : {TRUE}, req : Request, state : Nat]
    BY <2>2 DEF InHand
  <2> QED
    BY <1>1, <2>1, <2>2 DEF Handling
<1> QED
  BY <1>1, <1>2, LenProperties

------------------------------------------------------------------------------
(* One connection's step leaves the others alone. *)

ConnVars(s) == <<asked[s], sock[s], got[s], reads[s], writes[s], items[s], handling[s]>>

LEMMA OthersUnchanged ==
  ASSUME HttpTypeOK, NEW s \in Session, ClientStep(s) \/ ServerStep(s) \/ OnReadFails(s),
         NEW t \in Session \ {s}
  PROVE  UNCHANGED ConnVars(t)
<1> USE DEF HttpTypeOK, ConnVars, clientVars, connVars, stateVars
<1>1. CASE ClientStep(s)
  BY <1>1 DEF ClientStep, ClientSends, ClientCloses, SocketFails
<1>2. CASE OnReadFile(s) \/ \E throws \in BOOLEAN : QueryEnds(s, throws)
  BY <1>2 DEF OnReadFile, QueryEnds, Respond
<1>3. CASE \E st \in 1..(made + 1) : OnReadQuery(s, st)
  BY <1>3 DEF OnReadQuery
<1>4. CASE OnReadEnd(s) \/ OnReadFails(s)
  BY <1>4 DEF OnReadEnd, OnReadFails
<1>5. CASE OnWrite(s) \/ OnWriteFails(s)
  BY <1>5 DEF OnWrite, OnWriteFails
<1> QED
  BY <1>1, <1>2, <1>3, <1>4, <1>5 DEF ServerStep

------------------------------------------------------------------------------
(* What a step keeps of its own connection *)

ConnInv(s) == FlowOf(s) /\ InOrder(s) /\ OrderOf(s)

\* ConnInv reads nothing but the connection's own variables.
LEMMA ConnUnchanged ==
  ASSUME NEW s, ConnInv(s), UNCHANGED ConnVars(s)
  PROVE  ConnInv(s)'
<1>1. UNCHANGED <<FlowOf(s), InOrder(s), OrderOf(s)>>
  BY DEF ConnVars, FlowOf, InHand, Full, InOrder, OrderOf, ClosedBy, NumberedOn
<1> QED
  BY <1>1 DEF ConnInv

\* Queueing a response: there was room for it, it is the next in order, and a write
\* begins only if none is outstanding.
LEMMA Responded ==
  ASSUME HttpTypeOK, NEW s \in Session, ConnInv(s), NEW req, Respond(s, req),
         UNCHANGED <<got, asked>>, sock' \in [Session -> Seq(Request)], InHand(s)' = 0,
         \/ InHand(s) = 1 /\ req = handling[s].req /\ sock'[s] = sock[s]
         \/ /\ InHand(s) = 0 /\ reads[s] > 0
            /\ sock[s] # <<>> /\ req = Head(sock[s]) /\ sock'[s] = Tail(sock[s])
  PROVE  ConnInv(s)' /\ items'[s] \in Seq(Request) /\ Len(items'[s]) <= Limit
                     /\ reads'[s] \in Nat /\ writes'[s] \in Nat
<1>1. /\ asked[s] \in Nat /\ reads[s] \in Nat /\ writes[s] \in Nat
      /\ sock[s] \in Seq(Request) /\ items[s] \in Seq(Request)
      /\ InHand(s) \in {0, 1} /\ Limit \in Nat \ {0}
      /\ InHand(s) = 1 => handling[s].req \in Request
      /\ Len(sock[s]) \in Nat /\ Len(got[s]) \in Nat /\ Len(items[s]) \in Nat
  BY SessionTyped, HttpAssumption
<1>0. /\ s \in DOMAIN got /\ s \in DOMAIN items /\ s \in DOMAIN sock /\ s \in DOMAIN sock'
      /\ s \in DOMAIN items' /\ s \in DOMAIN asked /\ sock'[s] \in Seq(Request)
      /\ got' = got /\ asked' = asked
  BY DEF HttpTypeOK, Respond
<1> DEFINE queued == Append(items[s], req)
<1>2. /\ items'[s] = queued
      /\ writes'[s] = IF Len(queued) = 1 THEN writes[s] + 1 ELSE writes[s]
      /\ reads'[s] = reads[s] - (IF InHand(s) = 1 THEN 0 ELSE 1)
                              + (IF Full(queued) THEN 0 ELSE 1)
  BY DEF Respond, HttpTypeOK, InHand
<1>3. req \in Request
  BY <1>1, Taken
<1>4. /\ queued \in Seq(Request) /\ queued # <<>> /\ Len(queued) = Len(items[s]) + 1
      /\ DOMAIN queued = 1..(Len(items[s]) + 1) /\ DOMAIN items[s] = 1..Len(items[s])
      /\ \A i \in 1..Len(items[s]) : queued[i] = items[s][i]
      /\ queued[Len(items[s]) + 1] = req
  BY <1>1, <1>3, Appended
<1> HIDE DEF queued
<1>5. Len(items[s]) < Limit /\ reads[s] + InHand(s) = 1
  BY <1>1 DEF ConnInv, FlowOf, Full
<1>7. items[s] = <<>> <=> Len(items[s]) = 0
  BY <1>0, <1>1, EmptySeq
<1>8. FlowOf(s)' /\ reads'[s] \in Nat /\ writes'[s] \in Nat
  <2>1. reads'[s] = IF Full(queued) THEN 0 ELSE 1
    BY <1>0, <1>1, <1>2, <1>5
  <2>2. writes'[s] <= 1 /\ writes'[s] \in Nat
    BY <1>0, <1>1, <1>2, <1>4, <1>7 DEF ConnInv, FlowOf
  <2> QED
    BY <1>0, <1>2, <1>4, <2>1, <2>2 DEF FlowOf, Full
<1>9. UNCHANGED InOrder(s) /\ UNCHANGED ClosedBy(s)
  BY DEF InOrder, ClosedBy
<1>10. OrderOf(s)'
  <2>1. CASE ClosedBy(s)
    BY <1>0, <1>1, <1>2, <1>4, <1>7, <1>9, <2>1 DEF ConnInv, OrderOf
  <2>2. CASE ~ClosedBy(s)
    <3> DEFINE g == Len(got[s])
               q == g + Len(items[s])
    <3>0. g \in Nat /\ q \in Nat /\ q = g + Len(items[s]) /\ g = Len(got[s])
      BY <1>0, <1>1
    <3>1. /\ NumberedFrom(g, items[s])
          /\ InHand(s) = 1 => handling[s].req.id = q + 1
          /\ NumberedFrom(q + InHand(s), sock[s])
          /\ asked[s] = q + InHand(s) + Len(sock[s])
      BY <2>2 DEF ConnInv, OrderOf, NumberedOn
    <3> HIDE DEF g, q
    <3>2. req.id = q + 1 /\ NumberedFrom(q + 1, sock'[s]) /\ asked[s] = q + 1 + Len(sock'[s])
      <4>1. CASE InHand(s) = 1
        BY <3>1, <4>1
      <4>2. CASE InHand(s) = 0
        <5>1. sock[s] # <<>> /\ req = Head(sock[s]) /\ sock'[s] = Tail(sock[s])
          BY <4>2
        <5>2. NumberedFrom(q, sock[s]) /\ asked[s] = q + Len(sock[s])
          <6>1. q + InHand(s) = q
            BY <3>0, <4>2
          <6> QED
            BY <3>1, <6>1
        <5>3. /\ Head(sock[s]).id = q + 1 /\ NumberedFrom(q + 1, Tail(sock[s]))
              /\ q + Len(sock[s]) = q + 1 + Len(Tail(sock[s]))
          BY <1>1, <3>0, <5>1, <5>2, NumberedTaken
        <5> QED
          BY <5>1, <5>2, <5>3
      <4> QED
        BY <1>1, <4>1, <4>2
    <3>3. NumberedFrom(g, queued)
      BY <1>1, <1>3, <3>0, <3>1, <3>2, NumberedAppended DEF queued
    <3>4. NumberedOn(s)'
      <4>1. g + Len(items'[s]) = q + 1 /\ q + 1 + 0 = q + 1
        BY <1>0, <1>1, <1>2, <1>4, <3>0
      <4>2. Len(got'[s]) = g
        BY <1>0, <3>0
      <4> QED
        BY <1>0, <1>2, <3>2, <3>3, <4>1, <4>2 DEF NumberedOn
    <3> QED
      BY <1>9, <2>2, <3>4 DEF OrderOf
  <2> QED
    BY <2>1, <2>2
<1> QED
  BY <1>0, <1>1, <1>2, <1>4, <1>5, <1>8, <1>9, <1>10 DEF ConnInv

\* A written response is the next in order, and the next write is begun only if a
\* response is queued behind it that may still be sent.
LEMMA Written ==
  ASSUME HttpTypeOK, NEW s \in Session, ConnInv(s), OnWrite(s)
  PROVE  ConnInv(s)' /\ items'[s] \in Seq(Request) /\ Len(items'[s]) <= Limit
                     /\ got'[s] \in Seq(Request) /\ reads'[s] \in Nat /\ writes'[s] \in Nat
<1>1. /\ reads[s] \in Nat /\ writes[s] \in Nat /\ Limit \in Nat \ {0}
      /\ items[s] \in Seq(Request) /\ got[s] \in Seq(Request)
      /\ Len(got[s]) \in Nat /\ Len(items[s]) \in Nat /\ InHand(s) \in {0, 1}
      /\ Len(items[s]) <= Limit
  BY SessionTyped, HttpAssumption
<1>2. /\ writes[s] = 1 /\ items[s] # <<>> /\ reads[s] + InHand(s) <= IF Full(items[s]) THEN 0 ELSE 1
      /\ InOrder(s) /\ ~ClosedBy(s) /\ NumberedOn(s)
  BY <1>1 DEF ConnInv, FlowOf, OrderOf, OnWrite
<1> DEFINE sent == Head(items[s])
           rest == Tail(items[s])
<1>3. /\ sent \in Request /\ rest \in Seq(Request)
      /\ Len(items[s]) \in Nat \ {0} /\ Len(rest) = Len(items[s]) - 1
      /\ sent.id = Len(got[s]) + 1 /\ NumberedFrom(Len(got[s]) + 1, rest)
      /\ Len(got[s]) + Len(items[s]) = Len(got[s]) + 1 + Len(rest)
  BY <1>1, <1>2, Taken, NumberedTaken DEF NumberedOn
<1>4. /\ got'[s] = Append(got[s], sent) /\ s \in DOMAIN got'
      /\ s \in DOMAIN items' /\ s \in DOMAIN sock
      /\ UNCHANGED asked /\ UNCHANGED sock /\ UNCHANGED handling
  BY DEF OnWrite, HttpTypeOK, clientVars
<1> HIDE DEF sent, rest
<1>5. /\ got'[s] \in Seq(Request) /\ got'[s] # <<>> /\ Len(got'[s]) = Len(got[s]) + 1
      /\ got'[s][Len(got[s]) + 1] = sent
  BY <1>1, <1>3, <1>4, Appended
<1>6. InOrder(s)'
  <2>1. \A i \in DOMAIN got'[s] : got'[s][i].id = i
    BY <1>1, <1>2, <1>3, <1>4, InOrderAppended DEF InOrder
  <2>2. \A i \in 1..(Len(got'[s]) - 1) : got'[s][i].keep_alive
    BY <1>1, <1>2, <1>3, <1>4, KeepAliveAppended DEF InOrder, ClosedBy
  <2> QED
    BY <2>1, <2>2 DEF InOrder
<1>7. ClosedBy(s)' <=> Closes(s)
  BY <1>5 DEF ClosedBy, Closes, sent
<1>8. UNCHANGED InHand(s)
  BY <1>4 DEF InHand
<1>9. CASE Closes(s)
  <2>1. items' = items /\ reads' = reads /\ writes'[s] = 0
    BY <1>1, <1>2, <1>9 DEF OnWrite, HttpTypeOK
  <2>2. FlowOf(s)' /\ OrderOf(s)'
    BY <1>1, <1>2, <1>7, <1>8, <1>9, <2>1 DEF FlowOf, Full, OrderOf
  <2> QED
    BY <1>1, <1>5, <1>6, <2>1, <2>2 DEF ConnInv
<1>10. CASE ~Closes(s)
  <2>1. /\ items'[s] = rest
        /\ writes'[s] = IF rest = <<>> THEN writes[s] - 1 ELSE writes[s]
        /\ reads'[s] = IF Full(items[s]) THEN reads[s] + 1 ELSE reads[s]
    BY <1>10 DEF OnWrite, HttpTypeOK, WasFull, rest
  <2>2. FlowOf(s)' /\ reads'[s] \in Nat /\ writes'[s] \in Nat /\ Len(rest) <= Limit
    <3>1. Len(rest) < Limit
      BY <1>1, <1>3
    <3>2. reads'[s] \in Nat /\ reads'[s] + InHand(s) <= 1
      BY <1>1, <1>2, <2>1
    <3>3. writes'[s] \in Nat /\ writes'[s] <= IF rest = <<>> THEN 0 ELSE 1
      BY <1>1, <1>2, <2>1
    <3>4. ~Full(rest)
      BY <1>1, <1>3, <3>1 DEF Full
    <3> QED
      BY <1>1, <1>3, <1>8, <2>1, <3>1, <3>2, <3>3, <3>4 DEF FlowOf
  <2>3. OrderOf(s)'
    <3>1. /\ NumberedFrom(Len(got'[s]), items'[s])
          /\ Len(got'[s]) + Len(items'[s]) = Len(got[s]) + Len(items[s])
      BY <1>3, <1>5, <2>1
    <3>2. NumberedOn(s)'
      BY <1>2, <1>4, <1>8, <3>1 DEF NumberedOn
    <3> QED
      BY <1>7, <1>10, <3>2 DEF OrderOf
  <2> QED
    BY <1>3, <1>5, <1>6, <2>1, <2>2, <2>3 DEF ConnInv
<1> QED
  BY <1>9, <1>10

\* A request is numbered by its client one after the last.
LEMMA Sent ==
  ASSUME HttpTypeOK, NEW s \in Session, ConnInv(s),
         NEW query \in BOOLEAN, NEW keep_alive \in BOOLEAN, ClientSends(s, query, keep_alive)
  PROVE  ConnInv(s)' /\ sock'[s] \in Seq(Request)
<1> DEFINE req == [id |-> asked[s] + 1, query |-> query, keep_alive |-> keep_alive]
<1>1. /\ asked[s] \in Nat /\ sock[s] \in Seq(Request) /\ items[s] \in Seq(Request)
      /\ Len(got[s]) \in Nat /\ Len(items[s]) \in Nat /\ InHand(s) \in {0, 1}
  BY SessionTyped
<1>2. /\ sock'[s] = Append(sock[s], req) /\ asked'[s] = asked[s] + 1
      /\ UNCHANGED reads /\ UNCHANGED writes /\ UNCHANGED items /\ UNCHANGED handling
      /\ UNCHANGED got
      /\ s \in DOMAIN sock' /\ s \in DOMAIN sock /\ s \in DOMAIN got /\ s \in DOMAIN items
  BY DEF ClientSends, HttpTypeOK, connVars
<1>3. req \in Request /\ req.id = asked[s] + 1
  BY <1>1 DEF Request
<1> HIDE DEF req
<1>4. /\ sock'[s] \in Seq(Request) /\ Len(sock'[s]) = Len(sock[s]) + 1 /\ Len(sock[s]) \in Nat
  BY <1>1, <1>2, <1>3, Appended
<1>5. /\ UNCHANGED FlowOf(s) /\ UNCHANGED InOrder(s) /\ UNCHANGED ClosedBy(s)
      /\ UNCHANGED InHand(s)
  BY <1>2 DEF FlowOf, InHand, Full, InOrder, ClosedBy
<1>6. ASSUME NumberedOn(s) PROVE NumberedOn(s)'
  <2> DEFINE h == Len(got[s]) + Len(items[s]) + InHand(s)
  <2>1. h \in Nat
    BY <1>1, <1>2
  <2>2. /\ NumberedFrom(h, sock[s]) /\ asked[s] = h + Len(sock[s])
        /\ NumberedFrom(Len(got[s]), items[s])
        /\ InHand(s) = 1 => handling[s].req.id = Len(got[s]) + Len(items[s]) + 1
    BY <1>6 DEF NumberedOn
  <2> HIDE DEF h
  <2>3. req.id = h + Len(sock[s]) + 1 /\ asked'[s] = h + Len(sock'[s])
    BY <1>2, <1>3, <1>4, <2>1, <2>2
  <2>4. NumberedFrom(h, sock'[s])
    BY <1>1, <1>2, <1>3, <2>1, <2>2, <2>3, NumberedAppended
  <2> QED
    BY <1>2, <1>5, <2>2, <2>3, <2>4 DEF NumberedOn, h
<1> QED
  BY <1>2, <1>4, <1>5, <1>6 DEF ConnInv, OrderOf

\* A query takes the next request in hand.
LEMMA QueryBegun ==
  ASSUME HttpTypeOK, NEW s \in Session, ConnInv(s), NEW st, OnReadQuery(s, st)
  PROVE  ConnInv(s)' /\ sock'[s] \in Seq(Request) /\ Head(sock[s]) \in Request
                     /\ reads'[s] \in Nat
<1>1. /\ asked[s] \in Nat /\ sock[s] \in Seq(Request) /\ items[s] \in Seq(Request)
      /\ reads[s] \in Nat
      /\ Len(got[s]) \in Nat /\ Len(items[s]) \in Nat /\ InHand(s) \in {0, 1}
  BY SessionTyped
<1>2. /\ sock'[s] = Tail(sock[s]) /\ reads'[s] = reads[s] - 1 /\ reads[s] > 0
      /\ UNCHANGED asked /\ UNCHANGED writes /\ UNCHANGED items /\ UNCHANGED got
      /\ sock[s] # <<>>
      /\ s \in DOMAIN sock' /\ s \in DOMAIN sock /\ s \in DOMAIN got /\ s \in DOMAIN items
  BY DEF OnReadQuery, HttpTypeOK
<1>3. handling'[s].req = Head(sock[s]) /\ InHand(s)' = 1 /\ InHand(s) = 0
  BY DEF OnReadQuery, HttpTypeOK, InHand, MayRun, Busy
<1>4. FlowOf(s)' /\ reads'[s] \in Nat
  BY <1>1, <1>2, <1>3 DEF ConnInv, FlowOf, Full
<1>5. UNCHANGED InOrder(s) /\ UNCHANGED ClosedBy(s)
  BY <1>2 DEF InOrder, ClosedBy
<1>6. ASSUME NumberedOn(s) PROVE NumberedOn(s)'
  <2> DEFINE q == Len(got[s]) + Len(items[s])
  <2>1. q \in Nat
    BY <1>1, <1>2
  <2>2. /\ NumberedFrom(q + InHand(s), sock[s]) /\ asked[s] = q + InHand(s) + Len(sock[s])
        /\ NumberedFrom(Len(got[s]), items[s])
    BY <1>6 DEF NumberedOn
  <2> HIDE DEF q
  <2>3. q + InHand(s) = q
    BY <1>3, <2>1
  <2>4. /\ Head(sock[s]).id = q + 1 /\ NumberedFrom(q + 1, Tail(sock[s]))
        /\ q + Len(sock[s]) = q + 1 + Len(Tail(sock[s]))
    BY <1>1, <1>2, <2>1, <2>2, <2>3, NumberedTaken
  <2>5. asked[s] = q + 1 + Len(sock'[s])
    BY <1>2, <2>2, <2>3, <2>4
  <2> QED
    BY <1>2, <1>3, <2>2, <2>4, <2>5 DEF NumberedOn, q
<1> QED
  BY <1>1, <1>2, <1>4, <1>5, <1>6, Taken DEF ConnInv, OrderOf

\* The steps that leave a connection's requests where they are.
LEMMA RequestsStay ==
  ASSUME HttpTypeOK, NEW s \in Session, ConnInv(s),
         \/ ClientCloses(s) \/ SocketFails(s)
         \/ OnReadEnd(s) \/ OnReadFails(s) \/ OnWriteFails(s)
  PROVE  ConnInv(s)' /\ reads'[s] \in Nat /\ writes'[s] \in Nat
<1>1. reads[s] \in Nat /\ writes[s] \in Nat /\ InHand(s) \in {0, 1}
  BY SessionTyped
<1>2. UNCHANGED asked /\ UNCHANGED sock /\ UNCHANGED got /\ UNCHANGED items /\ UNCHANGED handling
  BY DEF ClientCloses, SocketFails, OnReadEnd, OnReadFails, OnWriteFails, clientVars, connVars
<1>3. /\ reads'[s] = reads[s] \/ (reads[s] > 0 /\ reads'[s] = reads[s] - 1)
      /\ writes'[s] = writes[s] \/ (writes[s] > 0 /\ writes'[s] = writes[s] - 1)
  BY DEF HttpTypeOK, ClientCloses, SocketFails, OnReadEnd, OnReadFails, OnWriteFails, connVars
<1>4. UNCHANGED InHand(s) /\ UNCHANGED InOrder(s) /\ UNCHANGED ClosedBy(s) /\ UNCHANGED NumberedOn(s)
  BY <1>2 DEF InHand, InOrder, ClosedBy, NumberedOn
<1>5. FlowOf(s)'
  BY <1>1, <1>2, <1>3, <1>4 DEF ConnInv, FlowOf, Full
<1>6. OrderOf(s)'
  BY <1>1, <1>2, <1>3, <1>4 DEF ConnInv, OrderOf, FlowOf
<1> QED
  BY <1>1, <1>3, <1>4, <1>5, <1>6 DEF ConnInv

------------------------------------------------------------------------------
(* thread_states *)

\* The stored thread_states are finitely many.
LEMMA StatesFinite ==
  ASSUME HttpTypeOK
  PROVE  IsFiniteSet(states) /\ Cardinality(states) \in Nat
<1>1. states \in SUBSET (1..made) /\ made \in Int /\ 1 \in Int
  BY DEF HttpTypeOK
<1>2. IsFiniteSet(1..made)
  BY <1>1, FS_Interval
<1> QED
  BY <1>1, <1>2, FS_Subset, FS_CardinalityType

\* A query takes a thread_state nobody has, within the number of threads.
LEMMA StateTaken ==
  ASSUME HttpTypeOK, StatesInv, StatesApart, NEW s \in Session, NEW st, OnReadQuery(s, st)
  PROVE  StatesInv' /\ StatesApart' /\ made' \in Nat /\ states' \subseteq 1..made' /\ st \in Nat
<1>1. /\ s \notin Busy /\ Cardinality(Busy) < NumThreads /\ made \in Nat
      /\ IsFiniteSet(Busy) /\ Cardinality(Busy) \in Nat /\ NumThreads \in Nat
      /\ IsFiniteSet(states) /\ Cardinality(states) \in Nat /\ states \subseteq 1..made
      /\ Cardinality(states) + Cardinality(Busy) <= NumThreads
  BY StatesFinite, FS_CardinalityType, HttpAssumption
     DEF OnReadQuery, MayRun, StatesInv, StatesApart, HttpTypeOK
<1>2. /\ handling' = [handling EXCEPT ![s] = [busy |-> TRUE, req |-> Head(sock[s]), state |-> st]]
      /\ handling \in [Session -> Handling]
  BY DEF OnReadQuery, HttpTypeOK
<1>3. Busy' = Busy \cup {s} /\ handling'[s].state = st
  BY <1>2 DEF Busy
<1>4. IsFiniteSet(Busy') /\ Cardinality(Busy') = Cardinality(Busy) + 1
  BY <1>1, <1>3, FS_AddElement
<1>5. \A t \in Busy : handling'[t] = handling[t] /\ t # s
  BY <1>1, <1>2 DEF Busy
<1>6. \A t \in Busy : handling[t].state \in 1..made /\ handling[t].state \notin states
  BY DEF StatesInv, StatesApart
<1>7. CASE states = {}
  <2>1. made' = made + 1 /\ st = made + 1 /\ states' = {}
    BY <1>7 DEF OnReadQuery, GetState
  <2>2. Cardinality(states') = 0
    BY <2>1, FS_EmptySet
  <2>3. \A t \in Busy : handling[t].state # st
    BY <1>1, <1>6, <2>1
  <2>4. StatesInv'
    BY <1>1, <1>3, <1>4, <1>5, <1>6, <2>1 DEF StatesInv
  <2>5. StatesApart'
    <3>1. Cardinality(states') + Cardinality(Busy') <= NumThreads
      BY <1>1, <1>4, <2>2
    <3>2. \A t, u \in Busy' : handling'[t].state = handling'[u].state => t = u
      BY <1>3, <1>5, <2>3 DEF StatesApart
    <3> QED
      BY <2>1, <3>1, <3>2 DEF StatesApart
  <2> QED
    BY <1>1, <2>1, <2>4, <2>5
<1>8. CASE states # {}
  <2>1. st \in states /\ states' = states \ {st} /\ made' = made
    BY <1>8 DEF OnReadQuery, GetState, TakenOut
  <2>2. Cardinality(states') = Cardinality(states) - 1
    BY <1>1, <2>1, FS_RemoveElement
  <2>3. \A t \in Busy : handling[t].state # st
    BY <1>6, <2>1
  <2>4. StatesInv'
    BY <1>1, <1>3, <1>4, <1>5, <1>6, <2>1 DEF StatesInv
  <2>5. StatesApart'
    <3>1. Cardinality(states') + Cardinality(Busy') <= NumThreads
      BY <1>1, <1>4, <2>2
    <3>2. \A t, u \in Busy' : handling'[t].state = handling'[u].state => t = u
      BY <1>3, <1>5, <2>3 DEF StatesApart
    <3>3. \A t \in Busy' : handling'[t].state \notin states'
      BY <1>3, <1>5, <1>6, <2>1
    <3> QED
      BY <3>1, <3>2, <3>3 DEF StatesApart
  <2> QED
    BY <1>1, <2>1, <2>4, <2>5
<1> QED
  BY <1>7, <1>8

\* A query that returns gives its thread_state back; one that throws loses it.
LEMMA StateGiven ==
  ASSUME HttpTypeOK, StatesInv, StatesApart, NEW s \in Session, NEW throws \in BOOLEAN,
         QueryEnds(s, throws)
  PROVE  StatesInv' /\ StatesApart' /\ states' \subseteq 1..made'
<1> DEFINE st == handling[s].state
<1>1. s \in Busy /\ made' = made /\ handling' = [handling EXCEPT ![s] = Nothing]
  BY DEF QueryEnds, Busy
<1>2. /\ IsFiniteSet(Busy) /\ Cardinality(Busy) \in Nat
      /\ NumThreads \in Nat
      /\ IsFiniteSet(states) /\ Cardinality(states) \in Nat /\ states \subseteq 1..made
      /\ Cardinality(states) + Cardinality(Busy) <= NumThreads
  BY <1>1, StatesFinite, FS_CardinalityType, HttpAssumption DEF StatesInv, StatesApart, HttpTypeOK
<1>3. /\ \A t \in Busy : handling[t].state \in 1..made /\ handling[t].state \notin states
      /\ \A t, u \in Busy : handling[t].state = handling[u].state => t = u
  BY DEF StatesInv, StatesApart
<1>4. Busy' = Busy \ {s} /\ \A t \in Busy' : handling'[t] = handling[t]
  <2>1. Nothing.busy = FALSE
    BY DEF Nothing
  <2> QED
    BY <1>1, <2>1 DEF Busy, HttpTypeOK
<1>5. IsFiniteSet(Busy') /\ Cardinality(Busy') = Cardinality(Busy) - 1
  BY <1>1, <1>2, <1>4, FS_RemoveElement
<1>6. states' = states \/ states' = states \cup {st}
  BY DEF QueryEnds
<1>7. Cardinality(states') <= Cardinality(states) + 1 /\ Cardinality(states') \in Nat
  <2>1. Cardinality(states \cup {st}) \in {Cardinality(states), Cardinality(states) + 1}
    BY <1>2, FS_AddElement
  <2> HIDE DEF st
  <2> QED
    BY <1>2, <1>6, <2>1
<1>8. StatesInv'
  BY <1>1, <1>3, <1>4, <1>5 DEF StatesInv
<1>9. \A t \in Busy' : handling[t].state \notin states'
  BY <1>1, <1>3, <1>4, <1>6
<1>10. Cardinality(states') + Cardinality(Busy') <= NumThreads
  BY <1>2, <1>5, <1>7
<1>11. StatesApart'
  BY <1>3, <1>4, <1>9, <1>10 DEF StatesApart
<1> QED
  BY <1>1, <1>2, <1>3, <1>6, <1>8, <1>11

------------------------------------------------------------------------------
(* The invariant *)

\* A callback that ends no query and begins none leaves the thread_states alone.
LEMMA StatesUnchanged ==
  ASSUME StatesInv, StatesApart, UNCHANGED <<handling, stateVars>>
  PROVE  StatesInv' /\ StatesApart'
<1>1. handling' = handling /\ states' = states /\ made' = made
  BY DEF stateVars
<1>2. UNCHANGED Busy
  BY <1>1 DEF Busy
<1> QED
  BY <1>1, <1>2 DEF StatesInv, StatesApart

LEMMA InitInv ==
  ASSUME Init
  PROVE  HttpInv
<1>1. /\ asked = [s \in Session |-> 0] /\ sock = [s \in Session |-> <<>>]
      /\ got = [s \in Session |-> <<>>] /\ items = [s \in Session |-> <<>>]
      /\ reads = [s \in Session |-> 1] /\ writes = [s \in Session |-> 0]
      /\ handling = [s \in Session |-> Nothing] /\ states = {} /\ made = 0
      /\ Nothing.busy = FALSE
  BY DEF Init, Nothing
<1>2. <<>> \in Seq(Request) /\ Len(<<>>) = 0 /\ DOMAIN <<>> = {}
  BY EmptySeq
<1>3. Limit \in Nat \ {0} /\ MaxRequests \in [Session -> Nat] /\ NumThreads \in Nat
  BY HttpAssumption
<1>4. HttpTypeOK
  BY <1>1, <1>2, <1>3 DEF Init, HttpTypeOK, Handling
<1>5. Busy = {}
  BY <1>1 DEF Busy
<1>6. StatesInv /\ StatesApart
  BY <1>1, <1>3, <1>5, FS_EmptySet DEF StatesInv, StatesApart
<1>7. ASSUME NEW s \in Session PROVE FlowOf(s) /\ InOrder(s) /\ OrderOf(s)
  <2>1. /\ asked[s] = 0 /\ sock[s] = <<>> /\ got[s] = <<>> /\ items[s] = <<>>
        /\ reads[s] = 1 /\ writes[s] = 0 /\ InHand(s) = 0
    BY <1>1, <1>7 DEF InHand
  <2>2. ~Full(items[s])
    BY <1>2, <1>3, <2>1 DEF Full
  <2>3. FlowOf(s)
    BY <2>1, <2>2 DEF FlowOf
  <2>4. InOrder(s)
    BY <1>2, <2>1 DEF InOrder
  <2>5. NumberedFrom(0, <<>>)
    BY <1>2 DEF NumberedFrom
  <2>6. NumberedOn(s)
    BY <1>2, <2>1, <2>5 DEF NumberedOn
  <2> QED
    BY <2>1, <2>3, <2>4, <2>6 DEF OrderOf, ClosedBy
<1> QED
  BY <1>4, <1>6, <1>7 DEF HttpInv

LEMMA ClientStepInv ==
  ASSUME HttpInv, NEW s \in Session, ClientStep(s)
  PROVE  HttpTypeOK' /\ ConnInv(s)' /\ StatesInv' /\ StatesApart'
<1>1. HttpTypeOK /\ ConnInv(s) /\ StatesInv /\ StatesApart
  BY DEF HttpInv, ConnInv
<1>2. StatesInv' /\ StatesApart'
  BY <1>1, StatesUnchanged
     DEF ClientStep, ClientSends, ClientCloses, SocketFails, connVars
<1>3. CASE \E kind \in Sends[s] : ClientSends(s, kind[1], kind[2])
  <2>1. PICK query \in BOOLEAN, keep_alive \in BOOLEAN : ClientSends(s, query, keep_alive)
    BY <1>3, HttpAssumption
  <2>2. ConnInv(s)' /\ sock'[s] \in Seq(Request)
    BY <1>1, <2>1, Sent
  <2>3. HttpTypeOK'
    <3>1. asked' \in [Session -> Nat] /\ \A t \in Session : asked'[t] <= MaxRequests[t]
      <4>1. /\ asked' = [asked EXCEPT ![s] = asked[s] + 1] /\ asked[s] < MaxRequests[s]
            /\ asked \in [Session -> Nat] /\ \A t \in Session : asked[t] <= MaxRequests[t]
            /\ asked[s] \in Nat /\ MaxRequests[s] \in Nat
        BY <1>1, <2>1, HttpAssumption DEF HttpTypeOK, ClientSends
      <4>2. asked[s] + 1 <= MaxRequests[s]
        BY <4>1
      <4> QED
        BY <4>1, <4>2
    <3>2. sock' \in [Session -> Seq(Request)]
      BY <1>1, <2>1, <2>2 DEF HttpTypeOK, ClientSends
    <3> QED
      BY <1>1, <2>1, <3>1, <3>2 DEF HttpTypeOK, ClientSends, connVars, stateVars
  <2> QED
    BY <1>2, <2>2, <2>3
<1>4. CASE ClientCloses(s) \/ SocketFails(s)
  <2>1. ConnInv(s)'
    BY <1>1, <1>4, RequestsStay
  <2>2. HttpTypeOK'
    BY <1>1, <1>4 DEF HttpTypeOK, ClientCloses, SocketFails, clientVars, connVars, stateVars
  <2> QED
    BY <1>2, <2>1, <2>2
<1> QED
  BY <1>3, <1>4 DEF ClientStep

LEMMA CallbackInv ==
  ASSUME HttpInv, NEW s \in Session, ServerStep(s) \/ OnReadFails(s)
  PROVE  HttpTypeOK' /\ ConnInv(s)' /\ StatesInv' /\ StatesApart'
<1>1. HttpTypeOK /\ ConnInv(s) /\ StatesInv /\ StatesApart
  BY DEF HttpInv, ConnInv
<1>2. CASE OnReadFile(s)
  <2>1. InHand(s) = 0 /\ InHand(s)' = 0
    BY <1>2 DEF OnReadFile, MayRun, Busy, InHand
  <2>2. /\ Respond(s, Head(sock[s])) /\ UNCHANGED <<got, asked>> /\ reads[s] > 0
        /\ sock[s] # <<>> /\ sock'[s] = Tail(sock[s])
    BY <1>1, <1>2 DEF OnReadFile, HttpTypeOK
  <2>3. sock' \in [Session -> Seq(Request)]
    BY <1>1, <1>2, Taken DEF OnReadFile, HttpTypeOK
  <2>4. /\ ConnInv(s)' /\ items'[s] \in Seq(Request) /\ Len(items'[s]) <= Limit
        /\ reads'[s] \in Nat /\ writes'[s] \in Nat
    BY <1>1, <2>1, <2>2, <2>3, Responded
  <2>5. HttpTypeOK'
    BY <1>1, <1>2, <2>3, <2>4 DEF HttpTypeOK, OnReadFile, Respond, stateVars
  <2> QED
    BY <1>1, <1>2, <2>4, <2>5, StatesUnchanged DEF OnReadFile
<1>3. CASE \E st \in 1..(made + 1) : OnReadQuery(s, st)
  <2>1. PICK st \in 1..(made + 1) : OnReadQuery(s, st)
    BY <1>3
  <2>2. /\ ConnInv(s)' /\ sock'[s] \in Seq(Request) /\ Head(sock[s]) \in Request
        /\ reads'[s] \in Nat
    BY <1>1, <2>1, QueryBegun
  <2>3. /\ StatesInv' /\ StatesApart' /\ made' \in Nat /\ states' \subseteq 1..made'
        /\ st \in Nat
    BY <1>1, <2>1, StateTaken
  <2>4. [busy |-> TRUE, req |-> Head(sock[s]), state |-> st] \in Handling
    BY <2>2, <2>3 DEF Handling
  <2>5. HttpTypeOK'
    BY <1>1, <2>1, <2>2, <2>3, <2>4 DEF HttpTypeOK, OnReadQuery
  <2> QED
    BY <2>2, <2>3, <2>5
<1>4. CASE \E throws \in BOOLEAN : QueryEnds(s, throws)
  <2>1. PICK throws \in BOOLEAN : QueryEnds(s, throws)
    BY <1>4
  <2>2. InHand(s) = 1
    BY <2>1 DEF QueryEnds, InHand
  <2>3. InHand(s)' = 0
    <3>1. Nothing.busy = FALSE
      BY DEF Nothing
    <3>2. handling'[s] = Nothing
      BY <1>1, <2>1 DEF QueryEnds, HttpTypeOK
    <3> QED
      BY <3>1, <3>2 DEF InHand
  <2>4. /\ Respond(s, handling[s].req) /\ UNCHANGED <<got, asked>> /\ sock'[s] = sock[s]
        /\ sock' \in [Session -> Seq(Request)]
    BY <1>1, <2>1 DEF QueryEnds, HttpTypeOK, clientVars
  <2>5. /\ ConnInv(s)' /\ items'[s] \in Seq(Request) /\ Len(items'[s]) <= Limit
        /\ reads'[s] \in Nat /\ writes'[s] \in Nat
    BY <1>1, <2>2, <2>3, <2>4, Responded
  <2>6. StatesInv' /\ StatesApart' /\ states' \subseteq 1..made'
    BY <1>1, <2>1, StateGiven
  <2>7. HttpTypeOK'
    BY <1>1, <2>1, <2>5, <2>6 DEF HttpTypeOK, QueryEnds, Respond, Handling, clientVars
  <2> QED
    BY <2>5, <2>6, <2>7
<1>5. CASE OnReadEnd(s) \/ OnReadFails(s) \/ OnWriteFails(s)
  <2>1. ConnInv(s)' /\ reads'[s] \in Nat /\ writes'[s] \in Nat
    BY <1>1, <1>5, RequestsStay
  <2>2. HttpTypeOK'
    BY <1>1, <1>5, <2>1
       DEF HttpTypeOK, OnReadEnd, OnReadFails, OnWriteFails, clientVars, stateVars
  <2> QED
    BY <1>1, <1>5, <2>1, <2>2, StatesUnchanged DEF OnReadEnd, OnReadFails, OnWriteFails
<1>6. CASE OnWrite(s)
  <2>1. /\ ConnInv(s)' /\ items'[s] \in Seq(Request) /\ Len(items'[s]) <= Limit
        /\ got'[s] \in Seq(Request) /\ reads'[s] \in Nat /\ writes'[s] \in Nat
    BY <1>1, <1>6, Written
  <2>2. HttpTypeOK'
    BY <1>1, <1>6, <2>1 DEF HttpTypeOK, OnWrite, clientVars, stateVars
  <2> QED
    BY <1>1, <1>6, <2>1, <2>2, StatesUnchanged DEF OnWrite
<1> QED
  BY <1>2, <1>3, <1>4, <1>5, <1>6 DEF ServerStep

LEMMA StepKeepsInv ==
  ASSUME HttpInv, [Next]_vars
  PROVE  HttpInv'
<1>1. CASE Next
  <2>1. PICK s \in Session : ClientStep(s) \/ ServerStep(s) \/ OnReadFails(s)
    BY <1>1 DEF Next
  <2>2. HttpTypeOK' /\ ConnInv(s)' /\ StatesInv' /\ StatesApart'
    BY <2>1, ClientStepInv, CallbackInv
  <2>3. ASSUME NEW t \in Session \ {s} PROVE ConnInv(t)'
    BY <2>1, OthersUnchanged, ConnUnchanged DEF HttpInv, ConnInv
  <2>4. \A t \in Session : ConnInv(t)'
    BY <2>2, <2>3
  <2> QED
    BY <2>2, <2>4 DEF HttpInv, ConnInv
<1>2. CASE UNCHANGED vars
  <2>1. \A s \in Session : UNCHANGED ConnVars(s)
    BY <1>2 DEF vars, clientVars, connVars, ConnVars
  <2>2. \A s \in Session : ConnInv(s)'
    BY <2>1, ConnUnchanged DEF HttpInv, ConnInv
  <2>3. HttpTypeOK'
    BY <1>2 DEF HttpInv, HttpTypeOK, vars, clientVars, connVars, stateVars
  <2>4. StatesInv' /\ StatesApart'
    BY <1>2, StatesUnchanged DEF HttpInv, vars, connVars
  <2> QED
    BY <2>2, <2>3, <2>4 DEF HttpInv, ConnInv
<1> QED
  BY <1>1, <1>2

\* HttpInv holds in every state of every run: pipelined requests, failing sockets,
\* clients that close and queries that throw included.
THEOREM Invariant == Spec => []HttpInv
<1>1. Init => HttpInv
  BY InitInv
<1>2. HttpInv /\ [Next]_vars => HttpInv'
  BY StepKeepsInv
<1> QED
  BY <1>1, <1>2, PTL DEF Spec

\* do_read, called from on_read and from on_write, never begins a read while one is
\* outstanding, nor do_write a write, and the queue never grows past its limit.
THEOREM AlwaysOneReadOneWrite == Spec => []OneReadOneWrite
<1>1. ASSUME HttpInv, NEW s \in Session PROVE reads[s] <= 1 /\ writes[s] <= 1
  BY <1>1, SessionTyped DEF HttpInv, FlowOf
<1>2. HttpInv => OneReadOneWrite
  BY <1>1 DEF HttpInv, OneReadOneWrite
<1> QED
  BY <1>2, Invariant, PTL

\* The queue hands the client its responses in the order of its requests, none left
\* out, none twice, and none after one that closes the connection.
THEOREM AlwaysInOrder == Spec => []ResponsesInOrder
<1>1. HttpInv => ResponsesInOrder
  BY DEF HttpInv, ResponsesInOrder
<1> QED
  BY <1>1, Invariant, PTL

\* get_state never hands out a thread_state in use, and no more of them are alive
\* than the server has threads, whatever queries throw.
THEOREM AlwaysApart == Spec => []StatesApart
<1>1. HttpInv => StatesApart
  BY DEF HttpInv
<1> QED
  BY <1>1, Invariant, PTL
==============================================================================
