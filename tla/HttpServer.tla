------------------------------ MODULE HttpServer ------------------------------
(***************************************************************************)
(* wasm-ql's http server: connections with pipelined requests, a queue of  *)
(* responses for each, and a pool of thread_states that the queries of all *)
(* connections take from and give back to.                                 *)
(*                                                                         *)
(* A connection's callbacks run one at a time (its strand) on any of the   *)
(* server's threads; a query keeps its thread, and so its strand, until it *)
(* has its result.  One step of the model is one callback, but for a query *)
(* in on_read, which is one step at its beginning and one at its end.      *)
(***************************************************************************)
EXTENDS Naturals, Sequences, FiniteSets

CONSTANTS
  Session,        \* connections
  NumThreads,     \* num_threads of the server
  Limit,          \* 8 in the code: responses a connection may have queued
  MaxRequests,    \* [Session -> Nat]: bound on requests a client sends on a connection
  Sends           \* [Session -> SUBSET (BOOLEAN \X BOOLEAN)]: the pairs of query and
                  \* keep_alive its client's requests have

ASSUME HttpAssumption ==
  /\ NumThreads \in Nat \ {0} /\ Limit \in Nat \ {0}
  /\ MaxRequests \in [Session -> Nat]
  /\ Sends \in [Session -> SUBSET (BOOLEAN \X BOOLEAN)]

VARIABLES
  \* the client's side
  asked,          \* [Session -> Nat]: requests sent so far; a request's id is its number
  sock,           \* [Session -> Seq(Request)]: sent and not yet read
  eof,            \* sessions whose client sends no more
  got,            \* [Session -> Seq(Request)]: requests whose response the client has
  \* the connection
  reads, writes,  \* [Session -> Nat]: async_reads and async_writes outstanding
  items,          \* [Session -> Seq(Request)]: queue_, responses not yet written
  handling,       \* [Session -> what handle_request is doing]
  shut,           \* sessions that shut their sending side
  refused,        \* sessions whose last request did not parse
  broken,         \* sessions whose socket failed or timed out
  \* thread_state_cache
  states,         \* stored thread_states
  made            \* number of thread_states made so far

clientVars == <<asked, sock, eof>>
connVars == <<reads, writes, items, handling, shut, refused>>
stateVars == <<states, made>>
vars == <<clientVars, got, connVars, broken, stateVars>>

\* A request asks for a query or a file, and to keep the connection or not.
Request == [id : Nat, query : BOOLEAN, keep_alive : BOOLEAN]

\* A query in progress, and the thread_state it uses.
Nothing == [busy |-> FALSE]
Handling == {Nothing} \cup [busy : {TRUE}, req : Request, state : Nat]

HttpTypeOK ==
  /\ asked \in [Session -> Nat] /\ \A s \in Session : asked[s] <= MaxRequests[s]
  /\ sock \in [Session -> Seq(Request)] /\ got \in [Session -> Seq(Request)]
  /\ items \in [Session -> Seq(Request)] /\ \A s \in Session : Len(items[s]) <= Limit
  /\ eof \subseteq Session /\ shut \subseteq Session
  /\ refused \subseteq Session /\ broken \subseteq Session
  /\ reads \in [Session -> Nat] /\ writes \in [Session -> Nat]
  /\ handling \in [Session -> Handling]
  /\ made \in Nat /\ states \subseteq 1..made

\* Every connection is accepted, and run() has begun its first read.
Init ==
  /\ asked = [s \in Session |-> 0] /\ sock = [s \in Session |-> <<>>] /\ eof = {}
  /\ got = [s \in Session |-> <<>>]
  /\ reads = [s \in Session |-> 1] /\ writes = [s \in Session |-> 0]
  /\ items = [s \in Session |-> <<>>] /\ handling = [s \in Session |-> Nothing]
  /\ shut = {} /\ refused = {} /\ broken = {}
  /\ states = {} /\ made = 0

Busy == {s \in Session : handling[s].busy}

\* A callback of s may run: its strand is free and so is a thread.
MayRun(s) == s \notin Busy /\ Cardinality(Busy) < NumThreads

\* is_full
Full(queue) == Len(queue) >= Limit

------------------------------------------------------------------------------
(* The client *)

ClientSends(s, query, keep_alive) ==
  /\ asked[s] < MaxRequests[s] /\ s \notin eof
  /\ asked' = [asked EXCEPT ![s] = @ + 1]
  /\ sock' = [sock EXCEPT ![s] =
                Append(@, [id |-> asked[s] + 1, query |-> query, keep_alive |-> keep_alive])]
  /\ UNCHANGED <<eof, got, connVars, broken, stateVars>>

\* The client shuts its sending side.
ClientCloses(s) ==
  /\ s \notin eof
  /\ eof' = eof \cup {s}
  /\ UNCHANGED <<asked, sock, got, connVars, broken, stateVars>>

\* The socket fails, or the 30 seconds of do_read run out and the stream closes:
\* what is outstanding, and all that is begun later, completes with an error.
SocketFails(s) ==
  /\ s \notin broken
  /\ broken' = broken \cup {s}
  /\ UNCHANGED <<clientVars, got, connVars, stateVars>>
------------------------------------------------------------------------------
(* thread_state_cache *)

\* get_state: a stored one, taken out, or a new one.
LeftIn(st) == states
TakenOut(st) == states \ {st}
GetState(st) ==
  IF states = {} THEN /\ made' = made + 1 /\ st = made' /\ UNCHANGED states
  ELSE /\ st \in states /\ states' = TakenOut(st) /\ UNCHANGED made

------------------------------------------------------------------------------
(* The connection's callbacks *)

\* queue::operator(): queue a response; write it if it is the only one.  on_read
\* then reads on, unless the queue is full.
Respond(s, req) ==
  LET queued == Append(items[s], req)
  IN /\ items' = [items EXCEPT ![s] = queued]
     /\ writes' = [writes EXCEPT ![s] = IF Len(queued) = 1 THEN @ + 1 ELSE @]
     /\ reads' = [reads EXCEPT ![s] = @ - (IF handling[s].busy THEN 0 ELSE 1)
                                        + (IF Full(queued) THEN 0 ELSE 1)]

\* on_read: a file, or any other response made at once.
OnReadFile(s) ==
  /\ MayRun(s) /\ reads[s] > 0 /\ s \notin broken
  /\ sock[s] # <<>> /\ ~Head(sock[s]).query
  /\ sock' = [sock EXCEPT ![s] = Tail(@)]
  /\ Respond(s, Head(sock[s]))
  /\ UNCHANGED <<asked, eof, got, handling, shut, refused, broken, stateVars>>

\* on_read: a query begins, with a thread_state.
OnReadQuery(s, st) ==
  /\ MayRun(s) /\ reads[s] > 0 /\ s \notin broken
  /\ sock[s] # <<>> /\ Head(sock[s]).query
  /\ sock' = [sock EXCEPT ![s] = Tail(@)]
  /\ reads' = [reads EXCEPT ![s] = @ - 1]
  /\ GetState(st)
  /\ handling' = [handling EXCEPT ![s] = [busy |-> TRUE, req |-> Head(sock[s]), state |-> st]]
  /\ UNCHANGED <<asked, eof, got, writes, items, shut, refused, broken>>

\* The query returns, or throws, which loses its thread_state.  Either way there
\* is a response.
QueryEnds(s, throws) ==
  /\ handling[s].busy
  /\ Respond(s, handling[s].req)
  /\ handling' = [handling EXCEPT ![s] = Nothing]
  /\ states' = IF throws THEN states ELSE states \cup {handling[s].state}
  /\ UNCHANGED <<clientVars, got, shut, refused, broken, made>>

\* on_read: end_of_stream, do_close.
OnReadEnd(s) ==
  /\ MayRun(s) /\ reads[s] > 0 /\ s \notin broken
  /\ sock[s] = <<>> /\ s \in eof
  /\ reads' = [reads EXCEPT ![s] = @ - 1]
  /\ shut' = shut \cup {s}
  /\ UNCHANGED <<clientVars, got, writes, items, handling, refused, broken, stateVars>>

\* on_read with an error, of the socket or of a request that does not parse or
\* is too long: no response, and no further read.
OnReadFails(s) ==
  /\ MayRun(s) /\ reads[s] > 0
  /\ s \in broken \/ sock[s] # <<>>
  /\ reads' = [reads EXCEPT ![s] = @ - 1]
  /\ refused' = IF s \in broken THEN refused ELSE refused \cup {s}
  /\ UNCHANGED <<clientVars, got, writes, items, handling, shut, broken, stateVars>>

\* on_write: the response is written.  If it closes the connection it stays at
\* the front of the queue, so that no other is ever written.
ClosesIfLast(s) == ~Head(items[s]).keep_alive /\ Len(items[s]) = 1
Closes(s) == ~Head(items[s]).keep_alive

WasFullAlways(s) == TRUE
WasFullAfter(s) == Full(Tail(items[s]))
WasFull(s) == Full(items[s])

OnWrite(s) ==
  LET sent == Head(items[s])
      rest == Tail(items[s])
  IN /\ MayRun(s) /\ writes[s] > 0 /\ s \notin broken
     /\ got' = [got EXCEPT ![s] = Append(@, sent)]
     /\ IF Closes(s)
          THEN /\ shut' = shut \cup {s}
               /\ writes' = [writes EXCEPT ![s] = @ - 1]
               /\ UNCHANGED <<reads, items, broken>>
          ELSE /\ items' = [items EXCEPT ![s] = rest]
               /\ writes' = [writes EXCEPT ![s] = IF rest = <<>> THEN @ - 1 ELSE @]
               /\ reads' = [reads EXCEPT ![s] = IF WasFull(s) THEN @ + 1 ELSE @]
               \* what is begun after the shutdown fails
               /\ broken' = IF rest # <<>> /\ s \in shut THEN broken \cup {s} ELSE broken
               /\ UNCHANGED shut
     /\ UNCHANGED <<clientVars, handling, refused, stateVars>>

\* on_write with an error: nothing more is written.
OnWriteFails(s) ==
  /\ MayRun(s) /\ writes[s] > 0 /\ s \in broken
  /\ writes' = [writes EXCEPT ![s] = @ - 1]
  /\ UNCHANGED <<clientVars, got, reads, items, handling, shut, refused, broken, stateVars>>

------------------------------------------------------------------------------
ServerStep(s) ==
  \/ OnReadFile(s) \/ OnReadEnd(s) \/ OnWrite(s) \/ OnWriteFails(s)
  \/ \E st \in 1..(made + 1) : OnReadQuery(s, st)
  \/ \E throws \in BOOLEAN : QueryEnds(s, throws)

ClientStep(s) ==
  \/ \E kind \in Sends[s] : ClientSends(s, kind[1], kind[2])
  \/ ClientCloses(s)
  \/ SocketFails(s)

Next == \E s \in Session : ClientStep(s) \/ ServerStep(s) \/ OnReadFails(s)

\* The server's threads run what is ready to run.
Spec == Init /\ [][Next]_vars /\ \A s \in Session : WF_vars(ServerStep(s))

------------------------------------------------------------------------------
\* do_read is called from on_read and from on_write (lines 377, 395), and a stream
\* allows one read and one write at a time: between them the two callbacks never
\* begin a read while one is outstanding, whichever of them ends first, and the queue
\* they pass requests through never grows past its limit (line 305).
OneReadOneWrite ==
  /\ HttpTypeOK
  /\ \A s \in Session : reads[s] <= 1 /\ writes[s] <= 1

\* Responses reach the client in the order of its requests, none left out, none
\* twice, and none after one that closes the connection.
InOrder(s) ==
  /\ \A i \in DOMAIN got[s] : got[s][i].id = i
  /\ \A i \in 1..(Len(got[s]) - 1) : got[s][i].keep_alive
ResponsesInOrder == \A s \in Session : InOrder(s)

\* No two queries ever use one thread_state, and a state in use is not in the
\* cache; queries that throw make room for new states, so that no more of them
\* are alive than there are threads.
StatesApart ==
  /\ \A s, t \in Busy : handling[s].state = handling[t].state => s = t
  /\ \A s \in Busy : handling[s].state \notin states
  /\ Cardinality(states) + Cardinality(Busy) <= NumThreads

------------------------------------------------------------------------------
(* What the callbacks keep true, so that the properties above hold.        *)

\* Requests of s that a query is busy with.
InHand(s) == IF handling[s].busy THEN 1 ELSE 0

\* A read is outstanding, or its request in hand, only while the queue has room
\* for one more response; a write only while the queue has one to write.
FlowOf(s) ==
  /\ reads[s] + InHand(s) <= IF Full(items[s]) THEN 0 ELSE 1
  /\ writes[s] <= IF items[s] = <<>> THEN 0 ELSE 1

\* The last response the client got closes the connection.
ClosedBy(s) == got[s] # <<>> /\ ~got[s][Len(got[s])].keep_alive

\* What was sent is numbered on through what the client has, the queue, the query
\* in hand and the socket.  A response that closes stays in the queue, and nothing
\* is written any more.
NumberedFrom(n, queue) == \A i \in DOMAIN queue : queue[i].id = n + i
NumberedOn(s) ==
  LET g == Len(got[s])
      q == g + Len(items[s])
      h == q + InHand(s)
  IN /\ NumberedFrom(g, items[s])
     /\ InHand(s) = 1 => handling[s].req.id = q + 1
     /\ NumberedFrom(h, sock[s])
     /\ asked[s] = h + Len(sock[s])
OrderOf(s) == IF ClosedBy(s) THEN writes[s] = 0 /\ items[s] # <<>> ELSE NumberedOn(s)

\* The thread_states in use are among those made.
StatesInv == IsFiniteSet(Busy) /\ \A s \in Busy : handling[s].state \in 1..made

HttpInv ==
  /\ HttpTypeOK /\ StatesInv /\ StatesApart
  /\ \A s \in Session : FlowOf(s) /\ InOrder(s) /\ OrderOf(s)

------------------------------------------------------------------------------
\* The connection no longer owes the client responses.
Excused(s) ==
  \/ s \in broken \/ s \in refused \/ s \in eof
  \/ \E i \in DOMAIN got[s] : ~got[s][i].keep_alive

\* Pipelining beyond the queue's limit stops the reads and takes them up again:
\* a connection that stays open answers everything asked.
EverythingAnswered ==
  \A s \in Session : []<>(Excused(s) \/ Len(got[s]) = asked[s])
==============================================================================
