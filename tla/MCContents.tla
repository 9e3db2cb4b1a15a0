------------------------------- MODULE MCContents -------------------------------
(***************************************************************************)
(* The way of a block's rows from nodeos to a client: the traces that pass *)
(* the filter (TrxFilter), rows as fill-pg's lines of text (SqlRows) and   *)
(* as fill-rocksdb's keys and values with what wasm-ql reads of them       *)
(* (RocksRows), the databases' queries read page by page (Paging), and the *)
(* server wasms (ServerWasms).  These share no state: a behavior is one of *)
(* one part, while the others have nothing to do.                          *)
(***************************************************************************)
EXTENDS MCTrxFilter, MCRocksRows, MCSqlRows, MCServers, Paging

VARIABLE part

contentsVars == <<vars, rocksVars, sqlVars, pagingVars, serverVars, part>>

NoRules == rules = <<>> /\ block = <<>> /\ nread = 0 /\ num_ordinals = 0 /\ written = <<>>
NoRows ==
  /\ config = [tables |-> <<>>, indexes |-> <<>>, queries |-> <<>>]
  /\ content = <<>> /\ index = {} /\ rows = {}
NoPages ==
  /\ backend = "rocksdb" /\ delta = TRUE /\ done = TRUE /\ got = <<>> /\ first = 0
  /\ table = [k \in Keys |-> [b \in BlockNums |-> "none"]]
  /\ ask = [first |-> 0, last |-> 0, snapshot |-> 0, max_results |-> 1]
NoRequest ==
  /\ history = {} /\ head = LastHead /\ begun = LastHead /\ served = TRUE
  /\ request = [kind |-> "get_actions", account |-> 1, limit |-> 1, first |-> <<>>]
  /\ next_key = <<>> /\ given = <<>>

ContentsInit ==
  \/ part = "filter" /\ Init /\ NoRows /\ SqlInit /\ NoPages /\ NoRequest
  \/ part = "rocksdb" /\ NoRules /\ RocksInit /\ SqlInit /\ NoPages /\ NoRequest
  \/ part = "postgresql" /\ NoRules /\ NoRows /\ SqlInit /\ NoPages /\ NoRequest
  \/ part = "pages" /\ NoRules /\ NoRows /\ SqlInit /\ PagingInit /\ NoRequest
  \/ part = "servers" /\ NoRules /\ NoRows /\ SqlInit /\ NoPages /\ ServersInit

ContentsNext ==
  /\ UNCHANGED part
  /\ \/ part = "filter" /\ Next /\ UNCHANGED <<rocksVars, sqlVars, pagingVars, serverVars>>
     \/ part = "rocksdb" /\ RocksNext /\ UNCHANGED <<vars, sqlVars, pagingVars, serverVars>>
     \/ part = "postgresql" /\ SqlNext /\ UNCHANGED <<vars, rocksVars, pagingVars, serverVars>>
     \/ part = "pages" /\ PagingNext /\ UNCHANGED <<vars, rocksVars, sqlVars, serverVars>>
     \/ part = "servers" /\ ServersNext /\ UNCHANGED <<vars, rocksVars, sqlVars, pagingVars>>

ContentsSpec == ContentsInit /\ [][ContentsNext]_contentsVars /\ WF_pagingVars(PagingNext)
==============================================================================
