----------------------------- MODULE MCHttpServer -----------------------------
(***************************************************************************)
(* Two connections for TLC: one whose client may pipeline past the queue's *)
(* limit, and one with a single query, for the threads they share.         *)
(***************************************************************************)
EXTENDS HttpServer

MCMaxRequests == [s \in Session |-> IF s = "long" THEN 3 ELSE 1]
MCSends == [s \in Session |-> IF s = "long" THEN BOOLEAN \X BOOLEAN ELSE {<<TRUE, TRUE>>}]
==============================================================================
