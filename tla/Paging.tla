-------------------------------- MODULE Paging --------------------------------
(***************************************************************************)
(* A client that reads a range of keys page by page, as src/test-client.js *)
(* does: it asks for the keys from `first` on, the server's wasm answers   *)
(* with what query_database found and with `more`, the key after the last  *)
(* row it was given, and the client asks again from there until an answer  *)
(* comes without `more`.  The snapshot is below the irreversible block, so *)
(* that the answers do not change between pages.                           *)
(***************************************************************************)
EXTENDS StateQuery, SequencesExt

CONSTANTS
  Backends,     \* a subset of {"pg", "rocksdb"}
  Snapshots     \* blocks the client may ask for

ASSUME PagingAssumption ==
  Backends \subseteq {"pg", "rocksdb"} /\ Snapshots \subseteq 0..MaxBlock

VARIABLES
  backend,      \* the database
  delta,        \* the table is a delta table
  table,        \* the table's rows
  ask,          \* what the client asks for
  first,        \* where its next page begins
  got,          \* the keys it was given, in order
  done          \* the last answer had no `more`

pagingVars == <<backend, delta, table, ask, first, got, done>>

\* A trace has one row.  No key with every bit set has one.
PagingInit ==
  /\ backend \in Backends /\ delta \in BOOLEAN
  /\ table \in Table
  /\ BlocksOf(table, MaxKey) = {}
  /\ ~delta => \A k \in Keys : \A b, c \in BlockNums :
       table[k][b] # "erased" /\ (table[k][b] = "row" /\ table[k][c] = "row" => b = c)
  /\ ask \in [first : Keys, last : Keys, snapshot : Snapshots, max_results : 1..(QueryMax + 1)]
  /\ first = ask.first /\ got = <<>> /\ done = FALSE

PageRows ==
  LET req == [ask EXCEPT !.first = first]
  IN CASE backend = "pg" /\ delta -> PgState(table, req)
       [] backend = "pg" /\ ~delta -> PgTraces(table, req)
       [] backend = "rocksdb" /\ delta -> RdbState(table, req)
       [] OTHER -> RdbTraces(table, req)

\* `more`: the last row's key, increased; it wraps.
SameKey(k) == k
NextKey(k) == IF k = MaxKey THEN 0 ELSE k + 1

\* The rows that go into the response.
Unfiltered(rows) == rows
PresentRows(rows) ==
  LET present[i \in 0..Len(rows)] ==
        IF i = 0 THEN <<>>
        ELSE IF rows[i].present THEN Append(present[i - 1], rows[i]) ELSE present[i - 1]
  IN present[Len(rows)]

Page ==
  LET rows == PageRows
  IN /\ ~done
     /\ got' = got \o [i \in DOMAIN PresentRows(rows) |-> PresentRows(rows)[i].key]
     /\ IF rows = <<>> THEN done' = TRUE /\ UNCHANGED first
        ELSE first' = NextKey(Last(rows).key) /\ UNCHANGED done
     /\ UNCHANGED <<backend, delta, table, ask>>

PagingNext == Page
PagingSpec == PagingInit /\ [][PagingNext]_pagingVars /\ WF_pagingVars(PagingNext)

------------------------------------------------------------------------------
\* The keys of the range whose newest row at the snapshot is there.
Wanted ==
  {k \in ask.first..ask.last :
     \E b \in BlockNums : /\ b <= ask.snapshot /\ table[k][b] = "row"
                       /\ \A c \in (b + 1)..ask.snapshot : table[k][c] = "none"}

InOrder == \A i \in 1..(Len(got) - 1) : got[i] < got[i + 1]

\* database.hpp:604, "Query records with keys in the range [first, last]", read to
\* the end as src/test-client.js does: every record of the snapshot once, in the
\* order of the keys, whatever the page size and however many keys have rows only
\* after the snapshot or erased ones.
EveryKeyOnce == done => ToSet(got) = Wanted /\ InOrder

\* With postgresql it is so.
PgEveryKeyOnce == backend = "pg" => EveryKeyOnce

\* What any number of pages has given are records of the snapshot, ascending: no
\* row newer than the snapshot, no erased one, and none twice at a page's border.
\* (Of rocksdb's action traces the first part is not true: RdbTraces.)
SnapshotKept == InOrder /\ (backend = "pg" \/ delta => ToSet(got) \subseteq Wanted)

\* Reading ends.
Ends == <>done

------------------------------------------------------------------------------
(* What the client's loop keeps true, so that the properties above hold.   *)

PagingTypeOK ==
  /\ backend \in Backends /\ delta \in BOOLEAN /\ done \in BOOLEAN
  /\ table \in Table /\ BlocksOf(table, MaxKey) = {}
  /\ ask \in [first : Keys, last : Keys, snapshot : Snapshots, max_results : 1..(QueryMax + 1)]
  /\ first \in Keys /\ got \in Seq(Keys)

\* The next page begins past every key given so far, and with postgresql no record before
\* it is left out.
PagingInv ==
  /\ PagingTypeOK
  /\ ask.first <= first /\ \A i \in DOMAIN got : got[i] < first
  /\ \A i, j \in DOMAIN got : i < j => got[i] < got[j]
  /\ backend = "pg" \/ delta => ToSet(got) \subseteq Wanted
  /\ backend = "pg" => \A k \in Wanted : k < first \/ done => k \in ToSet(got)
==============================================================================
