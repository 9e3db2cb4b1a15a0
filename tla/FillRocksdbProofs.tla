--------------------------- MODULE FillRocksdbProofs ---------------------------
(***************************************************************************)
(* RdbInv is inductive, for every block tree, table set and option:        *)
(* whatever batch is the last one to reach the disk, no index entry lacks  *)
(* its row, and unless the crash cut a fork switch in two the status names *)
(* a head that a restart finds, with a history that ends in it.            *)
(***************************************************************************)
EXTENDS FillRocksdb, NodeosProofs

------------------------------------------------------------------------------
(* Types *)

\* The lesser of two numbers.
LEMMA MinOfTwo ==
  ASSUME NEW m \in Nat, NEW n \in Nat
  PROVE  Min({m, n}) = IF m <= n THEN m ELSE n
<1>1. Min({m, n}) \in {m, n} /\ Min({m, n}) <= m /\ Min({m, n}) <= n
  BY MinInSet
<1> QED
  BY <1>1

\* Rows and their index entries have the types of rows and entries.
LEMMA RowsTyped ==
  ASSUME NEW b \in Block
  PROVE  RowsOf(b) \subseteq Row
<1>1. Content[b] \subseteq Table \X Key
  BY FillAssumption
<1>2. \A tk \in Content[b] : [table |-> tk[1], block |-> b, key |-> tk[2]] \in Row
  BY <1>1 DEF Row
<1> QED
  BY <1>1, <1>2 DEF RowsOf

LEMMA EntryTyped ==
  ASSUME NEW r \in Row
  PROVE  EntryOf(r) \in Entry /\ EntryOf(r).num = Num[r.block] /\ r.block \in Block
BY TreeAssumption DEF EntryOf, Entry, Row

\* What a process has in memory besides the database.
Memory(p) == <<p.head_id, p.irreversible, p.first, p.rows, p.received>>

LEMMA ProcessTyped ==
  ASSUME NEW p \in Process
  PROVE  /\ p.db \in Db /\ p.kept \in SUBSET (Db \X BOOLEAN)
         /\ p.passed \in SUBSET (Db \X BOOLEAN)
         /\ p.head_id \in MaybeBlock /\ p.irreversible \in Nat /\ p.first \in Nat
         /\ p.rows \in SUBSET Row /\ p.received \in SUBSET Block
         /\ N(p.head_id) \in Nat
BY NIsNat DEF Process

LEMMA DbTyped ==
  ASSUME NEW d \in Db
  PROVE  /\ d.content \in SUBSET Row /\ d.received \in SUBSET Block
         /\ d.index \in SUBSET Entry /\ d.status \in FillStatus
         /\ d.status.head_id \in MaybeBlock /\ d.status.first \in Nat
         /\ d.status.irreversible \in Nat /\ N(d.status.head_id) \in Nat
<1>1. d.status \in FillStatus
  BY DEF Db
<1>2. d.status.head_id \in MaybeBlock /\ d.status.first \in Nat /\ d.status.irreversible \in Nat
  BY <1>1 DEF FillStatus
<1> QED
  BY <1>1, <1>2, NIsNat DEF Db

------------------------------------------------------------------------------
(* Batches *)

\* A batch makes the database d what is read and one of the states a crash may leave.
LEMMA Written ==
  ASSUME NEW p \in Process, NEW d \in Db
  PROVE  /\ Write(p, d) \in Process /\ Write(p, d).db = d
         /\ Write(p, d).kept = p.kept \cup {<<d, p.switching>>}
         /\ Memory(Write(p, d)) = Memory(p) /\ Write(p, d).switching = p.switching
         /\ Write(p, d).passed = p.passed
<1> DEFINE ks == p.kept \cup {<<d, p.switching>>}
<1>1. ks \in SUBSET (Db \X BOOLEAN)
  <2>1. p.switching \in BOOLEAN /\ p.kept \in SUBSET (Db \X BOOLEAN)
    BY DEF Process
  <2>2. <<d, p.switching>> \in Db \X BOOLEAN
    BY <2>1, Zenon
  <2> QED
    BY <2>1, <2>2, Zenon
<1>2. Write(p, d) = [p EXCEPT !.db = d, !.kept = ks]
  BY Zenon DEF Write
<1> HIDE DEF ks
<1>3. Write(p, d) \in Process /\ Write(p, d).db = d /\ Write(p, d).kept = ks
  BY <1>1, <1>2 DEF Process
<1>4. Memory(Write(p, d)) = Memory(p) /\ Write(p, d).switching = p.switching
      /\ Write(p, d).passed = p.passed
  BY <1>2 DEF Process, Memory
<1> QED
  BY <1>3, <1>4, Zenon DEF ks

LEMMA Flushed ==
  ASSUME NEW p \in Process
  PROVE  /\ Flush(p) \in Process /\ Flush(p).db = p.db
         /\ Flush(p).kept = {<<p.db, FALSE>>}
         /\ Memory(Flush(p)) = Memory(p) /\ Flush(p).switching = p.switching
         /\ Flush(p).passed = p.passed \cup p.kept
<1> DEFINE ks == {<<p.db, FALSE>>}
           ps == p.passed \cup p.kept
<1>1. ks \in SUBSET (Db \X BOOLEAN)
  <2>1. p.db \in Db
    BY ProcessTyped, Zenon
  <2> DEFINE k == <<p.db, FALSE>>
  <2>2. k \in Db \X BOOLEAN
    BY <2>1
  <2> HIDE DEF k
  <2>3. {k} \in SUBSET (Db \X BOOLEAN)
    BY <2>2
  <2> QED
    BY <2>3 DEF k
<1>5. ps \in SUBSET (Db \X BOOLEAN)
  BY ProcessTyped
<1>2. Flush(p) = [p EXCEPT !.kept = ks, !.passed = ps]
  BY Zenon DEF Flush
<1> HIDE DEF ks, ps
<1>3. Flush(p) \in Process /\ Flush(p).db = p.db /\ Flush(p).kept = ks
      /\ Flush(p).passed = ps
  BY <1>1, <1>2, <1>5 DEF Process
<1>4. Memory(Flush(p)) = Memory(p) /\ Flush(p).switching = p.switching
  BY <1>2 DEF Process, Memory
<1> QED
  BY <1>3, <1>4, Zenon DEF ks, ps

LEMMA EmptiedIs ==
  ASSUME NEW p \in Process
  PROVE  /\ Emptied(p) \in Process /\ Emptied(p).db = p.db /\ Emptied(p).kept = p.kept
         /\ Memory(Emptied(p)) = <<p.head_id, p.irreversible, p.first, {}, {}>>
         /\ Emptied(p).switching = p.switching /\ Emptied(p).passed = p.passed
BY DEF Emptied, Process, Memory

\* The status to be written is one.
LEMMA StatusTyped ==
  ASSUME NEW p \in Process
  PROVE  /\ Status(p) \in FillStatus
         /\ Status(p).head_id = p.head_id /\ Status(p).first = p.first
         /\ Status(p).irreversible <= p.irreversible
<1>1. p.irreversible \in Nat /\ N(p.head_id) \in Nat /\ p.head_id \in MaybeBlock /\ p.first \in Nat
  BY ProcessTyped
<1>2. LET i == Min({p.irreversible, N(p.head_id)}) IN i \in Nat /\ i <= p.irreversible
  BY <1>1, MinOfTwo
<1> QED
  BY <1>1, <1>2 DEF Status, FillStatus

LEMMA PutTyped ==
  ASSUME NEW d \in Db, NEW rows \in SUBSET Row, NEW blocks \in SUBSET Block
  PROVE  LET e == Put(d, rows, blocks)
         IN /\ e \in Db /\ e.index = d.index /\ e.status = d.status
            /\ e.content = {r \in d.content : EntryOf(r) \notin {EntryOf(q) : q \in rows}} \cup rows
            /\ e.received = {b \in d.received : Num[b] \notin {Num[c] : c \in blocks}} \cup blocks
BY DEF Put, Db

LEMMA IndexedTyped ==
  ASSUME NEW d \in Db, NEW p \in Process, NEW status \in FillStatus
  PROVE  LET e == [Indexed(d, p) EXCEPT !.status = status]
         IN /\ e \in Db /\ e.content = d.content /\ e.received = d.received
            /\ e.index = d.index \cup {EntryOf(r) : r \in p.rows} /\ e.status = status
<1>1. {EntryOf(r) : r \in p.rows} \subseteq Entry
  BY EntryTyped, ProcessTyped
<1> QED
  BY <1>1 DEF Indexed, Db

\* The database after end_write's first batch and after its second.
ContentOf(p) == Put(p.db, p.rows, p.received)
IndexedOf(p, status) == [Indexed(ContentOf(p), p) EXCEPT !.status = status]

LEMMA ContentFirstIs ==
  ASSUME NEW p \in Process, NEW status \in FillStatus
  PROVE  LET q == ContentFirst(p, status)
         IN /\ q \in Process /\ q.db = IndexedOf(p, status)
            /\ q.kept = p.kept \cup {<<ContentOf(p), p.switching>>}
                               \cup {<<IndexedOf(p, status), p.switching>>}
            /\ Memory(q) = Memory(p) /\ q.switching = p.switching /\ q.passed = p.passed
            /\ ContentOf(p) \in Db /\ IndexedOf(p, status) \in Db
<1> DEFINE c == ContentOf(p)
           d == IndexedOf(p, status)
<1>1. c \in Db
  BY ProcessTyped, PutTyped DEF ContentOf
<1>2. d \in Db
  BY <1>1, IndexedTyped DEF IndexedOf
<1>3. ContentFirst(p, status) = Write(Write(p, c), d)
  BY DEF ContentFirst, ContentOf, IndexedOf
<1> HIDE DEF c, d
<1>4. PICK w : w = Write(p, c)
  OBVIOUS
<1>5. w \in Process /\ w.kept = p.kept \cup {<<c, p.switching>>}
      /\ Memory(w) = Memory(p) /\ w.switching = p.switching /\ w.passed = p.passed
  BY <1>1, <1>4, Written, Zenon
<1>6. PICK q : q = Write(w, d)
  OBVIOUS
<1>7. q \in Process /\ q.db = d /\ q.kept = w.kept \cup {<<d, w.switching>>}
      /\ Memory(q) = Memory(w) /\ q.switching = w.switching /\ q.passed = w.passed
  BY <1>2, <1>5, <1>6, Written, Zenon
<1>8. ContentFirst(p, status) = q
  BY <1>3, <1>4, <1>6, Zenon
<1>9. q.kept = p.kept \cup {<<c, p.switching>>} \cup {<<d, p.switching>>}
  BY <1>5, <1>7, Zenon
<1>10. Memory(q) = Memory(p) /\ q.switching = p.switching /\ q.passed = p.passed
  BY <1>5, <1>7, Zenon
<1> QED
  BY <1>1, <1>2, <1>7, <1>8, <1>9, <1>10, Zenon DEF c, d

LEMMA EndWriteIs ==
  ASSUME NEW p \in Process
  PROVE  LET q == EndWrite[p]
         IN /\ q \in Process /\ q.db = IndexedOf(p, Status(p))
            /\ q.kept = p.kept \cup {<<ContentOf(p), p.switching>>}
                               \cup {<<IndexedOf(p, Status(p)), p.switching>>}
            /\ Memory(q) = <<p.head_id, p.irreversible, p.first, {}, {}>>
            /\ q.switching = FALSE /\ q.passed = p.passed
            /\ ContentOf(p) \in Db /\ IndexedOf(p, Status(p)) \in Db
<1>1. PICK w : w = ContentFirst(p, Status(p))
  OBVIOUS
<1>2. /\ w \in Process /\ w.db = IndexedOf(p, Status(p))
      /\ w.kept = p.kept \cup {<<ContentOf(p), p.switching>>}
                         \cup {<<IndexedOf(p, Status(p)), p.switching>>}
      /\ Memory(w) = Memory(p) /\ w.passed = p.passed
      /\ ContentOf(p) \in Db /\ IndexedOf(p, Status(p)) \in Db
  BY <1>1, ContentFirstIs, StatusTyped, Zenon
<1>3. PICK e : e = Emptied(w)
  OBVIOUS
<1>4. /\ e \in Process /\ e.db = w.db /\ e.kept = w.kept /\ e.passed = w.passed
      /\ Memory(e) = <<p.head_id, p.irreversible, p.first, {}, {}>>
  <2>1. /\ e \in Process /\ e.db = w.db /\ e.kept = w.kept /\ e.passed = w.passed
        /\ Memory(e) = <<w.head_id, w.irreversible, w.first, {}, {}>>
    BY <1>2, <1>3, EmptiedIs, Zenon
  <2>2. w.head_id = p.head_id /\ w.irreversible = p.irreversible /\ w.first = p.first
    BY <1>2 DEF Memory
  <2> QED
    BY <2>1, <2>2, Zenon
<1>5. PICK q : q = [e EXCEPT !.switching = FALSE]
  OBVIOUS
<1>6. q \in Process /\ q.db = e.db /\ q.kept = e.kept /\ Memory(q) = Memory(e)
      /\ q.switching = FALSE /\ q.passed = e.passed
  BY <1>4, <1>5 DEF Process, Memory
<1>7. EndWrite[p] = q
  BY <1>1, <1>3, <1>5, Zenon DEF EndWrite
<1> QED
  BY <1>2, <1>4, <1>6, <1>7, Zenon

LEMMA EndPartIs ==
  ASSUME NEW p \in Process
  PROVE  LET q == EndPart[p]
         IN /\ q \in Process /\ q.db = IndexedOf(p, p.db.status)
            /\ q.kept = p.kept \cup {<<ContentOf(p), p.switching>>}
                               \cup {<<IndexedOf(p, p.db.status), p.switching>>}
            /\ Memory(q) = <<p.head_id, p.irreversible, p.first, {}, {}>>
            /\ q.switching = p.switching /\ q.passed = p.passed
            /\ ContentOf(p) \in Db /\ IndexedOf(p, p.db.status) \in Db
<1>1. PICK w : w = ContentFirst(p, p.db.status)
  OBVIOUS
<1>2. p.db.status \in FillStatus
  BY ProcessTyped, DbTyped
<1>3. /\ w \in Process /\ w.db = IndexedOf(p, p.db.status)
      /\ w.kept = p.kept \cup {<<ContentOf(p), p.switching>>}
                         \cup {<<IndexedOf(p, p.db.status), p.switching>>}
      /\ Memory(w) = Memory(p) /\ w.switching = p.switching /\ w.passed = p.passed
      /\ ContentOf(p) \in Db /\ IndexedOf(p, p.db.status) \in Db
  BY <1>1, <1>2, ContentFirstIs, Zenon
<1>4. w.head_id = p.head_id /\ w.irreversible = p.irreversible /\ w.first = p.first
  BY <1>3 DEF Memory
<1>5. EndPart[p] = Emptied(w)
  BY <1>1, Zenon DEF EndPart
<1> QED
  BY <1>3, <1>4, <1>5, EmptiedIs, Zenon

\* What end_write's two databases have.
LEMMA BatchesHave ==
  ASSUME NEW p \in Process, NEW status \in FillStatus
  PROVE  LET c == ContentOf(p)
             d == IndexedOf(p, status)
         IN /\ c.index = p.db.index /\ c.status = p.db.status
            /\ c.content = {r \in p.db.content : EntryOf(r) \notin {EntryOf(q) : q \in p.rows}}
                             \cup p.rows
            /\ c.received = {b \in p.db.received : Num[b] \notin {Num[a] : a \in p.received}}
                              \cup p.received
            /\ d.content = c.content /\ d.received = c.received /\ d.status = status
            /\ d.index = p.db.index \cup {EntryOf(r) : r \in p.rows}
<1>1. PICK c : c = ContentOf(p)
  OBVIOUS
<1>2. /\ c \in Db /\ c.index = p.db.index /\ c.status = p.db.status
      /\ c.content = {r \in p.db.content : EntryOf(r) \notin {EntryOf(q) : q \in p.rows}}
                       \cup p.rows
      /\ c.received = {b \in p.db.received : Num[b] \notin {Num[a] : a \in p.received}}
                        \cup p.received
  <2>1. p.db \in Db /\ p.rows \in SUBSET Row /\ p.received \in SUBSET Block
    BY ProcessTyped
  <2>2. c = Put(p.db, p.rows, p.received)
    BY <1>1 DEF ContentOf
  <2>3. PICK d, rows, blocks : d = p.db /\ rows = p.rows /\ blocks = p.received
    OBVIOUS
  <2>5. d \in Db /\ rows \in SUBSET Row /\ blocks \in SUBSET Block /\ c = Put(d, rows, blocks)
    BY <2>1, <2>2, <2>3, Zenon
  <2>4. /\ c \in Db /\ c.index = d.index /\ c.status = d.status
        /\ c.content = {r \in d.content : EntryOf(r) \notin {EntryOf(q) : q \in rows}} \cup rows
        /\ c.received = {b \in d.received : Num[b] \notin {Num[a] : a \in blocks}} \cup blocks
    BY <2>5 DEF Put, Db
  <2> QED
    BY <2>3, <2>4, Zenon
<1>3. PICK d : d = IndexedOf(p, status)
  OBVIOUS
<1>4. /\ d.content = c.content /\ d.received = c.received /\ d.status = status
      /\ d.index = c.index \cup {EntryOf(r) : r \in p.rows}
  <2>1. d = [Indexed(c, p) EXCEPT !.status = status]
    BY <1>1, <1>3 DEF IndexedOf
  <2> QED
    BY <1>2, <2>1, IndexedTyped
<1>5. d.index = p.db.index \cup {EntryOf(r) : r \in p.rows}
  BY <1>2, <1>4, Zenon
<1> QED
  BY <1>1, <1>2, <1>3, <1>4, <1>5, Zenon

\* Without rows or blocks in the batch they have what the database had.
LEMMA EmptyBatchHas ==
  ASSUME NEW p \in Process, NEW status \in FillStatus, p.received = {}
  PROVE  LET c == ContentOf(p)
             d == IndexedOf(p, status)
         IN /\ c.status = p.db.status /\ d.status = status
            /\ c.received = p.db.received /\ d.received = p.db.received
            /\ p.rows = {} => d.content = p.db.content
<1>1. PICK c, d : c = ContentOf(p) /\ d = IndexedOf(p, status)
  OBVIOUS
<1>2. /\ c.status = p.db.status
      /\ c.content = {r \in p.db.content : EntryOf(r) \notin {EntryOf(q) : q \in p.rows}}
                       \cup p.rows
      /\ c.received = {b \in p.db.received : Num[b] \notin {Num[a] : a \in p.received}}
                        \cup p.received
      /\ d.content = c.content /\ d.received = c.received /\ d.status = status
  BY <1>1, BatchesHave, Zenon
<1>3. c.received = p.db.received /\ (p.rows = {} => d.content = p.db.content)
  BY <1>2
<1> QED
  BY <1>1, <1>2, <1>3, Zenon

LEMMA CutHas ==
  ASSUME NEW d \in Db, NEW n \in Nat
  PROVE  LET u == Unindexed(d, n)
             c == Cut(u, n)
         IN /\ u \in Db /\ u.content = d.content /\ u.received = d.received /\ u.status = d.status
            /\ u.index = d.index \ {EntryOf(r) : r \in {q \in d.content : Num[q.block] >= n}}
            /\ c \in Db /\ c.index = u.index /\ c.status = d.status
            /\ c.content = {r \in d.content : ~(Num[r.block] >= n)}
            /\ c.received = {b \in d.received : ~(Num[b] >= n)}
<1>1. PICK u : u = Unindexed(d, n)
  OBVIOUS
<1>2. /\ u \in Db /\ u.content = d.content /\ u.received = d.received /\ u.status = d.status
      /\ u.index = d.index \ {EntryOf(r) : r \in {q \in d.content : Num[q.block] >= n}}
  BY <1>1 DEF Unindexed, From, Db
<1>3. PICK c : c = Cut(u, n)
  OBVIOUS
<1>4. /\ c \in Db /\ c.index = u.index /\ c.status = u.status
      /\ c.content = {r \in u.content : ~(Num[r.block] >= n)}
      /\ c.received = {b \in u.received : ~(Num[b] >= n)}
  BY <1>2, <1>3 DEF Cut, From, Db
<1> QED
  BY <1>1, <1>2, <1>3, <1>4, Zenon

LEMMA TruncateIs ==
  ASSUME NEW p \in Process, NEW n \in Nat
  PROVE  LET q == Truncate(n)[p]
             h == At(p.db.received, n - 1)
             u == Unindexed(p.db, n)
             c == Cut(u, n)
         IN /\ q \in Process /\ q.db = c
            /\ q.kept = {<<p.db, FALSE>>} \cup {<<u, p.switching>>} \cup {<<c, p.switching>>}
            /\ q.head_id = h /\ h \in MaybeBlock
            /\ q.first = IF p.first <= N(h) THEN p.first ELSE N(h)
            /\ q.irreversible = p.irreversible
            /\ q.rows = p.rows /\ q.received = p.received /\ q.switching = p.switching
            /\ q.passed = p.passed \cup p.kept
<1>1. PICK u, c, h : u = Unindexed(p.db, n) /\ c = Cut(u, n) /\ h = At(p.db.received, n - 1)
  OBVIOUS
<1>2. p.db \in Db /\ p.first \in Nat /\ p.db.received \in SUBSET Block
  BY ProcessTyped, DbTyped
<1>3. u \in Db /\ c \in Db
  BY <1>1, <1>2, CutHas, Zenon
<1>4. h \in MaybeBlock /\ N(h) \in Nat
  BY <1>1, <1>2, AtTyped, NIsNat
<1>5. PICK f : f = Flush(p)
  OBVIOUS
<1>6. f \in Process /\ f.kept = {<<p.db, FALSE>>} /\ Memory(f) = Memory(p)
      /\ f.switching = p.switching /\ f.passed = p.passed \cup p.kept
  BY <1>5, Flushed, Zenon
<1>7. PICK v : v = Write(f, u)
  OBVIOUS
<1>8. v \in Process /\ v.kept = f.kept \cup {<<u, f.switching>>} /\ Memory(v) = Memory(f)
      /\ v.switching = f.switching /\ v.passed = f.passed
  BY <1>3, <1>6, <1>7, Written, Zenon
<1>9. PICK w : w = Write(v, c)
  OBVIOUS
<1>10. w \in Process /\ w.db = c /\ w.kept = v.kept \cup {<<c, v.switching>>}
       /\ Memory(w) = Memory(v) /\ w.switching = v.switching
       /\ w.passed = v.passed
  BY <1>3, <1>8, <1>9, Written, Zenon
<1>11. PICK q : q = Truncate(n)[p]
  OBVIOUS
<1>12. q = [w EXCEPT !.head_id = h, !.first = Min({w.first, N(h)})]
  BY <1>1, <1>5, <1>7, <1>9, <1>11 DEF Truncate
<1>13. /\ w.first = p.first /\ w.irreversible = p.irreversible /\ w.rows = p.rows
       /\ w.received = p.received
  BY <1>6, <1>8, <1>10 DEF Memory
<1>14. PICK m : m = Min({w.first, N(h)})
  OBVIOUS
<1>15. m = (IF p.first <= N(h) THEN p.first ELSE N(h)) /\ m \in Nat
  BY <1>2, <1>4, <1>13, <1>14, MinOfTwo
<1>16. q = [w EXCEPT !.head_id = h, !.first = m]
  BY <1>12, <1>14, Zenon
<1>17. /\ q \in Process /\ q.db = c /\ q.kept = w.kept /\ q.head_id = h /\ q.first = m
       /\ q.irreversible = w.irreversible /\ q.rows = w.rows /\ q.received = w.received
       /\ q.switching = w.switching /\ q.passed = w.passed
  BY <1>4, <1>10, <1>15, <1>16 DEF Process
<1>18. /\ q.switching = p.switching /\ q.passed = p.passed \cup p.kept
       /\ q.kept = {<<p.db, FALSE>>} \cup {<<u, p.switching>>} \cup {<<c, p.switching>>}
  BY <1>6, <1>8, <1>10, <1>17, Zenon
<1> QED
  BY <1>1, <1>4, <1>11, <1>13, <1>15, <1>17, <1>18, Zenon

\* Until where trim goes.
LEMMA EndTrimIs ==
  ASSUME NEW p \in Process
  PROVE  EndTrim(p) \in Nat /\ EndTrim(p) <= N(p.head_id)
<1>1. p.irreversible \in Nat /\ N(p.head_id) \in Nat
  BY ProcessTyped
<1> QED
  BY <1>1, MinOfTwo DEF EndTrim

LEMMA TrimIs ==
  ASSUME NEW p \in Process, p.first < EndTrim(p)
  PROVE  LET q == Trim[p]
         IN /\ q \in Process
            /\ q.db.content = p.db.content \ Trimmed(p)
            /\ q.db.index = p.db.index \ {EntryOf(r) : r \in Trimmed(p)}
            /\ q.db.received = {b \in p.db.received : Num[b] \notin p.first..(EndTrim(p) - 1)}
            /\ q.db.status \in FillStatus
            /\ q.db.status.head_id = p.head_id /\ q.db.status.first = EndTrim(p)
            /\ q.db.status.irreversible <= p.irreversible
            /\ q.kept = {<<p.db, FALSE>>} \cup {<<q.db, p.switching>>}
            /\ Memory(q) = <<p.head_id, p.irreversible, EndTrim(p), p.rows, p.received>>
            /\ q.switching = p.switching /\ q.passed = p.passed \cup p.kept
<1>1. p.first \in Nat /\ EndTrim(p) \in Nat /\ p.db \in Db
  BY ProcessTyped, EndTrimIs
<1>2. PICK e : e = EndTrim(p)
  OBVIOUS
<1>3. PICK r : r = [p EXCEPT !.first = e]
  OBVIOUS
<1>4. /\ r \in Process /\ r.db = p.db /\ Memory(r) = <<p.head_id, p.irreversible, e, p.rows, p.received>>
      /\ r.first = e /\ r.head_id = p.head_id /\ r.switching = p.switching
      /\ r.passed = p.passed /\ r.kept = p.kept
  BY <1>1, <1>2, <1>3 DEF Process, Memory
<1>5. /\ Status(r) \in FillStatus /\ Status(r).head_id = p.head_id /\ Status(r).first = e
      /\ Status(r).irreversible <= p.irreversible
  BY <1>4, StatusTyped DEF Memory
<1>6. PICK d : d = [p.db EXCEPT !.content = @ \ Trimmed(p),
                                !.index = @ \ {EntryOf(x) : x \in Trimmed(p)},
                                !.received = {b \in @ : Num[b] \notin p.first..(EndTrim(p) - 1)},
                                !.status = Status(r)]
  OBVIOUS
<1>7. /\ d \in Db /\ d.content = p.db.content \ Trimmed(p)
      /\ d.index = p.db.index \ {EntryOf(x) : x \in Trimmed(p)}
      /\ d.received = {b \in p.db.received : Num[b] \notin p.first..(EndTrim(p) - 1)}
      /\ d.status = Status(r)
  <2>1. PICK g, st, a, z : g = Trimmed(p) /\ st = Status(r) /\ a = p.db /\ z = p.first..(EndTrim(p) - 1)
    OBVIOUS
  <2>2. a \in Db /\ st \in FillStatus
    BY <1>1, <1>5, <2>1
  <2>3. d = [a EXCEPT !.content = @ \ g, !.index = @ \ {EntryOf(x) : x \in g},
                      !.received = {b \in @ : Num[b] \notin z}, !.status = st]
    BY <1>6, <2>1, Zenon
  <2>4. /\ d \in Db /\ d.content = a.content \ g
        /\ d.index = a.index \ {EntryOf(x) : x \in g}
        /\ d.received = {b \in a.received : Num[b] \notin z}
        /\ d.status = st
    BY <2>2, <2>3 DEF Db
  <2> QED
    BY <2>1, <2>4, Zenon
<1>8. PICK f : f = Flush(r)
  OBVIOUS
<1>9. f \in Process /\ f.kept = {<<p.db, FALSE>>} /\ Memory(f) = Memory(r)
      /\ f.switching = p.switching /\ f.passed = p.passed \cup p.kept
  BY <1>4, <1>8, Flushed, Zenon
<1>10. PICK q : q = Write(f, d)
  OBVIOUS
<1>11. q \in Process /\ q.db = d /\ q.kept = f.kept \cup {<<d, f.switching>>}
       /\ Memory(q) = Memory(f) /\ q.switching = f.switching
       /\ q.passed = f.passed
  BY <1>7, <1>9, <1>10, Written, Zenon
<1>12. ~(p.first >= EndTrim(p))
  BY <1>1
<1>13. Trim[p] = q
  BY <1>2, <1>3, <1>6, <1>8, <1>10, <1>12 DEF Trim, FirstAfterTrim
<1>14. q.kept = {<<p.db, FALSE>>} \cup {<<q.db, p.switching>>}
  BY <1>9, <1>11, Zenon
<1> QED
  BY <1>2, <1>4, <1>5, <1>7, <1>9, <1>11, <1>13, <1>14, Zenon

------------------------------------------------------------------------------
(* No index entry lacks its row *)

\* DiskInv for a process.
RowsThere(p) == HasRows(p.db) /\ \A k \in p.kept \cup p.passed : HasRows(k[1])

\* A state of the disk that two batches add is one of theirs.
LEMMA KeptCases ==
  ASSUME NEW K, NEW c, NEW d, NEW s, NEW k \in K \cup {<<c, s>>} \cup {<<d, s>>}
  PROVE  k \in K \/ (k[1] = c /\ k[2] = s) \/ (k[1] = d /\ k[2] = s)
OBVIOUS

LEMMA KeptOne ==
  ASSUME NEW d, NEW s, NEW k \in {<<d, s>>}
  PROVE  k[1] = d /\ k[2] = s
OBVIOUS

LEMMA KeptRows ==
  ASSUME NEW K, NEW c, NEW d, NEW s, \A k \in K : HasRows(k[1]), HasRows(c), HasRows(d)
  PROVE  \A k \in K \cup {<<c, s>>} \cup {<<d, s>>} : HasRows(k[1])
<1> SUFFICES ASSUME NEW k \in K \cup {<<c, s>>} \cup {<<d, s>>} PROVE HasRows(k[1])
  OBVIOUS
<1>1. k \in K \/ (k[1] = c /\ k[2] = s) \/ (k[1] = d /\ k[2] = s)
  BY KeptCases
<1> QED
  BY <1>1, Zenon

\* end_write writes rows before the index entries that point to them.
LEMMA BatchesHaveRows ==
  ASSUME NEW p \in Process, NEW status \in FillStatus, HasRows(p.db)
  PROVE  HasRows(ContentOf(p)) /\ HasRows(IndexedOf(p, status))
<1>1. PICK c, d : c = ContentOf(p) /\ d = IndexedOf(p, status)
  OBVIOUS
<1>2. /\ c.index = p.db.index
      /\ c.content = {r \in p.db.content : EntryOf(r) \notin {EntryOf(q) : q \in p.rows}}
                       \cup p.rows
      /\ d.content = c.content /\ d.index = p.db.index \cup {EntryOf(r) : r \in p.rows}
  BY <1>1, BatchesHave, Zenon
<1>3. ASSUME NEW e \in p.db.index \cup {EntryOf(r) : r \in p.rows}
      PROVE  \E r \in c.content : e = EntryOf(r)
  <2>1. CASE e \in {EntryOf(r) : r \in p.rows}
    BY <1>2, <2>1, Zenon
  <2>2. CASE e \notin {EntryOf(r) : r \in p.rows}
    <3>1. PICK r \in p.db.content : e = EntryOf(r)
      BY <1>3, <2>2, Zenon DEF HasRows
    <3>2. r \in c.content
      BY <1>2, <2>2, <3>1, Zenon
    <3> QED
      BY <3>1, <3>2, Zenon
  <2> QED
    BY <2>1, <2>2, Zenon
<1>4. HasRows(c) /\ HasRows(d)
  BY <1>2, <1>3, Zenon DEF HasRows
<1> QED
  BY <1>1, <1>4, Zenon

LEMMA EndWriteRows ==
  ASSUME NEW p \in Process, RowsThere(p)
  PROVE  RowsThere(EndWrite[p])
<1>1. PICK c, d, q : c = ContentOf(p) /\ d = IndexedOf(p, Status(p)) /\ q = EndWrite[p]
  OBVIOUS
<1>2. HasRows(c) /\ HasRows(d)
  BY <1>1, BatchesHaveRows, StatusTyped, Zenon DEF RowsThere
<1>3. q.db = d /\ q.kept = p.kept \cup {<<c, p.switching>>} \cup {<<d, p.switching>>}
      /\ q.passed = p.passed
  BY <1>1, EndWriteIs, Zenon
<1>4. \A k \in q.kept : HasRows(k[1])
  BY <1>2, <1>3, KeptRows DEF RowsThere
<1>5. \A k \in q.passed : HasRows(k[1])
  BY <1>3 DEF RowsThere
<1>6. RowsThere(q)
  BY <1>2, <1>3, <1>4, <1>5 DEF RowsThere
<1> QED
  BY <1>1, <1>6, Zenon

LEMMA EndPartRows ==
  ASSUME NEW p \in Process, RowsThere(p)
  PROVE  RowsThere(EndPart[p])
<1>1. PICK c, d, q : c = ContentOf(p) /\ d = IndexedOf(p, p.db.status) /\ q = EndPart[p]
  OBVIOUS
<1>2. HasRows(c) /\ HasRows(d)
  BY <1>1, BatchesHaveRows, ProcessTyped, DbTyped, Zenon DEF RowsThere
<1>3. q.db = d /\ q.kept = p.kept \cup {<<c, p.switching>>} \cup {<<d, p.switching>>}
      /\ q.passed = p.passed
  BY <1>1, EndPartIs, Zenon
<1>4. \A k \in q.kept : HasRows(k[1])
  BY <1>2, <1>3, KeptRows DEF RowsThere
<1>5. \A k \in q.passed : HasRows(k[1])
  BY <1>3 DEF RowsThere
<1>6. RowsThere(q)
  BY <1>2, <1>3, <1>4, <1>5 DEF RowsThere
<1> QED
  BY <1>1, <1>6, Zenon

\* truncate erases index entries before the rows they point to.
LEMMA TruncateRows ==
  ASSUME NEW p \in Process, NEW n \in Nat, RowsThere(p)
  PROVE  RowsThere(Truncate(n)[p])
<1>1. PICK u, c, q : u = Unindexed(p.db, n) /\ c = Cut(u, n) /\ q = Truncate(n)[p]
  OBVIOUS
<1>2. /\ u.content = p.db.content /\ c.index = u.index
      /\ u.index = p.db.index \ {EntryOf(r) : r \in {x \in p.db.content : Num[x.block] >= n}}
      /\ c.content = {r \in p.db.content : ~(Num[r.block] >= n)}
  <2>1. p.db \in Db
    BY ProcessTyped
  <2>2. PICK d : d = p.db
    OBVIOUS
  <2> HIDE DEF Cut, Unindexed
  <2>3. /\ u.content = d.content /\ c.index = u.index
        /\ u.index = d.index \ {EntryOf(r) : r \in {x \in d.content : Num[x.block] >= n}}
        /\ c.content = {r \in d.content : ~(Num[r.block] >= n)}
    BY <1>1, <2>1, <2>2, CutHas
  <2> QED
    BY <2>2, <2>3, Zenon
<1>3. ASSUME NEW e \in u.index PROVE \E r \in c.content : r \in u.content /\ e = EntryOf(r)
  <2>1. PICK r \in p.db.content : e = EntryOf(r)
    BY <1>2, <1>3, Zenon DEF RowsThere, HasRows
  <2>2. ~(Num[r.block] >= n)
    BY <1>2, <1>3, <2>1, Zenon
  <2> QED
    BY <1>2, <2>1, <2>2, Zenon
<1>4. HasRows(u) /\ HasRows(c)
  BY <1>2, <1>3, Zenon DEF HasRows
<1>5. /\ q.db = c
      /\ q.kept = {<<p.db, FALSE>>} \cup {<<u, p.switching>>} \cup {<<c, p.switching>>}
  BY <1>1, TruncateIs, Zenon
<1>6. \A k \in {<<p.db, FALSE>>} : HasRows(k[1])
  BY KeptOne DEF RowsThere
<1>7. \A k \in q.kept : HasRows(k[1])
  <2>1. PICK K, s : K = {<<p.db, FALSE>>} /\ s = p.switching
    OBVIOUS
  <2>2. \A k \in K : HasRows(k[1])
    BY <1>6, <2>1, Zenon
  <2>3. \A k \in K \cup {<<u, s>>} \cup {<<c, s>>} : HasRows(k[1])
    BY <1>4, <2>2, KeptRows
  <2> QED
    BY <1>5, <2>1, <2>3, Zenon
<1>8. \A k \in q.passed : HasRows(k[1])
  BY <1>1, TruncateIs DEF RowsThere
<1>9. RowsThere(q)
  BY <1>4, <1>5, <1>7, <1>8 DEF RowsThere
<1> QED
  BY <1>1, <1>9, Zenon

\* trim does both at once.
LEMMA TrimRows ==
  ASSUME NEW p \in Process, RowsThere(p)
  PROVE  Trim[p] \in Process /\ RowsThere(Trim[p])
<1>1. p.first \in Nat /\ EndTrim(p) \in Nat
  BY ProcessTyped, EndTrimIs
<1>2. CASE p.first >= EndTrim(p)
  BY <1>2 DEF Trim
<1>3. CASE p.first < EndTrim(p)
  <2>1. PICK q, g : q = Trim[p] /\ g = Trimmed(p)
    OBVIOUS
  <2>2. /\ q \in Process
        /\ q.db.content = p.db.content \ g
        /\ q.db.index = p.db.index \ {EntryOf(r) : r \in g}
        /\ q.kept = {<<p.db, FALSE>>} \cup {<<q.db, p.switching>>}
        /\ q.passed = p.passed \cup p.kept
    BY <1>3, <2>1, TrimIs, Zenon
  <2>3. HasRows(q.db)
    BY <2>2 DEF RowsThere, HasRows
  <2>4. \A k \in q.kept : k[1] = p.db \/ k[1] = q.db
    <3>1. ASSUME NEW k \in {<<p.db, FALSE>>} PROVE k[1] = p.db
      BY KeptOne
    <3>2. ASSUME NEW k \in {<<q.db, p.switching>>} PROVE k[1] = q.db
      BY KeptOne
    <3> QED
      BY <2>2, <3>1, <3>2, Zenon
  <2>5. RowsThere(q)
    BY <2>2, <2>3, <2>4 DEF RowsThere
  <2> QED
    BY <2>1, <2>2, <2>5, Zenon
<1> QED
  BY <1>1, <1>2, <1>3

\* A process that is opened, a session that ends, and a flush.
LEMMA OpenedIs ==
  ASSUME NEW d \in Db
  PROVE  /\ Opened(d) \in Process /\ Opened(d).db = d /\ Opened(d).kept = {<<d, FALSE>>}
         /\ Opened(d).passed = {} /\ Memory(Opened(d)) = <<NoBlock, 0, 0, {}, {}>>
<1> DEFINE ks == {<<d, FALSE>>}
<1>1. ks \in SUBSET (Db \X BOOLEAN)
  <2> DEFINE k == <<d, FALSE>>
  <2>1. k \in Db \X BOOLEAN
    OBVIOUS
  <2> HIDE DEF k
  <2>2. {k} \in SUBSET (Db \X BOOLEAN)
    BY <2>1
  <2> QED
    BY <2>2 DEF k
<1>2. Opened(d) = [db |-> d, kept |-> ks, passed |-> {}, switching |-> FALSE,
                   head_id |-> NoBlock, irreversible |-> 0, first |-> 0, rows |-> {}, received |-> {}]
  BY DEF Opened
<1> HIDE DEF ks
<1>3. Opened(d) \in Process /\ Opened(d).db = d /\ Opened(d).kept = ks /\ Opened(d).passed = {}
      /\ Memory(Opened(d)) = <<NoBlock, 0, 0, {}, {}>>
  BY <1>1, <1>2 DEF Process, Memory, MaybeBlock
<1> QED
  BY <1>3 DEF ks

LEMMA EndedIs ==
  ASSUME NEW p \in Process
  PROVE  /\ Ended(p) \in Process /\ Ended(p).db = p.db /\ Ended(p).kept = p.kept
         /\ Ended(p).passed = {}
         /\ Memory(Ended(p)) = <<NoBlock, 0, 0, {}, {}>>
<1>1. p.db \in Db /\ p.kept \in SUBSET (Db \X BOOLEAN)
  BY ProcessTyped
<1>2. PICK o : o = Opened(p.db)
  OBVIOUS
<1>3. o \in Process /\ o.db = p.db /\ o.passed = {} /\ Memory(o) = <<NoBlock, 0, 0, {}, {}>>
  BY <1>1, <1>2, OpenedIs, Zenon
<1>4. Ended(p) = [o EXCEPT !.kept = p.kept]
  BY <1>2, Zenon DEF Ended
<1> QED
  BY <1>1, <1>3, <1>4 DEF Process, Memory

------------------------------------------------------------------------------
(* A restart finds its head *)

SafeKept(K) == \A k \in K : k[2] \/ Resumable(k[1])

\* CrashInv and SessionInv for a process that is not torn.
Ready(p) ==
  /\ Sound(p) /\ p.db.status.first <= p.first
  /\ Resumable(p.db) /\ SafeKept(p.kept) /\ SafeKept(p.passed)

LEMMA KeptSafe ==
  ASSUME NEW K, NEW c, NEW d, NEW s, SafeKept(K), s \/ (Resumable(c) /\ Resumable(d))
  PROVE  SafeKept(K \cup {<<c, s>>} \cup {<<d, s>>})
<1> SUFFICES ASSUME NEW k \in K \cup {<<c, s>>} \cup {<<d, s>>} PROVE k[2] \/ Resumable(k[1])
  BY DEF SafeKept
<1>1. k \in K \/ (k[1] = c /\ k[2] = s) \/ (k[1] = d /\ k[2] = s)
  BY KeptCases
<1> QED
  BY <1>1, Zenon DEF SafeKept

LEMMA FlushedSafe ==
  ASSUME NEW d, Resumable(d)
  PROVE  SafeKept({<<d, FALSE>>})
BY KeptOne DEF SafeKept

\* Up to a head that was received, a stretch is one that ends in it.
LEMMA StretchUpTo ==
  ASSUME NEW S \in SUBSET Block, IsStretch(S), NEW h \in MaybeBlock, h = NoBlock \/ h \in S
  PROVE  IsStretch(Below(S, N(h) + 1)) /\ TipIs(Below(S, N(h) + 1), h)
<1>1. N(h) + 1 \in Nat /\ IsStretch(Below(S, N(h) + 1))
  BY NIsNat, StretchBelow
<1>2. CASE h = NoBlock
  BY <1>1, <1>2, TreeAssumption DEF TipIs, Below, N
<1>3. CASE h \in S
  <2>1. h # NoBlock /\ N(h) = Num[h] /\ Num[h] \in Nat
    BY <1>3, TreeAssumption DEF N
  <2> QED
    BY <1>1, <1>3, <2>1, TreeAssumption DEF TipIs, Below
<1> QED
  BY <1>1, <1>2, <1>3

\* The received blocks of the two batches: the database's and the batch's.
LEMMA BatchesReceived ==
  ASSUME NEW p \in Process, NEW status \in FillStatus, IsStretch(AllReceived(p))
  PROVE  /\ ContentOf(p).received = AllReceived(p)
         /\ IndexedOf(p, status).received = AllReceived(p)
<1>1. PICK c, d, R, P : c = ContentOf(p) /\ d = IndexedOf(p, status) /\ R = p.db.received
                        /\ P = p.received
  OBVIOUS
<1>2. c.received = {b \in R : Num[b] \notin {Num[a] : a \in P}} \cup P /\ d.received = c.received
  BY <1>1, BatchesHave, Zenon
<1>3. \A b \in R, a \in P : Num[b] = Num[a] => b = a
  BY <1>1 DEF IsStretch, AllReceived
<1>4. c.received = R \cup P
  BY <1>2, <1>3
<1> QED
  BY <1>1, <1>2, <1>4 DEF AllReceived

\* A database with more blocks received on the same stretch stays resumable.
LEMMA ResumableExtended ==
  ASSUME NEW d \in Db, NEW e \in Db, Resumable(d), e.status = d.status,
         d.received \subseteq e.received, IsStretch(e.received),
         \A b \in e.received : d.status.first <= Num[b]
  PROVE  Resumable(e)
<1>1. PICK h : h = d.status.head_id
  OBVIOUS
<1>2. h \in MaybeBlock /\ e.received \in SUBSET Block /\ d.received \in SUBSET Block
  BY <1>1, DbTyped
<1>3. h = NoBlock \/ h \in e.received
  <2>1. TipIs(Covered(d), h)
    BY <1>1 DEF Resumable
  <2> QED
    BY <2>1 DEF TipIs, Covered, Below
<1>4. IsStretch(Covered(e)) /\ TipIs(Covered(e), h)
  <2>1. Covered(e) = Below(e.received, N(h) + 1)
    BY <1>1 DEF Covered
  <2> QED
    BY <1>2, <1>3, <2>1, StretchUpTo
<1> QED
  BY <1>1, <1>4 DEF Resumable

\* With the status of a sound session its database is resumable.
LEMMA ResumableSound ==
  ASSUME NEW p \in Process, Sound(p), NEW d \in Db, d.received = AllReceived(p),
         d.status.head_id = p.head_id, d.status.first = p.first
  PROVE  Resumable(d)
<1>1. AllReceived(p) \in SUBSET Block /\ p.head_id \in MaybeBlock
  BY ProcessTyped, DbTyped DEF AllReceived
<1>2. p.head_id = NoBlock \/ p.head_id \in AllReceived(p)
  BY DEF Sound, TipIs
<1>3. IsStretch(Covered(d)) /\ TipIs(Covered(d), d.status.head_id)
  BY <1>1, <1>2, StretchUpTo DEF Sound, Covered
<1> QED
  BY <1>3 DEF Resumable, Sound

LEMMA EndWriteReady ==
  ASSUME NEW p \in Process, Sound(p), SafeKept(p.kept), SafeKept(p.passed),
         p.switching \/ (Resumable(p.db) /\ p.db.status.first <= p.first)
  PROVE  LET q == EndWrite[p]
         IN /\ Ready(q) /\ q.db.received = AllReceived(p) /\ q.received = {} /\ q.rows = {}
            /\ q.head_id = p.head_id /\ q.first = p.first /\ q.irreversible = p.irreversible
            /\ q.db.status.head_id = p.head_id
<1>1. PICK c, d, q, A : /\ c = ContentOf(p) /\ d = IndexedOf(p, Status(p)) /\ q = EndWrite[p]
                        /\ A = AllReceived(p)
  OBVIOUS
<1>2. /\ q \in Process /\ q.db = d
      /\ q.kept = p.kept \cup {<<c, p.switching>>} \cup {<<d, p.switching>>}
      /\ Memory(q) = <<p.head_id, p.irreversible, p.first, {}, {}>>
      /\ c \in Db /\ d \in Db /\ q.passed = p.passed
  BY <1>1, EndWriteIs, Zenon
<1>3. /\ Status(p) \in FillStatus /\ Status(p).head_id = p.head_id /\ Status(p).first = p.first
  BY StatusTyped
<1>4. c.received = A /\ d.received = A /\ IsStretch(A)
  BY <1>1, <1>3, BatchesReceived DEF Sound
<1>5. c.status = p.db.status /\ d.status = Status(p)
  BY <1>1, <1>3, BatchesHave, Zenon
<1>6. Resumable(d)
  BY <1>1, <1>2, <1>3, <1>4, <1>5, ResumableSound
<1>7. ASSUME ~p.switching PROVE Resumable(c)
  <2>1. Resumable(p.db) /\ p.db.status.first <= p.first
    BY <1>7
  <2>2. p.db \in Db /\ p.db.status.first \in Nat /\ p.first \in Nat /\ A \in SUBSET Block
    BY <1>1, ProcessTyped, DbTyped DEF AllReceived
  <2>3. \A b \in A : p.db.status.first <= Num[b]
    <3>1. \A b \in A : p.first <= Num[b] /\ Num[b] \in Nat
      BY <1>1, <2>2, TreeAssumption DEF Sound
    <3> QED
      BY <2>1, <2>2, <3>1
  <2>4. p.db.received \subseteq A
    BY <1>1 DEF AllReceived
  <2> QED
    BY <1>2, <1>4, <1>5, <2>1, <2>2, <2>3, <2>4, ResumableExtended
<1>8. SafeKept(q.kept)
  <2>1. PICK K, s : K = p.kept /\ s = p.switching
    OBVIOUS
  <2>2. s \/ (Resumable(c) /\ Resumable(d))
    BY <1>6, <1>7, <2>1, Zenon
  <2>3. SafeKept(K)
    BY <2>1, Zenon
  <2>4. SafeKept(K \cup {<<c, s>>} \cup {<<d, s>>})
    BY <2>2, <2>3, KeptSafe
  <2> QED
    BY <1>2, <2>1, <2>4, Zenon
<1>9. /\ q.head_id = p.head_id /\ q.first = p.first /\ q.irreversible = p.irreversible
      /\ q.rows = {} /\ q.received = {}
  BY <1>2 DEF Memory
<1>10. AllReceived(q) = A
  BY <1>2, <1>4, <1>9 DEF AllReceived
<1>11. Sound(q) /\ q.db.status.first <= q.first
  <2>1. p.first \in Nat
    BY ProcessTyped
  <2> QED
    BY <1>1, <1>2, <1>3, <1>5, <1>9, <1>10, <2>1 DEF Sound
<1> QED
  BY <1>1, <1>2, <1>3, <1>4, <1>5, <1>6, <1>8, <1>9, <1>11, Zenon DEF Ready

LEMMA EndPartReady ==
  ASSUME NEW p \in Process, Ready(p)
  PROVE  LET q == EndPart[p]
         IN /\ Ready(q) /\ AllReceived(q) = AllReceived(p) /\ q.received = {} /\ q.rows = {}
            /\ q.head_id = p.head_id /\ q.first = p.first /\ q.irreversible = p.irreversible
<1>1. PICK c, d, q, A : /\ c = ContentOf(p) /\ d = IndexedOf(p, p.db.status) /\ q = EndPart[p]
                        /\ A = AllReceived(p)
  OBVIOUS
<1>2. /\ q \in Process /\ q.db = d
      /\ q.kept = p.kept \cup {<<c, p.switching>>} \cup {<<d, p.switching>>}
      /\ Memory(q) = <<p.head_id, p.irreversible, p.first, {}, {}>>
      /\ c \in Db /\ d \in Db /\ q.passed = p.passed
  BY <1>1, EndPartIs, Zenon
<1>3. p.db \in Db /\ p.db.status \in FillStatus
  BY ProcessTyped, DbTyped
<1>4. c.received = A /\ d.received = A /\ IsStretch(A)
  BY <1>1, <1>3, BatchesReceived DEF Ready, Sound
<1>5. c.status = p.db.status /\ d.status = p.db.status
  BY <1>1, <1>3, BatchesHave, Zenon
<1>6. Resumable(c) /\ Resumable(d)
  <2>1. Resumable(p.db) /\ p.db.status.first <= p.first
    BY DEF Ready
  <2>2. p.db.status.first \in Nat /\ p.first \in Nat /\ A \in SUBSET Block
    BY <1>1, ProcessTyped, DbTyped DEF AllReceived
  <2>3. \A b \in A : p.db.status.first <= Num[b]
    <3>1. \A b \in A : p.first <= Num[b] /\ Num[b] \in Nat
      BY <1>1, <2>2, TreeAssumption DEF Ready, Sound
    <3> QED
      BY <2>1, <2>2, <3>1
  <2>4. p.db.received \subseteq A
    BY <1>1 DEF AllReceived
  <2> QED
    BY <1>2, <1>3, <1>4, <1>5, <2>1, <2>2, <2>3, <2>4, ResumableExtended
<1>7. SafeKept(q.kept)
  <2>1. PICK K, s : K = p.kept /\ s = p.switching
    OBVIOUS
  <2>2. SafeKept(K)
    BY <2>1, Zenon DEF Ready
  <2>3. SafeKept(K \cup {<<c, s>>} \cup {<<d, s>>})
    BY <1>6, <2>2, KeptSafe
  <2> QED
    BY <1>2, <2>1, <2>3, Zenon
<1>8. /\ q.head_id = p.head_id /\ q.first = p.first /\ q.irreversible = p.irreversible
      /\ q.rows = {} /\ q.received = {}
  BY <1>2 DEF Memory
<1>9. AllReceived(q) = A
  BY <1>2, <1>4, <1>8 DEF AllReceived
<1>10. Sound(q) /\ q.db.status.first <= q.first
  BY <1>1, <1>2, <1>5, <1>8, <1>9 DEF Ready, Sound
<1>11. SafeKept(q.passed)
  BY <1>2, Zenon DEF Ready
<1> QED
  BY <1>1, <1>2, <1>6, <1>7, <1>8, <1>9, <1>10, <1>11, Zenon DEF Ready

\* Truncating at a number the history reaches leaves the block before it as the head.
LEMMA TruncateSound ==
  ASSUME NEW p \in Process, p.received = {}, NEW n \in Nat, 0 < n,
         IsStretch(p.db.received), NEW h \in MaybeBlock, TipIs(p.db.received, h), n <= N(h),
         \A b \in p.db.received : p.first <= Num[b]
  PROVE  LET q == Truncate(n)[p]
         IN /\ IsStretch(AllReceived(q)) /\ TipIs(AllReceived(q), q.head_id)
            /\ \A b \in AllReceived(q) : q.first <= Num[b]
            /\ q.head_id = NoBlock => q.first = 0
            /\ q.head_id # NoBlock => q.first = p.first
            /\ AllReceived(q) = Below(p.db.received, n)
<1>1. PICK q, g, S : q = Truncate(n)[p] /\ g = At(p.db.received, n - 1) /\ S = p.db.received
  OBVIOUS
<1>2. p.db \in Db /\ S \in SUBSET Block /\ p.first \in Nat
  BY <1>1, ProcessTyped, DbTyped
<1>3. /\ q.head_id = g /\ g \in MaybeBlock /\ q.received = {}
      /\ q.first = IF p.first <= N(g) THEN p.first ELSE N(g)
      /\ q.db = Cut(Unindexed(p.db, n), n)
  BY <1>1, TruncateIs, Zenon
<1>4. q.db.received = {b \in S : ~(Num[b] >= n)}
  <2>1. PICK d, u, c : d = p.db /\ u = Unindexed(d, n) /\ c = Cut(u, n)
    OBVIOUS
  <2>3. c.received = {b \in d.received : ~(Num[b] >= n)}
    BY <1>2, <2>1, CutHas
  <2>2. q.db.received = {b \in d.received : ~(Num[b] >= n)}
    BY <1>3, <2>1, <2>3, Zenon
  <2> QED
    BY <1>1, <2>1, <2>2
<1>5. AllReceived(q) = Below(S, n)
  BY <1>2, <1>3, <1>4, TreeAssumption DEF AllReceived, Below
<1>6. TipIs(Below(S, n), g) /\ IsStretch(Below(S, n))
  BY <1>1, <1>2, TipBelow, StretchBelow
<1>7. CASE g = NoBlock
  <2>1. Below(S, n) = {} /\ N(g) = 0
    BY <1>6, <1>7 DEF TipIs, N
  <2>2. q.first = 0
    BY <1>2, <1>3, <2>1
  <2> QED
    BY <1>1, <1>3, <1>5, <1>6, <1>7, <2>1, <2>2
<1>8. CASE g # NoBlock
  <2>1. g \in S /\ N(g) = Num[g]
    BY <1>6, <1>8 DEF TipIs, Below, N
  <2>2. q.first = p.first
    BY <1>1, <1>3, <2>1
  <2> QED
    BY <1>1, <1>3, <1>5, <1>6, <1>8, <2>2 DEF Below
<1> QED
  BY <1>7, <1>8

\* A fork switch from block n on.
LEMMA SwitchKeeps ==
  ASSUME NEW p \in Process, RowsThere(p), NEW n \in Nat
  PROVE  Switch(p, n) \in Process /\ RowsThere(Switch(p, n))
<1>1. PICK e : e = EndWrite[p]
  OBVIOUS
<1>2. e \in Process /\ RowsThere(e)
  BY <1>1, EndWriteIs, EndWriteRows, Zenon
<1>3. PICK w : w = [e EXCEPT !.switching = TRUE]
  OBVIOUS
<1>4. w \in Process /\ w.db = e.db /\ w.kept = e.kept /\ w.passed = e.passed
  BY <1>2, <1>3 DEF Process
<1>5. RowsThere(w)
  BY <1>2, <1>4 DEF RowsThere
<1>6. PICK t : t = Truncate(n)[w]
  OBVIOUS
<1>7. t \in Process /\ RowsThere(t)
  BY <1>4, <1>5, <1>6, TruncateIs, TruncateRows, Zenon
<1>8. Switch(p, n) = EndWrite[t]
  BY <1>1, <1>3, <1>6, Zenon DEF Switch
<1> QED
  BY <1>7, <1>8, EndWriteIs, EndWriteRows, Zenon

LEMMA SwitchReady ==
  ASSUME NEW p \in Process, Ready(p), NEW n \in Nat, 0 < n, n <= N(p.head_id)
  PROVE  Ready(Switch(p, n)) /\ Switch(p, n).received = {}
<1>1. PICK e : e = EndWrite[p]
  OBVIOUS
<1>2. /\ e \in Process /\ Ready(e) /\ e.received = {} /\ e.head_id = p.head_id
      /\ e.db.received = AllReceived(p)
  <2>1. Sound(p) /\ SafeKept(p.kept) /\ SafeKept(p.passed)
        /\ (p.switching \/ (Resumable(p.db) /\ p.db.status.first <= p.first))
    BY Zenon DEF Ready
  <2> QED
    BY <1>1, <2>1, EndWriteIs, EndWriteReady, Zenon
<1>3. PICK w : w = [e EXCEPT !.switching = TRUE]
  OBVIOUS
<1>4. /\ w \in Process /\ w.db = e.db /\ w.kept = e.kept /\ w.passed = e.passed /\ w.received = {} /\ w.first = e.first
      /\ w.head_id = p.head_id /\ w.switching = TRUE
  BY <1>2, <1>3 DEF Process
<1>5. PICK t : t = Truncate(n)[w]
  OBVIOUS
<1>6. /\ IsStretch(e.db.received) /\ TipIs(e.db.received, p.head_id)
      /\ \A b \in e.db.received : e.first <= Num[b]
      /\ e.first = 0 <=> p.head_id = NoBlock
  <2>1. AllReceived(e) = e.db.received
    BY <1>2 DEF AllReceived
  <2> QED
    BY <1>2, <2>1 DEF Ready, Sound
<1>7. p.head_id \in MaybeBlock /\ p.head_id # NoBlock
  BY ProcessTyped DEF N
<1>8. /\ IsStretch(AllReceived(t)) /\ TipIs(AllReceived(t), t.head_id)
      /\ \A b \in AllReceived(t) : t.first <= Num[b]
      /\ t.head_id = NoBlock => t.first = 0
      /\ t.head_id # NoBlock => t.first = w.first
  BY <1>4, <1>5, <1>6, <1>7, TruncateSound
<1>9. /\ t \in Process /\ t.received = {} /\ t.switching = TRUE
      /\ t.passed = w.passed \cup w.kept
      /\ t.kept = {<<w.db, FALSE>>} \cup {<<Unindexed(w.db, n), TRUE>>}
                                    \cup {<<Cut(Unindexed(w.db, n), n), TRUE>>}
  BY <1>4, <1>5, TruncateIs, Zenon
<1>10. Sound(t)
  <2>1. t.head_id = NoBlock <=> t.first = 0
    BY <1>4, <1>6, <1>7, <1>8
  <2> QED
    BY <1>8, <2>1 DEF Sound
<1>11. SafeKept(t.kept)
  <2>1. PICK K, u, c : /\ K = {<<w.db, FALSE>>} /\ u = Unindexed(w.db, n)
                       /\ c = Cut(Unindexed(w.db, n), n)
    OBVIOUS
  <2>2. SafeKept(K)
    BY <1>2, <1>4, <2>1, FlushedSafe, Zenon DEF Ready
  <2>3. SafeKept(K \cup {<<u, TRUE>>} \cup {<<c, TRUE>>})
    BY <2>2, KeptSafe
  <2> QED
    BY <1>9, <2>1, <2>3, Zenon
<1>12. SafeKept(t.passed)
  BY <1>2, <1>4, <1>9 DEF Ready, SafeKept
<1>13. Switch(p, n) = EndWrite[t]
  BY <1>1, <1>3, <1>5, Zenon DEF Switch
<1> QED
  BY <1>9, <1>10, <1>11, <1>12, <1>13, EndWriteReady, Zenon

------------------------------------------------------------------------------
(* The clean-up of a restart *)

LEMMA LoadedIs ==
  ASSUME NEW p \in Process
  PROVE  LET q == Loaded(p)
         IN /\ q \in Process /\ q.db = p.db /\ q.kept = p.kept /\ q.passed = p.passed
            /\ q.head_id = p.db.status.head_id /\ q.first = p.db.status.first
            /\ q.irreversible = p.db.status.irreversible
            /\ q.rows = p.rows /\ q.received = p.received
<1>1. /\ p.db.status.head_id \in MaybeBlock /\ p.db.status.first \in Nat
      /\ p.db.status.irreversible \in Nat
  BY ProcessTyped, DbTyped
<1>2. PICK h, f, i : h = p.db.status.head_id /\ f = p.db.status.first /\ i = p.db.status.irreversible
  OBVIOUS
<1>3. PICK q : q = Loaded(p)
  OBVIOUS
<1>4. q = [p EXCEPT !.head_id = h, !.first = f, !.irreversible = i]
  BY <1>2, <1>3 DEF Loaded
<1>5. /\ q \in Process /\ q.db = p.db /\ q.kept = p.kept /\ q.passed = p.passed
      /\ q.head_id = h /\ q.first = f /\ q.rows = p.rows /\ q.received = p.received
      /\ q.irreversible = i
  BY <1>1, <1>2, <1>4 DEF Process
<1> QED
  BY <1>2, <1>3, <1>5, Zenon

LEMMA FlushRows ==
  ASSUME NEW p \in Process, RowsThere(p)
  PROVE  Flush(p) \in Process /\ RowsThere(Flush(p))
<1>1. PICK q : q = Flush(p)
  OBVIOUS
<1>2. /\ q \in Process /\ q.db = p.db /\ q.kept = {<<p.db, FALSE>>}
      /\ q.passed = p.passed \cup p.kept
  BY <1>1, Flushed, Zenon
<1>3. \A k \in q.kept : k[1] = p.db
  BY <1>2, KeptOne
<1>4. RowsThere(q)
  BY <1>2, <1>3 DEF RowsThere
<1> QED
  BY <1>1, <1>2, <1>4, Zenon

LEMMA CleanUpKeeps ==
  ASSUME NEW p \in Process, RowsThere(p)
  PROVE  CleanUp(p) \in Process /\ RowsThere(CleanUp(p))
<1>1. PICK e : e = EndWrite[p]
  OBVIOUS
<1>2. e \in Process /\ RowsThere(e)
  BY <1>1, EndWriteIs, EndWriteRows, Zenon
<1>3. PICK n : n = N(p.head_id) + 1
  OBVIOUS
<1>4. n \in Nat
  BY <1>3, ProcessTyped
<1>5. PICK t : t = Truncate(n)[e]
  OBVIOUS
<1>6. t \in Process /\ RowsThere(t)
  BY <1>2, <1>4, <1>5, TruncateIs, TruncateRows, Zenon
<1>7. PICK w : w = EndWrite[t]
  OBVIOUS
<1>8. w \in Process /\ RowsThere(w)
  BY <1>6, <1>7, EndWriteIs, EndWriteRows, Zenon
<1>9. CleanUp(p) = Flush(w)
  BY <1>1, <1>3, <1>5, <1>7, Zenon DEF CleanUp
<1> QED
  BY <1>8, <1>9, FlushRows, Zenon

\* Resumable looks at the received blocks and the status's head and first alone, and
\* at blocks past the head only for their numbers.
LEMMA ResumableCovered ==
  ASSUME NEW d, NEW e, Resumable(d), Covered(e) = Covered(d), e.received \subseteq d.received,
         e.status.head_id = d.status.head_id, e.status.first = d.status.first
  PROVE  Resumable(e)
BY DEF Resumable

LEMMA CleanUpReady ==
  ASSUME NEW p \in Process, p.rows = {}, p.received = {}, p.head_id = p.db.status.head_id,
         p.first = p.db.status.first, Resumable(p.db), SafeKept(p.kept), SafeKept(p.passed)
  PROVE  LET q == CleanUp(p)
         IN /\ Ready(q) /\ q.rows = {} /\ q.received = {}
            /\ \A r \in q.db.content : Num[r.block] <= N(q.head_id)
<1> DEFINE h == p.head_id
           n == N(h) + 1
<1>1. PICK c, d, e : c = ContentOf(p) /\ d = IndexedOf(p, Status(p)) /\ e = EndWrite[p]
  OBVIOUS
<1>2. /\ e \in Process /\ e.db = d
      /\ e.kept = p.kept \cup {<<c, p.switching>>} \cup {<<d, p.switching>>}
      /\ Memory(e) = <<p.head_id, p.irreversible, p.first, {}, {}>>
      /\ e.switching = FALSE /\ e.passed = p.passed /\ c \in Db /\ d \in Db
  BY <1>1, EndWriteIs, Zenon
<1>3. e.head_id = h /\ e.first = p.first /\ e.rows = {} /\ e.received = {}
  BY <1>2 DEF Memory
<1>4. /\ Status(p) \in FillStatus /\ Status(p).head_id = h /\ Status(p).first = p.first
      /\ h \in MaybeBlock /\ N(h) \in Nat /\ n \in Nat /\ p.first \in Nat
  BY StatusTyped, ProcessTyped
<1>5. PICK R : R = p.db.received
  OBVIOUS
<1>6. c.received = R /\ d.received = R /\ c.status = p.db.status /\ d.status = Status(p)
  BY <1>1, <1>4, <1>5, EmptyBatchHas, Zenon
<1>7. /\ IsStretch(Below(R, n)) /\ TipIs(Below(R, n), h) /\ R \in SUBSET Block
      /\ h = NoBlock <=> p.first = 0
      /\ \A b \in R : p.first <= Num[b]
  <2>1. R \in SUBSET Block
    BY <1>5, ProcessTyped, DbTyped
  <2> QED
    BY <1>5, <2>1 DEF Resumable, Covered
<1>8. Resumable(c) /\ Resumable(d)
  <2>1. /\ Covered(c) = Covered(p.db) /\ Covered(d) = Covered(p.db)
        /\ c.status.head_id = p.db.status.head_id /\ c.status.first = p.db.status.first
        /\ d.status.head_id = p.db.status.head_id /\ d.status.first = p.db.status.first
    BY <1>4, <1>5, <1>6 DEF Covered
  <2> QED
    BY <1>5, <1>6, <2>1, ResumableCovered
<1>9. SafeKept(e.kept)
  <2>1. PICK K, s : K = p.kept /\ s = p.switching
    OBVIOUS
  <2>2. SafeKept(K)
    BY <2>1, Zenon
  <2>3. SafeKept(K \cup {<<c, s>>} \cup {<<d, s>>})
    BY <1>8, <2>2, KeptSafe
  <2> QED
    BY <1>2, <2>1, <2>3, Zenon
<1>10. PICK u, v, t : u = Unindexed(d, n) /\ v = Cut(u, n) /\ t = Truncate(n)[e]
  OBVIOUS
<1>11. /\ u.received = R /\ u.status = d.status /\ v.status = d.status
       /\ v.received = {b \in R : ~(Num[b] >= n)}
       /\ v.content = {r \in d.content : ~(Num[r.block] >= n)}
  <2>1. n \in Nat
    BY <1>4
  <2> HIDE DEF n, h
  <2>2. /\ u.received = d.received /\ u.status = d.status /\ v.status = d.status
        /\ v.received = {b \in d.received : ~(Num[b] >= n)}
        /\ v.content = {r \in d.content : ~(Num[r.block] >= n)}
    BY <1>2, <1>10, <2>1, CutHas
  <2> QED
    BY <1>6, <2>2
<1>12. /\ t \in Process /\ t.db = v
       /\ t.kept = {<<d, FALSE>>} \cup {<<u, FALSE>>} \cup {<<v, FALSE>>}
       /\ t.head_id = At(R, n - 1)
       /\ t.first = IF p.first <= N(t.head_id) THEN p.first ELSE N(t.head_id)
       /\ t.rows = {} /\ t.received = {} /\ t.switching = FALSE
       /\ t.passed = e.passed \cup e.kept
  <2>1. n \in Nat
    BY <1>4
  <2> HIDE DEF n, h
  <2>2. /\ t \in Process /\ t.db = Cut(Unindexed(e.db, n), n)
        /\ t.kept = {<<e.db, FALSE>>} \cup {<<Unindexed(e.db, n), e.switching>>}
                       \cup {<<Cut(Unindexed(e.db, n), n), e.switching>>}
        /\ t.head_id = At(e.db.received, n - 1)
        /\ t.first = IF e.first <= N(At(e.db.received, n - 1)) THEN e.first
                                                               ELSE N(At(e.db.received, n - 1))
        /\ t.rows = e.rows /\ t.received = e.received /\ t.switching = e.switching
        /\ t.passed = e.passed \cup e.kept
    BY <1>2, <1>10, <2>1, TruncateIs, Zenon
  <2> QED
    BY <1>2, <1>3, <1>6, <1>10, <2>2, Zenon
<1>13. v.received = Below(R, n)
  BY <1>4, <1>7, <1>11, TreeAssumption DEF Below
<1>14. Resumable(u) /\ Resumable(v)
  <2>1. Below(v.received, n) = Below(R, n) /\ v.received \subseteq d.received
    BY <1>6, <1>13 DEF Below
  <2>2. d.status.head_id = h
    BY <1>4, <1>6
  <2>3. Covered(v) = Covered(d) /\ Covered(u) = Covered(d)
    BY <1>6, <1>11, <2>1, <2>2 DEF Covered
  <2> QED
    BY <1>6, <1>8, <1>11, <2>1, <2>3, ResumableCovered
<1>15. SafeKept(t.kept) /\ SafeKept(t.passed)
  <2>1. PICK K : K = {<<d, FALSE>>}
    OBVIOUS
  <2>2. SafeKept(K)
    BY <1>8, <2>1, FlushedSafe
  <2>3. SafeKept(K \cup {<<u, FALSE>>} \cup {<<v, FALSE>>})
    BY <1>14, <2>2, KeptSafe
  <2>4. SafeKept(t.kept)
    BY <1>12, <2>1, <2>3, Zenon
  <2> QED
    BY <1>2, <1>9, <1>12, <2>4 DEF SafeKept
<1>16. t.head_id = h /\ t.first = p.first
  <2>1. CASE h = NoBlock
    <3>1. n - 1 = 0 /\ p.first = 0
      BY <1>7, <2>1 DEF N
    <3>2. At(R, n - 1) = NoBlock
      <4> HIDE DEF n
      <4> QED
        BY <1>7, <3>1, TreeAssumption DEF At
    <3> QED
      BY <1>12, <2>1, <3>1, <3>2 DEF N
  <2>2. CASE h # NoBlock
    <3>1. h \in R /\ h \in Below(R, n) /\ n - 1 = Num[h] /\ N(h) = Num[h]
      BY <1>4, <1>7, <2>2 DEF TipIs, Below, N
    <3> HIDE DEF h, n
    <3>2. At(R, n - 1) \in R /\ Num[At(R, n - 1)] = n - 1
      BY <3>1 DEF At
    <3>3. At(R, n - 1) \in Below(R, n)
      BY <1>4, <3>1, <3>2, <1>7, TreeAssumption DEF Below
    <3>4. At(R, n - 1) = h
      BY <1>7, <3>1, <3>2, <3>3 DEF IsStretch
    <3>5. p.first <= N(h)
      BY <1>7, <3>1
    <3> QED
      BY <1>12, <3>4, <3>5
  <2> QED
    BY <2>1, <2>2
<1>17. AllReceived(t) = Below(R, n)
  BY <1>12, <1>13 DEF AllReceived
<1>18. Sound(t)
  BY <1>7, <1>16, <1>17 DEF Sound, Below
<1>19. Resumable(t.db) /\ t.db.status.first <= t.first
  BY <1>4, <1>6, <1>11, <1>12, <1>14, <1>16
<1>20. PICK w : w = EndWrite[t]
  OBVIOUS
<1>21. w \in Process /\ Ready(w) /\ w.rows = {} /\ w.received = {} /\ w.head_id = h
  BY <1>12, <1>15, <1>16, <1>18, <1>19, <1>20, EndWriteIs, EndWriteReady, Zenon
<1>22. w.db.content \subseteq v.content
  <2>1. w.db = IndexedOf(t, Status(t))
    BY <1>12, <1>20, EndWriteIs, Zenon
  <2>2. IndexedOf(t, Status(t)).content = t.db.content
    BY <1>12, StatusTyped, EmptyBatchHas, Zenon
  <2> QED
    BY <1>12, <2>1, <2>2
<1>23. \A r \in w.db.content : Num[r.block] <= N(h)
  <2>1. ASSUME NEW r \in w.db.content PROVE Num[r.block] <= N(h)
    <3>1. ~(Num[r.block] >= n) /\ r \in d.content
      BY <1>11, <1>22
    <3>2. r.block \in Block
      BY <1>2, <3>1, DbTyped, EntryTyped
    <3> QED
      BY <1>4, <3>1, <3>2, TreeAssumption
  <2> QED
    BY <2>1
<1>24. PICK q : q = Flush(w)
  OBVIOUS
<1>25. /\ q.db = w.db /\ q.kept = {<<w.db, FALSE>>} /\ Memory(q) = Memory(w)
       /\ q.passed = w.passed \cup w.kept
  BY <1>21, <1>24, Flushed, Zenon
<1>26. q.head_id = h /\ q.first = w.first /\ q.rows = {} /\ q.received = {}
  BY <1>21, <1>25 DEF Memory
<1>27. Ready(q)
  <2>1. SafeKept(q.kept)
    BY <1>21, <1>25, FlushedSafe DEF Ready
  <2>2. SafeKept(q.passed)
    BY <1>21, <1>25 DEF Ready, SafeKept
  <2>3. AllReceived(q) = AllReceived(w)
    BY <1>21, <1>25, <1>26 DEF AllReceived
  <2>4. Sound(q)
    BY <1>21, <1>26, <2>3 DEF Ready, Sound
  <2> QED
    BY <1>21, <1>25, <1>26, <2>1, <2>2, <2>4 DEF Ready
<1>28. CleanUp(p) = q
  BY <1>1, <1>10, <1>20, <1>24, Zenon DEF CleanUp
<1> QED
  BY <1>23, <1>25, <1>26, <1>27, <1>28, Zenon

------------------------------------------------------------------------------
(* Applying a block *)

\* Trimming takes the oldest blocks and never the head.
LEMMA TrimReady ==
  ASSUME NEW p \in Process, Ready(p), p.received = {}
  PROVE  Ready(Trim[p])
<1>1. p.first \in Nat /\ EndTrim(p) \in Nat /\ EndTrim(p) <= N(p.head_id)
      /\ p.head_id \in MaybeBlock /\ p.db.received \in SUBSET Block
  BY ProcessTyped, EndTrimIs, DbTyped
<1>2. CASE p.first >= EndTrim(p)
  BY <1>2 DEF Trim
<1>3. CASE p.first < EndTrim(p)
  <2>1. PICK q, R, e, h : q = Trim[p] /\ R = p.db.received /\ e = EndTrim(p) /\ h = p.head_id
    OBVIOUS
  <2>2. /\ q \in Process
        /\ q.db.received = {b \in R : Num[b] \notin p.first..(e - 1)}
        /\ q.db.status.head_id = h /\ q.db.status.first = e
        /\ q.kept = {<<p.db, FALSE>>} \cup {<<q.db, p.switching>>}
        /\ Memory(q) = <<h, p.irreversible, e, p.rows, p.received>>
        /\ q.passed = p.passed \cup p.kept
    BY <1>3, <2>1, TrimIs, Zenon
  <2>3. q.head_id = h /\ q.first = e /\ q.received = {}
    BY <2>2 DEF Memory
  <2>4. /\ IsStretch(R) /\ TipIs(R, h) /\ \A b \in R : p.first <= Num[b]
    <3>1. AllReceived(p) = R
      BY <2>1 DEF AllReceived
    <3> QED
      BY <2>1, <3>1 DEF Ready, Sound
  <2>5. q.db.received = {b \in R : e <= Num[b]}
    BY <1>1, <1>3, <2>1, <2>2, <2>4, TreeAssumption
  <2>6. IsStretch(q.db.received)
    BY <1>1, <2>1, <2>4, <2>5, StretchFrom
  <2>7. h # NoBlock /\ e # 0 /\ e <= Num[h] /\ h \in R
    BY <1>1, <1>3, <2>1, <2>4 DEF N, TipIs
  <2>8. TipIs(q.db.received, h)
    BY <2>4, <2>5, <2>7 DEF TipIs
  <2>9. AllReceived(q) = q.db.received
    BY <2>3 DEF AllReceived
  <2>10. Sound(q)
    BY <2>3, <2>5, <2>6, <2>7, <2>8, <2>9 DEF Sound
  <2>11. Resumable(q.db)
    BY <2>2, <2>3, <2>9, <2>10, ResumableSound, ProcessTyped
  <2>12. SafeKept(q.kept)
    <3>1. \A k \in q.kept : k[1] = p.db \/ k[1] = q.db
      <4>1. ASSUME NEW k \in {<<p.db, FALSE>>} PROVE k[1] = p.db
        BY KeptOne
      <4>2. ASSUME NEW k \in {<<q.db, p.switching>>} PROVE k[1] = q.db
        BY KeptOne
      <4> QED
        BY <2>2, <4>1, <4>2, Zenon
    <3> QED
      BY <2>11, <3>1, Zenon DEF SafeKept, Ready
  <2>13. SafeKept(q.passed)
    BY <2>2 DEF SafeKept, Ready
  <2>14. q.db.status.first <= q.first
    BY <1>1, <2>1, <2>2, <2>3
  <2>15. Ready(q)
    BY <2>10, <2>11, <2>12, <2>13, <2>14 DEF Ready
  <2> QED
    BY <2>1, <2>15
<1> QED
  BY <1>1, <1>2, <1>3

\* More rows for the batch.
LEMMA PartIs ==
  ASSUME NEW p \in Process, NEW part \in SUBSET Row
  PROVE  LET q == Part(p, part)
         IN /\ q \in Process /\ (RowsThere(p) => RowsThere(q))
            /\ Ready(p) => Ready(q) /\ q.head_id = p.head_id
<1>1. PICK e : e = [p EXCEPT !.rows = @ \cup part]
  OBVIOUS
<1>2. /\ e \in Process /\ e.db = p.db /\ e.kept = p.kept /\ e.passed = p.passed
      /\ e.head_id = p.head_id /\ e.first = p.first /\ e.received = p.received
  BY <1>1 DEF Process
<1>3. Part(p, part) = EndPart[e]
  BY <1>1 DEF Part
<1>4. EndPart[e] \in Process
  BY <1>2, EndPartIs, Zenon
<1>5. ASSUME RowsThere(p) PROVE RowsThere(EndPart[e])
  <2>1. RowsThere(e)
    BY <1>2, <1>5 DEF RowsThere
  <2> QED
    BY <1>2, <2>1, EndPartRows
<1>6. ASSUME Ready(p) PROVE Ready(EndPart[e]) /\ EndPart[e].head_id = p.head_id
  <2>1. AllReceived(e) = AllReceived(p)
    BY <1>2 DEF AllReceived
  <2>2. Sound(e)
    BY <1>2, <1>6, <2>1 DEF Ready, Sound
  <2>3. Ready(e)
    BY <1>2, <1>6, <2>2 DEF Ready
  <2> QED
    BY <1>2, <2>3, EndPartReady, Zenon
<1> QED
  BY <1>3, <1>4, <1>5, <1>6, Zenon

\* A result that goes on from p's head.
Continues(p, m) == p.head_id = NoBlock \/ m.prev_block = p.head_id

LEMMA AppliedIs ==
  ASSUME NEW p \in Process, NEW m \in BlocksResult, m.this_block # NoBlock, NEW part
  PROVE  LET q == Applied(p, m, part)
         IN /\ q \in Process /\ (RowsThere(p) => RowsThere(q))
            /\ Ready(p) /\ Linked(m) /\ Continues(p, m) => Ready(q)
<1>1. PICK b : b = m.this_block
  OBVIOUS
<1>2. b \in Block /\ m.lib \in Nat /\ Num[b] \in Nat \ {0} /\ RowsOf(b) \in SUBSET Row
  BY <1>1, RowsTyped, TreeAssumption DEF BlocksResult, MaybeBlock
<1>3. PICK f : f = IF p.first = 0 THEN Num[b] ELSE p.first
  OBVIOUS
<1>4. f \in Nat /\ p.first \in Nat
  BY <1>2, <1>3, ProcessTyped
<1>5. PICK rs : rs = RowsOf(b) \ part
  OBVIOUS
<1>6. PICK q : q = Applied(p, m, part)
  OBVIOUS
<1>7. q = [p EXCEPT !.rows = @ \cup rs, !.received = @ \cup {b}, !.head_id = b,
                    !.irreversible = m.lib, !.first = f]
  BY <1>1, <1>3, <1>5, <1>6 DEF Applied, FirstOf
<1>8. rs \in SUBSET Row
  BY <1>2, <1>5
<1>9. /\ q \in Process /\ q.db = p.db /\ q.kept = p.kept /\ q.passed = p.passed
      /\ q.head_id = b /\ q.first = f /\ q.received = p.received \cup {b}
  BY <1>2, <1>4, <1>7, <1>8 DEF Process, MaybeBlock
<1>10. ASSUME RowsThere(p) PROVE RowsThere(q)
  BY <1>9, <1>10 DEF RowsThere
<1>11. ASSUME Ready(p), Linked(m), Continues(p, m) PROVE Ready(q)
  <2>1. PICK S, h : S = AllReceived(p) /\ h = p.head_id
    OBVIOUS
  <2>2. S \in SUBSET Block /\ h \in MaybeBlock /\ p.db.status.first \in Nat
    BY <2>1, ProcessTyped, DbTyped DEF AllReceived
  <2>3. /\ IsStretch(S) /\ TipIs(S, h) /\ \A c \in S : p.first <= Num[c]
        /\ h = NoBlock <=> p.first = 0
    BY <1>11, <2>1 DEF Ready, Sound
  <2>4. h = NoBlock \/ Parent[b] = h
    BY <1>1, <1>2, <1>11, <2>1 DEF Linked, Continues
  <2>5. IsStretch(S \cup {b}) /\ TipIs(S \cup {b}, b)
    BY <1>2, <2>2, <2>3, <2>4, StretchExtended
  <2>6. AllReceived(q) = S \cup {b}
    BY <1>9, <2>1 DEF AllReceived
  <2>7. \A c \in S \cup {b} : f <= Num[c]
    <3>1. CASE h = NoBlock
      BY <1>2, <1>3, <2>3, <3>1 DEF TipIs
    <3>2. CASE h # NoBlock
      <4>1. h \in S /\ Num[b] = Num[h] + 1 /\ Num[h] \in Nat
        BY <1>2, <2>2, <2>3, <2>4, <3>2, TreeAssumption DEF TipIs, MaybeBlock
      <4>2. f = p.first /\ f <= Num[h]
        BY <1>3, <2>3, <3>2, <4>1
      <4> QED
        BY <1>2, <1>4, <2>3, <4>1, <4>2
    <3> QED
      BY <3>1, <3>2
  <2>8. b # NoBlock /\ f # 0
    BY <1>2, <1>3, TreeAssumption
  <2>9. Sound(q)
    BY <1>9, <2>5, <2>6, <2>7, <2>8 DEF Sound
  <2>10. p.db.status.first <= f
    BY <1>2, <1>3, <1>4, <1>11, <2>2 DEF Ready
  <2> QED
    BY <1>9, <1>11, <2>9, <2>10 DEF Ready
<1> QED
  BY <1>6, <1>9, <1>10, <1>11, Zenon

LEMMA CommittedIs ==
  ASSUME NEW p \in Process, NEW m
  PROVE  LET q == Committed(p, m)
         IN /\ RowsThere(p) => q \in Process /\ RowsThere(q)
            /\ Ready(p) => Ready(q)
<1>1. PICK e, t : e = EndWrite[p] /\ t = Trim[e]
  OBVIOUS
<1>2. PICK q : q = Committed(p, m)
  OBVIOUS
<1>3. q = p \/ q = t \/ q = e
  BY <1>1, <1>2 DEF Committed
<1>4. e \in Process
  BY <1>1, EndWriteIs, Zenon
<1>5. ASSUME RowsThere(p) PROVE q \in Process /\ RowsThere(q)
  <2>1. RowsThere(e)
    BY <1>1, <1>5, EndWriteRows, Zenon
  <2>2. t \in Process /\ RowsThere(t)
    BY <1>1, <1>4, <2>1, TrimRows, Zenon
  <2> QED
    BY <1>3, <1>4, <1>5, <2>1, <2>2, Zenon
<1>6. ASSUME Ready(p) PROVE Ready(q)
  <2>1. Sound(p) /\ SafeKept(p.kept) /\ SafeKept(p.passed)
        /\ (p.switching \/ (Resumable(p.db) /\ p.db.status.first <= p.first))
    BY <1>6, Zenon DEF Ready
  <2>2. Ready(e) /\ e.received = {}
    BY <1>1, <2>1, EndWriteReady, Zenon
  <2>3. Ready(t)
    BY <1>1, <1>4, <2>2, TrimReady
  <2> QED
    BY <1>3, <1>6, <2>2, <2>3, Zenon
<1> QED
  BY <1>2, <1>5, <1>6, Zenon

------------------------------------------------------------------------------
(* The invariant's parts, after a step *)

FillerInv == DiskInv /\ CrashInv /\ SessionInv /\ CleanedUpUnlessTorn

LEMMA DoneIs ==
  ASSUME NEW p \in Process
  PROVE  /\ Done(p) \in Process /\ Done(p).db = p.db /\ Done(p).kept = p.kept
         /\ Done(p).passed = {} /\ Memory(Done(p)) = Memory(p)
         /\ Done(p).head_id = p.head_id /\ Done(p).first = p.first
         /\ Done(p).rows = p.rows /\ Done(p).received = p.received
BY DEF Done, Process, Memory

LEMMA FillerRows ==
  ASSUME TypeOK, FillerInv
  PROVE  filler \in Process /\ RowsThere(filler)
BY DEF TypeOK, FillerInv, DiskInv, IndexHasRow, RowsThere

LEMMA FillerSafe ==
  ASSUME FillerInv, ~torn
  PROVE  Resumable(filler.db) /\ SafeKept(filler.kept) /\ SafeKept(filler.passed)
BY DEF FillerInv, DiskInv, CrashInv, SafeKept

LEMMA FillerReady ==
  ASSUME FillerInv, ~torn, session = "streaming"
  PROVE  Ready(filler)
<1>1. Sound(filler) /\ filler.db.status.first <= filler.first
  BY DEF FillerInv, SessionInv
<1> QED
  BY <1>1, FillerSafe DEF Ready

\* Out of a session only what is on the disk matters.
LEMMA OutOfSession ==
  ASSUME NEW p \in Process, RowsThere(p), filler' = p, p.passed = {}, p.rows = {},
         p.received = {}, ~torn' => Resumable(p.db) /\ SafeKept(p.kept),
         session' \in {"stopped", "waiting", "connecting"}
  PROVE  FillerInv'
<1>1. DiskInv'
  BY DEF DiskInv, IndexHasRow, RowsThere
<1>2. CrashInv'
  BY DEF CrashInv, SafeKept
<1>3. SessionInv' /\ CleanedUpUnlessTorn'
  BY DEF SessionInv, CleanedUpUnlessTorn, CleanedUp
<1> QED
  BY <1>1, <1>2, <1>3 DEF FillerInv

\* In a session the process is ready, cleaned up at first.
LEMMA InSession ==
  ASSUME NEW p \in Process, RowsThere(p), filler' = Done(p), ~torn' => Ready(p),
         session' \in {"querying", "streaming"},
         ~torn' /\ session' = "querying" =>
           p.received = {} /\ \A r \in p.db.content : Num[r.block] <= N(p.head_id)
  PROVE  FillerInv'
<1>1. /\ filler'.db = p.db /\ filler'.kept = p.kept /\ filler'.passed = {}
      /\ filler'.head_id = p.head_id /\ filler'.first = p.first
      /\ filler'.received = p.received
  BY DoneIs
<1>2. DiskInv'
  BY <1>1 DEF DiskInv, IndexHasRow, RowsThere
<1>3. CrashInv'
  BY <1>1 DEF CrashInv, SafeKept, Ready
<1>4. SessionInv'
  <2>1. ~torn' => Sound(filler') /\ filler'.db.status.first <= filler'.first
    BY <1>1 DEF Ready, Sound, AllReceived
  <2> QED
    BY <2>1 DEF SessionInv
<1>5. CleanedUpUnlessTorn'
  <2>1. ASSUME ~torn', session' = "querying"
        PROVE  IsStretch(p.db.received) /\ TipIs(p.db.received, p.head_id)
    <3>1. AllReceived(p) = p.db.received /\ Sound(p)
      BY <2>1 DEF AllReceived, Ready
    <3> QED
      BY <3>1 DEF Sound
  <2> QED
    BY <1>1, <2>1 DEF CleanedUpUnlessTorn, CleanedUp
<1> QED
  BY <1>2, <1>3, <1>4, <1>5 DEF FillerInv

\* A step that leaves the filler alone and goes no further than "streaming".
LEMMA SameFiller ==
  ASSUME FillerInv, UNCHANGED <<filler, torn>>,
         \/ session' = session
         \/ {session, session'} \subseteq {"stopped", "waiting", "connecting"}
         \/ session = "querying" /\ session' = "streaming"
  PROVE  FillerInv'
<1>1. DiskInv' /\ CrashInv'
  BY DEF FillerInv, DiskInv, IndexHasRow, CrashInv
<1>2. SessionInv' /\ CleanedUpUnlessTorn'
  BY DEF FillerInv, SessionInv, CleanedUpUnlessTorn, CleanedUp
<1> QED
  BY <1>1, <1>2 DEF FillerInv

\* The end of a session, and with it of the messages in transit.
LEMMA SessionGoneKeeps ==
  ASSUME TypeOK, NodeosInv, SessionGone, filler' \in Process, session' \in Session,
         torn' \in BOOLEAN
  PROVE  TypeOK' /\ NodeosInv'
BY DEF TypeOK, NodeosTypeOK, NodeosInv, SessionGone

LEMMA EndSessionKeeps ==
  ASSUME RdbInv, NEW p \in Process, RowsThere(p), UNCHANGED torn,
         ~torn => Resumable(p.db) /\ SafeKept(p.kept),
         NEW s \in {"stopped", "waiting"}, EndSession(s, p)
  PROVE  RdbInv'
<1>1. PICK e : e = Ended(p)
  OBVIOUS
<1>2. /\ e \in Process /\ e.db = p.db /\ e.kept = p.kept /\ e.passed = {}
      /\ Memory(e) = <<NoBlock, 0, 0, {}, {}>>
  BY <1>1, EndedIs, Zenon
<1>3. e.rows = {} /\ e.received = {} /\ RowsThere(e)
  BY <1>2 DEF Memory, RowsThere
<1>4. filler' = e /\ session' = s /\ SessionGone
  BY <1>1 DEF EndSession
<1>5. FillerInv'
  BY <1>2, <1>3, <1>4, OutOfSession
<1>6. TypeOK' /\ NodeosInv'
  BY <1>2, <1>4, SessionGoneKeeps DEF RdbInv, Session, TypeOK
<1> QED
  BY <1>5, <1>6 DEF RdbInv, FillerInv

\* A crash leaves one of the states it may.
LEMMA CrashKeeps ==
  ASSUME RdbInv, NEW K \in SUBSET (Db \X BOOLEAN), \A k \in K : HasRows(k[1]),
         ~torn => SafeKept(K), Crash(K)
  PROVE  RdbInv'
<1>1. PICK k \in K : filler' = Opened(k[1]) /\ torn' = (torn \/ k[2])
  BY DEF Crash
<1>2. PICK d, s : d = k[1] /\ s = k[2]
  OBVIOUS
<1>3. d \in Db /\ s \in BOOLEAN /\ HasRows(d)
  BY <1>1, <1>2
<1>4. PICK o : o = Opened(d)
  OBVIOUS
<1>5. /\ o \in Process /\ o.db = d /\ o.kept = {<<d, FALSE>>} /\ o.passed = {}
      /\ Memory(o) = <<NoBlock, 0, 0, {}, {}>>
  BY <1>3, <1>4, OpenedIs, Zenon
<1>6. o.rows = {} /\ o.received = {} /\ filler' = o
  BY <1>1, <1>2, <1>4, <1>5 DEF Memory
<1>7. RowsThere(o)
  <2>1. \A j \in o.kept : j[1] = d
    BY <1>5, KeptOne
  <2> QED
    BY <1>3, <1>5, <2>1 DEF RowsThere
<1>8. ASSUME ~torn' PROVE Resumable(o.db) /\ SafeKept(o.kept)
  <2>1. Resumable(d)
    BY <1>1, <1>2, <1>8, Zenon DEF SafeKept
  <2> QED
    BY <1>5, <2>1, FlushedSafe
<1>9. torn' \in BOOLEAN
  BY <1>1, <1>2, <1>3, Zenon
<1>10. session' = "stopped" /\ SessionGone
  BY DEF Crash
<1>11. FillerInv'
  BY <1>5, <1>6, <1>7, <1>8, <1>10, OutOfSession
<1>12. TypeOK' /\ NodeosInv'
  BY <1>5, <1>6, <1>9, <1>10, SessionGoneKeeps DEF RdbInv, Session
<1> QED
  BY <1>11, <1>12 DEF RdbInv, FillerInv

------------------------------------------------------------------------------
(* The filler's steps *)

LEMMA WireHead ==
  ASSUME TypeOK, NodeosInv, wire # <<>>
  PROVE  Head(wire) \in BlocksResult /\ Linked(Head(wire))
BY DEF TypeOK, NodeosTypeOK, NodeosInv

\* Taking a result off the wire keeps the rest linked.
LEMMA WireTail ==
  ASSUME TypeOK, NodeosInv, wire # <<>>, wire' = Tail(wire), UNCHANGED <<chain, lib, begin, next>>
  PROVE  NodeosTypeOK' /\ NodeosInv'
<1>1. wire' \in Seq(BlocksResult)
  BY DEF TypeOK, NodeosTypeOK
<1>2. \A k \in DOMAIN wire' : \E j \in DOMAIN wire : wire'[k] = wire[j]
  BY DEF TypeOK, NodeosTypeOK
<1>3. \A k \in DOMAIN wire' : Linked(wire'[k])
  BY <1>2 DEF NodeosInv
<1> QED
  BY <1>1, <1>3 DEF TypeOK, NodeosTypeOK, NodeosInv, Linked

\* The filler when a block is about to be applied, after a fork switch or not.
LEMMA BaseIs ==
  ASSUME RdbInv, session = "streaming", NEW m \in BlocksResult, m.this_block # NoBlock
  PROVE  /\ Base(m) \in Process /\ RowsThere(Base(m))
         /\ ~torn => Ready(Base(m))
<1>1. m.this_block \in Block /\ Num[m.this_block] \in Nat /\ 0 < Num[m.this_block]
  BY TreeAssumption DEF BlocksResult, MaybeBlock
<1>2. filler \in Process /\ RowsThere(filler) /\ (~torn => Ready(filler))
  BY FillerRows, FillerReady DEF RdbInv, FillerInv
<1>3. CASE Num[m.this_block] <= N(filler.head_id)
  <2>1. Base(m) = Switch(filler, Num[m.this_block])
    BY <1>3 DEF Base
  <2> QED
    BY <1>1, <1>2, <1>3, <2>1, SwitchKeeps, SwitchReady
<1>4. CASE ~(Num[m.this_block] <= N(filler.head_id))
  BY <1>2, <1>4 DEF Base
<1> QED
  BY <1>3, <1>4

LEMMA HandledIs ==
  ASSUME RdbInv, session = "streaming", NEW m \in BlocksResult, m.this_block # NoBlock,
         NEW part \in Parts(m)
  PROVE  /\ Handled(m, part) \in Process /\ RowsThere(Handled(m, part))
         /\ ~torn /\ Linked(m) /\ PrevMatches(m) => Ready(Handled(m, part))
<1>1. m.this_block \in Block /\ part \in SUBSET Row
  <2>1. m.this_block \in Block
    BY DEF BlocksResult, MaybeBlock
  <2> QED
    BY <2>1, RowsTyped DEF Parts
<1>2. PICK p : p = Base(m)
  OBVIOUS
<1>3. p \in Process /\ RowsThere(p) /\ (~torn => Ready(p))
  BY <1>2, BaseIs
<1>4. PICK q : q = IF m.this_block \in LargeBlock THEN Part(p, part) ELSE p
  OBVIOUS
<1>5. q \in Process /\ RowsThere(q) /\ (~torn => Ready(q) /\ q.head_id = p.head_id)
  BY <1>1, <1>3, <1>4, PartIs
<1>6. PICK a : a = Applied(q, m, part)
  OBVIOUS
<1>7. ~torn /\ PrevMatches(m) => Continues(q, m)
  BY <1>2, <1>5 DEF PrevMatches, Continues
<1>8. /\ a \in Process /\ RowsThere(a)
      /\ ~torn /\ Linked(m) /\ PrevMatches(m) => Ready(a)
  BY <1>5, <1>6, <1>7, AppliedIs
<1>9. Handled(m, part) = Committed(a, m)
  BY <1>2, <1>4, <1>6 DEF Handled
<1> QED
  BY <1>8, <1>9, CommittedIs

LEMMA ReceiveBlockKeeps ==
  ASSUME RdbInv, NEW part \in Parts(Head(wire)), ReceiveBlock(part)
  PROVE  RdbInv'
<1>1. PICK m : m = Head(wire)
  OBVIOUS
<1>2. /\ m.this_block # NoBlock /\ PrevMatches(m) /\ session = "streaming" /\ wire # <<>>
      /\ filler' = Done(Handled(m, part)) /\ wire' = Tail(wire)
      /\ UNCHANGED <<chain, lib, begin, next, session, torn>>
  BY <1>1 DEF ReceiveBlock, Taken
<1>3. m \in BlocksResult /\ Linked(m)
  BY <1>1, <1>2, WireHead DEF RdbInv
<1>4. PICK p : p = Handled(m, part)
  OBVIOUS
<1>5. p \in Process /\ RowsThere(p) /\ (~torn => Ready(p))
  BY <1>1, <1>2, <1>3, <1>4, HandledIs
<1>6. FillerInv'
  BY <1>2, <1>4, <1>5, InSession
<1>7. NodeosTypeOK' /\ NodeosInv'
  BY <1>2, WireTail DEF RdbInv
<1>8. TypeOK'
  BY <1>2, <1>4, <1>5, <1>7, DoneIs DEF RdbInv, TypeOK
<1> QED
  BY <1>6, <1>7, <1>8 DEF RdbInv, FillerInv

LEMMA PrevMismatchKeeps ==
  ASSUME RdbInv, PrevMismatch
  PROVE  RdbInv'
<1>1. PICK m : m = Head(wire)
  OBVIOUS
<1>2. /\ m.this_block # NoBlock /\ session = "streaming" /\ wire # <<>>
      /\ EndSession("stopped", Base(m)) /\ UNCHANGED torn
  BY <1>1 DEF PrevMismatch, Taken
<1>3. m \in BlocksResult
  BY <1>1, <1>2, WireHead DEF RdbInv
<1>4. PICK p : p = Base(m)
  OBVIOUS
<1>5. p \in Process /\ RowsThere(p) /\ (~torn => Resumable(p.db) /\ SafeKept(p.kept))
  BY <1>2, <1>3, <1>4, BaseIs DEF Ready
<1> QED
  BY <1>2, <1>4, <1>5, EndSessionKeeps

LEMMA StopAtBlockKeeps ==
  ASSUME RdbInv, StopAtBlock
  PROVE  RdbInv'
<1>1. session = "streaming" /\ EndSession("stopped", EndWrite[filler]) /\ UNCHANGED torn
  BY DEF StopAtBlock, Taken
<1>2. filler \in Process /\ RowsThere(filler) /\ (~torn => Ready(filler))
  BY <1>1, FillerRows, FillerReady DEF RdbInv, FillerInv
<1>3. PICK p : p = EndWrite[filler]
  OBVIOUS
<1>4. p \in Process /\ RowsThere(p)
  BY <1>2, <1>3, EndWriteIs, EndWriteRows, Zenon
<1>5. ASSUME ~torn PROVE Resumable(p.db) /\ SafeKept(p.kept)
  <2>1. /\ Sound(filler) /\ SafeKept(filler.kept) /\ SafeKept(filler.passed)
        /\ (filler.switching \/ (Resumable(filler.db) /\ filler.db.status.first <= filler.first))
    BY <1>2, <1>5, Zenon DEF Ready
  <2>2. Ready(p)
    BY <1>2, <1>3, <2>1, EndWriteReady, Zenon
  <2> QED
    BY <2>2 DEF Ready
<1> QED
  BY <1>1, <1>3, <1>4, <1>5, EndSessionKeeps

\* A restart, after a crash or not.
LEMMA CleanedUpIs ==
  ASSUME RdbInv, session = "connecting"
  PROVE  LET p == CleanUp(Loaded(filler))
         IN /\ p \in Process /\ RowsThere(p)
            /\ ~torn => /\ Ready(p) /\ p.received = {}
                        /\ \A r \in p.db.content : Num[r.block] <= N(p.head_id)
<1>1. PICK q : q = Loaded(filler)
  OBVIOUS
<1>2. filler \in Process /\ RowsThere(filler)
  BY FillerRows DEF RdbInv, FillerInv
<1>3. /\ q \in Process /\ q.db = filler.db /\ q.kept = filler.kept /\ q.passed = filler.passed
      /\ q.head_id = filler.db.status.head_id /\ q.first = filler.db.status.first
      /\ q.rows = filler.rows /\ q.received = filler.received
  BY <1>1, <1>2, LoadedIs, Zenon
<1>4. RowsThere(q)
  BY <1>2, <1>3 DEF RowsThere
<1>5. q.rows = {} /\ q.received = {}
  BY <1>3 DEF RdbInv, SessionInv
<1>6. ASSUME ~torn
      PROVE  /\ Ready(CleanUp(q)) /\ CleanUp(q).received = {}
             /\ \A r \in CleanUp(q).db.content : Num[r.block] <= N(CleanUp(q).head_id)
  <2>1. Resumable(q.db) /\ SafeKept(q.kept) /\ SafeKept(q.passed)
    BY <1>3, <1>6, FillerSafe DEF RdbInv, FillerInv
  <2>2. q.head_id = q.db.status.head_id /\ q.first = q.db.status.first
    BY <1>3
  <2> QED
    BY <1>3, <1>5, <2>1, <2>2, CleanUpReady, Zenon
<1> QED
  BY <1>1, <1>3, <1>4, <1>6, CleanUpKeeps, Zenon

LEMMA ReceivedAbiKeeps ==
  ASSUME RdbInv, ReceivedAbi
  PROVE  RdbInv'
<1>1. /\ session = "connecting" /\ session' = "querying" /\ UNCHANGED <<nodeosVars, torn>>
      /\ filler' = Done(CleanUp(Loaded(filler)))
  BY DEF ReceivedAbi
<1>2. PICK p : p = CleanUp(Loaded(filler))
  OBVIOUS
<1>3. /\ p \in Process /\ RowsThere(p)
      /\ ~torn => /\ Ready(p) /\ p.received = {}
                  /\ \A r \in p.db.content : Num[r.block] <= N(p.head_id)
  BY <1>1, <1>2, CleanedUpIs, Zenon
<1>4. FillerInv'
  BY <1>1, <1>2, <1>3, InSession
<1>5. TypeOK' /\ NodeosInv'
  BY <1>1, <1>2, <1>3, DoneIs
     DEF RdbInv, TypeOK, Session, NodeosTypeOK, NodeosInv, nodeosVars
<1> QED
  BY <1>4, <1>5 DEF RdbInv, FillerInv

\* Where nodeos goes on from is a number.
LEMMA NextTyped ==
  ASSUME NEW p \in Process, begin \in Nat
  PROVE  StreamFrom(Max({SkipTo, N(p.head_id) + 1, begin}), Positions(p)) \in Nat
<1>1. PICK s, P : s = Max({SkipTo, N(p.head_id) + 1, begin}) /\ P = Positions(p)
  OBVIOUS
<1>2. s \in Nat
  BY <1>1, MaxInSet, ProcessTyped, FillAssumption
<1>3. P \in SUBSET Block
  BY <1>1, ProcessTyped, DbTyped DEF Positions
<1>4. PICK S : S = {s} \cup {Num[q] : q \in {x \in P : Num[x] < s /\ Id(Num[x]) # x}}
  OBVIOUS
<1>5. S \in SUBSET Nat /\ S # {}
  BY <1>2, <1>3, <1>4, TreeAssumption
<1>6. Min(S) \in Nat
  BY <1>5, MinInSet
<1>7. StreamFrom(s, P) = Min(S)
  BY <1>4 DEF StreamFrom
<1> QED
  BY <1>1, <1>6, <1>7

LEMMA ReceivedStatusKeeps ==
  ASSUME RdbInv, ReceivedStatus
  PROVE  RdbInv'
<1>1. session = "querying" /\ UNCHANGED torn
  BY DEF ReceivedStatus
<1>2. filler \in Process /\ RowsThere(filler)
  BY FillerRows DEF RdbInv, FillerInv
<1>3. CASE EndSession("stopped", filler)
  <2>1. ~torn => Resumable(filler.db) /\ SafeKept(filler.kept)
    BY FillerSafe DEF RdbInv, FillerInv
  <2> QED
    BY <1>1, <1>2, <1>3, <2>1, EndSessionKeeps
<1>4. CASE ~EndSession("stopped", filler)
  <2>1. /\ session' = "streaming" /\ UNCHANGED <<chain, lib, begin, wire, filler>>
        /\ next' = StreamFrom(Max({SkipTo, N(filler.head_id) + 1, begin}), Positions(filler))
    BY <1>4 DEF ReceivedStatus
  <2>2. next' \in Nat
    BY <1>2, <2>1, NextTyped DEF RdbInv, TypeOK, NodeosTypeOK
  <2>3. FillerInv'
    BY <1>1, <2>1, SameFiller DEF RdbInv, FillerInv
  <2>4. TypeOK' /\ NodeosInv'
    BY <1>1, <2>1, <2>2 DEF RdbInv, TypeOK, Session, NodeosTypeOK, NodeosInv
  <2> QED
    BY <2>3, <2>4 DEF RdbInv, FillerInv
<1> QED
  BY <1>3, <1>4

LEMMA SkipResultKeeps ==
  ASSUME RdbInv, SkipResult
  PROVE  RdbInv'
<1>1. /\ wire # <<>> /\ wire' = Tail(wire)
      /\ UNCHANGED <<chain, lib, begin, next, session, filler, torn>>
  BY DEF SkipResult, Taken
<1>2. FillerInv'
  BY <1>1, SameFiller DEF RdbInv, FillerInv
<1>3. NodeosTypeOK' /\ NodeosInv'
  BY <1>1, WireTail DEF RdbInv
<1>4. TypeOK'
  BY <1>1, <1>3 DEF RdbInv, TypeOK
<1> QED
  BY <1>2, <1>3, <1>4 DEF RdbInv, FillerInv

LEMMA RetryKeeps ==
  ASSUME RdbInv, Retry
  PROVE  RdbInv'
<1>1. /\ session = "waiting" /\ session' = "connecting"
      /\ UNCHANGED <<chain, lib, begin, next, wire, filler, torn>>
  BY DEF Retry, nodeosVars
<1>2. FillerInv'
  BY <1>1, SameFiller DEF RdbInv, FillerInv
<1>3. TypeOK' /\ NodeosInv'
  BY <1>1 DEF RdbInv, TypeOK, Session, NodeosTypeOK, NodeosInv
<1> QED
  BY <1>2, <1>3 DEF RdbInv, FillerInv

LEMMA OperatorStartKeeps ==
  ASSUME RdbInv, OperatorStart
  PROVE  RdbInv'
<1>1. /\ session' = "connecting" /\ filler' = Opened(filler.db)
      /\ UNCHANGED <<chain, lib, begin, next, wire, torn>>
  BY DEF OperatorStart, nodeosVars
<1>2. filler \in Process /\ RowsThere(filler) /\ filler.db \in Db
  BY FillerRows, ProcessTyped DEF RdbInv, FillerInv
<1>3. PICK o : o = Opened(filler.db)
  OBVIOUS
<1>4. /\ o \in Process /\ o.db = filler.db /\ o.kept = {<<filler.db, FALSE>>} /\ o.passed = {}
      /\ Memory(o) = <<NoBlock, 0, 0, {}, {}>>
  BY <1>2, <1>3, OpenedIs, Zenon
<1>5. o.rows = {} /\ o.received = {}
  BY <1>4 DEF Memory
<1>6. RowsThere(o)
  <2>1. \A j \in o.kept : j[1] = filler.db
    BY <1>4, KeptOne
  <2> QED
    BY <1>2, <1>4, <2>1 DEF RowsThere
<1>7. ASSUME ~torn PROVE Resumable(o.db) /\ SafeKept(o.kept)
  <2>1. Resumable(filler.db)
    BY <1>7, FillerSafe DEF RdbInv, FillerInv
  <2> QED
    BY <1>4, <2>1, FlushedSafe
<1>8. FillerInv'
  BY <1>1, <1>3, <1>4, <1>5, <1>6, <1>7, OutOfSession
<1>9. TypeOK' /\ NodeosInv'
  BY <1>1, <1>3, <1>4 DEF RdbInv, TypeOK, Session, NodeosTypeOK, NodeosInv
<1> QED
  BY <1>8, <1>9 DEF RdbInv, FillerInv

------------------------------------------------------------------------------
(* Faults *)

LEMMA ConnectionLostKeeps ==
  ASSUME RdbInv, ConnectionLost
  PROVE  RdbInv'
<1>1. EndSession("waiting", filler) /\ UNCHANGED torn
  BY DEF ConnectionLost
<1>2. filler \in Process /\ RowsThere(filler)
  BY FillerRows DEF RdbInv, FillerInv
<1>3. ~torn => Resumable(filler.db) /\ SafeKept(filler.kept)
  BY FillerSafe DEF RdbInv, FillerInv
<1> QED
  BY <1>1, <1>2, <1>3, EndSessionKeeps

LEMMA DieKeeps ==
  ASSUME RdbInv, Die
  PROVE  RdbInv'
<1>1. filler \in Process /\ RowsThere(filler) /\ (~torn => SafeKept(filler.kept))
  BY FillerRows, FillerSafe DEF RdbInv, FillerInv
<1>2. filler.kept \in SUBSET (Db \X BOOLEAN) /\ \A k \in filler.kept : HasRows(k[1])
  BY <1>1, ProcessTyped DEF RowsThere
<1> QED
  BY <1>1, <1>2, CrashKeeps DEF Die

\* A crash inside a handler that cleans up, switches forks or trims.
LEMMA DieInsideKeeps ==
  ASSUME RdbInv, DieInside
  PROVE  RdbInv'
<1>1. ASSUME NEW p \in Process, RowsThere(p), ~torn => Ready(p), Crash(p.passed)
      PROVE  RdbInv'
  <2>1. p.passed \in SUBSET (Db \X BOOLEAN) /\ \A k \in p.passed : HasRows(k[1])
    BY <1>1, ProcessTyped DEF RowsThere
  <2> QED
    BY <1>1, <2>1, CrashKeeps DEF Ready
<1>2. CASE session = "connecting" /\ Crash(CleanUp(Loaded(filler)).passed)
  <2>1. PICK p : p = CleanUp(Loaded(filler))
    OBVIOUS
  <2>2. p \in Process /\ RowsThere(p) /\ (~torn => Ready(p))
    BY <1>2, <2>1, CleanedUpIs, Zenon
  <2> QED
    BY <1>1, <1>2, <2>1, <2>2
<1>3. CASE ~(session = "connecting" /\ Crash(CleanUp(Loaded(filler)).passed))
  <2>1. PICK m : m = Head(wire)
    OBVIOUS
  <2>2. PICK part \in Parts(m) :
          /\ session = "streaming" /\ wire # <<>> /\ m.this_block # NoBlock
          /\ Crash(IF PrevMatches(m) THEN Handled(m, part).passed ELSE Base(m).passed)
    BY <1>3, <2>1 DEF DieInside, Taken
  <2>3. m \in BlocksResult /\ Linked(m)
    BY <2>1, <2>2, WireHead DEF RdbInv
  <2>4. PICK p : p = IF PrevMatches(m) THEN Handled(m, part) ELSE Base(m)
    OBVIOUS
  <2>5. p \in Process /\ RowsThere(p) /\ (~torn => Ready(p))
    BY <2>2, <2>3, <2>4, HandledIs, BaseIs
  <2>6. Crash(p.passed)
    BY <2>2, <2>4
  <2> QED
    BY <1>1, <2>5, <2>6
<1> QED
  BY <1>2, <1>3

------------------------------------------------------------------------------
(* nodeos *)

\* Applying a block, after the pops of a fork switch, leaves nodeos one branch.
LEMMA ApplyBlockStretch ==
  ASSUME TypeOK, NodeosInv, NEW b \in Block, ApplyBlock(b)
  PROVE  IsStretch(chain')
<1>1. PICK S, a : S = Below(chain, Num[b]) /\ a = Parent[b]
  OBVIOUS
<1>2. a \in chain /\ a \in Block /\ a # NoBlock
  BY <1>1, TreeAssumption DEF ApplyBlock, TypeOK, NodeosTypeOK
<1>3. Num[b] \in Nat /\ Num[b] = Num[a] + 1 /\ Num[a] \in Nat
  BY <1>1, <1>2, TreeAssumption
<1>4. S \in SUBSET Block /\ IsStretch(S)
  BY <1>1, <1>3, StretchBelow DEF TypeOK, NodeosTypeOK, NodeosInv, Below
<1>5. TipIs(S, a)
  BY <1>1, <1>2, <1>3, TreeAssumption DEF TipIs, Below, NodeosInv, TypeOK, NodeosTypeOK
<1>6. IsStretch(S \cup {b})
  BY <1>1, <1>2, <1>4, <1>5, StretchExtended DEF MaybeBlock
<1> QED
  BY <1>1, <1>6 DEF ApplyBlock

\* The two blocks of a result nodeos sends are a block and its parent.
LEMMA SentLinked ==
  ASSUME TypeOK, NodeosInv,
         NEW m \in BlocksResult, m.this_block = Id(next), m.prev_block = Id(next - 1)
  PROVE  Linked(m)
<1>1. ASSUME NEW n, Id(n) # NoBlock PROVE Id(n) \in chain /\ Num[Id(n)] = n
  BY <1>1 DEF Id, At
<1> SUFFICES ASSUME Id(next) # NoBlock, Id(next - 1) # NoBlock
             PROVE  Id(next - 1) = Parent[Id(next)]
  BY DEF Linked
<1>2. /\ Id(next) \in chain /\ Num[Id(next)] = next
      /\ Id(next - 1) \in chain /\ Num[Id(next - 1)] = next - 1
  BY <1>1
<1>3. next \in Nat
  BY DEF TypeOK, NodeosTypeOK
<1> HIDE DEF Id
<1> QED
  BY <1>2, <1>3 DEF NodeosInv, IsStretch

LEMMA NodeosStepKeeps ==
  ASSUME RdbInv, NodeosStep
  PROVE  RdbInv'
<1>1. TypeOK /\ NodeosInv /\ NodeosTypeOK /\ UNCHANGED <<session, filler, torn>>
  BY DEF RdbInv, NodeosStep, TypeOK
<1>2. ASSUME NEW b \in Block, ApplyBlock(b) PROVE NodeosTypeOK' /\ NodeosInv'
  <2>1. IsStretch(chain')
    BY <1>1, <1>2, ApplyBlockStretch
  <2>2. chain' \subseteq Block /\ next' \in Nat /\ UNCHANGED <<lib, begin, wire>>
    BY <1>1, <1>2, TreeAssumption DEF ApplyBlock, Below, NodeosTypeOK
  <2> QED
    BY <1>1, <2>1, <2>2 DEF NodeosTypeOK, NodeosInv
<1>3. ASSUME AdvanceLib PROVE NodeosTypeOK' /\ NodeosInv'
  <2>1. lib' = lib + 1 /\ UNCHANGED <<chain, begin, next, wire>>
    BY <1>3 DEF AdvanceLib
  <2>2. NodeosTypeOK'
    BY <1>1, <2>1 DEF NodeosTypeOK
  <2>3. NodeosInv'
    BY <1>1, <2>1 DEF NodeosInv
  <2> QED
    BY <2>2, <2>3
<1>4. ASSUME SendBlocksResult PROVE NodeosTypeOK' /\ NodeosInv'
  <2>1. PICK m : m = [this_block |-> Id(next), prev_block |-> Id(next - 1), lib |-> lib]
    OBVIOUS
  <2>2. m \in BlocksResult
    BY <1>1, <2>1, AtTyped DEF Id, MaybeBlock, BlocksResult, NodeosTypeOK
  <2>3. Linked(m)
    BY <1>1, <2>1, <2>2, SentLinked
  <2>4. wire' = Append(wire, m) /\ next' = next + 1 /\ UNCHANGED <<chain, lib, begin>>
    BY <1>4, <2>1 DEF SendBlocksResult
  <2>5. wire' \in Seq(BlocksResult)
    BY <1>1, <2>2, <2>4 DEF NodeosTypeOK
  <2>6. \A k \in DOMAIN wire' : wire'[k] = m \/ (k \in DOMAIN wire /\ wire'[k] = wire[k])
    BY <1>1, <2>2, <2>4 DEF NodeosTypeOK
  <2>7. \A k \in DOMAIN wire' : Linked(wire'[k])
    BY <1>1, <2>3, <2>6 DEF NodeosInv
  <2>8. NodeosTypeOK'
    BY <1>1, <2>4, <2>5 DEF NodeosTypeOK
  <2>9. NodeosInv'
    BY <1>1, <2>4, <2>7 DEF NodeosInv
  <2> QED
    BY <2>8, <2>9
<1>5. ASSUME NEW n \in 0..Height, NEW bg \in LogBegins, ReplaceNode(n, bg)
      PROVE  NodeosTypeOK' /\ NodeosInv'
  <2>1. chain' = Below(chain, n + 1) /\ begin' = bg /\ UNCHANGED <<lib, next, wire>>
        /\ n + 1 \in Nat
    BY <1>5 DEF ReplaceNode
  <2>2. IsStretch(chain') /\ chain' \subseteq Block
    BY <1>1, <2>1, StretchBelow DEF Below, NodeosInv, NodeosTypeOK
  <2>3. bg \in Nat
    BY NodeosAssumption
  <2> QED
    BY <1>1, <2>1, <2>2, <2>3 DEF NodeosTypeOK, NodeosInv
<1>6. NodeosTypeOK' /\ NodeosInv'
  BY <1>2, <1>3, <1>4, <1>5 DEF NodeosStep
<1>7. TypeOK'
  BY <1>1, <1>6 DEF TypeOK
<1>8. FillerInv'
  BY <1>1, SameFiller DEF RdbInv, FillerInv
<1> QED
  BY <1>6, <1>7, <1>8 DEF RdbInv, FillerInv

------------------------------------------------------------------------------
(* The theorems *)

LEMMA InitInv == Init => RdbInv
<1> SUFFICES ASSUME Init PROVE RdbInv
  OBVIOUS
<1>1. /\ chain = Genesis /\ lib = 1 /\ begin = 1 /\ next = 0 /\ wire = <<>>
      /\ session = "stopped" /\ filler = Opened(EmptyDb) /\ torn = FALSE
  BY DEF Init
<1>2. EmptyDb \in Db
  BY DEF EmptyDb, Db, FillStatus, NoStatus, MaybeBlock
<1>3. /\ filler \in Process /\ filler.db = EmptyDb /\ filler.kept = {<<EmptyDb, FALSE>>}
      /\ filler.passed = {} /\ Memory(filler) = <<NoBlock, 0, 0, {}, {}>>
  BY <1>1, <1>2, OpenedIs, Zenon
<1>4. filler.rows = {} /\ filler.received = {}
  BY <1>3 DEF Memory
<1>5. TypeOK
  <2>1. NodeosTypeOK
    BY <1>1, NodeosAssumption DEF NodeosTypeOK
  <2>2. session \in Session /\ torn \in BOOLEAN
    BY <1>1 DEF Session
  <2> QED
    BY <1>3, <2>1, <2>2 DEF TypeOK
<1>6. NodeosInv
  BY <1>1, NodeosAssumption DEF NodeosInv
<1>7. HasRows(EmptyDb)
  BY DEF HasRows, EmptyDb
<1>8. Resumable(EmptyDb)
  BY DEF Resumable, EmptyDb, NoStatus, Covered, Below, IsStretch, TipIs
<1>9. \A k \in filler.kept : k[1] = EmptyDb
  BY <1>3, KeptOne
<1>10. DiskInv /\ CrashInv
  BY <1>3, <1>7, <1>8, <1>9 DEF DiskInv, IndexHasRow, CrashInv
<1>11. SessionInv /\ CleanedUpUnlessTorn
  BY <1>1, <1>4 DEF SessionInv, CleanedUpUnlessTorn, CleanedUp
<1> QED
  BY <1>5, <1>6, <1>10, <1>11 DEF RdbInv

LEMMA StepInv == RdbInv /\ [Next]_vars => RdbInv'
<1> SUFFICES ASSUME RdbInv, [Next]_vars PROVE RdbInv'
  OBVIOUS
<1>1. CASE FillerStep
  <2>1. ASSUME NEW part \in Parts(Head(wire)), ReceiveBlock(part) PROVE RdbInv'
    BY <2>1, ReceiveBlockKeeps
  <2> QED
    BY <1>1, <2>1, RetryKeeps, ReceivedAbiKeeps, ReceivedStatusKeeps, SkipResultKeeps,
       StopAtBlockKeeps, PrevMismatchKeeps DEF FillerStep
<1>2. CASE UNCHANGED vars
  <2>1. UNCHANGED <<chain, lib, begin, next, wire, session, filler, torn>>
    BY <1>2 DEF vars, nodeosVars
  <2>2. FillerInv'
    BY <2>1, SameFiller DEF RdbInv, FillerInv
  <2>3. TypeOK' /\ NodeosInv'
    BY <2>1 DEF RdbInv, TypeOK, NodeosTypeOK, NodeosInv
  <2> QED
    BY <2>2, <2>3 DEF RdbInv, FillerInv
<1> QED
  BY <1>1, <1>2, NodeosStepKeeps, OperatorStartKeeps, ConnectionLostKeeps, DieKeeps,
     DieInsideKeeps DEF Next

\* The inductive invariant: what a crash may leave at any moment, in the middle of a
\* handler too, is a database a restart can go on from.
THEOREM RdbInvariant == Spec => []RdbInv
<1>1. Init => RdbInv
  BY InitInv
<1>2. RdbInv /\ [Next]_vars => RdbInv'
  BY StepInv
<1> QED
  BY <1>1, <1>2, PTL DEF Spec

\* No crash leaves an index entry without its row: end_write writes rows first,
\* truncate erases index entries first and trim does both in one batch.
THEOREM EveryEntryHasItsRow == Spec => []IndexHasRow
<1>1. RdbInv => IndexHasRow
  BY DEF RdbInv, DiskInv
<1> QED
  BY <1>1, RdbInvariant, PTL

\* Unless a crash has cut a fork switch in two: right after the clean-up of received_abi
\* the received blocks are one stretch that ends in the head, and no row lies past it, as
\* check() expects.
THEOREM RestartCleansUp == Spec => []CleanedUpUnlessTorn
<1>1. RdbInv => CleanedUpUnlessTorn
  BY DEF RdbInv
<1> QED
  BY <1>1, RdbInvariant, PTL

\* Unless a crash has cut a fork switch in two: in a session no received block lies below
\* `first`, where trim() begins.
THEOREM NothingBelowFirst == Spec => []FirstIsLowest
<1>1. RdbInv => FirstIsLowest
  BY DEF RdbInv, SessionInv, FirstIsLowest, Sound, AllReceived
<1> QED
  BY <1>1, RdbInvariant, PTL
------------------------------------------------------------------------------
(* Blocks arrive in an order that links.  What a handler may leave of the  *)
(* received blocks, and of the irreversible block it goes by.              *)

\* Database d has no more than process p has received, and no newer irreversible block.
Within(d, p) == d \in Db /\ d.received \subseteq AllReceived(p) /\ d.status.irreversible <= p.irreversible

\* Process q comes from p by batches that receive nothing new.
Narrows(p, q) ==
  /\ q \in Process /\ q.irreversible = p.irreversible /\ AllReceived(q) \subseteq AllReceived(p)
  /\ q.db.status.irreversible <= q.irreversible
  /\ \A k \in q.kept \cup q.passed : k \in p.kept \cup p.passed \/ Within(k[1], p)

LEMMA NarrowsTransitive ==
  ASSUME NEW p, NEW q, NEW r, Narrows(p, q), Narrows(q, r)
  PROVE  Narrows(p, r)
<1>1. \A d : Within(d, q) => Within(d, p)
  BY DEF Within, Narrows
<1> QED
  BY <1>1 DEF Narrows

\* A process with the same batches done.
LEMMA NarrowsSame ==
  ASSUME NEW p, NEW q \in Process, q.db = p.db, q.kept = p.kept, q.passed = p.passed,
         q.irreversible = p.irreversible, q.received \subseteq p.received,
         p.db.status.irreversible <= p.irreversible
  PROVE  Narrows(p, q)
BY DEF Narrows, AllReceived

LEMMA NarrowsKept ==
  ASSUME NEW p, NEW K, NEW c, NEW d, NEW s, K \subseteq p.kept \cup p.passed,
         Within(c, p), Within(d, p), NEW k \in K \cup {<<c, s>>} \cup {<<d, s>>}
  PROVE  k \in p.kept \cup p.passed \/ Within(k[1], p)
<1>1. k \in K \/ (k[1] = c /\ k[2] = s) \/ (k[1] = d /\ k[2] = s)
  BY KeptCases
<1> QED
  BY <1>1, Zenon

\* The two databases of end_write.
LEMMA BatchesWithin ==
  ASSUME NEW p \in Process, NEW status \in FillStatus,
         p.db.status.irreversible <= p.irreversible, status.irreversible <= p.irreversible
  PROVE  Within(ContentOf(p), p) /\ Within(IndexedOf(p, status), p)
<1>1. PICK c, d : c = ContentOf(p) /\ d = IndexedOf(p, status)
  OBVIOUS
<1>2. c \in Db /\ d \in Db
  BY <1>1, ContentFirstIs, Zenon
<1>3. /\ c.status = p.db.status /\ d.received = c.received /\ d.status = status
      /\ c.received = {b \in p.db.received : Num[b] \notin {Num[a] : a \in p.received}}
                        \cup p.received
  BY <1>1, BatchesHave, Zenon
<1>4. Within(c, p) /\ Within(d, p)
  BY <1>2, <1>3 DEF Within, AllReceived
<1> QED
  BY <1>1, <1>4, Zenon

LEMMA EndWriteNarrows ==
  ASSUME NEW p \in Process, p.db.status.irreversible <= p.irreversible
  PROVE  LET q == EndWrite[p]
         IN Narrows(p, q) /\ q.head_id = p.head_id /\ q.received = {}
<1>1. PICK c, d, q : c = ContentOf(p) /\ d = IndexedOf(p, Status(p)) /\ q = EndWrite[p]
  OBVIOUS
<1>2. Within(c, p) /\ Within(d, p) /\ d.status = Status(p)
  BY <1>1, StatusTyped, BatchesWithin, BatchesHave, Zenon
<1>3. /\ q \in Process /\ q.db = d /\ q.passed = p.passed
      /\ q.kept = p.kept \cup {<<c, p.switching>>} \cup {<<d, p.switching>>}
      /\ Memory(q) = <<p.head_id, p.irreversible, p.first, {}, {}>>
  BY <1>1, EndWriteIs, Zenon
<1>4. q.head_id = p.head_id /\ q.irreversible = p.irreversible /\ q.received = {}
  BY <1>3 DEF Memory
<1>5. \A k \in q.kept : k \in p.kept \cup p.passed \/ Within(k[1], p)
  BY <1>2, <1>3, NarrowsKept
<1>6. AllReceived(q) \subseteq AllReceived(p) /\ q.db.status.irreversible <= q.irreversible
  BY <1>2, <1>3, <1>4 DEF Within, AllReceived
<1>7. Narrows(p, q)
  BY <1>3, <1>4, <1>5, <1>6 DEF Narrows
<1> QED
  BY <1>1, <1>4, <1>7, Zenon

LEMMA PartNarrows ==
  ASSUME NEW p \in Process, p.db.status.irreversible <= p.irreversible, NEW part \in SUBSET Row
  PROVE  LET q == Part(p, part) IN Narrows(p, q) /\ q.head_id = p.head_id
<1>1. PICK e : e = [p EXCEPT !.rows = @ \cup part]
  OBVIOUS
<1>2. /\ e \in Process /\ e.db = p.db /\ e.kept = p.kept /\ e.passed = p.passed
      /\ e.head_id = p.head_id /\ e.received = p.received /\ e.irreversible = p.irreversible
  BY <1>1 DEF Process
<1>3. Narrows(p, e)
  BY <1>2, NarrowsSame
<1>4. PICK c, d, q : c = ContentOf(e) /\ d = IndexedOf(e, e.db.status) /\ q = EndPart[e]
  OBVIOUS
<1>5. Within(c, e) /\ Within(d, e) /\ d.status = e.db.status
  BY <1>2, <1>4, ProcessTyped, DbTyped, BatchesWithin, BatchesHave, Zenon
<1>6. /\ q \in Process /\ q.db = d /\ q.passed = e.passed
      /\ q.kept = e.kept \cup {<<c, e.switching>>} \cup {<<d, e.switching>>}
      /\ Memory(q) = <<e.head_id, e.irreversible, e.first, {}, {}>>
  BY <1>2, <1>4, EndPartIs, Zenon
<1>7. q.head_id = e.head_id /\ q.irreversible = e.irreversible /\ q.received = {}
  BY <1>6 DEF Memory
<1>8. \A k \in q.kept : k \in e.kept \cup e.passed \/ Within(k[1], e)
  BY <1>5, <1>6, NarrowsKept
<1>9. AllReceived(q) \subseteq AllReceived(e) /\ q.db.status.irreversible <= q.irreversible
  BY <1>5, <1>6, <1>7 DEF Within, AllReceived
<1>10. Narrows(e, q)
  BY <1>6, <1>7, <1>8, <1>9 DEF Narrows
<1>11. Part(p, part) = q
  BY <1>1, <1>4, Zenon DEF Part
<1> QED
  BY <1>2, <1>3, <1>7, <1>10, <1>11, NarrowsTransitive, Zenon

\* truncate's head, when it finds one, is the block before n.
LEMMA TruncateNarrows ==
  ASSUME NEW p \in Process, p.db.status.irreversible <= p.irreversible, p.received = {},
         NEW n \in Nat
  PROVE  LET q == Truncate(n)[p]
         IN /\ Narrows(p, q) /\ q.received = {} /\ AllReceived(q) \subseteq Below(AllReceived(p), n)
            /\ q.head_id # NoBlock => q.head_id \in AllReceived(p) /\ Num[q.head_id] = n - 1
<1>1. PICK u, c, h, q : /\ u = Unindexed(p.db, n) /\ c = Cut(u, n) /\ h = At(p.db.received, n - 1)
                        /\ q = Truncate(n)[p]
  OBVIOUS
<1>2. p.db \in Db /\ p.db.received \in SUBSET Block
  BY ProcessTyped, DbTyped
<1>3. /\ u \in Db /\ u.received = p.db.received /\ u.status = p.db.status
      /\ c \in Db /\ c.received = {b \in p.db.received : ~(Num[b] >= n)} /\ c.status = p.db.status
  BY <1>1, <1>2, CutHas, Zenon
<1>4. /\ q \in Process /\ q.db = c /\ q.head_id = h /\ q.irreversible = p.irreversible
      /\ q.received = {} /\ q.passed = p.passed \cup p.kept
      /\ q.kept = {<<p.db, FALSE>>} \cup {<<u, p.switching>>} \cup {<<c, p.switching>>}
  BY <1>1, TruncateIs, Zenon
<1>5. Within(u, p) /\ Within(c, p) /\ Within(p.db, p)
  BY <1>2, <1>3 DEF Within, AllReceived
<1>6. ASSUME NEW k \in q.kept PROVE Within(k[1], p)
  <2>1. PICK K, s : K = {<<p.db, FALSE>>} /\ s = p.switching
    OBVIOUS
  <2>2. k \in K \cup {<<u, s>>} \cup {<<c, s>>}
    BY <1>4, <1>6, <2>1, Zenon
  <2>3. k \in K \/ k[1] = u \/ k[1] = c
    BY <2>2, KeptCases
  <2>4. k \in K => k[1] = p.db
    BY <2>1, KeptOne
  <2> QED
    BY <1>5, <2>3, <2>4, Zenon
<1>7. AllReceived(q) \subseteq Below(AllReceived(p), n)
  BY <1>2, <1>3, <1>4, TreeAssumption DEF AllReceived, Below
<1>8. Narrows(p, q)
  BY <1>3, <1>4, <1>6, <1>7 DEF Narrows, Below
<1>9. h # NoBlock => h \in AllReceived(p) /\ Num[h] = n - 1
  BY <1>1 DEF At, AllReceived
<1> QED
  BY <1>1, <1>4, <1>7, <1>8, <1>9, Zenon

LEMMA FlushNarrows ==
  ASSUME NEW p \in Process, p.db.status.irreversible <= p.irreversible
  PROVE  LET q == Flush(p)
         IN Narrows(p, q) /\ q.head_id = p.head_id /\ q.received = p.received
<1>1. PICK q : q = Flush(p)
  OBVIOUS
<1>2. /\ q \in Process /\ q.db = p.db /\ q.kept = {<<p.db, FALSE>>}
      /\ Memory(q) = Memory(p) /\ q.passed = p.passed \cup p.kept
  BY <1>1, Flushed, Zenon
<1>3. q.head_id = p.head_id /\ q.irreversible = p.irreversible /\ q.received = p.received
  BY <1>2 DEF Memory
<1>4. Within(p.db, p) /\ \A k \in q.kept : k[1] = p.db
  BY <1>2, KeptOne, ProcessTyped DEF Within, AllReceived
<1>5. Narrows(p, q)
  BY <1>2, <1>3, <1>4 DEF Narrows, AllReceived
<1> QED
  BY <1>1, <1>3, <1>5, Zenon

LEMMA TrimNarrows ==
  ASSUME NEW p \in Process, p.db.status.irreversible <= p.irreversible
  PROVE  LET q == Trim[p] IN Narrows(p, q) /\ q.head_id = p.head_id
<1>1. p.first \in Nat /\ EndTrim(p) \in Nat
  BY ProcessTyped, EndTrimIs
<1>2. CASE p.first >= EndTrim(p)
  BY <1>2, NarrowsSame DEF Trim
<1>3. CASE p.first < EndTrim(p)
  <2>1. PICK q : q = Trim[p]
    OBVIOUS
  <2>2. /\ q \in Process
        /\ q.db.received = {b \in p.db.received : Num[b] \notin p.first..(EndTrim(p) - 1)}
        /\ q.db.status.irreversible <= p.irreversible
        /\ q.kept = {<<p.db, FALSE>>} \cup {<<q.db, p.switching>>}
        /\ Memory(q) = <<p.head_id, p.irreversible, EndTrim(p), p.rows, p.received>>
        /\ q.passed = p.passed \cup p.kept
    BY <1>3, <2>1, TrimIs, Zenon
  <2>3. q.head_id = p.head_id /\ q.irreversible = p.irreversible /\ q.received = p.received
    BY <2>2 DEF Memory
  <2>4. Within(p.db, p) /\ Within(q.db, p)
    BY <2>2, <2>3, ProcessTyped DEF Within, AllReceived
  <2>5. ASSUME NEW k \in q.kept PROVE Within(k[1], p)
    <3>1. k \in {<<p.db, FALSE>>} => k[1] = p.db
      BY KeptOne
    <3>2. k \in {<<q.db, p.switching>>} => k[1] = q.db
      BY KeptOne
    <3> QED
      BY <2>2, <2>4, <2>5, <3>1, <3>2, Zenon
  <2>6. AllReceived(q) \subseteq AllReceived(p)
    BY <2>2, <2>3 DEF AllReceived
  <2>7. Narrows(p, q)
    BY <2>2, <2>3, <2>5, <2>6 DEF Narrows
  <2> QED
    BY <2>1, <2>3, <2>7, Zenon
<1> QED
  BY <1>1, <1>2, <1>3

\* A fork switch from block n on leaves the blocks below it, the head the last of them.
LEMMA SwitchNarrows ==
  ASSUME NEW p \in Process, p.db.status.irreversible <= p.irreversible, NEW n \in Nat
  PROVE  LET q == Switch(p, n)
         IN /\ Narrows(p, q) /\ AllReceived(q) \subseteq Below(AllReceived(p), n)
            /\ q.head_id # NoBlock => q.head_id \in AllReceived(p) /\ Num[q.head_id] = n - 1
<1>1. PICK e, w, t, q : /\ e = EndWrite[p] /\ w = [e EXCEPT !.switching = TRUE]
                        /\ t = Truncate(n)[w] /\ q = EndWrite[t]
  OBVIOUS
<1>2. Narrows(p, e) /\ e.received = {} /\ e \in Process /\ e.db.status.irreversible <= e.irreversible
  BY <1>1, EndWriteNarrows, Zenon DEF Narrows
<1>3. /\ w \in Process /\ w.db = e.db /\ w.kept = e.kept /\ w.passed = e.passed
      /\ w.irreversible = e.irreversible /\ w.received = {}
  BY <1>1, <1>2 DEF Process
<1>4. Narrows(e, w) /\ w.db.status.irreversible <= w.irreversible
  BY <1>2, <1>3, NarrowsSame
<1>5. /\ Narrows(w, t) /\ t \in Process /\ t.db.status.irreversible <= t.irreversible
      /\ AllReceived(t) \subseteq Below(AllReceived(w), n)
      /\ t.head_id # NoBlock => t.head_id \in AllReceived(w) /\ Num[t.head_id] = n - 1
  BY <1>1, <1>3, <1>4, TruncateNarrows, Zenon DEF Narrows
<1>6. Narrows(t, q) /\ q.head_id = t.head_id
  BY <1>1, <1>5, EndWriteNarrows, Zenon
<1>7. Narrows(p, w) /\ Narrows(p, q)
  BY <1>2, <1>4, <1>5, <1>6, NarrowsTransitive, Zenon
<1>8. AllReceived(q) \subseteq Below(AllReceived(p), n)
  BY <1>5, <1>6, <1>7 DEF Narrows, Below
<1>9. q.head_id # NoBlock => q.head_id \in AllReceived(p) /\ Num[q.head_id] = n - 1
  BY <1>5, <1>6, <1>7 DEF Narrows
<1>10. Switch(p, n) = q
  BY <1>1, Zenon DEF Switch
<1> QED
  BY <1>7, <1>8, <1>9, <1>10, Zenon

LEMMA CleanUpNarrows ==
  ASSUME NEW p \in Process, p.db.status.irreversible <= p.irreversible
  PROVE  Narrows(p, CleanUp(p))
<1>1. PICK e, n, t, w, q : /\ e = EndWrite[p] /\ n = N(p.head_id) + 1 /\ t = Truncate(n)[e]
                           /\ w = EndWrite[t] /\ q = Flush(w)
  OBVIOUS
<1>2. n \in Nat
  BY <1>1, ProcessTyped
<1>3. Narrows(p, e) /\ e.received = {} /\ e \in Process /\ e.db.status.irreversible <= e.irreversible
  BY <1>1, EndWriteNarrows, Zenon DEF Narrows
<1>4. Narrows(e, t) /\ t \in Process /\ t.db.status.irreversible <= t.irreversible
  BY <1>1, <1>2, <1>3, TruncateNarrows, Zenon DEF Narrows
<1>5. Narrows(t, w) /\ w \in Process /\ w.db.status.irreversible <= w.irreversible
  BY <1>1, <1>4, EndWriteNarrows, Zenon DEF Narrows
<1>6. Narrows(w, q)
  BY <1>1, <1>5, FlushNarrows, Zenon
<1>7. CleanUp(p) = q
  BY <1>1, Zenon DEF CleanUp
<1> QED
  BY <1>3, <1>4, <1>5, <1>6, <1>7, NarrowsTransitive, Zenon

LEMMA CommittedNarrows ==
  ASSUME NEW p \in Process, p.db.status.irreversible <= p.irreversible, NEW m
  PROVE  LET q == Committed(p, m) IN Narrows(p, q) /\ q.head_id = p.head_id
<1>1. PICK e, t, q : e = EndWrite[p] /\ t = Trim[e] /\ q = Committed(p, m)
  OBVIOUS
<1>2. q = p \/ q = t \/ q = e
  BY <1>1 DEF Committed
<1>3. Narrows(p, p)
  BY NarrowsSame
<1>4. /\ Narrows(p, e) /\ e.head_id = p.head_id /\ e \in Process
      /\ e.db.status.irreversible <= e.irreversible
  BY <1>1, EndWriteNarrows, Zenon DEF Narrows
<1>5. Narrows(e, t) /\ t.head_id = e.head_id
  BY <1>1, <1>4, TrimNarrows, Zenon
<1>6. Narrows(p, t)
  BY <1>4, <1>5, NarrowsTransitive, Zenon
<1> QED
  BY <1>1, <1>2, <1>3, <1>4, <1>5, <1>6, Zenon

\* FixInv for a process, and for what a crash may leave of it.
Settles(p) == Settled(p) /\ \A k \in p.kept \cup p.passed : DbFixes(k[1])

\* What fewer received blocks and an older irreversible block leave nodeos's.
LEMMA FixesFewer ==
  ASSUME lib \in Nat, NEW R \in SUBSET Block, NEW i \in Nat, Fixes(R, i),
         NEW Q \in SUBSET R, NEW j \in Nat, j <= i
  PROVE  Fixes(Q, j)
<1>1. \A b \in R : Num[b] \in Nat
  BY TreeAssumption
<1> QED
  BY <1>1 DEF Fixes

LEMMA SettledDb ==
  ASSUME lib \in Nat, NEW p \in Process, Settled(p), NEW d, Within(d, p)
  PROVE  DbFixes(d)
<1>1. PICK R, i, Q, j : /\ R = AllReceived(p) /\ i = p.irreversible /\ Q = d.received
                        /\ j = d.status.irreversible
  OBVIOUS
<1>2. R \in SUBSET Block /\ i \in Nat
  BY <1>1, ProcessTyped, DbTyped DEF AllReceived
<1>3. Q \in SUBSET R /\ j \in Nat /\ j <= i
  BY <1>1, DbTyped DEF Within
<1>4. Fixes(R, i)
  BY <1>1 DEF Settled
<1>5. Fixes(Q, j)
  BY <1>2, <1>3, <1>4, FixesFewer
<1> QED
  BY <1>1, <1>5, Zenon DEF DbFixes

LEMMA NarrowsSettles ==
  ASSUME lib \in Nat, NEW p \in Process, Settles(p), NEW q, Narrows(p, q)
  PROVE  Settles(q)
<1>1. PICK R, i, Q : R = AllReceived(p) /\ i = p.irreversible /\ Q = AllReceived(q)
  OBVIOUS
<1>2. R \in SUBSET Block /\ i \in Nat /\ Q \in SUBSET R /\ q.irreversible = i
  BY <1>1, ProcessTyped, DbTyped DEF AllReceived, Narrows
<1>3. Fixes(R, i)
  BY <1>1 DEF Settles, Settled
<1>4. Fixes(Q, i)
  BY <1>2, <1>3, FixesFewer
<1>5. Settled(q)
  BY <1>1, <1>2, <1>4 DEF Settled, Narrows
<1>6. \A d : Within(d, p) => DbFixes(d)
  BY SettledDb DEF Settles
<1>7. \A k \in q.kept \cup q.passed : DbFixes(k[1])
  BY <1>6, Zenon DEF Settles, Narrows
<1> QED
  BY <1>5, <1>7 DEF Settles

\* An irreversible part of a stretch that ends in a message's block is nodeos's.
LEMMA StretchFixed ==
  ASSUME lib \in Nat, NEW m \in BlocksResult, NEW t \in Block, t = m.this_block,
         Anchored(m), m.lib <= lib,
         NEW S \in SUBSET Block, IsStretch(S), TipIs(S, t), \A b \in S : b = t \/ OnRoot(b)
  PROVE  Fixes(S, m.lib)
<1>1. /\ t # NoBlock /\ N(t) = Num[t] /\ m.lib \in Nat /\ t \in S /\ OnRoot(t)
      /\ \A b \in Block : Num[b] \in Nat
      /\ \A b \in S : Num[b] <= Num[t]
  BY TreeAssumption DEF N, BlocksResult, TipIs, Anchored
<1>2. ASSUME NEW b \in S PROVE OnRoot(b) /\ (Num[b] <= m.lib => b \in chain)
  <2>1. OnRoot(b) /\ SameBranch(b, t)
    BY <1>1 DEF SameBranch
  <2>2. Num[b] <= m.lib => Num[b] <= Fixed(m)
    BY <1>1 DEF Fixed
  <2> QED
    BY <1>1, <2>1, <2>2 DEF Anchored
<1> QED
  BY <1>2 DEF Fixes

\* Applying a block makes its lib the irreversible one.
LEMMA AppliedSettles ==
  ASSUME lib \in Nat, NEW p \in Process, Settles(p), Ready(p),
         NEW m \in BlocksResult, m.this_block # NoBlock, NEW part,
         Linked(m), Continues(p, m), Anchored(m), p.irreversible <= m.lib, m.lib <= lib
  PROVE  LET q == Applied(p, m, part)
         IN /\ q \in Process /\ Settles(q) /\ q.head_id = m.this_block /\ q.irreversible = m.lib
            /\ AllReceived(q) = AllReceived(p) \cup {m.this_block}
<1>1. PICK q, b : q = Applied(p, m, part) /\ b = m.this_block
  OBVIOUS
<1>2. q \in Process /\ Ready(q)
  BY <1>1, AppliedIs, Zenon
<1>3. b \in Block /\ m.lib \in Nat
  BY <1>1 DEF BlocksResult, MaybeBlock
<1>4. /\ q.db = p.db /\ q.kept = p.kept /\ q.passed = p.passed
      /\ q.head_id = b /\ q.irreversible = m.lib /\ q.received = p.received \cup {b}
  BY <1>1, <1>3 DEF Applied, Process
<1>5. AllReceived(q) = AllReceived(p) \cup {b}
  BY <1>4 DEF AllReceived
<1>6. PICK S : S = AllReceived(q)
  OBVIOUS
<1>7. S \in SUBSET Block /\ IsStretch(S) /\ TipIs(S, b)
  BY <1>2, <1>4, <1>6, ProcessTyped, DbTyped DEF AllReceived, Ready, Sound
<1>8. \A c \in S : c = b \/ OnRoot(c)
  BY <1>5, <1>6 DEF Settles, Settled, Fixes
<1>9. Fixes(S, m.lib)
  BY <1>1, <1>3, <1>7, <1>8, StretchFixed
<1>10. p.db.status.irreversible <= m.lib
  <2>1. p.db.status.irreversible \in Nat /\ p.irreversible \in Nat
    BY ProcessTyped, DbTyped
  <2> QED
    BY <1>3, <2>1 DEF Settles, Settled
<1>11. Settled(q)
  BY <1>4, <1>6, <1>9, <1>10 DEF Settled
<1>12. Settles(q)
  BY <1>4, <1>11 DEF Settles
<1> QED
  BY <1>1, <1>2, <1>4, <1>5, <1>12, Zenon

------------------------------------------------------------------------------
(* Taking a block *)

LEMMA FillerSettles ==
  ASSUME RdbInv, FixInv, ~torn, session \in {"querying", "streaming"}
  PROVE  Settles(filler) /\ filler.db.status.irreversible <= filler.irreversible
BY DEF RdbInv, DiskInv, FixInv, Settles, Settled

\* A crash leaves what the filler wrote, or a part of it.
LEMMA SettlesDb ==
  ASSUME lib \in Nat, NEW p \in Process, Settles(p)
  PROVE  DbFixes(p.db) /\ p.db.status.irreversible <= p.irreversible
<1>1. Within(p.db, p)
  BY ProcessTyped DEF Within, AllReceived, Settles, Settled
<1> QED
  BY <1>1, SettledDb DEF Settles, Within

LEMMA BaseSettles ==
  ASSUME RdbInv, FixInv, ~torn, session = "streaming",
         NEW m \in BlocksResult, NEW t \in Block, t = m.this_block
  PROVE  /\ Settles(Base(m)) /\ Base(m).irreversible = filler.irreversible
         /\ AllReceived(Base(m)) \subseteq Below(AllReceived(filler), Num[t])
         /\ Num[t] <= N(filler.head_id) /\ Base(m).head_id # NoBlock =>
              Base(m).head_id \in AllReceived(filler) /\ Num[Base(m).head_id] = Num[t] - 1
<1>1. /\ filler \in Process /\ lib \in Nat /\ Num[t] \in Nat
      /\ Settles(filler) /\ filler.db.status.irreversible <= filler.irreversible
  BY FillerSettles, TreeAssumption DEF RdbInv, TypeOK, NodeosTypeOK
<1>2. CASE Num[t] <= N(filler.head_id)
  <2>1. PICK q : q = Switch(filler, Num[t])
    OBVIOUS
  <2>2. /\ Narrows(filler, q) /\ AllReceived(q) \subseteq Below(AllReceived(filler), Num[t])
        /\ q.head_id # NoBlock => q.head_id \in AllReceived(filler) /\ Num[q.head_id] = Num[t] - 1
    BY <1>1, <2>1, SwitchNarrows, Zenon
  <2>3. Settles(q)
    BY <1>1, <2>2, NarrowsSettles
  <2>4. Base(m) = q
    BY <1>2, <2>1 DEF Base
  <2> QED
    BY <2>2, <2>3, <2>4 DEF Narrows
<1>3. CASE ~(Num[t] <= N(filler.head_id))
  <2>1. Base(m) = filler
    BY <1>3 DEF Base
  <2>2. PICK S, h : S = AllReceived(filler) /\ h = filler.head_id
    OBVIOUS
  <2>3. S \in SUBSET Block /\ TipIs(S, h) /\ h \in MaybeBlock
    BY <1>1, <2>2, ProcessTyped, DbTyped DEF AllReceived, RdbInv, SessionInv, Sound
  <2>4. S \subseteq Below(S, Num[t])
    BY <1>1, <1>3, <2>2, <2>3, TreeAssumption DEF TipIs, Below, N, MaybeBlock
  <2> QED
    BY <1>1, <1>3, <2>1, <2>2, <2>4
<1> QED
  BY <1>2, <1>3

\* What the handler of a block leaves, and a crash inside it.
LEMMA HandledSettles ==
  ASSUME RdbInv, FixInv, ~torn, session = "streaming",
         NEW m \in BlocksResult, NEW t \in Block, t = m.this_block,
         NEW part \in Parts(m), Linked(m), PrevMatches(m), Anchored(m),
         filler.irreversible <= m.lib, m.lib <= lib
  PROVE  LET q == Handled(m, part)
         IN /\ Settles(q) /\ q.head_id = t /\ q.irreversible = m.lib
            /\ AllReceived(q) \subseteq Below(AllReceived(filler), Num[t]) \cup {t}
<1>1. lib \in Nat /\ t # NoBlock /\ part \in SUBSET Row
  BY RowsTyped, TreeAssumption DEF RdbInv, TypeOK, NodeosTypeOK, Parts
<1>2. PICK p, q, a, r : /\ p = Base(m) /\ q = (IF t \in LargeBlock THEN Part(p, part) ELSE p)
                        /\ a = Applied(q, m, part) /\ r = Committed(a, m)
  OBVIOUS
<1>3. /\ p \in Process /\ Ready(p) /\ Settles(p) /\ p.irreversible = filler.irreversible
      /\ AllReceived(p) \subseteq Below(AllReceived(filler), Num[t])
  BY <1>1, <1>2, BaseIs, BaseSettles, Zenon
<1>4. p.db.status.irreversible <= p.irreversible
  BY <1>1, <1>3, SettlesDb
<1>5. /\ q \in Process /\ Ready(q) /\ Settles(q) /\ q.irreversible = p.irreversible
      /\ AllReceived(q) \subseteq AllReceived(p) /\ q.head_id = p.head_id
  <2>1. CASE t \in LargeBlock
    <3>1. q = Part(p, part)
      BY <1>2, <2>1
    <3>2. q \in Process /\ Ready(q) /\ Narrows(p, q) /\ q.head_id = p.head_id
      BY <1>1, <1>3, <1>4, <3>1, PartIs, PartNarrows, Zenon
    <3> QED
      BY <1>1, <1>3, <3>2, NarrowsSettles DEF Narrows
  <2>2. CASE t \notin LargeBlock
    BY <1>2, <1>3, <2>2
  <2> QED
    BY <2>1, <2>2
<1>6. Continues(q, m)
  BY <1>2, <1>5 DEF PrevMatches, Continues
<1>7. /\ a \in Process /\ Settles(a) /\ a.head_id = t /\ a.irreversible = m.lib
      /\ AllReceived(a) = AllReceived(q) \cup {t}
  <2>1. q.irreversible <= m.lib
    BY <1>3, <1>5
  <2> QED
    BY <1>1, <1>2, <1>5, <1>6, <2>1, AppliedSettles
<1>8. Narrows(a, r) /\ r.head_id = t
  BY <1>1, <1>2, <1>7, SettlesDb, CommittedNarrows, Zenon
<1>9. Settles(r) /\ r.irreversible = m.lib /\ AllReceived(r) \subseteq AllReceived(a)
  BY <1>1, <1>7, <1>8, NarrowsSettles DEF Narrows
<1>10. Handled(m, part) = r
  BY <1>2, Zenon DEF Handled
<1>11. AllReceived(r) \subseteq Below(AllReceived(filler), Num[t]) \cup {t}
  BY <1>3, <1>5, <1>7, <1>9, Zenon
<1> QED
  BY <1>8, <1>9, <1>10, <1>11, Zenon

\* A restart goes by the irreversible block of the status.
LEMMA LoadedSettles ==
  ASSUME RdbInv, FixInv, ~torn, session = "connecting"
  PROVE  Settles(CleanUp(Loaded(filler)))
<1>1. PICK q : q = Loaded(filler)
  OBVIOUS
<1>2. filler \in Process /\ lib \in Nat /\ filler.received = {} /\ filler.passed = {}
  BY DEF RdbInv, TypeOK, NodeosTypeOK, SessionInv, DiskInv
<1>3. /\ q \in Process /\ q.db = filler.db /\ q.kept = filler.kept /\ q.passed = {}
      /\ q.irreversible = filler.db.status.irreversible /\ q.received = {}
  BY <1>1, <1>2, LoadedIs, Zenon
<1>4. AllReceived(q) = q.db.received /\ q.irreversible \in Nat
  BY <1>3, ProcessTyped DEF AllReceived
<1>5. q.db.status.irreversible <= q.irreversible
  BY <1>3, <1>4
<1>6. Settles(q)
  BY <1>3, <1>4, <1>5 DEF Settles, Settled, FixInv, DbFixes
<1>7. Narrows(q, CleanUp(q))
  BY <1>3, <1>5, CleanUpNarrows
<1> QED
  BY <1>1, <1>2, <1>3, <1>6, <1>7, NarrowsSettles

------------------------------------------------------------------------------
(* The end of a session *)

\* Out of a session nothing is under way and only what is on the disk matters.
LEMMA LinkedOutOfSession ==
  ASSUME NEW p, filler' = p, SessionGone,
         ~torn' => DbFixes(p.db) /\ \A k \in p.kept : DbFixes(k[1]),
         session' \in {"stopped", "waiting", "connecting"}
  PROVE  LineInv' /\ FixInv' /\ LinkInv'
<1>1. wire' = <<>> /\ next' = 0 /\ UNCHANGED <<chain, lib>>
  BY DEF SessionGone
<1>2. \A d : DbFixes(d) => DbFixes(d)'
  BY <1>1 DEF DbFixes, Fixes, OnRoot
<1>3. LineInv'
  BY <1>1 DEF LineInv
<1>4. FixInv'
  BY <1>2 DEF FixInv
<1>5. LinkInv'
  BY DEF LinkInv
<1> QED
  BY <1>3, <1>4, <1>5

LEMMA LinkedEndSession ==
  ASSUME RdbInv, NEW p \in Process, UNCHANGED torn, NEW s \in {"stopped", "waiting"},
         ~torn => DbFixes(p.db) /\ \A k \in p.kept : DbFixes(k[1]), EndSession(s, p)
  PROVE  LineInv' /\ FixInv' /\ LinkInv'
<1>1. PICK e : e = Ended(p)
  OBVIOUS
<1>2. e.db = p.db /\ e.kept = p.kept
  BY <1>1, EndedIs, Zenon
<1>3. filler' = e /\ session' = s /\ SessionGone
  BY <1>1 DEF EndSession
<1> QED
  BY <1>2, <1>3, LinkedOutOfSession

LEMMA LinkedCrash ==
  ASSUME NEW K \in SUBSET (Db \X BOOLEAN), ~torn => \A k \in K : DbFixes(k[1]), Crash(K)
  PROVE  LineInv' /\ FixInv' /\ LinkInv'
<1>1. PICK k \in K : filler' = Opened(k[1]) /\ torn' = (torn \/ k[2])
  BY DEF Crash
<1>2. PICK d, o : d = k[1] /\ o = Opened(d)
  OBVIOUS
<1>3. d \in Db
  BY <1>1, <1>2
<1>4. o.db = d /\ o.kept = {<<d, FALSE>>} /\ filler' = o
  BY <1>1, <1>2, <1>3, OpenedIs, Zenon
<1>5. \A j \in o.kept : j[1] = d
  BY <1>4, KeptOne
<1>6. ~torn' => DbFixes(d)
  BY <1>1, <1>2
<1> QED
  BY <1>4, <1>5, <1>6, LinkedOutOfSession DEF Crash

LEMMA LinkedStopAtBlock ==
  ASSUME RdbInv, FixInv, StopAtBlock
  PROVE  LineInv' /\ FixInv' /\ LinkInv'
<1>1. session = "streaming" /\ EndSession("stopped", EndWrite[filler]) /\ UNCHANGED torn
  BY DEF StopAtBlock, Taken
<1>2. filler \in Process /\ lib \in Nat
  BY DEF RdbInv, TypeOK, NodeosTypeOK
<1>3. PICK p : p = EndWrite[filler]
  OBVIOUS
<1>4. p \in Process
  BY <1>2, <1>3, EndWriteIs, Zenon
<1>5. ASSUME ~torn PROVE Settles(p)
  <2>1. Settles(filler) /\ Narrows(filler, p)
    BY <1>1, <1>2, <1>3, <1>5, FillerSettles, EndWriteNarrows, Zenon
  <2> QED
    BY <1>2, <2>1, NarrowsSettles
<1>6. ~torn => DbFixes(p.db) /\ \A k \in p.kept : DbFixes(k[1])
  BY <1>2, <1>4, <1>5, SettlesDb DEF Settles
<1> QED
  BY <1>1, <1>3, <1>4, <1>6, LinkedEndSession

LEMMA LinkedPrevMismatch ==
  ASSUME RdbInv, FixInv, PrevMismatch
  PROVE  LineInv' /\ FixInv' /\ LinkInv'
<1>1. PICK m : m = Head(wire)
  OBVIOUS
<1>2. /\ m.this_block # NoBlock /\ session = "streaming" /\ wire # <<>>
      /\ EndSession("stopped", Base(m)) /\ UNCHANGED torn
  BY <1>1 DEF PrevMismatch, Taken
<1>3. m \in BlocksResult /\ m.this_block \in Block /\ lib \in Nat
  BY <1>1, <1>2, WireHead DEF RdbInv, TypeOK, NodeosTypeOK, BlocksResult, MaybeBlock
<1>4. PICK p : p = Base(m)
  OBVIOUS
<1>5. p \in Process /\ (~torn => Settles(p))
  BY <1>2, <1>3, <1>4, BaseIs, BaseSettles
<1>6. ~torn => DbFixes(p.db) /\ \A k \in p.kept : DbFixes(k[1])
  BY <1>3, <1>5, SettlesDb DEF Settles
<1> QED
  BY <1>2, <1>4, <1>5, <1>6, LinkedEndSession

\* What the line holds of the message taken.
LEMMA LineHead ==
  ASSUME RdbInv, LineInv, ~torn, session = "streaming", wire # <<>>
  PROVE  LET m == Head(wire)
         IN /\ m \in BlocksResult /\ Linked(m) /\ Anchored(m)
            /\ filler.irreversible <= m.lib /\ m.lib <= lib
<1>1. 1 \in DOMAIN wire /\ Head(wire) = wire[1]
  BY DEF RdbInv, TypeOK, NodeosTypeOK
<1> QED
  BY <1>1, WireHead DEF RdbInv, LineInv

LEMMA LinkedDieInside ==
  ASSUME RdbInv, LineInv, FixInv, DieInside
  PROVE  LineInv' /\ FixInv' /\ LinkInv'
<1>0. lib \in Nat /\ filler \in Process
  BY DEF RdbInv, TypeOK, NodeosTypeOK
<1>1. ASSUME NEW p \in Process, ~torn => Settles(p), Crash(p.passed)
      PROVE  LineInv' /\ FixInv' /\ LinkInv'
  BY <1>1, ProcessTyped, LinkedCrash DEF Settles
<1>2. CASE session = "connecting" /\ Crash(CleanUp(Loaded(filler)).passed)
  <2>1. PICK p : p = CleanUp(Loaded(filler))
    OBVIOUS
  <2>2. p \in Process
    BY <1>2, <2>1, CleanedUpIs, Zenon
  <2>3. ~torn => Settles(p)
    BY <1>2, <2>1, LoadedSettles
  <2> QED
    BY <1>1, <1>2, <2>1, <2>2, <2>3
<1>3. CASE ~(session = "connecting" /\ Crash(CleanUp(Loaded(filler)).passed))
  <2>1. PICK m : m = Head(wire)
    OBVIOUS
  <2>2. PICK part \in Parts(m) :
          /\ session = "streaming" /\ wire # <<>> /\ m.this_block # NoBlock
          /\ Crash(IF PrevMatches(m) THEN Handled(m, part).passed ELSE Base(m).passed)
    BY <1>3, <2>1 DEF DieInside, Taken
  <2>3. m \in BlocksResult /\ m.this_block \in Block
    BY <2>1, <2>2, WireHead DEF RdbInv, BlocksResult, MaybeBlock
  <2>4. PICK p : p = IF PrevMatches(m) THEN Handled(m, part) ELSE Base(m)
    OBVIOUS
  <2>5. p \in Process
    BY <2>2, <2>3, <2>4, HandledIs, BaseIs
  <2>6. ASSUME ~torn PROVE Settles(p)
    <3>1. Linked(m) /\ Anchored(m) /\ filler.irreversible <= m.lib /\ m.lib <= lib
      BY <2>1, <2>2, <2>6, LineHead
    <3>2. PrevMatches(m) => Settles(Handled(m, part))
      BY <2>2, <2>3, <2>6, <3>1, HandledSettles
    <3>3. Settles(Base(m))
      BY <2>2, <2>3, <2>6, BaseSettles
    <3> QED
      BY <2>4, <3>2, <3>3
  <2>7. Crash(p.passed)
    BY <2>2, <2>4
  <2> QED
    BY <1>1, <2>5, <2>6, <2>7
<1> QED
  BY <1>2, <1>3

------------------------------------------------------------------------------
(* nodeos and the line *)

\* nodeos's branch keeps a newest block and its first ones.
LEMMA TreeStep ==
  ASSUME RdbInv, HeightInv, RootInv, [Next]_vars
  PROVE  HeightInv' /\ RootInv'
<1>1. CASE UNCHANGED chain
  BY <1>1 DEF HeightInv, RootInv, OnRoot, TipIs, Tip
<1>2. CASE NodeosStep
  BY <1>1, <1>2, ApplyBlockHeight, ReplaceNodeHeight, ApplyBlockRoot, ReplaceNodeRoot
     DEF NodeosStep, AdvanceLib, SendBlocksResult, RdbInv, TypeOK
<1>3. CASE ~NodeosStep
  <2>1. \A s, p : EndSession(s, p) => UNCHANGED chain
    BY DEF EndSession, SessionGone
  <2>2. \A K : Crash(K) => UNCHANGED chain
    BY DEF Crash, SessionGone
  <2>3. UNCHANGED chain
    BY <1>3, <2>1, <2>2
       DEF Next, FillerStep, OperatorStart, Retry, ReceivedAbi, ReceivedStatus, SkipResult,
           StopAtBlock, PrevMismatch, ReceiveBlock, ConnectionLost, Die, DieInside, vars, nodeosVars
  <2> QED
    BY <1>1, <2>3
<1> QED
  BY <1>2, <1>3

\* No step of nodeos takes an irreversible block off its branch.
LEMMA IrreversibleStays ==
  ASSUME NodeosTypeOK, NodeosStep
  PROVE  lib' \in Nat /\ lib <= lib' /\ \A b \in chain : Num[b] <= lib => b \in chain'
<1>1. lib \in Nat /\ chain \subseteq Block /\ \A b \in Block : Num[b] \in Nat
  BY TreeAssumption DEF NodeosTypeOK
<1>2. ASSUME NEW b \in Block, ApplyBlock(b)
      PROVE  lib' = lib /\ \A c \in chain : Num[c] <= lib => c \in chain'
  BY <1>1, <1>2 DEF ApplyBlock, Below
<1>3. ASSUME NEW n \in 0..Height, NEW bg, ReplaceNode(n, bg)
      PROVE  lib' = lib /\ \A c \in chain : Num[c] <= lib => c \in chain'
  BY <1>1, <1>3 DEF ReplaceNode, Below
<1>4. CASE AdvanceLib
  BY <1>1, <1>4 DEF AdvanceLib
<1>5. CASE SendBlocksResult
  BY <1>1, <1>5 DEF SendBlocksResult
<1> QED
  BY <1>1, <1>2, <1>3, <1>4, <1>5 DEF NodeosStep

LEMMA FixNodeos ==
  ASSUME RdbInv, FixInv, NodeosStep
  PROVE  FixInv'
<1>1. /\ lib' \in Nat /\ lib <= lib' /\ lib \in Nat
      /\ \A b \in chain : Num[b] <= lib => b \in chain'
      /\ UNCHANGED <<session, filler, torn>>
  BY IrreversibleStays DEF RdbInv, TypeOK, NodeosTypeOK, NodeosStep
<1>2. ASSUME NEW R \in SUBSET Block, NEW i \in Nat, Fixes(R, i) PROVE Fixes(R, i)'
  <2>1. \A b \in R : Num[b] \in Nat
    BY TreeAssumption
  <2> QED
    BY <1>1, <1>2, <2>1 DEF Fixes, OnRoot
<1>3. \A d \in Db : DbFixes(d) => DbFixes(d)'
  BY <1>2, DbTyped DEF DbFixes
<1>4. filler \in Process /\ filler.db \in Db /\ filler.kept \in SUBSET (Db \X BOOLEAN)
      /\ AllReceived(filler) \in SUBSET Block /\ filler.irreversible \in Nat
  BY ProcessTyped, DbTyped DEF RdbInv, TypeOK, AllReceived
<1>5. \A k \in filler.kept : k[1] \in Db
  BY <1>4
<1>6. Settled(filler) => Settled(filler)'
  BY <1>1, <1>2, <1>4 DEF Settled, AllReceived
<1> QED
  BY <1>1, <1>3, <1>4, <1>5, <1>6 DEF FixInv

\* A message sent is no older than those before it.
LEMMA LineNodeos ==
  ASSUME RdbInv, RootInv, LineInv, FixInv, NodeosStep
  PROVE  LineInv'
<1>1. /\ lib' \in Nat /\ lib <= lib' /\ lib \in Nat /\ wire \in Seq(BlocksResult)
      /\ \A b \in chain : Num[b] <= lib => b \in chain'
      /\ UNCHANGED <<session, filler, torn>> /\ chain \subseteq Block /\ next \in Nat
      /\ \A b \in Block : Num[b] \in Nat
  BY IrreversibleStays, TreeAssumption DEF RdbInv, TypeOK, NodeosTypeOK, NodeosStep
<1>2. ASSUME NEW m \in BlocksResult, Anchored(m), m.lib <= lib PROVE Anchored(m)' /\ m.lib <= lib'
  <2>1. N(m.this_block) \in Nat /\ m.lib \in Nat
    BY NIsNat DEF BlocksResult
  <2>2. Fixed(m) \in Nat /\ Fixed(m) <= lib
    BY <1>1, <1>2, <2>1 DEF Fixed
  <2>3. \A b \in chain : Num[b] <= Fixed(m) => b \in chain'
    BY <1>1, <2>2
  <2> QED
    BY <1>1, <1>2, <2>1, <2>2, <2>3, AnchoredKept
<1>3. CASE SendBlocksResult
  <2>1. PICK m : m = [this_block |-> Id(next), prev_block |-> Id(next - 1), lib |-> lib]
    OBVIOUS
  <2>2. /\ m \in BlocksResult /\ m.lib = lib
        /\ m.this_block # NoBlock => m.this_block \in chain
    BY <1>1, <2>1, AtTyped DEF Id, At, MaybeBlock, BlocksResult
  <2>3. Anchored(m)
    BY <2>2, SentAnchored DEF RdbInv, TypeOK, Anchored
  <2>4. wire' = Append(wire, m) /\ lib' = lib /\ next \in 1..Height
    BY <1>3, <2>1 DEF SendBlocksResult
  <2>5. session = "streaming"
    BY <2>4 DEF LineInv
  <2>6. ~torn => filler.irreversible <= lib
    BY <2>5 DEF FixInv, Settled, Fixes
  <2>7. /\ DOMAIN wire' = 1..(Len(wire) + 1) /\ wire'[Len(wire) + 1] = m
        /\ \A k \in 1..Len(wire) : k \in DOMAIN wire /\ wire'[k] = wire[k] /\ wire[k] \in BlocksResult
    BY <1>1, <2>2, <2>4
  <2>8. \A k \in DOMAIN wire' : \A x : x = wire'[k] => Anchored(x)' /\ x.lib <= lib'
    <3>1. Anchored(m)' /\ m.lib <= lib'
      BY <1>1, <1>2, <2>2, <2>3
    <3>2. ASSUME NEW k \in DOMAIN wire', k # Len(wire) + 1, NEW x, x = wire[k]
          PROVE  Anchored(x)' /\ x.lib <= lib' /\ wire'[k] = x
      <4>1. k \in 1..Len(wire)
        BY <1>1, <2>7, <3>2
      <4>2. k \in DOMAIN wire /\ x \in BlocksResult /\ wire'[k] = x
        BY <2>7, <3>2, <4>1
      <4>3. Anchored(x) /\ x.lib <= lib
        BY <3>2, <4>2 DEF LineInv
      <4> QED
        BY <1>2, <4>2, <4>3
    <3> QED
      BY <2>7, <3>1, <3>2
  <2>9. \A j, k \in DOMAIN wire' : j <= k => wire'[j].lib <= wire'[k].lib
    <3>1. ASSUME NEW j \in DOMAIN wire', NEW k \in DOMAIN wire', j <= k
          PROVE  wire'[j].lib <= wire'[k].lib
      <4>1. CASE k \in 1..Len(wire)
        <5>1. j \in 1..Len(wire)
          BY <1>1, <2>7, <3>1, <4>1
        <5> QED
          BY <2>7, <3>1, <4>1, <5>1 DEF LineInv
      <4>2. CASE k \notin 1..Len(wire)
        <5>1. k = Len(wire) + 1
          BY <1>1, <2>7, <4>2
        <5>2. wire'[j].lib <= lib'
          BY <2>8
        <5> QED
          BY <2>2, <2>4, <2>7, <5>1, <5>2
      <4> QED
        BY <4>1, <4>2
    <3> QED
      BY <3>1
  <2>10. ~torn => \A k \in DOMAIN wire' : filler.irreversible <= wire'[k].lib
    <3>1. ASSUME ~torn, NEW k \in DOMAIN wire' PROVE filler.irreversible <= wire'[k].lib
      <4>1. CASE k \in 1..Len(wire)
        BY <2>5, <2>7, <3>1, <4>1 DEF LineInv
      <4>2. CASE k \notin 1..Len(wire)
        <5>1. k = Len(wire) + 1
          BY <1>1, <2>7, <4>2
        <5> QED
          BY <2>2, <2>6, <2>7, <3>1, <5>1
      <4> QED
        BY <4>1, <4>2
    <3> QED
      BY <3>1
  <2>11. session' = "streaming" /\ UNCHANGED <<filler, torn>>
    BY <1>1, <2>5
  <2> QED
    BY <2>8, <2>9, <2>10, <2>11 DEF LineInv
<1>4. CASE ~SendBlocksResult
  <2>1. wire' = wire /\ (next = 0 => next' = 0)
    <3>1. ASSUME NEW b \in Block, ApplyBlock(b) PROVE wire' = wire /\ (next = 0 => next' = 0)
      BY <1>1, <3>1 DEF ApplyBlock
    <3>2. ASSUME NEW n, NEW bg, ReplaceNode(n, bg) PROVE wire' = wire /\ (next = 0 => next' = 0)
      BY <3>2 DEF ReplaceNode
    <3> QED
      BY <1>4, <3>1, <3>2 DEF NodeosStep, AdvanceLib
  <2>2. \A k \in DOMAIN wire : \A x : x = wire[k] => Anchored(x)' /\ x.lib <= lib'
    <3>1. ASSUME NEW k \in DOMAIN wire, NEW x, x = wire[k] PROVE Anchored(x)' /\ x.lib <= lib'
      <4>1. x \in BlocksResult /\ Anchored(x) /\ x.lib <= lib
        BY <1>1, <3>1 DEF LineInv
      <4> QED
        BY <1>2, <4>1
    <3> QED
      BY <3>1
  <2>3. \A k \in DOMAIN wire' : \A x : x = wire'[k] => Anchored(x)' /\ x.lib <= lib'
    BY <2>1, <2>2
  <2>4. /\ \A j, k \in DOMAIN wire' : j <= k => wire'[j].lib <= wire'[k].lib
        /\ ~torn /\ session = "streaming" =>
             \A k \in DOMAIN wire' : filler.irreversible <= wire'[k].lib
        /\ session # "streaming" => wire' = <<>> /\ next' = 0
    BY <2>1 DEF LineInv
  <2> QED
    BY <1>1, <2>3, <2>4 DEF LineInv
<1> QED
  BY <1>3, <1>4

\* The blocks that are spoken of go back to nodeos's first one.
LEMMA LinkBlocks ==
  ASSUME RdbInv, LineInv, FixInv, ~torn, session = "streaming"
  PROVE  /\ \A b \in AllReceived(filler) : b \in Block /\ OnRoot(b)
         /\ filler.head_id # NoBlock => filler.head_id \in AllReceived(filler)
         /\ \A i \in DOMAIN wire : LET t == wire[i].this_block
                                   IN t # NoBlock => t \in Block /\ OnRoot(t)
<1>1. filler \in Process /\ wire \in Seq(BlocksResult)
  BY DEF RdbInv, TypeOK, NodeosTypeOK
<1>2. \A b \in AllReceived(filler) : b \in Block /\ OnRoot(b)
  BY <1>1, ProcessTyped, DbTyped DEF AllReceived, FixInv, Settled, Fixes
<1>3. filler.head_id # NoBlock => filler.head_id \in AllReceived(filler)
  BY DEF RdbInv, SessionInv, Sound, TipIs
<1>4. ASSUME NEW i \in DOMAIN wire, NEW t, t = wire[i].this_block, t # NoBlock
      PROVE  t \in Block /\ OnRoot(t)
  <2>1. wire[i] \in BlocksResult /\ Anchored(wire[i])
    BY <1>1 DEF LineInv
  <2> QED
    BY <1>4, <2>1 DEF BlocksResult, MaybeBlock, Anchored
<1> QED
  BY <1>2, <1>3, <1>4

LEMMA LinkNodeos ==
  ASSUME RdbInv, HeightInv, RootInv, LineInv, FixInv, LinkInv, NodeosStep
  PROVE  LinkInv'
<1>1. UNCHANGED <<session, filler, torn>> /\ NodeosTypeOK /\ NodeosInv /\ SkipTo \in Nat
      /\ wire \in Seq(BlocksResult) /\ Len(wire) \in Nat
  BY FillAssumption DEF NodeosStep, RdbInv, TypeOK, NodeosTypeOK
<1>2. CASE session # "streaming" \/ torn
  BY <1>1, <1>2 DEF LinkInv
<1>3. CASE session = "streaming" /\ ~torn /\ SendBlocksResult
  <2>1. /\ \A i \in DOMAIN wire : i \in 0..Len(wire) /\ wire'[i] = wire[i]
        /\ 0 \in 0..Len(wire)
    <3>1. Id(next) \in MaybeBlock /\ Id(next - 1) \in MaybeBlock /\ lib \in Nat
      BY <1>1, AtTyped DEF Id, NodeosTypeOK, MaybeBlock
    <3> QED
      BY <1>1, <1>3, <3>1 DEF SendBlocksResult, BlocksResult
  <2>2. \A b \in AllReceived(filler) : Followed(b, 0)'
    BY <1>1, <1>3, <2>1, LinkBlocks, FollowedSent DEF LinkInv
  <2>3. \A t : t = filler.head_id /\ t # NoBlock => Reached(t, 0, SkipTo)'
    BY <1>1, <1>3, <2>1, LinkBlocks, ReachedSent DEF LinkInv
  <2>4. ASSUME NEW i \in DOMAIN wire', NEW t, t = wire'[i].this_block, t # NoBlock
        PROVE  Followed(t, i)' /\ Reached(t, i, SkipTo)'
    <3>1. CASE i \in DOMAIN wire
      <4>1. t = wire[i].this_block /\ i \in 0..Len(wire)
        BY <2>1, <2>4, <3>1
      <4>2. t \in Block /\ OnRoot(t) /\ Followed(t, i) /\ Reached(t, i, SkipTo)
        BY <1>3, <2>4, <3>1, <4>1, LinkBlocks DEF LinkInv
      <4> QED
        BY <1>1, <1>3, <4>1, <4>2, FollowedSent, ReachedSent
    <3>2. CASE i \notin DOMAIN wire
      BY <1>1, <1>3, <2>4, <3>2, SentLine
    <3> QED
      BY <3>1, <3>2
  <2> QED
    BY <1>1, <2>2, <2>3, <2>4 DEF LinkInv, AllReceived, Reached
<1>4. CASE session = "streaming" /\ ~torn /\ ~SendBlocksResult
  <2>1. /\ UNCHANGED <<wire, begin>>
        /\ UNCHANGED <<chain, next>> \/ \E c \in Block : ApplyBlock(c)
    BY <1>4 DEF NodeosStep, AdvanceLib, ApplyBlock
  <2>2. /\ \A b \in Block : \A i : Followed(b, i) => Followed(b, i)'
        /\ \A t \in Block : \A i : Reached(t, i, SkipTo) => Reached(t, i, SkipTo)'
    BY <1>1, <2>1, QuietLine
  <2>3. \A b \in AllReceived(filler) : Followed(b, 0)'
    BY <1>4, <2>2, LinkBlocks DEF LinkInv
  <2>4. \A t : t = filler.head_id /\ t # NoBlock => Reached(t, 0, SkipTo)'
    BY <1>4, <2>2, LinkBlocks DEF LinkInv
  <2>5. \A i \in DOMAIN wire : \A t : t = wire[i].this_block /\ t # NoBlock =>
          Followed(t, i)' /\ Reached(t, i, SkipTo)'
    BY <1>4, <2>2, LinkBlocks DEF LinkInv
  <2> QED
    BY <1>1, <2>1, <2>3, <2>4, <2>5 DEF LinkInv, AllReceived, Reached
<1> QED
  BY <1>2, <1>3, <1>4

------------------------------------------------------------------------------
(* The filler and the line *)

\* What a handler leaves the process, nodeos as it was.
LEMMA FixInSession ==
  ASSUME lib \in Nat, NEW p \in Process, filler' = Done(p), UNCHANGED <<chain, lib>>,
         ~torn' => Settles(p), ~torn' /\ session' = "querying" => p.received = {}
  PROVE  FixInv'
<1>1. PICK q : q = Done(p)
  OBVIOUS
<1>2. /\ q.db = p.db /\ q.kept = p.kept /\ q.received = p.received
      /\ q.irreversible = p.irreversible /\ filler' = q
  BY <1>1, DoneIs DEF Memory
<1>3. AllReceived(q) = AllReceived(p)
  BY <1>2 DEF AllReceived
<1>4. \A R, i : Fixes(R, i) => Fixes(R, i)'
  BY DEF Fixes, OnRoot
<1>5. \A d : DbFixes(d) => DbFixes(d)'
  BY <1>4 DEF DbFixes
<1>6. ASSUME ~torn'
      PROVE  /\ DbFixes(q.db)' /\ \A k \in q.kept : DbFixes(k[1])'
             /\ Fixes(AllReceived(q), q.irreversible)'
             /\ q.db.status.irreversible <= q.irreversible
  <2>1. \A k \in q.kept : DbFixes(k[1])
    BY <1>2, <1>6 DEF Settles
  <2>2. Fixes(AllReceived(q), q.irreversible) /\ q.db.status.irreversible <= q.irreversible
    BY <1>2, <1>3, <1>6 DEF Settles, Settled
  <2>3. DbFixes(q.db)
    BY <1>2, <1>6, SettlesDb
  <2> QED
    BY <1>4, <1>5, <2>1, <2>2, <2>3
<1> QED
  BY <1>2, <1>6 DEF FixInv, Settled, AllReceived

\* Taking a message leaves the rest of the line in order.
LEMMA LineTail ==
  ASSUME RdbInv, LineInv, wire # <<>>, session = "streaming", wire' = Tail(wire),
         UNCHANGED <<chain, lib, session, torn>>,
         ~torn => filler'.irreversible \in {filler.irreversible, wire[1].lib}
  PROVE  LineInv'
<1>1. /\ 1 \in DOMAIN wire
      /\ \A k \in DOMAIN wire' : 1 <= k + 1 /\ k + 1 \in DOMAIN wire /\ wire'[k] = wire[k + 1]
      /\ \A j, k \in DOMAIN wire' : j <= k => j + 1 <= k + 1
  BY DEF RdbInv, TypeOK, NodeosTypeOK
<1>2. \A x : Anchored(x) => Anchored(x)'
  BY DEF Anchored, Fixed, OnRoot
<1>3. ASSUME NEW k \in DOMAIN wire', NEW x, x = wire'[k] PROVE Anchored(x)' /\ x.lib <= lib'
  BY <1>1, <1>2, <1>3 DEF LineInv
<1>4. \A j, k \in DOMAIN wire' : j <= k => wire'[j].lib <= wire'[k].lib
  BY <1>1 DEF LineInv
<1>5. ASSUME ~torn, NEW k \in DOMAIN wire' PROVE filler'.irreversible <= wire'[k].lib
  <2>1. filler.irreversible <= wire[k + 1].lib /\ wire[1].lib <= wire[k + 1].lib
    BY <1>1, <1>5 DEF LineInv
  <2> QED
    BY <1>1, <1>5, <2>1
<1> QED
  BY <1>3, <1>4, <1>5 DEF LineInv

\* Every position a restart offers is on nodeos's branch below where it goes on from, and
\* what is older is irreversible.
LEMMA PositionsKept ==
  ASSUME RdbInv, FixInv, ~torn, session = "querying", NEW n, NEW b \in AllReceived(filler),
         n = StreamFrom(Max({SkipTo, N(filler.head_id) + 1, begin}), Positions(filler)),
         Num[b] < n
  PROVE  b \in chain
<1>1. PICK h, s, P : /\ h = filler.head_id /\ s = Max({SkipTo, N(h) + 1, begin})
                     /\ P = Positions(filler)
  OBVIOUS
<1>2. filler \in Process /\ begin \in Nat /\ h \in MaybeBlock /\ filler.irreversible \in Nat
  BY <1>1, ProcessTyped DEF RdbInv, TypeOK, NodeosTypeOK
<1>3. s \in Nat
  BY <1>1, <1>2, MaxInSet, NIsNat, FillAssumption
<1>4. P \in SUBSET Block /\ filler.db.received \in SUBSET Block
  BY <1>1, <1>2, ProcessTyped, DbTyped DEF Positions
<1>5. \A c \in P : Num[c] < n => Id(Num[c]) = c
  BY <1>1, <1>3, <1>4, StreamFromLeast
<1>6. b \in filler.db.received /\ b \in Block /\ Num[b] \in Nat /\ b # NoBlock
  BY <1>4, TreeAssumption DEF FixInv, AllReceived
<1>7. Fixes(AllReceived(filler), filler.irreversible)
  BY DEF FixInv, Settled
<1>8. CASE Num[b] <= filler.irreversible
  BY <1>7, <1>8 DEF Fixes
<1>9. CASE ~(Num[b] <= filler.irreversible)
  <2>1. TipIs(AllReceived(filler), h)
    BY <1>1 DEF RdbInv, SessionInv, Sound
  <2>2. h # NoBlock /\ Num[b] <= N(h) /\ N(h) \in Nat
    BY <1>2, <2>1, NIsNat DEF TipIs, N
  <2>3. b \in P
    BY <1>1, <1>2, <1>6, <1>9, <2>2 DEF Positions, Wanted
  <2>4. Id(Num[b]) = b
    BY <1>5, <2>3
  <2> QED
    BY <1>6, <2>4 DEF Id, At
<1> QED
  BY <1>8, <1>9

LEMMA LinkedReceivedAbi ==
  ASSUME RdbInv, LineInv, FixInv, ReceivedAbi
  PROVE  LineInv' /\ FixInv' /\ LinkInv'
<1>1. /\ session = "connecting" /\ session' = "querying"
      /\ UNCHANGED <<chain, lib, begin, next, wire, torn>>
      /\ filler' = Done(CleanUp(Loaded(filler)))
  BY DEF ReceivedAbi, nodeosVars
<1>2. PICK p : p = CleanUp(Loaded(filler))
  OBVIOUS
<1>3. p \in Process /\ (~torn => p.received = {})
  BY <1>1, <1>2, CleanedUpIs, Zenon
<1>4. ~torn => Settles(p)
  BY <1>1, <1>2, LoadedSettles
<1>5. FixInv'
  BY <1>1, <1>2, <1>3, <1>4, FixInSession DEF RdbInv, TypeOK, NodeosTypeOK
<1>6. LineInv'
  <2>1. wire' = <<>> /\ next' = 0
    BY <1>1 DEF LineInv
  <2> QED
    BY <1>1, <2>1 DEF LineInv
<1>7. LinkInv'
  BY <1>1 DEF LinkInv
<1> QED
  BY <1>5, <1>6, <1>7

LEMMA LinkedReceivedStatus ==
  ASSUME RdbInv, LineInv, FixInv, ReceivedStatus
  PROVE  LineInv' /\ FixInv' /\ LinkInv'
<1>1. session = "querying" /\ UNCHANGED torn /\ filler \in Process
  BY DEF ReceivedStatus, RdbInv, TypeOK
<1>2. CASE EndSession("stopped", filler)
  BY <1>1, <1>2, LinkedEndSession DEF FixInv
<1>3. CASE ~EndSession("stopped", filler)
  <2>1. PICK h, P : h = filler.head_id /\ P = Positions(filler)
    OBVIOUS
  <2>2. /\ session' = "streaming" /\ UNCHANGED <<chain, lib, begin, wire, filler>>
        /\ next' = StreamFrom(Max({SkipTo, N(h) + 1, begin}), P)
        /\ wire = <<>>
    BY <1>1, <1>3, <2>1 DEF ReceivedStatus, LineInv
  <2>3. LineInv'
    BY <2>2 DEF LineInv
  <2>4. FixInv'
    BY <1>1, <2>2 DEF FixInv, Settled, DbFixes, Fixes, OnRoot, AllReceived
  <2>5. ASSUME ~torn, NEW b \in AllReceived(filler) PROVE Followed(b, 0)'
    <3>1. Num[b] < next' => b \in chain
      BY <1>1, <2>1, <2>2, <2>5, PositionsKept
    <3>2. Kept(b)'
      BY <2>2, <3>1 DEF Kept
    <3> QED
      BY <2>2, <3>2 DEF Followed
  <2>6. Reached(h, 0, SkipTo)'
    <3>1. /\ begin \in Nat /\ SkipTo \in Nat /\ h \in MaybeBlock /\ N(h) \in Nat
          /\ P \in SUBSET Block
      BY <1>1, <2>1, FillAssumption, ProcessTyped, DbTyped, NIsNat
         DEF RdbInv, TypeOK, NodeosTypeOK, Positions
    <3>2. Max({SkipTo, N(h) + 1, begin}) \in Nat
      BY <3>1, MaxInSet
    <3>3. next' \in Nat /\ next' <= Max({SkipTo, N(h) + 1, begin})
      BY <2>2, <3>1, <3>2, StreamFromLeast
    <3>4. Reaches(N(h), next', SkipTo)
      BY <3>1, <3>3, WantedReaches
    <3> QED
      BY <2>2, <3>4 DEF Reached, Reaches
  <2>7. LinkInv'
    BY <1>1, <2>1, <2>2, <2>5, <2>6 DEF LinkInv, AllReceived
  <2> QED
    BY <2>3, <2>4, <2>7
<1> QED
  BY <1>2, <1>3

\* The rest of the line after a message that the received blocks Q and their head are past.
LEMMA LinkTail ==
  ASSUME RdbInv, LinkInv, session = "streaming", wire # <<>>, wire' = Tail(wire),
         UNCHANGED <<chain, begin, next, session, torn>>, NEW q, filler' = q,
         ~torn => /\ \A b \in AllReceived(q) : Followed(b, 1)
                  /\ q.head_id # NoBlock => Reached(q.head_id, 1, SkipTo)
  PROVE  LinkInv'
<1>1. /\ wire \in Seq(BlocksResult) /\ 0 \in Nat /\ 0 + 1 = 1
  BY DEF RdbInv, TypeOK, NodeosTypeOK
<1>2. /\ \A b : \A i \in Nat : Followed(b, i + 1) => Followed(b, i)'
      /\ \A t, s : \A i \in Nat : Reached(t, i + 1, s) => Reached(t, i, s)'
      /\ \A i \in DOMAIN wire' : i \in Nat /\ i + 1 \in DOMAIN wire /\ wire'[i] = wire[i + 1]
  BY <1>1, PlaceForward
<1>3. \A b, t, s : /\ Followed(b, 1) => Followed(b, 0)'
                   /\ Reached(t, 1, s) => Reached(t, 0, s)'
  BY <1>1, <1>2
<1>4. ASSUME ~torn, NEW i \in DOMAIN wire', NEW t, t = wire'[i].this_block, t # NoBlock
      PROVE  Followed(t, i)' /\ Reached(t, i, SkipTo)'
  <2>1. t = wire[i + 1].this_block /\ i \in Nat /\ i + 1 \in DOMAIN wire
    BY <1>2, <1>4
  <2>2. Followed(t, i + 1) /\ Reached(t, i + 1, SkipTo)
    BY <1>4, <2>1 DEF LinkInv
  <2> QED
    BY <1>2, <2>1, <2>2
<1>5. ASSUME ~torn
      PROVE  /\ \A b \in AllReceived(q) : Followed(b, 0)'
             /\ \A t : t = q.head_id /\ t # NoBlock => Reached(t, 0, SkipTo)'
  BY <1>3, <1>5
<1> QED
  BY <1>4, <1>5 DEF LinkInv, AllReceived, Reached

LEMMA LinkedSkipResult ==
  ASSUME RdbInv, LineInv, FixInv, LinkInv, SkipResult
  PROVE  LineInv' /\ FixInv' /\ LinkInv'
<1>1. /\ wire # <<>> /\ session = "streaming" /\ wire' = Tail(wire)
      /\ Head(wire).this_block = NoBlock
      /\ UNCHANGED <<chain, lib, begin, next, session, filler, torn>>
  BY DEF SkipResult, Taken
<1>2. wire \in Seq(BlocksResult) /\ Head(wire) = wire[1]
  BY <1>1 DEF RdbInv, TypeOK, NodeosTypeOK
<1>3. LineInv'
  BY <1>1, LineTail
<1>4. FixInv'
  BY <1>1 DEF FixInv, Settled, DbFixes, Fixes, OnRoot, AllReceived
<1>5. \A b : Spares(wire[1], b)
  BY <1>1, <1>2 DEF Spares
<1>6. ~torn => /\ \A b \in AllReceived(filler) : Followed(b, 1)
               /\ filler.head_id # NoBlock => Reached(filler.head_id, 1, SkipTo)
  BY <1>1, <1>2, <1>5, PlaceAfterFirst DEF LinkInv
<1>7. LinkInv'
  BY <1>1, <1>6, LinkTail
<1> QED
  BY <1>3, <1>4, <1>7

LEMMA LinkedReceiveBlock ==
  ASSUME RdbInv, LineInv, FixInv, LinkInv, NEW part \in Parts(Head(wire)), ReceiveBlock(part)
  PROVE  LineInv' /\ FixInv' /\ LinkInv'
<1>1. PICK m, t : m = Head(wire) /\ t = m.this_block
  OBVIOUS
<1>2. /\ t # NoBlock /\ PrevMatches(m) /\ session = "streaming" /\ wire # <<>>
      /\ filler' = Done(Handled(m, part)) /\ wire' = Tail(wire)
      /\ UNCHANGED <<chain, lib, begin, next, session, torn>>
  BY <1>1 DEF ReceiveBlock, Taken
<1>3. m \in BlocksResult /\ t \in Block /\ part \in Parts(m)
  BY <1>1, <1>2, WireHead DEF RdbInv, BlocksResult, MaybeBlock
<1>4. PICK p : p = Handled(m, part)
  OBVIOUS
<1>5. p \in Process
  BY <1>1, <1>2, <1>3, <1>4, HandledIs
<1>6. wire \in Seq(BlocksResult) /\ m = wire[1] /\ 1 \in DOMAIN wire /\ filler \in Process
  BY <1>1, <1>2 DEF RdbInv, TypeOK, NodeosTypeOK
<1>7. ASSUME ~torn
      PROVE  /\ Settles(p) /\ p.head_id = t /\ p.irreversible = m.lib
             /\ AllReceived(p) \subseteq Below(AllReceived(filler), Num[t]) \cup {t}
  <2>1. Linked(m) /\ Anchored(m) /\ filler.irreversible <= m.lib /\ m.lib <= lib
    BY <1>1, <1>2, <1>7, LineHead
  <2> QED
    BY <1>1, <1>2, <1>3, <1>4, <1>7, <2>1, HandledSettles
<1>8. PICK q : q = Done(p)
  OBVIOUS
<1>9. /\ filler' = q /\ q.head_id = p.head_id /\ q.irreversible = p.irreversible
      /\ AllReceived(q) = AllReceived(p)
  BY <1>2, <1>4, <1>5, <1>8, DoneIs DEF Memory, AllReceived
<1>10. FixInv'
  BY <1>2, <1>4, <1>5, <1>7, FixInSession DEF RdbInv, TypeOK, NodeosTypeOK
<1>11. LineInv'
  BY <1>2, <1>6, <1>7, <1>9, LineTail
<1>12. ASSUME ~torn
       PROVE  /\ \A b \in AllReceived(q) : Followed(b, 1)
              /\ q.head_id # NoBlock => Reached(q.head_id, 1, SkipTo)
  <2>1. Followed(t, 1) /\ Reached(t, 1, SkipTo)
    BY <1>1, <1>2, <1>6, <1>12 DEF LinkInv
  <2>2. ASSUME NEW b \in Below(AllReceived(filler), Num[t]) PROVE Followed(b, 1)
    <3>1. Followed(b, 0)
      BY <1>2, <1>12, <2>2 DEF LinkInv, Below
    <3>2. Spares(wire[1], b)
      BY <1>1, <1>2, <1>6, <2>2 DEF Spares, N, Below
    <3> QED
      BY <1>2, <1>6, <3>1, <3>2, PlaceAfterFirst
  <2> QED
    BY <1>7, <1>9, <1>12, <2>1, <2>2
<1>13. LinkInv'
  BY <1>2, <1>9, <1>12, LinkTail
<1> QED
  BY <1>10, <1>11, <1>13

------------------------------------------------------------------------------
(* Faults and restarts *)

LEMMA LinkedConnectionLost ==
  ASSUME RdbInv, FixInv, ConnectionLost
  PROVE  LineInv' /\ FixInv' /\ LinkInv'
<1>1. EndSession("waiting", filler) /\ UNCHANGED torn /\ filler \in Process
  BY DEF ConnectionLost, RdbInv, TypeOK
<1> QED
  BY <1>1, LinkedEndSession DEF FixInv

LEMMA LinkedDie ==
  ASSUME RdbInv, FixInv, Die
  PROVE  LineInv' /\ FixInv' /\ LinkInv'
<1>1. Crash(filler.kept) /\ filler.kept \in SUBSET (Db \X BOOLEAN)
  BY ProcessTyped DEF Die, RdbInv, TypeOK
<1> QED
  BY <1>1, LinkedCrash DEF FixInv

\* A start of the process finds what is on the disk; a retry goes on with it.
LEMMA LinkedStart ==
  ASSUME RdbInv, LineInv, FixInv, OperatorStart \/ Retry
  PROVE  LineInv' /\ FixInv' /\ LinkInv'
<1>1. /\ session \in {"stopped", "waiting"} /\ session' = "connecting"
      /\ UNCHANGED <<chain, lib, begin, next, wire, torn>>
  BY DEF OperatorStart, Retry, nodeosVars
<1>2. SessionGone
  BY <1>1 DEF LineInv, SessionGone
<1>3. CASE OperatorStart
  <2>1. PICK o : o = Opened(filler.db)
    OBVIOUS
  <2>2. filler.db \in Db
    BY ProcessTyped DEF RdbInv, TypeOK
  <2>3. o.db = filler.db /\ o.kept = {<<filler.db, FALSE>>}
    BY <2>1, <2>2, OpenedIs, Zenon
  <2>4. \A k \in o.kept : k[1] = filler.db
    BY <2>3, KeptOne
  <2>5. filler' = o
    BY <1>3, <2>1 DEF OperatorStart
  <2> QED
    BY <1>1, <1>2, <2>3, <2>4, <2>5, LinkedOutOfSession DEF FixInv
<1>4. CASE Retry
  BY <1>1, <1>2, <1>4, LinkedOutOfSession DEF FixInv, Retry
<1> QED
  BY <1>3, <1>4

LEMMA LinkedStutter ==
  ASSUME RdbInv, LineInv, FixInv, LinkInv, UNCHANGED vars
  PROVE  LineInv' /\ FixInv' /\ LinkInv'
<1>1. UNCHANGED <<chain, lib, begin, next, wire, session, filler, torn>>
  BY DEF vars, nodeosVars
<1>2. LineInv'
  BY <1>1 DEF LineInv, Anchored, Fixed, OnRoot
<1>3. FixInv'
  BY <1>1 DEF FixInv, Settled, DbFixes, Fixes, OnRoot, AllReceived
<1>4. LinkInv'
  BY <1>1 DEF LinkInv, AllReceived, Followed, Spares, Links, Kept, Reached, Reaches
<1> QED
  BY <1>2, <1>3, <1>4

------------------------------------------------------------------------------
(* The theorems *)

LEMMA InitLinked == Init => LinkedInv
<1> SUFFICES ASSUME Init PROVE LinkedInv
  OBVIOUS
<1>1. /\ chain = Genesis /\ lib = 1 /\ begin = 1 /\ next = 0 /\ wire = <<>>
      /\ session = "stopped" /\ filler = Opened(EmptyDb) /\ torn = FALSE
  BY DEF Init
<1>2. EmptyDb \in Db
  BY DEF EmptyDb, Db, FillStatus, NoStatus, MaybeBlock
<1>3. filler.db = EmptyDb /\ filler.kept = {<<EmptyDb, FALSE>>}
  BY <1>1, <1>2, OpenedIs, Zenon
<1>4. \A k \in filler.kept : k[1] = EmptyDb
  BY <1>3, KeptOne
<1>5. HeightInv
  BY <1>1, NodeosAssumption DEF HeightInv
<1>6. RootInv
  <2>1. \A g \in Genesis : Num[g] \in Nat
    BY NodeosAssumption, TreeAssumption
  <2> QED
    BY <1>1, <2>1 DEF RootInv, OnRoot
<1>7. LineInv
  BY <1>1 DEF LineInv
<1>8. DbFixes(EmptyDb)
  BY <1>1 DEF DbFixes, Fixes, EmptyDb, NoStatus
<1>9. FixInv
  BY <1>1, <1>3, <1>4, <1>8 DEF FixInv
<1>10. LinkInv
  BY <1>1 DEF LinkInv
<1> QED
  BY <1>5, <1>6, <1>7, <1>9, <1>10, InitInv DEF LinkedInv

LEMMA StepLinked == LinkedInv /\ [Next]_vars => LinkedInv'
<1> SUFFICES ASSUME LinkedInv, [Next]_vars PROVE LinkedInv'
  OBVIOUS
<1>1. RdbInv /\ HeightInv /\ RootInv /\ LineInv /\ FixInv /\ LinkInv
  BY DEF LinkedInv
<1>2. RdbInv' /\ HeightInv' /\ RootInv'
  BY <1>1, StepInv, TreeStep
<1>3. CASE FillerStep
  <2>1. ASSUME NEW part \in Parts(Head(wire)), ReceiveBlock(part)
        PROVE  LineInv' /\ FixInv' /\ LinkInv'
    BY <1>1, <2>1, LinkedReceiveBlock
  <2> QED
    BY <1>1, <1>2, <1>3, <2>1, LinkedStart, LinkedReceivedAbi, LinkedReceivedStatus,
       LinkedSkipResult, LinkedStopAtBlock, LinkedPrevMismatch DEF FillerStep, LinkedInv
<1>4. CASE NodeosStep
  BY <1>1, <1>2, <1>4, LineNodeos, FixNodeos, LinkNodeos DEF LinkedInv
<1> QED
  BY <1>1, <1>2, <1>3, <1>4, LinkedStart, LinkedConnectionLost, LinkedDie, LinkedDieInside,
     LinkedStutter DEF Next, LinkedInv

\* The inductive invariant of the filler, nodeos and the messages under way: up to the
\* irreversible block the received blocks are nodeos's for good, and the first message
\* that could link to a received block does, unless a crash has cut a fork switch in two.
THEOREM LinkedInvariant == Spec => []LinkedInv
<1>1. Init => LinkedInv
  BY InitLinked
<1>2. LinkedInv /\ [Next]_vars => LinkedInv'
  BY StepLinked
<1> QED
  BY <1>1, <1>2, PTL DEF Spec

\* The block a new one is to link to, as long as no fork switch was cut in two.
LEMMA NextLinks ==
  ASSUME LinkedInv, ~torn
  PROVE  BlocksLink
<1> SUFFICES ASSUME Taken, Head(wire).this_block # NoBlock, ~PrevMatches(Head(wire))
             PROVE  LET h == N(Base(Head(wire)).head_id) IN h < begin \/ h + 1 < SkipTo
  BY DEF BlocksLink
<1>1. PICK m, t, p : m = Head(wire) /\ t = m.this_block /\ p = Base(m)
  OBVIOUS
<1>2. /\ RdbInv /\ FixInv /\ LinkInv /\ session = "streaming" /\ wire # <<>>
      /\ t # NoBlock /\ p.head_id # NoBlock /\ m.prev_block # p.head_id
  BY <1>1 DEF LinkedInv, Taken, PrevMatches
<1>3. /\ wire \in Seq(BlocksResult) /\ m = wire[1] /\ 1 \in DOMAIN wire /\ 0 < 1
      /\ begin \in Nat /\ SkipTo \in Nat /\ m \in BlocksResult /\ t \in Block
      /\ filler \in Process
  <2>1. m \in BlocksResult
    BY <1>1, <1>2, WireHead DEF RdbInv
  <2>2. t \in Block
    BY <1>1, <1>2, <2>1 DEF BlocksResult, MaybeBlock
  <2> QED
    BY <1>1, <1>2, <2>1, <2>2, FillAssumption DEF RdbInv, TypeOK, NodeosTypeOK
<1>4. /\ N(t) = Num[t] /\ Num[t] \in Nat
      /\ \A b \in Block : b # NoBlock /\ N(b) = Num[b] /\ Num[b] \in Nat
  BY <1>3, TreeAssumption DEF N
<1>5. AllReceived(filler) \in SUBSET Block
  BY <1>3, ProcessTyped, DbTyped DEF AllReceived
<1>6. \A j \in 1..0 : FALSE
  OBVIOUS
<1>7. ASSUME NEW b \in AllReceived(filler), Num[t] = Num[b] + 1
      PROVE  m.prev_block = b \/ Num[b] < begin
  <2>1. Followed(b, 0)
    BY <1>2, <1>7 DEF LinkInv
  <2>2. Links(wire[1], b)
    BY <1>3, <1>6, <2>1 DEF Followed
  <2> QED
    BY <1>1, <1>3, <1>4, <1>7, <2>2 DEF Links
<1>8. CASE Num[t] <= N(filler.head_id)
  <2>1. p.head_id \in AllReceived(filler) /\ Num[p.head_id] = Num[t] - 1
    BY <1>1, <1>2, <1>3, <1>8, BaseSettles
  <2>2. Num[t] = Num[p.head_id] + 1 /\ N(p.head_id) = Num[p.head_id]
    BY <1>4, <1>5, <2>1
  <2> QED
    BY <1>1, <1>2, <1>7, <2>1, <2>2
<1>9. CASE ~(Num[t] <= N(filler.head_id))
  <2>1. p = filler
    BY <1>1, <1>9 DEF Base
  <2>2. p.head_id \in AllReceived(filler)
    BY <1>2, <2>1 DEF RdbInv, SessionInv, Sound, TipIs
  <2>3. Reached(p.head_id, 0, SkipTo)
    BY <1>2, <2>1 DEF LinkInv
  <2>4. Reaches(N(p.head_id), N(t), SkipTo)
    BY <1>1, <1>2, <1>3, <1>6, <2>3 DEF Reached
  <2>5. N(p.head_id) = Num[p.head_id] /\ Num[p.head_id] \in Nat
    BY <1>4, <1>5, <2>2
  <2>6. CASE Num[t] = Num[p.head_id] + 1
    BY <1>1, <1>2, <1>7, <2>2, <2>5, <2>6
  <2>7. CASE Num[t] # Num[p.head_id] + 1
    BY <1>1, <1>3, <1>4, <1>9, <2>1, <2>4, <2>5, <2>7 DEF Reaches
  <2> QED
    BY <2>6, <2>7
<1> QED
  BY <1>8, <1>9

\* 'prev_block does not match' is not thrown, unless nodeos no longer serves the head,
\* the operator skips past it or a crash has cut a fork switch in two.
THEOREM BlocksLinkUnlessTorn == Spec => [](~torn => BlocksLink)
<1>1. LinkedInv => (~torn => BlocksLink)
  BY NextLinks
<1> QED
  BY <1>1, LinkedInvariant, PTL
==============================================================================
