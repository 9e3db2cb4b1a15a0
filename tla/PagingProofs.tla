----------------------------- MODULE PagingProofs -----------------------------
(***************************************************************************)
(* A client that reads a range page by page is given, with postgresql,     *)
(* every record of the snapshot once and in order.                         *)
(***************************************************************************)
EXTENDS Paging, TLAPS, WellFoundedInduction, SequenceTheorems

------------------------------------------------------------------------------
(* Numbers *)

\* A set of numbers that is not empty has a least one.
LEMMA LeastOf ==
  ASSUME NEW S \in SUBSET Nat, S # {}
  PROVE  \E n \in S : \A k \in S : n <= k
<1> DEFINE R == {ss \in Nat \X Nat : ss[1] < ss[2]}
<1>1. PICK x \in S : \A y \in S : ~(<<y, x>> \in R)
  <2>1. IsWellFoundedOn(R, Nat)
    BY NatLessThanWellFounded DEF OpToRel
  <2> HIDE DEF R
  <2> QED
    BY <2>1, WFMin
<1>2. ASSUME NEW y \in S PROVE x <= y
  <2>1. ~(y < x)
    <3> DEFINE ss == <<y, x>>
    <3>1. ss \in Nat \X Nat /\ ss[1] = y /\ ss[2] = x /\ ss \notin R
      BY <1>1
    <3> QED
      BY <3>1
  <2> QED
    BY <2>1
<1> QED
  BY <1>2

LEMMA MinOf ==
  ASSUME NEW S \in SUBSET Nat, S # {}
  PROVE  Min(S) \in S /\ \A k \in S : Min(S) <= k
BY LeastOf DEF Min

\* A set of numbers up to n that is not empty has a greatest one.
LEMMA MaxOf ==
  ASSUME NEW n \in Nat, NEW S \in SUBSET (0..n), S # {}
  PROVE  Max(S) \in S /\ \A k \in S : k <= Max(S)
<1> DEFINE D == {n - k : k \in S}
<1>1. D \in SUBSET Nat /\ D # {}
  OBVIOUS
<1>2. PICK d \in D : \A e \in D : d <= e
  BY <1>1, LeastOf
<1>3. PICK m \in S : d = n - m
  OBVIOUS
<1>4. \A k \in S : k <= m
  <2> SUFFICES ASSUME NEW k \in S PROVE k <= m
    OBVIOUS
  <2>1. n - m <= n - k
    BY <1>2, <1>3
  <2> QED
    BY <2>1
<1>5. \E x \in S : \A y \in S : x >= y
  BY <1>4
<1> QED
  BY <1>5 DEF Max

------------------------------------------------------------------------------
(* The loop over the keys *)

\* One of its turns, for each key it may begin at, given the loop with fewer turns.
ScanTurn(keys, last, found, scan, left) ==
  [lo \in 0..(MaxKey + 1) |->
    IF left = 0 \/ \A k \in keys : k < lo \/ k > last THEN <<>>
    ELSE LET k == Min({j \in keys : j >= lo})
         IN found[k] \o scan[left - 1][k + 1]]

LEMMA ScanTurnSame ==
  ASSUME NEW keys, NEW last, NEW found, NEW f, NEW g, NEW left,
         left = 0 \/ f[left - 1] = g[left - 1]
  PROVE  ScanTurn(keys, last, found, f, left) = ScanTurn(keys, last, found, g, left)
BY DEF ScanTurn

\* The loop is what its turns say it is.  There is a function with so many turns, by the
\* least number of them for which there were none.
LEMMA ScanIs ==
  ASSUME NEW keys, NEW last, NEW found, NEW count \in Nat,
         NEW turns \in 0..count
  PROVE  Scan(keys, last, found, count)[turns]
           = ScanTurn(keys, last, found, Scan(keys, last, found, count), turns)
<1> DEFINE S == Scan(keys, last, found, count)
           Turn(f, left) == ScanTurn(keys, last, found, f, left)
           Whole(f, n) == [left \in 0..n |-> Turn(f, left)]
           Solved(n) == \E f : f = Whole(f, n)
           D == {n \in Nat : ~Solved(n)}
<1>1. S = CHOOSE f : f = Whole(f, count)
  BY DEF Scan, ScanTurn
<1> HIDE DEF S, Turn
<1>2. \A f, g, left : left = 0 \/ f[left - 1] = g[left - 1] => Turn(f, left) = Turn(g, left)
  BY ScanTurnSame DEF Turn
<1>3. Solved(count)
  <2> SUFFICES ASSUME count \in D PROVE FALSE
    OBVIOUS
  <2>1. PICK n \in D : \A m \in D : n <= m
    BY LeastOf
  <2>2. CASE n = 0
    <3> DEFINE f == Whole(<<>>, n)
    <3>1. f = Whole(f, n)
      BY <1>2, <2>2
    <3> QED
      BY <3>1
  <2>3. CASE n # 0
    <3>1. n - 1 \in Nat /\ n - 1 \notin D
      BY <2>1, <2>3
    <3>2. PICK f : f = Whole(f, n - 1)
      BY <3>1
    <3> DEFINE g == Whole(f, n)
    <3>3. ASSUME NEW left \in 0..(n - 1) PROVE g[left] = f[left]
      <4>1. f[left] = Turn(f, left)
        BY <3>2
      <4> QED
        BY <4>1
    <3> HIDE DEF g
    <3>4. ASSUME NEW left \in 0..n PROVE Turn(f, left) = Turn(g, left)
      <4>1. left = 0 \/ left - 1 \in 0..(n - 1)
        OBVIOUS
      <4> QED
        BY <1>2, <3>3, <4>1
    <3>5. g = Whole(g, n)
      BY <3>4 DEF g
    <3> QED
      BY <3>5
  <2> QED
    BY <2>2, <2>3
<1>4. S = Whole(S, count)
  <2> HIDE DEF Whole
  <2> QED
    BY <1>1, <1>3
<1> QED
  BY <1>4 DEF S, Turn

------------------------------------------------------------------------------
(* What the loop finds *)

PageRow == [key : Keys, block_num : Nat, present : BOOLEAN]
Ascending(s) == \A i, j \in DOMAIN s : i < j => s[i].key < s[j].key

\* A key adds one row or none.
Adding(keys, found) ==
  \A k \in keys : found[k] = <<>> \/ \E r \in PageRow : r.key = k /\ found[k] = <<r>>

\* Rows of some of the keys from lo to last, in their order,
Found(keys, last, found, lo, s) ==
  /\ s \in Seq(PageRow) /\ Ascending(s)
  /\ \A i \in DOMAIN s : /\ s[i].key \in keys /\ lo <= s[i].key /\ s[i].key <= last
                         /\ found[s[i].key] = <<s[i]>>

\* and, when every key adds one, of each up to that of the last row.
NoneLeft(keys, last, lo, s) ==
  /\ s = <<>> => \A k \in keys : k < lo \/ k > last
  /\ s # <<>> => \A k \in keys : lo <= k /\ k <= s[Len(s)].key => \E i \in DOMAIN s : s[i].key = k

LEMMA Prepend ==
  ASSUME NEW r \in PageRow, NEW t \in Seq(PageRow)
  PROVE  /\ <<r>> \o t \in Seq(PageRow) /\ Len(<<r>> \o t) = Len(t) + 1
         /\ (<<r>> \o t)[1] = r
         /\ \A i \in 1..Len(t) : (<<r>> \o t)[i + 1] = t[i]
OBVIOUS

LEMMA FoundPrepend ==
  ASSUME NEW keys \in SUBSET Keys, NEW last \in Nat, NEW found, NEW lo \in Nat, NEW k \in keys,
         lo <= k, k <= last, NEW r \in PageRow, r.key = k, found[k] = <<r>>,
         NEW t, Found(keys, last, found, k + 1, t)
  PROVE  Found(keys, last, found, lo, <<r>> \o t)
<1> DEFINE s == <<r>> \o t
<1>1. /\ t \in Seq(PageRow) /\ s \in Seq(PageRow) /\ Len(s) = Len(t) + 1 /\ s[1] = r
      /\ \A i \in 1..Len(t) : s[i + 1] = t[i]
  BY Prepend DEF Found
<1> HIDE DEF s
<1>2. \A i \in DOMAIN s : i = 1 \/ (i - 1 \in DOMAIN t /\ s[i] = t[i - 1])
  <2> SUFFICES ASSUME NEW i \in DOMAIN s, i # 1 PROVE i - 1 \in DOMAIN t /\ s[i] = t[i - 1]
    OBVIOUS
  <2>1. i \in Nat /\ i - 1 \in 1..Len(t)
    BY <1>1
  <2> QED
    BY <1>1, <2>1
<1>3. k \in Nat /\ \A q \in PageRow : q.key \in Nat
  BY QueryAssumption DEF PageRow, Keys
<1>4. ASSUME NEW i \in DOMAIN s
      PROVE  /\ s[i].key \in keys /\ lo <= s[i].key /\ s[i].key <= last
             /\ found[s[i].key] = <<s[i]>>
  <2>1. CASE i = 1
    BY <1>1, <2>1
  <2>2. CASE i # 1
    <3>1. i - 1 \in DOMAIN t /\ s[i] = t[i - 1] /\ t[i - 1].key \in Nat
      BY <1>1, <1>2, <1>3, <2>2
    <3>2. /\ t[i - 1].key \in keys /\ k + 1 <= t[i - 1].key /\ t[i - 1].key <= last
          /\ found[t[i - 1].key] = <<t[i - 1]>>
      BY <3>1 DEF Found
    <3>3. lo <= t[i - 1].key
      BY <1>3, <3>1, <3>2
    <3> QED
      BY <3>1, <3>2, <3>3
  <2> QED
    BY <2>1, <2>2
<1>5. ASSUME NEW i \in DOMAIN s, NEW j \in DOMAIN s, i < j PROVE s[i].key < s[j].key
  <2>1. j # 1 /\ i \in Nat /\ j \in Nat
    BY <1>1, <1>5
  <2>2. j - 1 \in DOMAIN t /\ s[j] = t[j - 1] /\ t[j - 1].key \in Nat
    BY <1>1, <1>2, <1>3, <2>1
  <2>3. CASE i = 1
    BY <1>1, <1>3, <2>2, <2>3 DEF Found
  <2>4. CASE i # 1
    <3>1. i - 1 \in DOMAIN t /\ s[i] = t[i - 1] /\ i - 1 < j - 1
      BY <1>2, <1>5, <2>1, <2>4
    <3> QED
      BY <2>2, <3>1 DEF Found, Ascending
  <2> QED
    BY <2>3, <2>4
<1> QED
  BY <1>1, <1>4, <1>5 DEF Found, Ascending, s

LEMMA NoneLeftPrepend ==
  ASSUME NEW keys \in SUBSET Keys, NEW last \in Nat, NEW found, NEW lo \in Nat, NEW k \in keys,
         \A j \in keys : lo <= j => k <= j, NEW r \in PageRow, r.key = k,
         NEW t, Found(keys, last, found, k + 1, t),
         t # <<>> => NoneLeft(keys, last, k + 1, t)
  PROVE  NoneLeft(keys, last, lo, <<r>> \o t)
<1> DEFINE s == <<r>> \o t
<1>1. /\ t \in Seq(PageRow) /\ s \in Seq(PageRow) /\ Len(s) = Len(t) + 1 /\ s[1] = r
      /\ \A i \in 1..Len(t) : s[i + 1] = t[i]
  BY Prepend DEF Found
<1> HIDE DEF s
<1>2. /\ k \in Nat /\ keys \in SUBSET Nat /\ s # <<>>
  BY <1>1, QueryAssumption DEF Keys
<1> SUFFICES ASSUME NEW j \in keys, lo <= j, j <= s[Len(s)].key, j # k
             PROVE  \E i \in DOMAIN s : s[i].key = j
  BY <1>1, <1>2 DEF NoneLeft, s
<1>3. k < j
  BY <1>2
<1>4. t # <<>>
  BY <1>1, <1>2, <1>3
<1>5. Len(t) \in 1..Len(t) /\ s[Len(s)] = t[Len(t)]
  BY <1>1, <1>4
<1>6. PICK i \in DOMAIN t : t[i].key = j
  BY <1>2, <1>3, <1>4, <1>5 DEF NoneLeft
<1>7. i + 1 \in DOMAIN s /\ s[i + 1] = t[i]
  BY <1>1
<1> QED
  BY <1>6, <1>7

\* What the loop returns, by the least number of turns for which it did not.
LEMMA ScanFinds ==
  ASSUME NEW keys \in SUBSET Keys, NEW last \in Nat, NEW found, Adding(keys, found),
         NEW count \in Nat \ {0}, NEW from \in Keys
  PROVE  LET s == Scan(keys, last, found, count)[count][from]
         IN /\ Found(keys, last, found, from, s)
            /\ (\A k \in keys : found[k] # <<>>) => NoneLeft(keys, last, from, s)
<1> DEFINE S == Scan(keys, last, found, count)
           Full == \A k \in keys : found[k] # <<>>
           Good(n) == \A lo \in 0..(MaxKey + 1) :
                        /\ Found(keys, last, found, lo, S[n][lo])
                        /\ IF n = 0 THEN S[n][lo] = <<>>
                                    ELSE Full => NoneLeft(keys, last, lo, S[n][lo])
           D == {n \in 0..count : ~Good(n)}
<1>1. MaxKey \in Nat /\ keys \in SUBSET Nat /\ Keys \subseteq 0..(MaxKey + 1)
  BY QueryAssumption DEF Keys
<1>2. \A n \in 0..count : S[n] = ScanTurn(keys, last, found, S, n)
  BY ScanIs
<1>3. ASSUME NEW n \in 0..count, NEW lo \in 0..(MaxKey + 1)
      PROVE  S[n][lo] = IF n = 0 \/ \A k \in keys : k < lo \/ k > last THEN <<>>
                        ELSE LET k == Min({j \in keys : j >= lo})
                             IN found[k] \o S[n - 1][k + 1]
  BY <1>2 DEF ScanTurn
<1> HIDE DEF S
<1>4. \A lo : Found(keys, last, found, lo, <<>>)
  BY DEF Found, Ascending
<1>5. ASSUME NEW n \in 0..count, n # 0, Good(n - 1), NEW lo \in 0..(MaxKey + 1)
      PROVE  /\ Found(keys, last, found, lo, S[n][lo])
             /\ Full => NoneLeft(keys, last, lo, S[n][lo])
  <2>1. CASE \A k \in keys : k < lo \/ k > last
    <3>1. S[n][lo] = <<>>
      BY <1>3, <2>1
    <3> QED
      BY <1>4, <2>1, <3>1 DEF NoneLeft
  <2>2. CASE ~\A k \in keys : k < lo \/ k > last
    <3> DEFINE left == {j \in keys : j >= lo}
               k == Min(left)
               t == S[n - 1][k + 1]
    <3>1. PICK x \in keys : ~(x < lo \/ x > last)
      BY <2>2
    <3>2. x \in Nat /\ lo \in Nat /\ x >= lo /\ x <= last
      BY <1>1, <3>1
    <3>3. left \in SUBSET Nat /\ x \in left
      BY <1>1, <3>2
    <3>4. k \in left /\ \A j \in left : k <= j
      BY <3>3, MinOf
    <3> HIDE DEF k
    <3>5. /\ k \in keys /\ k \in Nat /\ lo <= k /\ k <= last
          /\ \A j \in keys : lo <= j => k <= j
      BY <1>1, <3>2, <3>3, <3>4
    <3>6. k + 1 \in 0..(MaxKey + 1)
      BY <1>1, <3>5 DEF Keys
    <3>7. S[n][lo] = found[k] \o t
      BY <1>3, <1>5, <2>2 DEF k
    <3>8. /\ Found(keys, last, found, k + 1, t)
          /\ t # <<>> => (Full => NoneLeft(keys, last, k + 1, t))
      BY <1>5, <3>6
    <3>9. lo \in Nat
      BY <3>2
    <3>10. t \in Seq(PageRow)
      BY <3>8 DEF Found
    <3> HIDE DEF t
    <3>11. CASE found[k] = <<>>
      <4>1. S[n][lo] = t
        BY <3>7, <3>10, <3>11, ConcatEmptySeq
      <4>2. Found(keys, last, found, lo, t)
        <5>1. \A q \in PageRow : q.key \in Nat
          BY <1>1 DEF PageRow, Keys
        <5>2. ASSUME NEW i \in DOMAIN t PROVE lo <= t[i].key
          <6>1. t[i].key \in Nat /\ k + 1 <= t[i].key
            BY <3>8, <3>10, <5>1 DEF Found
          <6> QED
            BY <3>5, <3>9, <6>1
        <5> QED
          BY <3>8, <5>2 DEF Found
      <4> QED
        BY <3>5, <3>11, <4>1, <4>2
    <3>12. CASE found[k] # <<>>
      <4>1. PICK r \in PageRow : r.key = k /\ found[k] = <<r>>
        BY <3>5, <3>12 DEF Adding
      <4>2. S[n][lo] = <<r>> \o t
        BY <3>7, <4>1
      <4>3. Found(keys, last, found, lo, <<r>> \o t)
        BY <3>5, <3>8, <3>9, <4>1, FoundPrepend
      <4>4. Full => NoneLeft(keys, last, lo, <<r>> \o t)
        BY <3>5, <3>8, <3>9, <4>1, NoneLeftPrepend
      <4> QED
        BY <4>2, <4>3, <4>4
    <3> QED
      BY <3>11, <3>12
  <2> QED
    BY <2>1, <2>2
<1>6. Good(0)
  <2>1. ASSUME NEW lo \in 0..(MaxKey + 1) PROVE S[0][lo] = <<>>
    <3>1. 0 \in 0..count
      OBVIOUS
    <3> QED
      BY <1>3, <3>1
  <2> QED
    BY <1>4, <2>1
<1>7. Good(count)
  <2> HIDE DEF Good
  <2> SUFFICES ASSUME count \in D PROVE FALSE
    OBVIOUS
  <2>1. D \in SUBSET Nat /\ D # {}
    OBVIOUS
  <2>2. PICK n \in D : \A m \in D : n <= m
    BY <2>1, LeastOf
  <2>3. n \in 1..count /\ n - 1 \in 0..count /\ n - 1 \notin D
    BY <1>6, <2>2
  <2>4. Good(n - 1)
    BY <2>3
  <2>5. Good(n)
    BY <1>5, <2>3, <2>4 DEF Good
  <2> QED
    BY <2>2, <2>5
<1> QED
  BY <1>1, <1>7 DEF S

------------------------------------------------------------------------------
(* The rows of a key *)

\* The newest row at or before block n is there.
Here(rows, k, n) ==
  \E b \in BlockNums : /\ b <= n /\ rows[k][b] = "row"
                       /\ \A c \in (b + 1)..n : rows[k][c] = "none"

LEMMA RowsAtIs ==
  ASSUME NEW rows \in Table, NEW k \in Keys, NEW n \in 0..MaxBlock
  PROVE  \/ RowsAt(rows, k, n) = <<>> /\ ~Here(rows, k, n)
         \/ /\ k \in KeysOf(rows)
            /\ \E r \in PageRow : /\ r.key = k /\ RowsAt(rows, k, n) = <<r>>
                                  /\ r.present <=> Here(rows, k, n)
<1>1. /\ MaxBlock \in Nat /\ BlockNums \subseteq Nat /\ n \in Nat
      /\ \A b \in Nat : b \in BlockNums <=> 1 <= b /\ b <= MaxBlock
  BY QueryAssumption DEF BlockNums
<1>2. BlocksOf(rows, k) \subseteq BlockNums
  BY DEF BlocksOf
<1>3. \A b \in BlockNums : b \in BlocksOf(rows, k) <=> rows[k][b] # "none"
  BY DEF BlocksOf
<1>4. CASE \A b \in BlocksOf(rows, k) : b > n
  <2>1. RowsAt(rows, k, n) = <<>>
    BY <1>4 DEF RowsAt
  <2>2. ~Here(rows, k, n)
    <3> SUFFICES ASSUME NEW b \in BlockNums, b <= n, rows[k][b] = "row" PROVE FALSE
      BY DEF Here
    <3>1. b \in BlocksOf(rows, k)
      BY <1>3
    <3> QED
      BY <1>1, <1>4, <3>1
  <2> QED
    BY <2>1, <2>2
<1>5. CASE ~\A b \in BlocksOf(rows, k) : b > n
  <2> DEFINE S == {b \in BlocksOf(rows, k) : b <= n}
             m == NewestAt(rows, k, n)
             r == Row(k, m, rows[k][m] = "row")
  <2>1. PICK x \in BlocksOf(rows, k) : ~(x > n)
    BY <1>5
  <2>2. S \in SUBSET (0..n) /\ x \in S
    <3>1. \A b \in BlocksOf(rows, k) : b \in Nat
      BY <1>1, <1>2
    <3>2. x <= n
      BY <1>1, <2>1, <3>1
    <3> QED
      BY <1>1, <3>1, <3>2
  <2>3. m \in S /\ \A b \in S : b <= m
    <3>1. m = Max(S)
      BY DEF NewestAt
    <3>2. S \in SUBSET (0..n) /\ S # {}
      BY <2>2
    <3> HIDE DEF S, m
    <3> QED
      BY <1>1, <3>1, <3>2, MaxOf
  <2>4. RowsAt(rows, k, n) = <<r>>
    BY <1>5 DEF RowsAt
  <2> HIDE DEF m
  <2>5. m \in BlockNums /\ m \in Nat /\ m <= n /\ rows[k][m] # "none"
    BY <1>1, <1>2, <1>3, <2>3
  <2>6. r \in PageRow /\ r.key = k /\ (r.present <=> rows[k][m] = "row")
    BY <2>5 DEF PageRow, Row
  <2>7. ASSUME Here(rows, k, n) PROVE rows[k][m] = "row"
    <3>1. PICK b \in BlockNums : /\ b <= n /\ rows[k][b] = "row"
                                 /\ \A c \in (b + 1)..n : rows[k][c] = "none"
      BY <2>7 DEF Here
    <3>2. b \in S /\ b \in Nat
      BY <1>1, <1>3, <3>1
    <3>3. b <= m /\ ~(b < m)
      <4>1. b < m => m \in (b + 1)..n
        BY <1>1, <2>5, <3>2
      <4> QED
        BY <2>3, <2>5, <3>1, <3>2, <4>1
    <3> QED
      BY <2>5, <3>1, <3>2, <3>3
  <2>8. ASSUME rows[k][m] = "row" PROVE Here(rows, k, n)
    <3>1. ASSUME NEW c \in (m + 1)..n PROVE rows[k][c] = "none"
      <4>1. c \in BlockNums /\ c <= n /\ ~(c <= m)
        BY <1>1, <2>5
      <4> QED
        BY <1>3, <2>3, <4>1
    <3> QED
      BY <2>5, <2>8, <3>1 DEF Here
  <2>9. k \in KeysOf(rows)
    BY <2>2 DEF KeysOf
  <2> QED
    BY <2>4, <2>6, <2>7, <2>8, <2>9
<1> QED
  BY <1>4, <1>5

\* generate_state answers every key, with an empty row when it has none.
LEMMA PgRowsAtIs ==
  ASSUME NEW rows \in Table, NEW k \in Keys, NEW n \in 0..MaxBlock
  PROVE  \E r \in PageRow : /\ r.key = k /\ PgRowsAt(rows, k, n) = <<r>>
                            /\ r.present <=> Here(rows, k, n)
<1>1. CASE RowsAt(rows, k, n) = <<>>
  <2> DEFINE r == Row(k, 0, FALSE)
  <2>1. r \in PageRow /\ r.key = k /\ r.present = FALSE
    BY DEF PageRow, Row
  <2>2. PgRowsAt(rows, k, n) = <<r>> /\ ~Here(rows, k, n)
    BY <1>1, RowsAtIs DEF PgRowsAt
  <2> QED
    BY <2>1, <2>2
<1>2. CASE RowsAt(rows, k, n) # <<>>
  BY <1>2, RowsAtIs DEF PgRowsAt
<1> QED
  BY <1>1, <1>2

\* A client's wanted keys have rows at the snapshot.
LEMMA WantedHasRows ==
  ASSUME PagingTypeOK, NEW k \in Wanted
  PROVE  /\ k \in Keys /\ k \in ask.first..ask.last /\ k \in KeysOf(table)
         /\ RowsAt(table, k, ask.snapshot) # <<>> /\ Here(table, k, ask.snapshot)
<1>1. k \in Keys /\ k \in ask.first..ask.last /\ Here(table, k, ask.snapshot)
  BY QueryAssumption DEF PagingTypeOK, Wanted, Here, Keys
<1>2. table \in Table /\ ask.snapshot \in 0..MaxBlock
  BY PagingAssumption DEF PagingTypeOK
<1> DEFINE n == ask.snapshot
<1>3. PICK r \in PageRow : k \in KeysOf(table) /\ RowsAt(table, k, n) = <<r>>
  BY <1>1, <1>2, RowsAtIs
<1> QED
  BY <1>1, <1>3

------------------------------------------------------------------------------
(* The rows that are there *)

\* One turn of PresentRows' loop.
PresentTurn(rows, present, i) ==
  IF i = 0 THEN <<>>
  ELSE IF rows[i].present THEN Append(present[i - 1], rows[i]) ELSE present[i - 1]

\* It keeps those rows, in their order.
Kept(rows, i, s) ==
  /\ s \in Seq(PageRow)
  /\ \A n \in DOMAIN s : \E j \in 1..i : rows[j] = s[n] /\ s[n].present
  /\ \A j \in 1..i : rows[j].present => \E n \in DOMAIN s : s[n] = rows[j]
  /\ Ascending(rows) => Ascending(s)

LEMMA KeptNext ==
  ASSUME NEW rows \in Seq(PageRow), NEW i \in 1..Len(rows), NEW s, Kept(rows, i - 1, s)
  PROVE  Kept(rows, i, IF rows[i].present THEN Append(s, rows[i]) ELSE s)
<1> DEFINE r == rows[i]
           t == IF r.present THEN Append(s, r) ELSE s
<1>1. r \in PageRow /\ s \in Seq(PageRow) /\ i \in Nat /\ i - 1 \in Nat
  BY DEF Kept
<1>2. \A j \in 1..i : j = i \/ j \in 1..(i - 1)
  BY <1>1
<1>3. 1..(i - 1) \subseteq 1..i /\ i \in 1..i /\ 1..i \subseteq DOMAIN rows
  BY <1>1
<1>4. CASE ~r.present
  <2>1. t = s
    BY <1>4
  <2> HIDE DEF t
  <2>2. Kept(rows, i, s)
    BY <1>2, <1>3, <1>4 DEF Kept
  <2> QED
    BY <2>1, <2>2 DEF t
<1>5. CASE r.present
  <2>1. t = Append(s, r)
    BY <1>5
  <2> HIDE DEF t
  <2>2. /\ t \in Seq(PageRow) /\ Len(t) = Len(s) + 1 /\ t[Len(t)] = r
        /\ \A n \in DOMAIN s : n \in DOMAIN t /\ t[n] = s[n]
    BY <1>1, <2>1
  <2>3. \A n \in DOMAIN t : n = Len(t) \/ n \in DOMAIN s
    BY <1>1, <2>2
  <2>4. Len(t) \in DOMAIN t /\ Len(t) \in Nat /\ Len(s) \in Nat
    BY <1>1, <2>2
  <2>5. ASSUME NEW n \in DOMAIN t PROVE \E j \in 1..i : rows[j] = t[n] /\ t[n].present
    BY <1>3, <1>5, <2>2, <2>3 DEF Kept
  <2>6. ASSUME NEW j \in 1..i, rows[j].present PROVE \E n \in DOMAIN t : t[n] = rows[j]
    <3>1. CASE j = i
      BY <2>2, <2>4, <3>1
    <3>2. CASE j # i
      <4>1. PICK n \in DOMAIN s : s[n] = rows[j]
        BY <1>2, <2>6, <3>2 DEF Kept
      <4> QED
        BY <2>2, <4>1
    <3> QED
      BY <3>1, <3>2
  <2>7. ASSUME Ascending(rows), NEW m \in DOMAIN t, NEW n \in DOMAIN t, m < n
        PROVE  t[m].key < t[n].key
    <3>1. m \in DOMAIN s
      BY <1>1, <2>2, <2>3, <2>7
    <3>2. CASE n \in DOMAIN s
      BY <2>2, <2>7, <3>1, <3>2 DEF Kept, Ascending
    <3>3. CASE n = Len(t)
      <4>1. PICK j \in 1..(i - 1) : rows[j] = s[m]
        BY <3>1 DEF Kept
      <4>2. j < i /\ j \in DOMAIN rows
        BY <1>1, <1>3
      <4>3. rows[j].key < rows[i].key
        BY <2>7, <4>2 DEF Ascending
      <4> QED
        BY <2>2, <3>1, <3>3, <4>1, <4>3
    <3> QED
      BY <2>3, <3>2, <3>3
  <2>8. Kept(rows, i, t)
    BY <2>2, <2>5, <2>6, <2>7 DEF Kept, Ascending
  <2> QED
    BY <2>8 DEF t
<1> QED
  BY <1>4, <1>5

\* What it returns; that the function it is written with exists, as in ScanIs.
LEMMA PresentKept ==
  ASSUME NEW rows \in Seq(PageRow)
  PROVE  Kept(rows, Len(rows), PresentRows(rows))
<1> DEFINE Turn(f, i) == PresentTurn(rows, f, i)
           Whole(f, n) == [i \in 0..n |-> Turn(f, i)]
           P == CHOOSE f : f = Whole(f, Len(rows))
<1>1. PresentRows(rows) = P[Len(rows)]
  BY DEF PresentRows, PresentTurn
<1>2. \A f, g, i : i = 0 \/ f[i - 1] = g[i - 1] => Turn(f, i) = Turn(g, i)
  BY DEF PresentTurn
<1>3. Len(rows) \in Nat
  OBVIOUS
<1>4. Kept(rows, 0, <<>>)
  BY DEF Kept, Ascending
<1>5. \A f : Turn(f, 0) = <<>>
  BY DEF PresentTurn
<1>6. ASSUME NEW i \in 1..Len(rows), NEW f, Kept(rows, i - 1, f[i - 1])
      PROVE  Kept(rows, i, Turn(f, i))
  <2>1. i # 0
    BY <1>3
  <2>2. Kept(rows, i, IF rows[i].present THEN Append(f[i - 1], rows[i]) ELSE f[i - 1])
    BY <1>6, KeptNext
  <2> QED
    BY <2>1, <2>2 DEF PresentTurn
<1> HIDE DEF Turn
<1>7. ASSUME NEW n \in 0..Len(rows), NEW f, f = Whole(f, n), NEW i \in 0..n
      PROVE  Kept(rows, i, f[i])
  <2> DEFINE E == {j \in 0..n : ~Kept(rows, j, f[j])}
  <2>1. \A j \in 0..n : f[j] = Turn(f, j)
    BY <1>7
  <2> SUFFICES ASSUME E # {} PROVE FALSE
    OBVIOUS
  <2>2. E \in SUBSET Nat
    OBVIOUS
  <2>3. PICK j \in E : \A k \in E : j <= k
    BY <2>2, LeastOf
  <2>4. j # 0
    BY <1>3, <1>4, <1>5, <2>1
  <2>5. j - 1 \in 0..n /\ j - 1 \notin E /\ j \in 1..Len(rows)
    BY <1>3, <2>3, <2>4
  <2>6. Kept(rows, j, Turn(f, j))
    BY <1>6, <2>5
  <2> QED
    BY <2>1, <2>6
<1>8. \E f : f = Whole(f, Len(rows))
  <2> DEFINE Has(n) == \E f : f = Whole(f, n)
             E == {n \in Nat : ~Has(n)}
  <2> SUFFICES ASSUME Len(rows) \in E PROVE FALSE
    BY <1>3
  <2>1. PICK n \in E : \A m \in E : n <= m
    BY LeastOf
  <2>2. CASE n = 0
    <3> DEFINE f == Whole(<<>>, n)
    <3>1. f = Whole(f, n)
      BY <1>2, <2>2
    <3> QED
      BY <3>1
  <2>3. CASE n # 0
    <3>1. n - 1 \in Nat /\ n - 1 \notin E
      BY <2>1, <2>3
    <3>2. PICK f : f = Whole(f, n - 1)
      BY <3>1
    <3> DEFINE g == Whole(f, n)
    <3>3. ASSUME NEW i \in 0..(n - 1) PROVE g[i] = f[i]
      <4>1. f[i] = Turn(f, i)
        BY <3>2
      <4> QED
        BY <4>1
    <3> HIDE DEF g
    <3>4. ASSUME NEW i \in 0..n PROVE Turn(f, i) = Turn(g, i)
      <4>1. i = 0 \/ i - 1 \in 0..(n - 1)
        OBVIOUS
      <4> QED
        BY <1>2, <3>3, <4>1
    <3>5. g = Whole(g, n)
      BY <3>4 DEF g
    <3> QED
      BY <3>5
  <2> QED
    BY <2>2, <2>3
<1>9. P = Whole(P, Len(rows))
  <2> HIDE DEF Whole
  <2> QED
    BY <1>8
<1> HIDE DEF P
<1> QED
  BY <1>1, <1>3, <1>7, <1>9

------------------------------------------------------------------------------
(* A page *)

\* What each of the four queries returns, for a page that begins at lo: rows of the range,
\* ascending, none of them of the key with every bit set,
PageIs(lo, s) ==
  /\ s \in Seq(PageRow) /\ Ascending(s)
  /\ \A i \in DOMAIN s : lo <= s[i].key /\ s[i].key <= ask.last /\ s[i].key < MaxKey

\* and of the snapshot: whether its rows are there, for delta tables and postgresql,
Tells(s) == \A i \in DOMAIN s : s[i].present <=> Here(table, s[i].key, ask.snapshot)

\* and with postgresql every record up to the page's last key.
NoneMissed(lo, s) ==
  /\ s = <<>> => \A k \in Wanted : k < lo
  /\ s # <<>> => \A k \in Wanted :
       lo <= k /\ k <= s[Len(s)].key => \E i \in DOMAIN s : s[i].key = k

PageTells(lo, s) ==
  /\ PageIs(lo, s)
  /\ backend = "pg" \/ delta => Tells(s)
  /\ backend = "pg" => NoneMissed(lo, s)

LEMMA FoundIsPage ==
  ASSUME PagingTypeOK, NEW keys \in SUBSET KeysOf(table), NEW found, NEW lo \in Keys,
         NEW s, Found(keys, ask.last, found, lo, s)
  PROVE  PageIs(lo, s)
<1>1. MaxKey \in Nat /\ \A k \in KeysOf(table) : k \in 0..MaxKey /\ k # MaxKey
  BY QueryAssumption DEF PagingTypeOK, KeysOf, Keys
<1>2. \A k \in KeysOf(table) : k < MaxKey
  BY <1>1
<1> QED
  BY <1>2 DEF Found, PageIs

LEMMA FoundTells ==
  ASSUME NEW keys, NEW last, NEW found, NEW lo, NEW s, Found(keys, last, found, lo, s),
         \A k \in keys : \A r \in PageRow :
           r.key = k /\ found[k] = <<r>> => (r.present <=> Here(table, k, ask.snapshot))
  PROVE  Tells(s)
<1> SUFFICES ASSUME NEW i \in DOMAIN s
             PROVE  s[i].present <=> Here(table, s[i].key, ask.snapshot)
  BY DEF Tells
<1>1. s[i] \in PageRow /\ s[i].key \in keys /\ found[s[i].key] = <<s[i]>>
  BY DEF Found
<1> QED
  BY <1>1

LEMMA NoneWantedLeft ==
  ASSUME PagingTypeOK, NEW keys, NEW lo \in Keys, NEW s, Wanted \subseteq keys,
         NoneLeft(keys, ask.last, lo, s)
  PROVE  NoneMissed(lo, s)
<1>1. \A k \in Wanted : ~(k > ask.last)
  BY QueryAssumption DEF Wanted, PagingTypeOK, Keys
<1> QED
  BY <1>1 DEF NoneLeft, NoneMissed

\* A query looks at one key at least, and for one at most MaxBlock back.
LEMMA AskIs ==
  ASSUME PagingTypeOK, NEW lo \in Keys
  PROVE  LET req == [ask EXCEPT !.first = lo]
         IN /\ req.first = lo /\ req.last = ask.last /\ req.snapshot = ask.snapshot
            /\ ask.last \in Nat /\ ask.snapshot \in 0..MaxBlock /\ table \in Table
            /\ PgMax(req) \in Nat \ {0} /\ RdbMax(req) \in Nat \ {0}
<1> DEFINE req == [ask EXCEPT !.first = lo]
<1>1. /\ req.first = lo /\ req.last = ask.last /\ req.snapshot = ask.snapshot
      /\ ask.last \in Nat /\ ask.snapshot \in 0..MaxBlock /\ table \in Table
  BY QueryAssumption, PagingAssumption DEF PagingTypeOK, Keys
<1>2. req.max_results \in Nat \ {0} /\ QueryMax \in Nat \ {0}
  BY QueryAssumption DEF PagingTypeOK
<1> HIDE DEF req
<1>3. PgMax(req) \in Nat \ {0}
  <2> DEFINE M == {req.max_results, QueryMax}
  <2>1. M \in SUBSET Nat /\ M # {} /\ 0 \notin M
    BY <1>2
  <2>2. PgMax(req) = Min(M)
    BY DEF PgMax
  <2> HIDE DEF M
  <2> QED
    BY <2>1, <2>2, MinOf
<1>4. RdbMax(req) \in Nat \ {0}
  <2> DEFINE M == {1, PgMax(req)}
             n == PgMax(req)
  <2>1. n + 1 \in Nat /\ M \in SUBSET (0..(n + 1)) /\ M # {} /\ 0 \notin M
    BY <1>3
  <2>2. RdbMax(req) = Max(M)
    BY DEF RdbMax
  <2>3. M \subseteq Nat
    BY <1>3
  <2> HIDE DEF M, n
  <2>4. Max(M) \in M
    BY <2>1, MaxOf
  <2> QED
    BY <2>1, <2>2, <2>3, <2>4
<1> QED
  BY <1>1, <1>3, <1>4 DEF req

LEMMA PgStateFinds ==
  ASSUME PagingTypeOK, NEW lo \in Keys, backend = "pg"
  PROVE  LET s == PgState(table, [ask EXCEPT !.first = lo])
         IN PageTells(lo, s)
<1> DEFINE req == [ask EXCEPT !.first = lo]
           s == PgState(table, req)
           found == [k \in Keys |-> PgRowsAt(table, k, ask.snapshot)]
           keys == KeysOf(table)
<1>1. /\ req.first = lo /\ req.last = ask.last /\ req.snapshot = ask.snapshot
      /\ ask.last \in Nat /\ ask.snapshot \in 0..MaxBlock /\ table \in Table
      /\ PgMax(req) \in Nat \ {0}
  BY AskIs
<1> HIDE DEF req
<1>2. s = Scan(keys, ask.last, found, PgMax(req))[PgMax(req)][lo]
  BY <1>1 DEF PgState
<1>3. ASSUME NEW k \in Keys
      PROVE  \E r \in PageRow : /\ r.key = k /\ found[k] = <<r>>
                                /\ r.present <=> Here(table, k, ask.snapshot)
  BY <1>1, PgRowsAtIs
<1>4. keys \in SUBSET Keys /\ keys \in SUBSET KeysOf(table)
  BY DEF KeysOf
<1>5. Wanted \subseteq keys
  BY WantedHasRows
<1> HIDE DEF s, found, keys
<1>6. Adding(keys, found) /\ \A k \in keys : found[k] # <<>>
  <2> SUFFICES ASSUME NEW k \in keys
               PROVE  /\ \E r \in PageRow : r.key = k /\ found[k] = <<r>>
                      /\ found[k] # <<>>
    BY DEF Adding
  <2>1. PICK r \in PageRow : r.key = k /\ found[k] = <<r>>
    BY <1>3, <1>4
  <2> QED
    BY <2>1
<1>7. Found(keys, ask.last, found, lo, s) /\ NoneLeft(keys, ask.last, lo, s)
  BY <1>1, <1>2, <1>4, <1>6, ScanFinds
<1>8. \A k \in keys : \A r \in PageRow :
        r.key = k /\ found[k] = <<r>> => (r.present <=> Here(table, k, ask.snapshot))
  <2> SUFFICES ASSUME NEW k \in keys, NEW r \in PageRow, found[k] = <<r>>
               PROVE  r.present <=> Here(table, k, ask.snapshot)
    OBVIOUS
  <2>1. PICK q \in PageRow : found[k] = <<q>> /\ (q.present <=> Here(table, k, ask.snapshot))
    BY <1>3, <1>4
  <2>2. q = r
    BY <2>1
  <2> QED
    BY <2>1, <2>2
<1>9. PageIs(lo, s)
  BY <1>4, <1>7, FoundIsPage
<1>10. Tells(s)
  BY <1>7, <1>8, FoundTells
<1>11. NoneMissed(lo, s)
  BY <1>5, <1>7, NoneWantedLeft
<1> QED
  BY <1>9, <1>10, <1>11 DEF s, req, PageTells

LEMMA RowsAtFound ==
  ASSUME PagingTypeOK, NEW n \in 0..MaxBlock, NEW keys \in SUBSET Keys
  PROVE  LET found == [k \in Keys |-> RowsAt(table, k, n)]
         IN /\ Adding(keys, found)
            /\ \A k \in keys : \A r \in PageRow :
                 r.key = k /\ found[k] = <<r>> => (r.present <=> Here(table, k, n))
<1> DEFINE found == [k \in Keys |-> RowsAt(table, k, n)]
<1>1. ASSUME NEW k \in Keys
      PROVE  \/ found[k] = <<>>
             \/ \E r \in PageRow : /\ r.key = k /\ found[k] = <<r>>
                                   /\ r.present <=> Here(table, k, n)
  <2>1. table \in Table
    BY DEF PagingTypeOK
  <2>2. found[k] = RowsAt(table, k, n)
    OBVIOUS
  <2> QED
    BY <2>1, <2>2, RowsAtIs
<1> HIDE DEF found
<1>2. Adding(keys, found)
  BY <1>1 DEF Adding
<1>3. ASSUME NEW k \in keys, NEW r \in PageRow, found[k] = <<r>>
      PROVE  r.present <=> Here(table, k, n)
  <2>1. PICK q \in PageRow : found[k] = <<q>> /\ (q.present <=> Here(table, k, n))
    BY <1>1, <1>3
  <2>2. q = r
    BY <1>3, <2>1
  <2> QED
    BY <2>1, <2>2
<1> QED
  BY <1>2, <1>3 DEF found

LEMMA PgTracesFinds ==
  ASSUME PagingTypeOK, NEW lo \in Keys
  PROVE  LET s == PgTraces(table, [ask EXCEPT !.first = lo])
         IN PageTells(lo, s)
<1> DEFINE req == [ask EXCEPT !.first = lo]
           s == PgTraces(table, req)
           found == [k \in Keys |-> RowsAt(table, k, ask.snapshot)]
           keys == {k \in Keys : RowsAt(table, k, ask.snapshot) # <<>>}
<1>1. /\ req.first = lo /\ req.last = ask.last /\ req.snapshot = ask.snapshot
      /\ ask.last \in Nat /\ ask.snapshot \in 0..MaxBlock /\ table \in Table
      /\ PgMax(req) \in Nat \ {0}
  BY AskIs
<1> HIDE DEF req
<1>2. s = Scan(keys, ask.last, found, PgMax(req))[PgMax(req)][lo]
  BY <1>1 DEF PgTraces
<1>3. keys \in SUBSET Keys /\ \A k \in keys : found[k] # <<>>
  OBVIOUS
<1>4. keys \in SUBSET KeysOf(table)
  BY <1>1, RowsAtIs
<1>5. Wanted \subseteq keys
  BY WantedHasRows
<1>6. /\ Adding(keys, found)
      /\ \A k \in keys : \A r \in PageRow :
           r.key = k /\ found[k] = <<r>> => (r.present <=> Here(table, k, ask.snapshot))
  BY <1>1, <1>3, RowsAtFound
<1> HIDE DEF s, found, keys
<1>7. Found(keys, ask.last, found, lo, s) /\ NoneLeft(keys, ask.last, lo, s)
  BY <1>1, <1>2, <1>3, <1>6, ScanFinds
<1>8. PageIs(lo, s)
  BY <1>4, <1>7, FoundIsPage
<1>9. Tells(s)
  BY <1>6, <1>7, FoundTells
<1>10. NoneMissed(lo, s)
  BY <1>5, <1>7, NoneWantedLeft
<1> QED
  BY <1>8, <1>9, <1>10 DEF s, req, PageTells

LEMMA RdbStateFinds ==
  ASSUME PagingTypeOK, NEW lo \in Keys, backend # "pg"
  PROVE  LET s == RdbState(table, [ask EXCEPT !.first = lo])
         IN PageTells(lo, s)
<1> DEFINE req == [ask EXCEPT !.first = lo]
           s == RdbState(table, req)
           found == [k \in Keys |-> RowsAt(table, k, ask.snapshot)]
           keys == KeysOf(table)
<1>1. /\ req.first = lo /\ req.last = ask.last /\ req.snapshot = ask.snapshot
      /\ ask.last \in Nat /\ ask.snapshot \in 0..MaxBlock /\ table \in Table
      /\ RdbMax(req) \in Nat \ {0}
  BY AskIs
<1> HIDE DEF req
<1>2. s = Scan(keys, ask.last, found, RdbMax(req))[RdbMax(req)][lo]
  BY <1>1 DEF RdbState
<1>3. keys \in SUBSET Keys /\ keys \in SUBSET KeysOf(table)
  BY DEF KeysOf
<1>4. /\ Adding(keys, found)
      /\ \A k \in keys : \A r \in PageRow :
           r.key = k /\ found[k] = <<r>> => (r.present <=> Here(table, k, ask.snapshot))
  BY <1>1, <1>3, RowsAtFound
<1> HIDE DEF s, found, keys
<1>5. Found(keys, ask.last, found, lo, s)
  BY <1>1, <1>2, <1>3, <1>4, ScanFinds
<1>6. PageIs(lo, s)
  BY <1>3, <1>5, FoundIsPage
<1>7. Tells(s)
  BY <1>4, <1>5, FoundTells
<1> QED
  BY <1>6, <1>7 DEF s, req, PageTells

\* rocksdb's action traces are not looked at the snapshot.
LEMMA RdbTracesFinds ==
  ASSUME PagingTypeOK, NEW lo \in Keys, backend # "pg", ~delta
  PROVE  LET s == RdbTraces(table, [ask EXCEPT !.first = lo])
         IN PageTells(lo, s)
<1> DEFINE req == [ask EXCEPT !.first = lo]
           s == RdbTraces(table, req)
           found == [k \in Keys |-> RowsAt(table, k, MaxBlock)]
           keys == KeysOf(table)
<1>1. /\ req.first = lo /\ req.last = ask.last /\ ask.last \in Nat /\ table \in Table
      /\ RdbMax(req) \in Nat \ {0} /\ MaxBlock \in 0..MaxBlock
  BY AskIs, QueryAssumption
<1> HIDE DEF req
<1>2. s = Scan(keys, ask.last, found, RdbMax(req))[RdbMax(req)][lo]
  BY <1>1 DEF RdbTraces
<1>3. keys \in SUBSET Keys /\ keys \in SUBSET KeysOf(table)
  BY DEF KeysOf
<1>4. Adding(keys, found)
  BY <1>1, <1>3, RowsAtFound
<1> HIDE DEF s, found, keys
<1>5. Found(keys, ask.last, found, lo, s)
  BY <1>1, <1>2, <1>3, <1>4, ScanFinds
<1>6. PageIs(lo, s)
  BY <1>3, <1>5, FoundIsPage
<1> QED
  BY <1>6 DEF s, req, PageTells

LEMMA PageFinds ==
  ASSUME PagingTypeOK
  PROVE  PageTells(first, PageRows)
<1> DEFINE req == [ask EXCEPT !.first = first]
<1>1. first \in Keys /\ delta \in BOOLEAN /\ backend \in {"pg", "rocksdb"}
  BY PagingAssumption DEF PagingTypeOK
<1>2. CASE backend = "pg" /\ delta
  <2>1. PageRows = PgState(table, req)
    BY <1>2 DEF PageRows
  <2> QED
    BY <1>1, <1>2, <2>1, PgStateFinds
<1>3. CASE backend = "pg" /\ ~delta
  <2>1. PageRows = PgTraces(table, req)
    BY <1>3 DEF PageRows
  <2> QED
    BY <1>1, <2>1, PgTracesFinds
<1>4. CASE backend = "rocksdb" /\ delta
  <2>1. PageRows = RdbState(table, req) /\ backend # "pg"
    BY <1>4 DEF PageRows
  <2> QED
    BY <1>1, <2>1, RdbStateFinds
<1>5. CASE backend = "rocksdb" /\ ~delta
  <2>1. PageRows = RdbTraces(table, req) /\ backend # "pg" /\ ~delta
    BY <1>5 DEF PageRows
  <2> QED
    BY <1>1, <2>1, RdbTracesFinds
<1> QED
  BY <1>1, <1>2, <1>3, <1>4, <1>5

------------------------------------------------------------------------------
(* The client's loop *)

\* The keys of a page after those given before it.
LEMMA GotIs ==
  ASSUME NEW g \in Seq(Keys), NEW p \in Seq(PageRow)
  PROVE  LET h == g \o [i \in DOMAIN p |-> p[i].key]
         IN /\ h \in Seq(Keys)
            /\ \A i \in DOMAIN h :
                 \/ i \in DOMAIN g /\ h[i] = g[i]
                 \/ i > Len(g) /\ i - Len(g) \in DOMAIN p /\ h[i] = p[i - Len(g)].key
            /\ \A i \in DOMAIN g : i \in DOMAIN h /\ h[i] = g[i]
            /\ \A i \in DOMAIN p : i + Len(g) \in DOMAIN h /\ h[i + Len(g)] = p[i].key
<1> DEFINE ks == [i \in DOMAIN p |-> p[i].key]
           h == g \o ks
<1>1. \A i \in DOMAIN p : p[i].key \in Keys
  <2>1. \A i \in DOMAIN p : p[i] \in PageRow
    OBVIOUS
  <2> QED
    BY <2>1 DEF PageRow
<1>2. DOMAIN p = 1..Len(p) /\ Len(p) \in Nat
  OBVIOUS
<1>3. ks \in Seq(Keys) /\ Len(ks) = Len(p) /\ \A i \in DOMAIN p : ks[i] = p[i].key
  <2>1. ks \in [1..Len(p) -> Keys]
    BY <1>1, <1>2
  <2> QED
    BY <1>2, <2>1
<1> HIDE DEF ks
<1>4. /\ h \in Seq(Keys) /\ Len(h) = Len(g) + Len(p) /\ Len(g) \in Nat
      /\ \A i \in 1..Len(g) : h[i] = g[i]
      /\ \A i \in 1..Len(p) : h[i + Len(g)] = ks[i]
  <2>1. /\ h \in Seq(Keys) /\ Len(h) = Len(g) + Len(ks) /\ Len(g) \in Nat
        /\ \A i \in 1..(Len(g) + Len(ks)) : h[i] = IF i <= Len(g) THEN g[i] ELSE ks[i - Len(g)]
    <3>1. ks \in Seq(Keys) /\ Len(g) \in Nat
      BY <1>3
    <3>2. /\ h \in Seq(Keys) /\ Len(h) = Len(g) + Len(ks)
          /\ \A i \in 1..(Len(g) + Len(ks)) : h[i] = IF i <= Len(g) THEN g[i] ELSE ks[i - Len(g)]
      BY <3>1, ConcatProperties, Zenon
    <3> QED
      BY <3>1, <3>2
  <2> HIDE DEF h
  <2>2. ASSUME NEW i \in 1..Len(g) PROVE h[i] = g[i]
    BY <1>2, <1>3, <2>1
  <2>3. ASSUME NEW i \in 1..Len(p) PROVE h[i + Len(g)] = ks[i]
    <3>1. i + Len(g) \in 1..(Len(g) + Len(ks)) /\ ~(i + Len(g) <= Len(g))
      BY <1>2, <1>3, <2>1
    <3>2. (i + Len(g)) - Len(g) = i
      BY <1>2, <2>1
    <3> QED
      BY <2>1, <3>1, <3>2
  <2> QED
    BY <1>3, <2>1, <2>2, <2>3
<1>5. ASSUME NEW i \in DOMAIN h, i \notin DOMAIN g
      PROVE  i > Len(g) /\ i - Len(g) \in DOMAIN p /\ h[i] = p[i - Len(g)].key
  <2>1. i \in Nat /\ i > Len(g) /\ i - Len(g) \in 1..Len(p) /\ (i - Len(g)) + Len(g) = i
    BY <1>4, <1>5
  <2> QED
    BY <1>2, <1>3, <1>4, <2>1
<1>6. \A i \in DOMAIN g : i \in DOMAIN h /\ h[i] = g[i]
  BY <1>4
<1>7. \A i \in DOMAIN p : i + Len(g) \in DOMAIN h /\ h[i + Len(g)] = p[i].key
  BY <1>2, <1>3, <1>4
<1> HIDE DEF h
<1>8. h \in Seq(Keys)
  BY <1>4
<1> QED
  BY <1>5, <1>6, <1>7, <1>8 DEF h, ks

\* What a page gives: the present ones of its rows.
LEMMA PresentIs ==
  ASSUME NEW lo, NEW s, PageIs(lo, s)
  PROVE  LET p == PresentRows(s)
         IN /\ p \in Seq(PageRow) /\ Ascending(p)
            /\ \A n \in DOMAIN p : \E j \in DOMAIN s : s[j] = p[n] /\ s[j].present
            /\ \A j \in DOMAIN s : s[j].present => \E n \in DOMAIN p : p[n] = s[j]
<1>1. s \in Seq(PageRow) /\ Ascending(s) /\ DOMAIN s = 1..Len(s)
  BY DEF PageIs
<1>2. Kept(s, Len(s), PresentRows(s))
  BY <1>1, PresentKept
<1> QED
  BY <1>1, <1>2 DEF Kept

LEMMA PagingInitInv ==
  PagingInit => PagingInv
<1> SUFFICES ASSUME PagingInit PROVE PagingInv
  OBVIOUS
<1>1. PagingTypeOK
  <2>1. ask.first \in Keys /\ first = ask.first /\ got = <<>>
    BY DEF PagingInit
  <2>2. first \in Keys /\ got \in Seq(Keys)
    BY <2>1
  <2> QED
    BY <2>2 DEF PagingInit, PagingTypeOK
<1>2. ask.first \in Nat /\ got = <<>> /\ first = ask.first /\ done = FALSE
  BY QueryAssumption DEF PagingInit, Keys
<1>3. \A k \in Wanted : ~(k < first)
  BY <1>2 DEF Wanted
<1>4. DOMAIN got = {} /\ ToSet(got) = {}
  BY <1>2 DEF ToSet
<1> QED
  BY <1>1, <1>2, <1>3, <1>4 DEF PagingInv

\* The last page: no key is left.
LEMMA PageEnds ==
  ASSUME PagingInv, Page, PageRows = <<>>
  PROVE  PagingInv'
<1> DEFINE p == PresentRows(PageRows)
<1>1. PagingTypeOK /\ PageTells(first, PageRows)
  BY PageFinds DEF PagingInv
<1>2. p \in Seq(PageRow) /\ \A n \in DOMAIN p : \E j \in DOMAIN PageRows : PageRows[j] = p[n]
  BY <1>1, PresentIs DEF PageTells
<1>3. /\ got' = got \o [i \in DOMAIN p |-> p[i].key] /\ done' = TRUE
      /\ UNCHANGED <<backend, delta, table, ask, first>>
  BY DEF Page
<1>4. p = <<>>
  <2>1. DOMAIN PageRows = {}
    OBVIOUS
  <2>2. DOMAIN p = {}
    BY <1>2, <2>1
  <2> HIDE DEF p
  <2> QED
    BY <1>2, <2>2
<1>5. got' = got
  <2>1. [i \in DOMAIN p |-> p[i].key] = <<>>
    BY <1>4
  <2>2. got \in Seq(Keys)
    BY <1>1 DEF PagingTypeOK
  <2> QED
    BY <1>3, <2>1, <2>2, ConcatEmptySeq
<1>6. backend = "pg" => \A k \in Wanted : k < first
  BY <1>1 DEF PageTells, NoneMissed
<1>7. Wanted' = Wanted
  BY <1>3 DEF Wanted
<1>8. PagingTypeOK'
  BY <1>1, <1>3, <1>5 DEF PagingTypeOK
<1> QED
  BY <1>3, <1>5, <1>6, <1>7, <1>8 DEF PagingInv

LEMMA PageGoesOn ==
  ASSUME PagingInv, Page, PageRows # <<>>
  PROVE  PagingInv'
<1> DEFINE s == PageRows
           p == PresentRows(PageRows)
           last == s[Len(s)].key
<1>1. PagingTypeOK /\ PageTells(first, s)
  BY PageFinds DEF PagingInv
<1>2. PageIs(first, s)
  BY <1>1 DEF PageTells
<1>3. /\ got' = got \o [i \in DOMAIN p |-> p[i].key] /\ first' = NextKey(Last(s).key)
      /\ ~done /\ UNCHANGED <<backend, delta, table, ask, done>>
  BY DEF Page
<1> HIDE DEF s
<1>4. /\ p \in Seq(PageRow) /\ Ascending(p)
      /\ \A n \in DOMAIN p : \E j \in DOMAIN s : s[j] = p[n] /\ s[j].present
      /\ \A j \in DOMAIN s : s[j].present => \E n \in DOMAIN p : p[n] = s[j]
  BY <1>2, PresentIs DEF s
<1> HIDE DEF p
<1>5. s \in Seq(PageRow) /\ s # <<>> /\ Len(s) \in DOMAIN s
  BY <1>2 DEF PageIs, s
<1>6. /\ MaxKey \in Nat /\ Keys = 0..MaxKey /\ ask.first \in Nat /\ first \in Nat
      /\ got \in Seq(Keys) /\ \A r \in PageRow : r.key \in Keys /\ r.key \in Nat
  BY <1>1, QueryAssumption DEF PagingTypeOK, PageRow, Keys
<1>7. last \in Nat /\ first <= last /\ last < MaxKey
  BY <1>2, <1>5, <1>6 DEF PageIs
<1>8. \A i \in DOMAIN s : first <= s[i].key /\ s[i].key <= last /\ s[i].key <= ask.last
  <2> SUFFICES ASSUME NEW i \in DOMAIN s PROVE s[i].key <= last
    BY <1>2 DEF PageIs
  <2>1. i = Len(s) \/ i < Len(s)
    BY <1>5
  <2>2. s[i].key \in Nat
    BY <1>5, <1>6
  <2> QED
    BY <1>2, <1>5, <1>7, <2>1, <2>2 DEF PageIs, Ascending
<1>9. first' = last + 1 /\ last + 1 \in Keys
  <2>1. last # MaxKey /\ last + 1 \in 0..MaxKey
    BY <1>6, <1>7
  <2> QED
    BY <1>3, <1>6, <2>1 DEF NextKey, Last
<1> HIDE DEF last
<1>10. /\ got' \in Seq(Keys)
       /\ \A i \in DOMAIN got' :
            \/ i \in DOMAIN got /\ got'[i] = got[i]
            \/ i > Len(got) /\ i - Len(got) \in DOMAIN p /\ got'[i] = p[i - Len(got)].key
       /\ \A i \in DOMAIN got : i \in DOMAIN got' /\ got'[i] = got[i]
       /\ \A i \in DOMAIN p : i + Len(got) \in DOMAIN got' /\ got'[i + Len(got)] = p[i].key
  <2> DEFINE h == got \o [i \in DOMAIN p |-> p[i].key]
  <2>1. got' = h
    BY <1>3
  <2>2. /\ h \in Seq(Keys)
        /\ \A i \in DOMAIN h :
             \/ i \in DOMAIN got /\ h[i] = got[i]
             \/ i > Len(got) /\ i - Len(got) \in DOMAIN p /\ h[i] = p[i - Len(got)].key
        /\ \A i \in DOMAIN got : i \in DOMAIN h /\ h[i] = got[i]
        /\ \A i \in DOMAIN p : i + Len(got) \in DOMAIN h /\ h[i + Len(got)] = p[i].key
    <3> HIDE DEF h
    <3>1. got \in Seq(Keys) /\ p \in Seq(PageRow)
      BY <1>4, <1>6
    <3> QED
      BY <3>1, GotIs DEF h
  <2> HIDE DEF h
  <2> QED
    BY <2>1, <2>2
<1>11. \A n \in DOMAIN p : p[n].key \in Nat /\ first <= p[n].key /\ p[n].key <= last
  BY <1>4, <1>5, <1>6, <1>8
<1>12. PagingTypeOK'
  BY <1>1, <1>3, <1>9, <1>10 DEF PagingTypeOK
<1>13. ask'.first <= first'
  BY <1>3, <1>6, <1>7, <1>9 DEF PagingInv
<1>14. \A i \in DOMAIN got : got[i] \in Nat /\ got[i] < first
  BY <1>6 DEF PagingInv
<1>15. ASSUME NEW i \in DOMAIN got' PROVE got'[i] < first'
  <2>1. CASE i \in DOMAIN got
    <3>1. got'[i] = got[i] /\ got[i] \in Nat /\ got[i] < first
      BY <1>10, <1>14, <2>1
    <3> QED
      BY <1>6, <1>7, <1>9, <3>1
  <2>2. CASE i \notin DOMAIN got
    <3>1. PICK n \in DOMAIN p : got'[i] = p[n].key
      BY <1>10, <2>2
    <3>2. p[n].key \in Nat /\ p[n].key <= last
      BY <1>11
    <3> QED
      BY <1>7, <1>9, <3>1, <3>2
  <2> QED
    BY <2>1, <2>2
<1>16. ASSUME NEW i \in DOMAIN got', NEW j \in DOMAIN got', i < j PROVE got'[i] < got'[j]
  <2>1. DOMAIN got = 1..Len(got) /\ Len(got) \in Nat /\ i \in Nat /\ j \in Nat
    BY <1>6, <1>10
  <2>2. CASE j \in DOMAIN got
    <3>1. i \in DOMAIN got
      BY <1>10, <1>16, <2>1, <2>2
    <3> QED
      BY <1>10, <1>16, <2>2, <3>1 DEF PagingInv
  <2>3. CASE j \notin DOMAIN got
    <3> DEFINE n == j - Len(got)
    <3>1. n \in DOMAIN p /\ got'[j] = p[n].key
      BY <1>10, <2>3
    <3>2. CASE i \in DOMAIN got
      <4>1. got'[i] \in Nat /\ got'[i] < first
        BY <1>10, <1>14, <3>2
      <4> QED
        BY <1>6, <1>11, <3>1, <4>1
    <3>3. CASE i \notin DOMAIN got
      <4> DEFINE m == i - Len(got)
      <4>1. m \in DOMAIN p /\ got'[i] = p[m].key
        BY <1>10, <3>3
      <4>2. m < n
        BY <1>16, <2>1
      <4> HIDE DEF m, n
      <4> QED
        BY <1>4, <3>1, <4>1, <4>2 DEF Ascending
    <3> QED
      BY <3>2, <3>3
  <2> QED
    BY <2>2, <2>3
<1>17. Wanted' = Wanted
  BY <1>3 DEF Wanted
<1>18. ASSUME backend = "pg" \/ delta PROVE ToSet(got') \subseteq Wanted
  <2> SUFFICES ASSUME NEW i \in DOMAIN got' PROVE got'[i] \in Wanted
    BY DEF ToSet
  <2>1. CASE i \in DOMAIN got
    <3>1. got[i] \in Wanted
      BY <1>18, <2>1 DEF PagingInv, ToSet
    <3> QED
      BY <1>10, <2>1, <3>1
  <2>2. CASE i \notin DOMAIN got
    <3>1. PICK n \in DOMAIN p : got'[i] = p[n].key
      BY <1>10, <2>2
    <3>2. PICK j \in DOMAIN s : s[j] = p[n] /\ s[j].present
      BY <1>4
    <3>3. Here(table, s[j].key, ask.snapshot)
      BY <1>1, <1>18, <3>2 DEF PageTells, Tells
    <3>4. s[j].key \in ask.first..ask.last
      <4>1. s[j].key \in Nat /\ ask.first <= first /\ first <= s[j].key /\ s[j].key <= ask.last
        BY <1>5, <1>6, <1>8 DEF PagingInv
      <4>2. ask.last \in Nat
        BY <1>1, QueryAssumption DEF PagingTypeOK, Keys
      <4> QED
        BY <1>6, <4>1, <4>2
    <3>5. s[j].key \in Wanted
      BY <3>3, <3>4 DEF Wanted, Here
    <3> QED
      BY <3>1, <3>2, <3>5
  <2> QED
    BY <2>1, <2>2
<1>19. ASSUME backend = "pg", NEW k \in Wanted, k < first' PROVE k \in ToSet(got')
  <2>1. k \in Nat /\ k <= last /\ Here(table, k, ask.snapshot)
    <3>1. k \in Keys /\ Here(table, k, ask.snapshot)
      BY <1>1, WantedHasRows
    <3> QED
      BY <1>6, <1>7, <1>9, <1>19, <3>1
  <2>2. CASE k < first
    <3>1. k \in ToSet(got)
      BY <1>19, <2>2 DEF PagingInv
    <3>2. PICK i \in DOMAIN got : got[i] = k
      BY <3>1 DEF ToSet
    <3> QED
      BY <1>10, <3>2 DEF ToSet
  <2>3. CASE first <= k
    <3>1. PICK j \in DOMAIN s : s[j].key = k
      BY <1>1, <1>5, <1>19, <2>1, <2>3 DEF PageTells, NoneMissed, last
    <3>2. s[j].present
      BY <1>1, <1>19, <2>1, <3>1 DEF PageTells, Tells
    <3>3. PICK n \in DOMAIN p : p[n] = s[j]
      BY <1>4, <3>2
    <3> QED
      BY <1>10, <3>1, <3>3 DEF ToSet
  <2> QED
    BY <1>6, <2>1, <2>2, <2>3
<1> QED
  BY <1>3, <1>12, <1>13, <1>15, <1>16, <1>17, <1>18, <1>19 DEF PagingInv

\* The strengthening the properties rest on: Paging.PagingInv.
LEMMA PagingNextInv ==
  PagingInv /\ [PagingNext]_pagingVars => PagingInv'
<1> SUFFICES ASSUME PagingInv, [PagingNext]_pagingVars PROVE PagingInv'
  OBVIOUS
<1>1. CASE Page /\ PageRows = <<>>
  BY <1>1, PageEnds
<1>2. CASE Page /\ PageRows # <<>>
  BY <1>2, PageGoesOn
<1>3. CASE UNCHANGED pagingVars
  BY <1>3 DEF pagingVars, PagingInv, PagingTypeOK, Wanted
<1> QED
  BY <1>1, <1>2, <1>3 DEF PagingNext

\* The next page begins past every key that was given (main.hpp's increment_key of the
\* last row's), the keys given are ascending, and postgresql has left none before it out.
THEOREM PagingInvariant == PagingSpec => []PagingInv
<1>1. PagingInit => PagingInv
  BY PagingInitInv
<1>2. PagingInv /\ [PagingNext]_pagingVars => PagingInv'
  BY PagingNextInv
<1> QED
  BY <1>1, <1>2, PTL DEF PagingSpec

\* Whatever the table, the range, the page size and the snapshot: any number of pages has
\* given records of the snapshot, ascending, none newer, none erased and none twice.
THEOREM AlwaysSnapshotKept == PagingSpec => []SnapshotKept
<1>1. PagingInv => SnapshotKept
  <2> SUFFICES ASSUME PagingInv PROVE InOrder
    BY DEF PagingInv, SnapshotKept
  <2> SUFFICES ASSUME NEW i \in 1..(Len(got) - 1) PROVE got[i] < got[i + 1]
    BY DEF InOrder
  <2>1. got \in Seq(Keys)
    BY DEF PagingInv, PagingTypeOK
  <2>2. i \in DOMAIN got /\ i + 1 \in DOMAIN got /\ i < i + 1
    BY <2>1
  <2> QED
    BY <2>2 DEF PagingInv
<1> QED
  BY <1>1, PagingInvariant, PTL

\* With postgresql a client that has read to the end has every record of the range at the
\* snapshot, once, in the order of the keys (database.hpp's query_database).
THEOREM PgAlwaysEveryKeyOnce == PagingSpec => []PgEveryKeyOnce
<1>1. PagingInv /\ SnapshotKept => PgEveryKeyOnce
  <2> SUFFICES ASSUME PagingInv, SnapshotKept, backend = "pg", done
               PROVE  ToSet(got) = Wanted /\ InOrder
    BY DEF PgEveryKeyOnce, EveryKeyOnce
  <2>1. ToSet(got) \subseteq Wanted /\ InOrder
    BY DEF SnapshotKept
  <2>2. Wanted \subseteq ToSet(got)
    BY DEF PagingInv
  <2> QED
    BY <2>1, <2>2
<1> QED
  BY <1>1, PagingInvariant, AlwaysSnapshotKept, PTL
==============================================================================
