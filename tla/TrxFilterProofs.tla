---------------------------- MODULE TrxFilterProofs ----------------------------
(***************************************************************************)
(* The --fill-trx filter, for every list of rules and every block: the     *)
(* loop over the rules decides as the documentation says, nothing is       *)
(* written that the rules keep out, and the ordinals follow the nesting.   *)
(***************************************************************************)
EXTENDS TrxFilter, TLAPS, WellFoundedInduction, SequenceTheorems

------------------------------------------------------------------------------
(* Numbers *)

\* A set of numbers that is not empty has a least one.
LEMMA LeastNumber ==
  ASSUME NEW S \in SUBSET Nat, S # {}
  PROVE  \E n \in S : \A k \in S : n <= k
<1> DEFINE R == {ss \in Nat \X Nat : ss[1] < ss[2]}
<1>1. PICK x \in S : \A y \in S : ~(<<y, x>> \in R)
  <2>1. IsWellFoundedOn(R, Nat)
    BY NatLessThanWellFounded DEF OpToRel
  <2> HIDE DEF R
  <2> QED
    BY <2>1, WFMin
<1>2. ASSUME NEW y \in S PROVE x <= y
  <2>1. ~(y < x)
    <3> DEFINE ss == <<y, x>>
    <3>1. ss \in Nat \X Nat /\ ss[1] = y /\ ss[2] = x /\ ss \notin R
      BY <1>1
    <3> QED
      BY <3>1
  <2> QED
    BY <2>1
<1> QED
  BY <1>2

\* Two functions on 1..n + 1 that agree at n + 1, and at every i that they agree after,
\* agree: the form of the recursions below, whose last case comes first.
LEMMA AgreeDownwards ==
  ASSUME NEW n \in Nat, NEW f, NEW g, f[n] = g[n],
         \A i \in 1..n : i < n /\ f[i + 1] = g[i + 1] => f[i] = g[i]
  PROVE  \A i \in 1..n : f[i] = g[i]
<1> SUFFICES ASSUME NEW i \in 1..n, f[i] # g[i] PROVE FALSE
  OBVIOUS
<1> DEFINE D == {k \in Nat : k < n /\ f[n - k] # g[n - k]}
<1>1. n - i \in D
  <2>1. n - i \in Nat /\ n - i < n /\ n - (n - i) = i
    OBVIOUS
  <2> QED
    BY <2>1
<1>2. PICK k \in D : \A j \in D : k <= j
  BY <1>1, LeastNumber
<1>3. k # 0 /\ k \in Nat /\ k < n
  OBVIOUS
<1>4. k - 1 \in Nat /\ k - 1 < n /\ n - (k - 1) = (n - k) + 1 /\ n - k \in 1..n /\ n - k < n
  BY <1>3
<1>5. f[(n - k) + 1] = g[(n - k) + 1]
  BY <1>2, <1>3, <1>4
<1> QED
  BY <1>4, <1>5

------------------------------------------------------------------------------
(* The rules *)

\* The first rule of the list that matches an action decides, as doc/database-fillers.md
\* says; an action that no rule matches does not pass.
FirstMatchIncludes(filters, status, a, i) ==
  \E m \in i..Len(filters) :
    /\ filters[m].include
    /\ Matches(filters[m], status, a)
    /\ \A e \in i..m - 1 : ~Matches(filters[e], status, a)

\* The same for sets of numbers: of i..L, the first that is in M is in I.
FirstIn(M, I, i, L) == \E m \in i..L : m \in I /\ m \in M /\ \A e \in i..m - 1 : e \notin M

\* Whether the first is in I depends on i when i is in M, and else on what follows i.
LEMMA FirstInStep ==
  ASSUME NEW L \in Nat, NEW M, NEW I, NEW i \in 1..L + 1
  PROVE  FirstIn(M, I, i, L) <=> /\ i <= L
                                 /\ i \in M => i \in I
                                 /\ i \notin M => FirstIn(M, I, i + 1, L)
<1>1. CASE i > L
  BY <1>1 DEF FirstIn
<1>2. CASE i <= L /\ i \in M
  <2>1. FirstIn(M, I, i, L) => i \in I
    <3>1. SUFFICES ASSUME NEW m \in i..L, m \in I, \A e \in i..m - 1 : e \notin M PROVE m = i
      BY DEF FirstIn
    <3> QED
      BY <1>2, <3>1
  <2>2. i \in I => FirstIn(M, I, i, L)
    BY <1>2 DEF FirstIn
  <2> QED
    BY <1>2, <2>1, <2>2
<1>3. CASE i <= L /\ i \notin M
  <2>1. ASSUME NEW m \in i..L, m \in I, m \in M, \A e \in i..m - 1 : e \notin M
        PROVE  FirstIn(M, I, i + 1, L)
    <3>1. m \in i + 1..L /\ \A e \in i + 1..m - 1 : e \notin M
      BY <1>3, <2>1
    <3> QED
      BY <2>1, <3>1 DEF FirstIn
  <2>2. ASSUME NEW m \in i + 1..L, m \in I, m \in M, \A e \in i + 1..m - 1 : e \notin M
        PROVE  FirstIn(M, I, i, L)
    <3>1. m \in i..L /\ \A e \in i..m - 1 : e \notin M
      BY <1>3, <2>2
    <3> QED
      BY <2>2, <3>1 DEF FirstIn
  <2>3. FirstIn(M, I, i, L) <=> FirstIn(M, I, i + 1, L)
    BY <2>1, <2>2 DEF FirstIn
  <2> QED
    BY <1>3, <2>3
<1> QED
  BY <1>1, <1>2, <1>3

LEMMA FilterActionFirst ==
  ASSUME NEW filters \in Seq(Rule), NEW status, NEW a
  PROVE  FilterAction(filters, status, a) <=> FirstMatchIncludes(filters, status, a, 1)
<1> DEFINE L == Len(filters)
           M == {k \in 1..L : Matches(filters[k], status, a)}
           I == {k \in 1..L : filters[k].include}
           F(f) == [i \in 1..L + 1 |->
                      i <= L /\ IF Matches(filters[i], status, a) THEN filters[i].include
                                                                  ELSE f[i + 1]]
           G == [i \in 1..L + 1 |-> FirstIn(M, I, i, L)]
           P == CHOOSE f : f = F(f)
<1>1. L \in Nat /\ \A i \in 1..L : filters[i].include \in BOOLEAN
  <2>1. ASSUME NEW i \in 1..L PROVE filters[i].include \in BOOLEAN
    <3>1. filters[i] \in Rule
      OBVIOUS
    <3> QED
      BY <3>1, Zenon DEF Rule
  <2> QED
    BY <2>1
<1>2. \A i \in 1..L : i \in 1..L + 1 /\ i + 1 \in 1..L + 1 /\ i <= L
  BY <1>1
<1>3. ASSUME NEW i \in 1..L + 1, NEW f, i <= L => f[i + 1] = G[i + 1]
      PROVE  F(f)[i] = FirstIn(M, I, i, L)
  <2>1. FirstIn(M, I, i, L) <=> /\ i <= L
                                /\ i \in M => i \in I
                                /\ i \notin M => FirstIn(M, I, i + 1, L)
    BY <1>1, FirstInStep
  <2>2. i <= L => i \in 1..L
    BY <1>1
  <2>3. i <= L => f[i + 1] = FirstIn(M, I, i + 1, L)
    BY <1>2, <1>3, <2>2, Zenon
  <2>4. F(f)[i] = (i <= L /\ IF Matches(filters[i], status, a) THEN filters[i].include
                                                               ELSE f[i + 1])
    BY Zenon
  <2>5. FirstIn(M, I, i, L) \in BOOLEAN /\ FirstIn(M, I, i + 1, L) \in BOOLEAN
    BY Zenon DEF FirstIn
  <2>6. CASE i <= L /\ Matches(filters[i], status, a)
    <3>1. filters[i].include \in BOOLEAN /\ i \in M /\ (i \in I <=> filters[i].include)
      BY <1>1, <2>2, <2>6, Zenon
    <3>2. F(f)[i] = filters[i].include
      BY <2>4, <2>6, <3>1, Zenon
    <3>3. FirstIn(M, I, i, L) <=> filters[i].include
      BY <2>1, <2>6, <3>1, Zenon
    <3> QED
      BY <2>5, <3>1, <3>2, <3>3, Zenon
  <2>7. CASE i <= L /\ ~Matches(filters[i], status, a)
    <3>1. F(f)[i] = f[i + 1]
      BY <2>3, <2>4, <2>5, <2>7, Zenon
    <3>2. FirstIn(M, I, i, L) <=> FirstIn(M, I, i + 1, L)
      BY <2>1, <2>7, Zenon
    <3> QED
      BY <2>3, <2>5, <2>7, <3>1, <3>2, Zenon
  <2>8. CASE ~(i <= L)
    BY <2>1, <2>4, <2>5, <2>8, Zenon
  <2> QED
    BY <2>6, <2>7, <2>8, Zenon
<1>4. G = F(G)
  <2>1. \A i \in 1..L + 1 : F(G)[i] = FirstIn(M, I, i, L)
    BY <1>3, Zenon
  <2> QED
    BY <2>1, Zenon
<1>5. P = F(P)
  BY <1>4, Zenon
<1>6. P[1] = G[1]
  <2>1. ASSUME NEW i \in 1..L + 1, i <= L => P[i + 1] = G[i + 1]
        PROVE  P[i] = G[i]
    <3>1. F(P)[i] = G[i]
      BY <1>3, <2>1, Zenon
    <3> QED
      BY <1>5, <3>1, Zenon
  <2> HIDE DEF P, G
  <2>2. L + 1 \in Nat /\ L + 1 \in 1..L + 1 /\ ~(L + 1 <= L) /\ 1 \in 1..L + 1
    BY <1>1
  <2>3. P[L + 1] = G[L + 1]
    BY <2>1, <2>2, Zenon
  <2>4. \A i \in 1..L + 1 : i < L + 1 /\ P[i + 1] = G[i + 1] => P[i] = G[i]
    BY <2>1, Zenon
  <2>5. \A i \in 1..L + 1 : P[i] = G[i]
    BY <2>2, <2>3, <2>4, AgreeDownwards
  <2> QED
    BY <2>2, <2>5, Zenon
<1>7. FilterAction(filters, status, a) = P[1]
  BY Zenon DEF FilterAction
<1>8. G[1] <=> FirstMatchIncludes(filters, status, a, 1)
  <2>1. G[1] = FirstIn(M, I, 1, L)
    BY <1>1
  <2>2. ASSUME NEW m \in 1..L
        PROVE  /\ m \in I <=> filters[m].include
               /\ m \in M <=> Matches(filters[m], status, a)
               /\ (\A e \in 1..m - 1 : e \notin M)
                    <=> \A e \in 1..m - 1 : ~Matches(filters[e], status, a)
    <3>1. \A e \in 1..m - 1 : e \in 1..L
      BY <1>1
    <3> QED
      BY <3>1, Zenon
  <2> QED
    BY <2>1, <2>2, Zenon DEF FirstIn, FirstMatchIncludes
<1>9. FilterAction(filters, status, a) = G[1]
  BY <1>6, <1>7, Zenon
<1> HIDE DEF G
<1> QED
  BY <1>8, <1>9, Zenon

------------------------------------------------------------------------------
(* The nesting levels *)

\* Of the n levels, those in T pass: from level k on, the levels up to h are written.
\* Level h is the innermost, or the level after it is not written because the failed
\* trace it carries, which is at level h + 2, does not pass.
IsTop(T, n, k, h) ==
  \/ h = n /\ \A j \in k + 1..n : j \in T
  \/ h + 2 <= n /\ h + 2 \notin T /\ \A j \in k + 1..h + 1 : j \in T

LEMMA TopExists ==
  ASSUME NEW n \in Nat, NEW k \in 1..n, NEW T
  PROVE  \E h \in k - 1..n : IsTop(T, n, k, h)
<1> DEFINE S == {j \in k + 1..n : j \notin T}
<1>1. CASE S = {}
  BY <1>1 DEF IsTop
<1>2. CASE S # {}
  <2>1. S \in SUBSET Nat
    OBVIOUS
  <2>2. PICK j \in S : \A i \in S : j <= i
    BY <1>2, <2>1, LeastNumber
  <2>3. j - 2 \in k - 1..n /\ (j - 2) + 2 = j /\ (j - 2) + 1 = j - 1 /\ j <= n /\ j \notin T
    BY <2>2
  <2>4. \A i \in k + 1..j - 1 : i \in T
    BY <2>2, <2>3
  <2>5. IsTop(T, n, k, j - 2)
    BY <2>3, <2>4 DEF IsTop
  <2> QED
    BY <2>3, <2>5
<1> QED
  BY <1>1, <1>2

LEMMA TopUnique ==
  ASSUME NEW n \in Nat, NEW k \in 1..n, NEW T, NEW g \in k - 1..n, NEW h \in k - 1..n,
         IsTop(T, n, k, g), IsTop(T, n, k, h)
  PROVE  g = h
BY DEF IsTop

\* The top from k is the one from k + 1 when level k + 1 passes, and k - 1 when it does not.
LEMMA TopStep ==
  ASSUME NEW n \in Nat, NEW k \in 1..n, NEW T, NEW h \in k - 1..n, IsTop(T, n, k, h)
  PROVE  /\ k = n => h = n
         /\ k < n /\ k + 1 \in T => h >= k /\ IsTop(T, n, k + 1, h)
         /\ k < n /\ k + 1 \notin T => h = k - 1
<1>1. k = n => h = n
  BY DEF IsTop
<1>2. ASSUME k < n, k + 1 \in T PROVE h >= k /\ IsTop(T, n, k + 1, h)
  BY <1>2 DEF IsTop
<1>3. ASSUME k < n, k + 1 \notin T PROVE h = k - 1
  BY <1>3 DEF IsTop
<1> QED
  BY <1>1, <1>2, <1>3

\* The numbers from h down to k.
Downwards(h, k) == [i \in 1..h + 1 - k |-> h + 1 - i]

LEMMA DownwardsStep ==
  ASSUME NEW h \in Nat, NEW k \in 1..h
  PROVE  Downwards(h, k) = Downwards(h, k + 1) \o <<k>>
<1> DEFINE s == Downwards(h, k + 1)
           t == Downwards(h, k)
<1>1. /\ s \in Seq(Int) /\ Len(s) = h - k /\ \A i \in 1..h - k : s[i] = h + 1 - i
      /\ t \in Seq(Int) /\ Len(t) = (h - k) + 1 /\ \A i \in 1..(h - k) + 1 : t[i] = h + 1 - i
  <2>1. h + 1 - (k + 1) = h - k /\ h + 1 - k = (h - k) + 1 /\ h - k \in Nat
    OBVIOUS
  <2>2. \A i \in 1..(h - k) + 1 : h + 1 - i \in Int
    BY <2>1
  <2> QED
    BY <2>1, <2>2 DEF Downwards
<1> HIDE DEF s, t
<1> DEFINE u == <<k>>
<1>2. u \in Seq(Int) /\ Len(u) = 1 /\ u[1] = k
  OBVIOUS
<1> HIDE DEF u
<1>3. h - k \in Nat
  OBVIOUS
<1>4. PICK c : c = s \o u
  OBVIOUS
<1>5. /\ c \in Seq(Int) /\ Len(c) = (h - k) + 1
      /\ \A i \in 1..(h - k) + 1 : c[i] = IF i <= h - k THEN s[i] ELSE u[i - (h - k)]
  <2>1. /\ c \in Seq(Int) /\ Len(c) = Len(s) + Len(u)
        /\ \A i \in 1..Len(s) + Len(u) : c[i] = IF i <= Len(s) THEN s[i] ELSE u[i - Len(s)]
    BY <1>1, <1>2, <1>4, ConcatProperties
  <2> QED
    BY <1>1, <1>2, <2>1
<1>6. ASSUME NEW i \in 1..(h - k) + 1 PROVE t[i] = c[i]
  <2>1. CASE i <= h - k
    BY <1>1, <1>3, <1>5, <2>1
  <2>2. CASE i = (h - k) + 1
    <3>1. i - (h - k) = 1 /\ ~(i <= h - k)
      BY <1>3, <2>2
    <3>2. c[i] = u[1]
      BY <1>5, <3>1
    <3>3. t[i] = k
      BY <1>1, <1>3, <2>2
    <3> QED
      BY <1>2, <3>2, <3>3
  <2> QED
    BY <1>3, <2>1, <2>2
<1>7. t = c
  BY <1>1, <1>5, <1>6, SeqEqual
<1> QED
  BY <1>4, <1>7 DEF s, t, u

\* write_transaction_trace writes an inner stretch of the levels, from some level h down
\* to the first, and each failed trace among them passes the filter.
LEMMA LevelsAreDownwards ==
  ASSUME NEW filters, NEW trx \in Seq(Trace) \ {<<>>}
  PROVE  \E h \in 0..Len(trx) : /\ Levels(filters, trx) = Downwards(h, 1)
                                /\ \A j \in 2..h : FilterTrace(filters, trx[j])
                                /\ Len(trx) = 1 => h = 1
<1> DEFINE n == Len(trx)
           T == {j \in 1..n : FilterTrace(filters, trx[j])}
           H(k) == CHOOSE h \in k - 1..n : IsTop(T, n, k, h)
           F(f) == [k \in 1..n |->
                      IF k = n THEN <<k>>
                      ELSE IF FilterTrace(filters, trx[k + 1]) THEN f[k + 1] \o <<k>> ELSE <<>>]
           G == [k \in 1..n |-> Downwards(H(k), k)]
           P == CHOOSE f : f = F(f)
<1>1. n \in Nat /\ n >= 1 /\ 1 \in 1..n /\ n \in 1..n
  OBVIOUS
<1>2. ASSUME NEW k \in 1..n PROVE H(k) \in k - 1..n /\ IsTop(T, n, k, H(k))
  <2> HIDE DEF T
  <2>1. \E h \in k - 1..n : IsTop(T, n, k, h)
    BY <1>1, TopExists
  <2> QED
    BY <2>1, Zenon
<1>3. ASSUME NEW k \in 1..n, NEW f, k < n => f[k + 1] = G[k + 1]
      PROVE  F(f)[k] = Downwards(H(k), k)
  <2>1. F(f)[k] = IF k = n THEN <<k>>
                  ELSE IF FilterTrace(filters, trx[k + 1]) THEN f[k + 1] \o <<k>> ELSE <<>>
    BY Zenon
  <2>2. PICK h : h = H(k)
    OBVIOUS
  <2>3. h \in k - 1..n /\ IsTop(T, n, k, h)
    BY <1>2, <2>2, Zenon
  <2>4. /\ k = n => h = n
        /\ k < n /\ k + 1 \in T => h >= k /\ IsTop(T, n, k + 1, h)
        /\ k < n /\ k + 1 \notin T => h = k - 1
    <3> HIDE DEF T
    <3> QED
      BY <1>1, <2>3, TopStep
  <2>5. k # n => k < n /\ k + 1 \in 1..n
    BY <1>1
  <2>6. CASE k = n
    <3>1. Downwards(h, k) = <<k>>
      BY <1>1, <2>4, <2>6 DEF Downwards
    <3> QED
      BY <2>1, <2>2, <2>6, <3>1, Zenon
  <2>7. CASE k # n /\ ~FilterTrace(filters, trx[k + 1])
    <3>1. h = k - 1
      BY <2>4, <2>5, <2>7, Zenon
    <3>2. Downwards(h, k) = <<>>
      BY <3>1 DEF Downwards
    <3> QED
      BY <2>1, <2>2, <2>7, <3>2, Zenon
  <2>8. CASE k # n /\ FilterTrace(filters, trx[k + 1])
    <3>1. k + 1 \in T
      BY <2>5, <2>8, Zenon
    <3>2. h >= k /\ h \in Nat /\ k \in 1..h /\ h \in (k + 1) - 1..n /\ IsTop(T, n, k + 1, h)
      BY <1>1, <2>3, <2>4, <2>5, <2>8, <3>1
    <3>3. H(k + 1) = h
      <4>1. H(k + 1) \in (k + 1) - 1..n /\ IsTop(T, n, k + 1, H(k + 1))
        BY <1>2, <2>5, <2>8, Zenon
      <4>2. PICK g : g = H(k + 1)
        OBVIOUS
      <4> HIDE DEF T, H
      <4>3. g \in (k + 1) - 1..n /\ IsTop(T, n, k + 1, g)
        BY <4>1, <4>2
      <4>4. g = h
        BY <1>1, <2>5, <2>8, <3>2, <4>3, TopUnique
      <4> QED
        BY <4>2, <4>4
    <3>4. f[k + 1] = Downwards(h, k + 1)
      BY <1>3, <2>5, <2>8, <3>3, Zenon
    <3>5. Downwards(h, k) = Downwards(h, k + 1) \o <<k>>
      BY <3>2, DownwardsStep
    <3> QED
      BY <2>1, <2>2, <2>8, <3>4, <3>5, Zenon
  <2> QED
    BY <2>6, <2>7, <2>8, Zenon
<1>4. G = F(G)
  <2>1. \A k \in 1..n : F(G)[k] = Downwards(H(k), k)
    BY <1>3, Zenon
  <2> QED
    BY <2>1, Zenon
<1>5. P = F(P)
  BY <1>4, Zenon
<1>6. P[1] = Downwards(H(1), 1)
  <2>1. ASSUME NEW k \in 1..n, k < n => P[k + 1] = G[k + 1]
        PROVE  P[k] = G[k]
    <3>1. F(P)[k] = G[k]
      BY <1>3, <2>1, Zenon
    <3> QED
      BY <1>5, <3>1, Zenon
  <2>2. G[1] = Downwards(H(1), 1)
    BY <1>1, Zenon
  <2> HIDE DEF P, G
  <2>3. ~(n < n)
    BY <1>1
  <2>4. P[n] = G[n]
    BY <1>1, <2>1, <2>3, Zenon
  <2>5. \A k \in 1..n : k < n /\ P[k + 1] = G[k + 1] => P[k] = G[k]
    BY <2>1, Zenon
  <2>6. \A k \in 1..n : P[k] = G[k]
    BY <1>1, <2>4, <2>5, AgreeDownwards
  <2> QED
    BY <1>1, <2>2, <2>6, Zenon
<1>7. Levels(filters, trx) = P[1]
  BY Zenon DEF Levels
<1>8. PICK h : h = H(1)
  OBVIOUS
<1>9. h \in 1 - 1..n /\ IsTop(T, n, 1, h)
  BY <1>1, <1>2, <1>8, Zenon
<1>10. \A j \in 2..h : j \in T
  <2> HIDE DEF T
  <2> QED
    BY <1>1, <1>9 DEF IsTop
<1>11. n = 1 => h = 1
  <2> HIDE DEF T
  <2> QED
    BY <1>1, <1>9 DEF IsTop
<1>12. h \in 0..n
  BY <1>9
<1>13. Levels(filters, trx) = Downwards(h, 1) /\ \A j \in 2..h : FilterTrace(filters, trx[j])
  BY <1>6, <1>7, <1>8, <1>10, Zenon
<1> QED
  BY <1>11, <1>12, <1>13, Zenon

------------------------------------------------------------------------------
(* The invariant *)

FilterType ==
  /\ rules \in Seq(Rule) /\ block \in Seq(Seq(Trace) \ {<<>>})
  /\ nread \in 0..Len(block)
  /\ written \in Seq([ordinal : Nat, trx : Nat, level : Nat])
  /\ num_ordinals = Len(written)

\* A row is of a trace that was read and passes; the row of a failed trace has the row of
\* the trace that carries it after it.
WrittenRows ==
  \A k \in 1..Len(written) :
    /\ written[k].ordinal = k
    /\ written[k].trx \in 1..nread
    /\ written[k].level \in 1..Len(block[written[k].trx])
    /\ FilterTrace(rules, block[written[k].trx][written[k].level])
    /\ written[k].level > 1 => /\ k < Len(written)
                               /\ written[k + 1].trx = written[k].trx
                               /\ written[k + 1].level = written[k].level - 1

\* No trace has two rows.
WrittenOnce ==
  \A k, m \in 1..Len(written) :
    written[k].trx = written[m].trx /\ written[k].level = written[m].level => k = m

PlainWritten ==
  \A j \in 1..nread :
    Len(block[j]) = 1 =>
      ((\E k \in 1..Len(written) : written[k].trx = j /\ written[k].level = 1)
         <=> FilterTrace(rules, block[j][1]))

FilterInv == FilterType /\ WrittenRows /\ WrittenOnce /\ PlainWritten

LEMMA FilterInitial ==
  ASSUME Init PROVE FilterInv
<1>1. rules \in Seq(Rule)
  <2>1. PICK given \in Rules : rules = Filters(given)
    BY DEF Init
  <2>2. <<DefaultRule>> \in Seq(Rule)
    BY DEF DefaultRule, Rule
  <2> QED
    BY <2>1, <2>2, FilterAssumption DEF Filters
<1>2. block \in Seq(Seq(Trace) \ {<<>>})
  BY FilterAssumption DEF Init
<1>3. nread = 0 /\ num_ordinals = 0 /\ written = <<>>
  BY DEF Init
<1> QED
  BY <1>1, <1>2, <1>3 DEF FilterInv, FilterType, WrittenRows, WrittenOnce, PlainWritten

\* What one transaction adds: the rows of the traces from level h to the first, numbered
\* from the ordinals already given.
LEMMA OneTransaction ==
  ASSUME FilterInv, ReceiveTrace
  PROVE  \E h \in Nat :
           /\ nread < Len(block) /\ nread' = nread + 1
           /\ rules' = rules /\ block' = block
           /\ h <= Len(block[nread + 1])
           /\ \A j \in 1..h : FilterTrace(rules, block[nread + 1][j])
           /\ Len(block[nread + 1]) = 1 => (h = 1 <=> FilterTrace(rules, block[nread + 1][1]))
           /\ num_ordinals' = num_ordinals + h
           /\ written' \in Seq([ordinal : Nat, trx : Nat, level : Nat])
           /\ Len(written') = Len(written) + h
           /\ \A k \in 1..Len(written) : written'[k] = written[k]
           /\ \A k \in Len(written) + 1..Len(written) + h :
                /\ written'[k].ordinal = k
                /\ written'[k].trx = nread + 1
                /\ written'[k].level = h + 1 - (k - Len(written))
<1> DEFINE trx == block[nread + 1]
           levels == IF FilterTrace(rules, trx[1]) THEN Levels(rules, trx) ELSE <<>>
           rows == RowsFrom(num_ordinals, nread + 1, levels)
           Row == [ordinal : Nat, trx : Nat, level : Nat]
<1>1. /\ nread < Len(block) /\ nread' = nread + 1 /\ rules' = rules /\ block' = block
      /\ written' = written \o rows /\ num_ordinals' = num_ordinals + Len(levels)
  BY Zenon DEF ReceiveTrace
<1>2. nread + 1 \in Nat /\ trx \in Seq(Trace) \ {<<>>} /\ written \in Seq(Row)
      /\ num_ordinals = Len(written) /\ Len(written) \in Nat /\ Len(trx) \in Nat
  BY <1>1 DEF FilterInv, FilterType
<1> HIDE DEF trx, Row
<1>3. \E h \in 0..Len(trx) : /\ levels = Downwards(h, 1)
                             /\ \A j \in 1..h : FilterTrace(rules, trx[j])
                             /\ Len(trx) = 1 => (h = 1 <=> FilterTrace(rules, trx[1]))
  <2>1. CASE ~FilterTrace(rules, trx[1])
    <3>1. levels = Downwards(0, 1)
      BY <2>1 DEF Downwards
    <3>2. 0 \in 0..Len(trx) /\ (\A j \in 1..0 : FALSE) /\ 0 # 1
      BY <1>2
    <3> QED
      BY <2>1, <3>1, <3>2, Zenon
  <2>2. CASE FilterTrace(rules, trx[1])
    <3>1. PICK h \in 0..Len(trx) : /\ Levels(rules, trx) = Downwards(h, 1)
                                   /\ \A j \in 2..h : FilterTrace(rules, trx[j])
                                   /\ Len(trx) = 1 => h = 1
      BY <1>2, LevelsAreDownwards, Zenon
    <3>2. \A j \in 1..h : j = 1 \/ j \in 2..h
      OBVIOUS
    <3>3. \A j \in 1..h : FilterTrace(rules, trx[j])
      BY <2>2, <3>1, <3>2, Zenon
    <3> QED
      BY <2>2, <3>1, <3>3, Zenon
  <2> QED
    BY <2>1, <2>2
<1>4. PICK h \in 0..Len(trx) : /\ levels = Downwards(h, 1)
                               /\ \A j \in 1..h : FilterTrace(rules, trx[j])
                               /\ Len(trx) = 1 => (h = 1 <=> FilterTrace(rules, trx[1]))
  BY <1>3, Zenon
<1>5. h \in Nat /\ h <= Len(trx) /\ h + 1 - 1 = h
  BY <1>2
<1>6. Len(levels) = h /\ DOMAIN levels = 1..h /\ \A i \in 1..h : levels[i] = h + 1 - i
  BY <1>4, <1>5 DEF Downwards
<1> HIDE DEF levels
<1>7. /\ rows \in Seq(Row) /\ Len(rows) = h
      /\ \A i \in 1..h : rows[i] = [ordinal |-> num_ordinals + i, trx |-> nread + 1,
                                    level |-> h + 1 - i]
  <2>1. rows = [i \in 1..h |-> [ordinal |-> num_ordinals + i, trx |-> nread + 1,
                                level |-> h + 1 - i]]
    BY <1>6 DEF RowsFrom
  <2>2. \A i \in 1..h : h + 1 - i \in Nat /\ num_ordinals + i \in Nat
    BY <1>2, <1>5
  <2>3. \A i \in 1..h : [ordinal |-> num_ordinals + i, trx |-> nread + 1,
                         level |-> h + 1 - i] \in Row
    BY <1>2, <2>2 DEF Row
  <2> HIDE DEF rows
  <2> QED
    BY <1>5, <2>1, <2>3
<1> HIDE DEF rows
<1>8. PICK w : w = written'
  OBVIOUS
<1>9. /\ w \in Seq(Row) /\ Len(w) = Len(written) + h
      /\ \A k \in 1..Len(written) + h :
           w[k] = IF k <= Len(written) THEN written[k] ELSE rows[k - Len(written)]
  <2>1. /\ w \in Seq(Row) /\ Len(w) = Len(written) + Len(rows)
        /\ \A k \in 1..Len(written) + Len(rows) :
             w[k] = IF k <= Len(written) THEN written[k] ELSE rows[k - Len(written)]
    BY <1>1, <1>2, <1>7, <1>8, ConcatProperties
  <2> QED
    BY <1>7, <2>1
<1>10. \A k \in 1..Len(written) : w[k] = written[k]
  BY <1>2, <1>5, <1>9
<1>11. ASSUME NEW k \in Len(written) + 1..Len(written) + h
       PROVE  /\ w[k].ordinal = k
              /\ w[k].trx = nread + 1
              /\ w[k].level = h + 1 - (k - Len(written))
  <2>1. k - Len(written) \in 1..h /\ ~(k <= Len(written)) /\ k \in 1..Len(written) + h
        /\ num_ordinals + (k - Len(written)) = k
    BY <1>2, <1>5
  <2>2. w[k] = rows[k - Len(written)]
    BY <1>9, <2>1
  <2> QED
    BY <1>7, <2>1, <2>2
<1> QED
  BY <1>1, <1>4, <1>5, <1>6, <1>8, <1>9, <1>10, <1>11 DEF Row, trx

LEMMA WrittenNumbers ==
  ASSUME FilterInv, NEW k \in 1..Len(written)
  PROVE  written[k].trx \in Nat /\ written[k].level \in Nat /\ written[k].level >= 1
<1>1. PICK r : r = written[k]
  OBVIOUS
<1> DEFINE Row == [ordinal : Nat, trx : Nat, level : Nat]
<1>2. r \in Row
  <2>1. written \in Seq(Row)
    BY DEF FilterInv, FilterType
  <2> HIDE DEF Row
  <2> QED
    BY <1>1, <2>1
<1>3. PICK m : m = Len(block[r.trx])
  OBVIOUS
<1>4. r.level \in 1..m
  BY <1>1, <1>3 DEF FilterInv, WrittenRows
<1> QED
  BY <1>1, <1>2, <1>4

LEMMA FilterStep ==
  ASSUME FilterInv, ReceiveTrace PROVE FilterInv'
<1> DEFINE n == Len(written)
           trx == block[nread + 1]
<1>1. PICK h \in Nat :
           /\ nread < Len(block) /\ nread' = nread + 1
           /\ rules' = rules /\ block' = block
           /\ h <= Len(trx)
           /\ \A j \in 1..h : FilterTrace(rules, trx[j])
           /\ Len(trx) = 1 => (h = 1 <=> FilterTrace(rules, trx[1]))
           /\ num_ordinals' = num_ordinals + h
           /\ written' \in Seq([ordinal : Nat, trx : Nat, level : Nat])
           /\ Len(written') = n + h
           /\ \A k \in 1..n : written'[k] = written[k]
           /\ \A k \in n + 1..n + h :
                /\ written'[k].ordinal = k
                /\ written'[k].trx = nread + 1
                /\ written'[k].level = h + 1 - (k - n)
  BY OneTransaction
<1>2. /\ FilterType /\ n \in Nat /\ nread \in Nat /\ Len(trx) \in Nat
      /\ \A k \in 1..n : written[k].trx \in Nat /\ written[k].level \in Nat
  <2>1. FilterType
    BY DEF FilterInv
  <2>2. trx \in Seq(Trace) \ {<<>>}
    BY <1>1, <2>1 DEF FilterType
  <2>3. \A k \in 1..n : written[k].trx \in Nat /\ written[k].level \in Nat
    BY WrittenNumbers
  <2> HIDE DEF trx
  <2> QED
    BY <2>1, <2>2, <2>3 DEF FilterType
<1>3. PICK w : w = written'
  OBVIOUS
<1>4. /\ Len(w) = n + h
      /\ \A k \in 1..n + h : k \in 1..n \/ k \in n + 1..n + h
      /\ \A k \in 1..n : w[k] = written[k]
      /\ \A k \in n + 1..n + h : /\ w[k].ordinal = k
                                 /\ w[k].trx = nread + 1
                                 /\ w[k].level = h + 1 - (k - n)
  BY <1>1, <1>2, <1>3
<1>5. FilterType'
  <2>1. nread' \in 0..Len(block)
    BY <1>1, <1>2 DEF FilterType
  <2> QED
    BY <1>1, <1>2, <2>1 DEF FilterType
<1>6. WrittenRows'
  <2>1. ASSUME NEW k \in 1..n + h
        PROVE  /\ w[k].ordinal = k
               /\ w[k].trx \in 1..nread + 1
               /\ w[k].level \in 1..Len(block[w[k].trx])
               /\ FilterTrace(rules, block[w[k].trx][w[k].level])
               /\ w[k].level > 1 => /\ k < n + h
                                    /\ w[k + 1].trx = w[k].trx
                                    /\ w[k + 1].level = w[k].level - 1
    <3>1. CASE k \in 1..n
      <4>1. /\ written[k].ordinal = k
            /\ written[k].trx \in 1..nread
            /\ written[k].level \in 1..Len(block[written[k].trx])
            /\ FilterTrace(rules, block[written[k].trx][written[k].level])
            /\ written[k].level > 1 => /\ k < n
                                       /\ written[k + 1].trx = written[k].trx
                                       /\ written[k + 1].level = written[k].level - 1
        BY <3>1 DEF FilterInv, WrittenRows
      <4>2. w[k] = written[k] /\ (k < n => w[k + 1] = written[k + 1] /\ k < n + h)
        BY <1>2, <1>4, <3>1
      <4>3. written[k].trx \in 1..nread + 1
        BY <1>2, <4>1
      <4> QED
        BY <4>1, <4>2, <4>3, Zenon
    <3>2. CASE k \in n + 1..n + h
      <4>1. w[k].ordinal = k /\ w[k].trx = nread + 1 /\ w[k].level = h + 1 - (k - n)
        BY <1>4, <3>2
      <4>2. w[k].level \in 1..h /\ w[k].level \in 1..Len(trx) /\ nread + 1 \in 1..nread + 1
        <5>1. h <= Len(trx)
          BY <1>1
        <5>2. h + 1 - (k - n) \in 1..h
          BY <1>2, <3>2
        <5> HIDE DEF n, trx
        <5> QED
          BY <1>2, <4>1, <5>1, <5>2
      <4>3. FilterTrace(rules, trx[w[k].level])
        BY <1>1, <4>2, Zenon
      <4>4. ASSUME w[k].level > 1
            PROVE  /\ k < n + h
                   /\ w[k + 1].trx = w[k].trx
                   /\ w[k + 1].level = w[k].level - 1
        <5>1. k < n + h /\ k + 1 \in n + 1..n + h
          BY <1>2, <3>2, <4>1, <4>4
        <5>2. w[k + 1].trx = nread + 1 /\ w[k + 1].level = h + 1 - ((k + 1) - n)
          BY <1>4, <5>1
        <5> QED
          BY <1>2, <3>2, <4>1, <5>1, <5>2
      <4> QED
        BY <4>1, <4>2, <4>3, <4>4, Zenon
    <3> QED
      BY <1>4, <3>1, <3>2
  <2> QED
    BY <1>1, <1>3, <1>4, <2>1 DEF WrittenRows
<1>7. WrittenOnce'
  <2>1. ASSUME NEW k \in 1..n + h, NEW m \in 1..n + h,
               w[k].trx = w[m].trx, w[k].level = w[m].level
        PROVE  k = m
    <3>1. \A i \in 1..n : w[i].trx # nread + 1
      BY <1>2, <1>4 DEF FilterInv, WrittenRows
    <3>2. CASE k \in 1..n /\ m \in 1..n
      BY <1>4, <2>1, <3>2 DEF FilterInv, WrittenOnce
    <3>3. CASE k \in n + 1..n + h /\ m \in n + 1..n + h
      BY <1>2, <1>4, <2>1, <3>3
    <3> QED
      BY <1>4, <2>1, <3>1, <3>2, <3>3
  <2> QED
    BY <1>3, <1>4, <2>1 DEF WrittenOnce
<1>8. PlainWritten'
  <2>1. ASSUME NEW j \in 1..nread + 1, Len(block[j]) = 1
        PROVE  (\E k \in 1..n + h : w[k].trx = j /\ w[k].level = 1)
                 <=> FilterTrace(rules, block[j][1])
    <3>1. CASE j = nread + 1
      <4>1. ASSUME NEW k \in 1..n + h, w[k].trx = j PROVE h # 0
        BY <1>2, <1>4, <3>1, <4>1 DEF FilterInv, WrittenRows
      <4>2. ASSUME h = 1 PROVE \E k \in 1..n + h : w[k].trx = j /\ w[k].level = 1
        <5>1. n + 1 \in 1..n + h /\ n + 1 \in n + 1..n + h /\ h + 1 - ((n + 1) - n) = 1
          BY <1>2, <4>2
        <5> QED
          BY <1>4, <3>1, <5>1
      <4>3. h # 0 => h = 1
        <5>1. h <= 1
          BY <1>1, <2>1, <3>1, Zenon
        <5> QED
          BY <5>1
      <4>4. h = 1 <=> FilterTrace(rules, block[j][1])
        BY <1>1, <2>1, <3>1, Zenon
      <4> QED
        BY <4>1, <4>2, <4>3, <4>4, Zenon
    <3>2. CASE j \in 1..nread
      <4>1. (\E k \in 1..n : written[k].trx = j /\ written[k].level = 1)
              <=> FilterTrace(rules, block[j][1])
        BY <2>1, <3>2, Zenon DEF FilterInv, PlainWritten
      <4>2. ASSUME NEW k \in 1..n + h, w[k].trx = j PROVE k \in 1..n /\ w[k] = written[k]
        BY <1>2, <1>4, <3>2, <4>2
      <4>3. ASSUME NEW k \in 1..n PROVE k \in 1..n + h /\ w[k] = written[k]
        BY <1>2, <1>4
      <4> QED
        BY <4>1, <4>2, <4>3, Zenon
    <3> QED
      BY <1>2, <3>1, <3>2
  <2>2. nread' = nread + 1 /\ block' = block /\ rules' = rules /\ Len(w) = n + h
    BY <1>1, <1>4, Zenon
  <2> HIDE DEF n, trx
  <2>3. ASSUME NEW j \in 1..nread', Len(block'[j]) = 1
        PROVE  (\E k \in 1..Len(w) : w[k].trx = j /\ w[k].level = 1)
                 <=> FilterTrace(rules', block'[j][1])
    <3>1. j \in 1..nread + 1 /\ Len(block[j]) = 1
      BY <2>2, <2>3
    <3>2. (\E k \in 1..Len(w) : w[k].trx = j /\ w[k].level = 1)
            <=> FilterTrace(rules, block[j][1])
      BY <2>1, <2>2, <3>1
    <3>3. FilterTrace(rules', block'[j][1]) <=> FilterTrace(rules, block[j][1])
      BY <2>2
    <3> QED
      BY <3>2, <3>3
  <2> QED
    BY <1>3, <2>3, Zenon DEF PlainWritten
<1> QED
  BY <1>5, <1>6, <1>7, <1>8 DEF FilterInv

LEMMA FilterStutter ==
  ASSUME FilterInv, UNCHANGED vars PROVE FilterInv'
BY DEF vars, FilterInv, FilterType, WrittenRows, WrittenOnce, PlainWritten

\* A trace passes the code's filter when the documentation says that it does.
LEMMA FilterTraceDocumented ==
  ASSUME FilterType, NEW t PROVE FilterTrace(rules, t) <=> SomeActionPasses(t)
<1>1. rules \in Seq(Rule) /\ DOMAIN rules = 1..Len(rules)
  BY DEF FilterType
<1>2. ASSUME NEW a PROVE FilterAction(rules, t.status, a) <=> Passes(t.status, a)
  <2>1. FilterAction(rules, t.status, a) <=> FirstMatchIncludes(rules, t.status, a, 1)
    BY <1>1, FilterActionFirst, Zenon
  <2>2. FirstMatchIncludes(rules, t.status, a, 1) <=> Passes(t.status, a)
    BY <1>1, Zenon DEF FirstMatchIncludes, Passes
  <2> QED
    BY <2>1, <2>2
<1> QED
  BY <1>2, Zenon DEF FilterTrace, SomeActionPasses

\* Of every block, with every list of rules, receive_traces writes rows with consecutive
\* ordinals, each of a trace that was read and passes the filter, none of them twice, and
\* right after a failed trace the one that carries it; a transaction without a failed
\* trace has its row exactly when it passes.
THEOREM FilterInvariant == Spec => []FilterInv
<1>1. FilterInv /\ [Next]_vars => FilterInv'
  BY FilterStep, FilterStutter DEF Next
<1> QED
  BY FilterInitial, <1>1, PTL DEF Spec

\* Nothing that the rules keep out is written: the loop over the rules (filter,
\* state_history.hpp) decides by the first rule that matches, as the documentation says,
\* for the inner and for the outer traces that write_transaction_trace writes.
THEOREM OnlyPassingEverWritten == Spec => []OnlyPassingWritten
<1>1. FilterInv => OnlyPassingWritten
  <2> SUFFICES ASSUME FilterInv, NEW r \in ToSet(written)
               PROVE  SomeActionPasses(block[r.trx][r.level])
    BY DEF OnlyPassingWritten
  <2>1. PICK k \in 1..Len(written) : r = written[k]
    BY DEF ToSet, FilterInv, FilterType
  <2>2. FilterTrace(rules, block[r.trx][r.level])
    BY <2>1 DEF FilterInv, WrittenRows
  <2> QED
    BY <2>2, FilterTraceDocumented DEF FilterInv
<1> QED
  BY FilterInvariant, <1>1, PTL

\* A transaction that carries no failed trace, once read, has its row exactly when one of
\* its actions passes the rules.
THEOREM PlainTransactionsAlwaysFiltered == Spec => []PlainTransactionsFiltered
<1>1. FilterInv => PlainTransactionsFiltered
  <2> SUFFICES ASSUME FilterInv, NEW j \in 1..nread, Len(block[j]) = 1
               PROVE  IsWritten(j, 1) <=> SomeActionPasses(block[j][1])
    BY DEF PlainTransactionsFiltered
  <2>1. IsWritten(j, 1) <=> \E k \in 1..Len(written) : written[k].trx = j /\ written[k].level = 1
    <3>1. DOMAIN written = 1..Len(written)
      BY DEF FilterInv, FilterType
    <3> QED
      BY <3>1, Zenon DEF IsWritten, ToSet
  <2>2. (\E k \in 1..Len(written) : written[k].trx = j /\ written[k].level = 1)
          <=> FilterTrace(rules, block[j][1])
    BY Zenon DEF FilterInv, PlainWritten
  <2> QED
    BY <2>1, <2>2, FilterTraceDocumented DEF FilterInv
<1> QED
  BY FilterInvariant, <1>1, PTL

\* No ordinal of a block is given twice, and a failed trace comes right before the one
\* that carries it (receive_traces' ++num_ordinals, through the recursion).
THEOREM OrdinalsAlwaysFollowNesting == Spec => []OrdinalsFollowNesting
<1>1. FilterInv => OrdinalsFollowNesting
  <2> SUFFICES ASSUME FilterInv PROVE OrdinalsFollowNesting
    OBVIOUS
  <2>1. DOMAIN written = 1..Len(written) /\ Len(written) \in Nat
    BY DEF FilterInv, FilterType
  <2>2. \A k \in 1..Len(written) : written[k].ordinal = k
    BY DEF FilterInv, WrittenRows
  <2>3. ASSUME NEW k \in 1..Len(written), NEW m \in 1..Len(written),
               written[k].trx = written[m].trx, written[k].level = written[m].level + 1
        PROVE  m = k + 1
    <3>1. written[m].level \in Nat /\ written[m].level >= 1 /\ written[k].level \in Nat
      BY WrittenNumbers
    <3>2. /\ k < Len(written) /\ written[k + 1].trx = written[k].trx
          /\ written[k + 1].level = written[k].level - 1
      <4>1. written[k].level > 1
        BY <2>3, <3>1
      <4> QED
        BY <4>1, Zenon DEF FilterInv, WrittenRows
    <3>3. k + 1 \in 1..Len(written) /\ written[k + 1].level = written[m].level
      BY <2>1, <2>3, <3>1, <3>2
    <3> QED
      BY <2>3, <3>2, <3>3 DEF FilterInv, WrittenOnce
  <2> QED
    BY <2>1, <2>2, <2>3 DEF OrdinalsFollowNesting
<1> QED
  BY FilterInvariant, <1>1, PTL
==============================================================================
