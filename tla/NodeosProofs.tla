----------------------------- MODULE NodeosProofs -----------------------------
(***************************************************************************)
(* What cutting and extending a stretch of a branch preserves, which       *)
(* blocks a branch has, and what nodeos's steps keep true of its branch    *)
(* and of the messages under way, whichever filler takes them.             *)
(***************************************************************************)
EXTENDS Nodeos, TLAPS, WellFoundedInduction

\* A deletion from block n on, as truncate makes it, leaves a stretch.
LEMMA StretchBelow ==
  ASSUME NEW S \in SUBSET Block, IsStretch(S), NEW n \in Nat
  PROVE  IsStretch(Below(S, n))
BY TreeAssumption DEF IsStretch, Below

\* What trimming below block n leaves is a stretch.
LEMMA StretchFrom ==
  ASSUME NEW S \in SUBSET Block, IsStretch(S), NEW n \in Nat
  PROVE  IsStretch({b \in S : n <= Num[b]})
BY TreeAssumption DEF IsStretch

\* A block whose parent is the newest block of a stretch extends it.
LEMMA StretchExtended ==
  ASSUME NEW S \in SUBSET Block, IsStretch(S), NEW h \in MaybeBlock, TipIs(S, h),
         NEW b \in Block, h = NoBlock \/ Parent[b] = h
  PROVE  IsStretch(S \cup {b}) /\ TipIs(S \cup {b}, b)
BY TreeAssumption DEF IsStretch, TipIs, MaybeBlock

\* Cutting a stretch at a block number it reaches leaves block n - 1, if it had
\* one, as the newest.
LEMMA TipBelow ==
  ASSUME NEW S \in SUBSET Block, IsStretch(S), NEW h \in MaybeBlock, TipIs(S, h),
         NEW n \in Nat, 0 < n, n <= N(h)
  PROVE  At(S, n - 1) \in MaybeBlock /\ TipIs(Below(S, n), At(S, n - 1))
<1>1. h \in S /\ Num[h] \in Nat /\ n <= Num[h] /\ \A b \in S : Num[b] <= Num[h]
  BY TreeAssumption DEF TipIs, MaybeBlock, N
<1>2. CASE \E b \in S : Num[b] = n - 1
  <2>1. At(S, n - 1) \in S /\ Num[At(S, n - 1)] = n - 1
    BY <1>2 DEF At
  <2>2. At(S, n - 1) # NoBlock
    BY <2>1, TreeAssumption
  <2>3. At(S, n - 1) \in Below(S, n) /\ \A b \in Below(S, n) : Num[b] <= Num[At(S, n - 1)]
    BY <2>1, TreeAssumption DEF Below
  <2> QED
    BY <2>1, <2>2, <2>3 DEF TipIs, MaybeBlock
<1>3. CASE ~\E b \in S : Num[b] = n - 1
  <2>1. At(S, n - 1) = NoBlock
    BY <1>3 DEF At
  <2>2. ASSUME NEW b \in Below(S, n) PROVE FALSE
    <3>1. b \in S /\ n - 1 \in Num[b]..Num[h]
      BY <1>1, <2>2, TreeAssumption DEF Below
    <3> QED
      BY <1>1, <1>3, <3>1 DEF IsStretch
  <2> QED
    BY <2>1, <2>2 DEF TipIs, MaybeBlock
<1> QED
  BY <1>2, <1>3

------------------------------------------------------------------------------
(* Branches *)

\* A set of numbers that is not empty has a least one.
LEMMA LeastNumber ==
  ASSUME NEW S \in SUBSET Nat, S # {}
  PROVE  \E n \in S : \A k \in S : n <= k
<1> DEFINE R == {ss \in Nat \X Nat : ss[1] < ss[2]}
<1>1. PICK x \in S : \A y \in S : ~(<<y, x>> \in R)
  <2>1. IsWellFoundedOn(R, Nat)
    BY NatLessThanWellFounded DEF OpToRel
  <2> HIDE DEF R
  <2> QED
    BY <2>1, WFMin
<1>2. ASSUME NEW y \in S PROVE x <= y
  <2>1. ~(y < x)
    <3> DEFINE ss == <<y, x>>
    <3>1. ss \in Nat \X Nat /\ ss[1] = y /\ ss[2] = x /\ ss \notin R
      BY <1>1
    <3> QED
      BY <3>1
  <2> QED
    BY <2>1
<1> QED
  BY <1>2

\* A set of blocks that has with each block its parent.
Closed(S) == \A d \in S : Parent[d] \in S \cup {NoBlock}

\* The blocks on the way from a block down its parents, without recursion.
Ancestry(b) == {c \in Block : \A S \in SUBSET Block : b \in S /\ Closed(S) => c \in S}

LEMMA AncestryClosed ==
  ASSUME NEW b \in Block
  PROVE  b \in Ancestry(b) /\ Closed(Ancestry(b)) /\ Ancestry(b) \in SUBSET Block
<1>1. ASSUME NEW d \in Ancestry(b), Parent[d] # NoBlock PROVE Parent[d] \in Ancestry(b)
  <2>1. Parent[d] \in Block
    BY <1>1, TreeAssumption DEF Ancestry
  <2>2. ASSUME NEW S \in SUBSET Block, b \in S, Closed(S) PROVE Parent[d] \in S
    BY <1>1, <2>2 DEF Ancestry, Closed
  <2> QED
    BY <2>1, <2>2 DEF Ancestry
<1> QED
  BY <1>1 DEF Ancestry, Closed

LEMMA AncestryUnfolds ==
  ASSUME NEW b \in Block
  PROVE  Ancestry(b) = {b} \cup IF Parent[b] = NoBlock THEN {} ELSE Ancestry(Parent[b])
<1> DEFINE p == Parent[b]
           A == {b} \cup IF p = NoBlock THEN {} ELSE Ancestry(p)
<1>1. p # NoBlock => p \in Block
  BY TreeAssumption
<1>2. A \in SUBSET Block /\ b \in A /\ Closed(A)
  BY <1>1, AncestryClosed DEF Closed
<1>3. Ancestry(b) \subseteq A
  BY <1>2 DEF Ancestry
<1>4. ASSUME p # NoBlock, NEW c \in Ancestry(p) PROVE c \in Ancestry(b)
  <2>1. ASSUME NEW S \in SUBSET Block, b \in S, Closed(S) PROVE c \in S
    <3>1. p \in S
      BY <1>4, <2>1 DEF Closed
    <3> QED
      BY <1>4, <2>1, <3>1 DEF Ancestry
  <2> QED
    BY <1>4, <2>1 DEF Ancestry
<1> QED
  BY <1>3, <1>4, AncestryClosed

\* The recursion of Branch has a solution, so Branch is one: and the solution is unique,
\* by the least number of a block at which two differ.
LEMMA BranchIs == \A b \in MaybeBlock : Branch[b] = IF b = NoBlock THEN {} ELSE Ancestry(b)
<1> DEFINE Step(f) ==
             [b \in MaybeBlock |-> IF b = NoBlock THEN {} ELSE {b} \cup f[Parent[b]]]
           F == [b \in MaybeBlock |-> IF b = NoBlock THEN {} ELSE Ancestry(b)]
<1>1. F = Step(F)
  <2>1. ASSUME NEW b \in Block PROVE Ancestry(b) = {b} \cup F[Parent[b]]
    <3>1. Parent[b] \in MaybeBlock
      BY TreeAssumption DEF MaybeBlock
    <3> QED
      BY <3>1, AncestryUnfolds
  <2> QED
    BY <2>1 DEF MaybeBlock
<1>2. Branch = CHOOSE f : f = Step(f)
  BY DEF Branch
<1> HIDE DEF F
<1>3. Branch = Step(Branch)
  BY <1>1, <1>2
<1>4. ASSUME NEW b \in Block PROVE Branch[b] = F[b]
  <2> SUFFICES ASSUME Branch[b] # F[b] PROVE FALSE
    OBVIOUS
  <2> DEFINE D == {n \in Nat : \E c \in Block : Num[c] = n /\ Branch[c] # F[c]}
  <2>1. Num[b] \in D
    BY <1>4, TreeAssumption
  <2>2. PICK n \in D : \A k \in D : n <= k
    BY <2>1, LeastNumber
  <2>3. PICK c \in Block : Num[c] = n /\ Branch[c] # F[c]
    OBVIOUS
  <2>4. c # NoBlock /\ c \in MaybeBlock /\ Parent[c] \in MaybeBlock
    BY TreeAssumption DEF MaybeBlock
  <2>5. Branch[c] = {c} \cup Branch[Parent[c]]
    BY <1>3, <2>4
  <2>6. F[c] = {c} \cup F[Parent[c]]
    BY <1>1, <2>4
  <2>7. Branch[NoBlock] = {} /\ F[NoBlock] = {}
    BY <1>1, <1>3 DEF MaybeBlock
  <2>8. Parent[c] \in Block /\ Branch[Parent[c]] # F[Parent[c]]
    BY <2>3, <2>4, <2>5, <2>6, <2>7 DEF MaybeBlock
  <2>9. Num[Parent[c]] \in D /\ Num[Parent[c]] < n
    BY <2>3, <2>8, TreeAssumption
  <2> QED
    BY <2>2, <2>9
<1>5. Branch[NoBlock] = {}
  BY <1>3 DEF MaybeBlock
<1> QED
  BY <1>4, <1>5, TreeAssumption DEF F, MaybeBlock

\* The branch of a block has it, and blocks below it.
LEMMA BranchBelow ==
  ASSUME NEW h \in Block
  PROVE  h \in Branch[h] /\ \A b \in Branch[h] : b \in Block /\ Num[b] <= Num[h]
<1>1. Branch[h] = Ancestry(h)
  BY BranchIs, TreeAssumption DEF MaybeBlock
<1> DEFINE S == {d \in Block : Num[d] <= Num[h]}
<1>2. S \in SUBSET Block /\ h \in S /\ Closed(S)
  BY TreeAssumption DEF Closed
<1> QED
  BY <1>1, <1>2, AncestryClosed DEF Ancestry

\* The branch of a block on a branch is part of it.
LEMMA BranchTransitive ==
  ASSUME NEW h \in Block, NEW b \in Branch[h], NEW a \in Branch[b]
  PROVE  a \in Branch[h]
<1>1. b \in Block
  BY BranchBelow
<1>2. Branch[h] = Ancestry(h) /\ Branch[b] = Ancestry(b)
  BY <1>1, BranchIs, TreeAssumption DEF MaybeBlock
<1> QED
  BY <1>2 DEF Ancestry

\* And it is all of what is as old: a branch does not split going down.
LEMMA BranchLine ==
  ASSUME NEW h \in Block, NEW c \in Branch[h], NEW b \in Branch[h], Num[b] <= Num[c]
  PROVE  b \in Branch[c]
<1> DEFINE S == {d \in Ancestry(h) : \A a \in Ancestry(h) : Num[a] <= Num[d] => a \in Ancestry(d)}
<1>1. \A d \in Block : Branch[d] = Ancestry(d)
  BY BranchIs, TreeAssumption DEF MaybeBlock
<1>2. h \in S
  BY <1>1, AncestryClosed
<1>3. ASSUME NEW d \in S, Parent[d] # NoBlock PROVE Parent[d] \in S
  <2>1. d \in Block /\ Parent[d] \in Ancestry(h) /\ Num[d] = Num[Parent[d]] + 1
        /\ Parent[d] \in Block
    BY <1>3, AncestryClosed, TreeAssumption DEF Closed, Ancestry
  <2>2. ASSUME NEW a \in Ancestry(h), Num[a] <= Num[Parent[d]] PROVE a \in Ancestry(Parent[d])
    <3>1. a \in Block /\ Num[a] \in Nat /\ Num[Parent[d]] \in Nat
      BY TreeAssumption, <2>1 DEF Ancestry
    <3>2. a # d /\ Num[a] <= Num[d]
      BY <2>1, <2>2, <3>1
    <3>3. a \in Ancestry(d)
      BY <3>2
    <3> QED
      BY <1>3, <2>1, <3>2, <3>3, AncestryUnfolds
  <2> QED
    BY <2>1, <2>2
<1>4. S \in SUBSET Block /\ Closed(S)
  BY <1>3, AncestryClosed DEF Closed, Ancestry
<1>5. c \in S
  BY <1>1, <1>2, <1>4 DEF Ancestry
<1> QED
  BY <1>1, <1>5 DEF Ancestry

\* One block of a number.
LEMMA BranchOnce ==
  ASSUME NEW h \in Block, NEW b \in Branch[h], NEW c \in Branch[h], Num[b] = Num[c]
  PROVE  b = c
<1>1. b \in Block /\ c \in Block /\ Num[b] \in Nat /\ Num[c] \in Nat
  BY BranchBelow, TreeAssumption
<1>2. b \in Ancestry(c)
  BY <1>1, BranchLine, BranchIs, TreeAssumption DEF MaybeBlock
<1>3. Ancestry(c) = {c} \cup IF Parent[c] = NoBlock THEN {} ELSE Ancestry(Parent[c])
  BY <1>1, AncestryUnfolds
<1>4. ASSUME Parent[c] # NoBlock PROVE b \notin Ancestry(Parent[c])
  <2>1. Parent[c] \in Block /\ Num[c] = Num[Parent[c]] + 1 /\ Num[Parent[c]] \in Nat
    BY <1>1, <1>4, TreeAssumption
  <2>2. Branch[Parent[c]] = Ancestry(Parent[c])
    BY <2>1, BranchIs, TreeAssumption DEF MaybeBlock
  <2> QED
    BY <1>1, <2>1, <2>2, BranchBelow
<1> QED
  BY <1>2, <1>3, <1>4

\* In a stretch, the older blocks are on the branch of a newer one.
LEMMA StretchOnBranch ==
  ASSUME NEW S \in SUBSET Block, IsStretch(S), NEW b \in S, NEW h \in S, Num[b] <= Num[h]
  PROVE  b \in Branch[h]
<1> SUFFICES ASSUME b \notin Branch[h] PROVE FALSE
  OBVIOUS
<1> DEFINE D == {n \in Nat : \E c \in S : Num[c] = n /\ Num[b] <= n /\ b \notin Branch[c]}
<1>1. Num[h] \in D
  BY TreeAssumption
<1>2. PICK n \in D : \A k \in D : n <= k
  BY <1>1, LeastNumber
<1>3. PICK c \in S : Num[c] = n /\ Num[b] <= n /\ b \notin Branch[c]
  OBVIOUS
<1>4. Num[b] # Num[c] /\ Num[b] \in Nat /\ Num[c] \in Nat
  BY <1>3, BranchBelow, TreeAssumption DEF IsStretch
<1>5. n - 1 \in Num[b]..Num[c]
  BY <1>3, <1>4
<1>6. PICK d \in S : Num[d] = n - 1
  BY <1>5 DEF IsStretch
<1>7. Parent[c] = d
  BY <1>3, <1>4, <1>6 DEF IsStretch
<1>8. d \in Branch[c]
  <2>1. d # NoBlock /\ d \in Block /\ c \in Block
    BY TreeAssumption
  <2>2. Branch[c] = Ancestry(c)
    BY <2>1, BranchIs, TreeAssumption DEF MaybeBlock
  <2> QED
    BY <1>7, <2>1, <2>2, AncestryClosed DEF Closed
<1>9. b \in Branch[d]
  BY <1>2, <1>3, <1>4, <1>5, <1>6
<1> QED
  BY <1>3, <1>8, <1>9, BranchTransitive

\* The least of a set of numbers is one of them.
LEMMA MinInSet ==
  ASSUME NEW S \in SUBSET Nat, S # {}
  PROVE  Min(S) \in S /\ \A n \in S : Min(S) <= n
BY LeastNumber DEF Min

\* The greatest of three numbers is one.
LEMMA MaxInSet ==
  ASSUME NEW a \in Nat, NEW b \in Nat, NEW c \in Nat
  PROVE  Max({a, b, c}) \in Nat
<1>1. \E x \in {a, b, c} : \A y \in {a, b, c} : x >= y
  OBVIOUS
<1>2. Max({a, b, c}) \in {a, b, c}
  BY <1>1 DEF Max
<1> QED
  BY <1>2

\* The blocks a lookup by number finds are blocks.
LEMMA AtTyped ==
  ASSUME NEW S \in SUBSET Block, NEW n
  PROVE  At(S, n) \in MaybeBlock
BY DEF At, MaybeBlock

LEMMA NIsNat == \A b \in MaybeBlock : N(b) \in Nat
BY TreeAssumption DEF N, MaybeBlock

\* Two branches with a block in common are the same below it, as far as both go.
LEMMA StretchesAgree ==
  ASSUME NEW S \in SUBSET Block, IsStretch(S), NEW T \in SUBSET Block, IsStretch(T),
         NEW c \in S, c \in T, NEW b \in S, Num[b] <= Num[c],
         NEW d \in T, Num[d] <= Num[b]
  PROVE  b \in T
<1> SUFFICES ASSUME b \notin T PROVE FALSE
  OBVIOUS
<1> DEFINE D == {k \in Nat : \E x \in S : x \notin T /\ Num[b] <= Num[x] /\ Num[x] + k = Num[c]}
<1>1. \A x \in Block : Num[x] \in Nat
  BY TreeAssumption
<1>2. Num[c] - Num[b] \in D
  BY <1>1
<1>3. Min(D) \in D /\ \A k \in D : Min(D) <= k
  BY <1>2, MinInSet
<1> DEFINE m == Min(D)
<1>4. m \in Nat /\ m \in D /\ \A k \in D : m <= k
  BY <1>3
<1> HIDE DEF m
<1>5. PICK x \in S : x \notin T /\ Num[b] <= Num[x] /\ Num[x] + m = Num[c]
  BY <1>4
<1>6. Num[x] < Num[c]
  BY <1>1, <1>4, <1>5 DEF IsStretch
<1>7. PICK y \in S : Num[y] = Num[x] + 1
  BY <1>1, <1>5, <1>6 DEF IsStretch
<1>8. y \in T
  <2> SUFFICES ASSUME y \notin T PROVE FALSE
    OBVIOUS
  <2>1. m - 1 \in Nat /\ Num[y] + (m - 1) = Num[c] /\ Num[b] <= Num[y]
    BY <1>1, <1>4, <1>5, <1>6, <1>7
  <2>2. m - 1 \in D
    BY <1>7, <2>1
  <2> QED
    BY <1>4, <2>1, <2>2
<1>9. PICK z \in T : Num[z] = Num[x]
  BY <1>1, <1>5, <1>6 DEF IsStretch
<1>10. Parent[y] = x /\ Parent[y] = z
  BY <1>1, <1>5, <1>7, <1>8, <1>9 DEF IsStretch
<1> QED
  BY <1>5, <1>9, <1>10

------------------------------------------------------------------------------
(* nodeos's branch *)

\* A newest block is what Tip finds.
LEMMA TipFound ==
  ASSUME NEW S \in SUBSET Block, NEW h \in S, \A b \in S : Num[b] <= Num[h]
  PROVE  TipIs(S, Tip(S))
BY TreeAssumption DEF TipIs, Tip

\* nodeos's branch always has a newest block, unless it is empty.
LEMMA ApplyBlockHeight ==
  ASSUME NodeosTypeOK, NEW b \in Block, ApplyBlock(b)
  PROVE  HeightInv'
<1>1. chain' = {c \in chain : Num[c] < Num[b]} \cup {b}
  BY DEF ApplyBlock, Below
<1>2. chain' \in SUBSET Block /\ b \in chain' /\ \A c \in chain' : Num[c] <= Num[b]
  BY <1>1, TreeAssumption DEF NodeosTypeOK
<1>3. TipIs(chain', Tip(chain'))
  BY <1>2, TipFound
<1> QED
  BY <1>3 DEF HeightInv, TipIs, Tip

LEMMA ReplaceNodeHeight ==
  ASSUME NodeosTypeOK, NodeosInv, HeightInv, NEW n \in 0..Height, NEW bg, ReplaceNode(n, bg)
  PROVE  HeightInv'
<1>1. /\ chain \subseteq Block /\ IsStretch(chain)
      /\ \A c \in Block : Num[c] \in Nat /\ c # NoBlock
  BY TreeAssumption DEF NodeosTypeOK, NodeosInv
<1>2. chain' = {c \in chain : Num[c] < n + 1} /\ n \in Nat /\ n <= Height
  BY DEF ReplaceNode, Below
<1>3. CASE chain' = {}
  BY <1>3 DEF HeightInv, TipIs, Tip
<1>4. CASE chain' # {}
  <2>1. PICK d \in chain' : TRUE
    BY <1>4
  <2>2. d \in chain /\ Num[d] <= n /\ Num[d] \in Nat
    BY <1>1, <1>2
  <2>3. Tip(chain) \in chain /\ Num[Tip(chain)] = Height
    BY <1>1, <2>2 DEF HeightInv, TipIs, Height, N
  <2>4. n \in Num[d]..Num[Tip(chain)]
    <3>1. Num[Tip(chain)] \in Nat
      BY <1>1, <2>3
    <3> QED
      BY <1>2, <2>2, <2>3, <3>1
  <2>5. PICK e \in chain : Num[e] = n
    BY <1>1, <2>2, <2>3, <2>4 DEF IsStretch
  <2>6. chain' \in SUBSET Block /\ e \in chain' /\ \A c \in chain' : Num[c] <= Num[e]
    BY <1>1, <1>2, <2>5
  <2>7. TipIs(chain', Tip(chain'))
    BY <2>6, TipFound
  <2> QED
    BY <2>7 DEF HeightInv, TipIs, Tip
<1> QED
  BY <1>3, <1>4

\* Applying a block, after the pops of a fork switch, leaves nodeos a branch from the
\* first block on.
LEMMA ApplyBlockRoot ==
  ASSUME NodeosTypeOK, RootInv, NEW b \in Block, ApplyBlock(b)
  PROVE  RootInv'
<1>1. Parent[b] \in chain /\ chain' = Below(chain, Num[b]) \cup {b}
  BY DEF ApplyBlock
<1>2. chain \subseteq Block /\ \A x \in Block : Num[x] \in Nat
  BY TreeAssumption DEF NodeosTypeOK
<1>3. Num[Parent[b]] < Num[b] /\ Parent[b] \in chain' /\ Parent[b] # NoBlock
  BY <1>1, <1>2, TreeAssumption DEF Below
<1>4. \A c \in chain' : OnRoot(c)
  <2>1. OnRoot(b)
    <3>1. PICK g \in Genesis : Num[g] <= Num[Parent[b]]
      BY <1>1 DEF RootInv, OnRoot
    <3>2. Num[g] <= Num[b]
      BY <1>1, <1>2, <1>3, <3>1, NodeosAssumption
    <3> QED
      BY <3>2 DEF OnRoot
  <2> QED
    BY <1>1, <2>1 DEF RootInv, Below
<1>5. ASSUME NEW g \in Genesis PROVE \E d \in chain' : Num[d] <= Num[g]
  <2>1. PICK d \in chain : Num[d] <= Num[g]
    BY <1>1 DEF RootInv
  <2>2. CASE Num[d] < Num[b]
    BY <1>1, <2>1, <2>2 DEF Below
  <2>3. CASE ~(Num[d] < Num[b])
    <3>1. Num[d] \in Nat /\ Num[g] \in Nat /\ Num[Parent[b]] \in Nat /\ Num[b] \in Nat
      BY <1>1, <1>2, NodeosAssumption
    <3>2. Num[Parent[b]] <= Num[g]
      BY <1>3, <2>1, <2>3, <3>1
    <3> QED
      BY <1>3, <3>2
  <2> QED
    BY <2>2, <2>3
<1> QED
  BY <1>4, <1>5 DEF RootInv, OnRoot

LEMMA ReplaceNodeRoot ==
  ASSUME NodeosTypeOK, RootInv, NEW n \in 0..Height, NEW bg \in LogBegins, ReplaceNode(n, bg)
  PROVE  RootInv'
<1>1. n \in Nat /\ chain' = {c \in chain : Num[c] < n + 1}
  BY DEF ReplaceNode, Below
<1>2. chain \subseteq Block /\ \A x \in Block : Num[x] \in Nat
  BY TreeAssumption DEF NodeosTypeOK
<1>3. \A c \in chain' : OnRoot(c)
  BY <1>1 DEF RootInv
<1>4. ASSUME NEW c \in chain', NEW g \in Genesis PROVE \E d \in chain' : Num[d] <= Num[g]
  <2>1. c \in chain /\ Num[c] < n + 1 /\ Num[c] \in Nat /\ Num[g] \in Nat
    BY <1>1, <1>2, NodeosAssumption
  <2>2. PICK d \in chain : Num[d] <= Num[g]
    BY <2>1 DEF RootInv
  <2>3. Num[d] \in Nat
    BY <1>2
  <2>4. CASE Num[d] < n + 1
    BY <1>1, <2>2, <2>4
  <2>5. CASE ~(Num[d] < n + 1)
    <3>1. Num[c] <= Num[g]
      BY <1>1, <2>1, <2>2, <2>3, <2>5
    <3> QED
      BY <3>1
  <2> QED
    BY <2>4, <2>5
<1> QED
  BY <1>3, <1>4 DEF RootInv, OnRoot

\* nodeos has a block at every number from a block of its tree's root branch up to its
\* newest one.
LEMMA SentAt ==
  ASSUME NodeosTypeOK, NodeosInv, RootInv, HeightInv, NEW n \in 1..Height, begin <= n,
         NEW b \in Block, OnRoot(b), Num[b] <= n
  PROVE  Id(n) \in chain /\ Num[Id(n)] = n
<1>1. /\ chain \subseteq Block /\ IsStretch(chain) /\ begin \in Nat
      /\ \A c \in Block : Num[c] \in Nat /\ NoBlock # c
  BY TreeAssumption DEF NodeosTypeOK, NodeosInv
<1>2. chain # {} /\ n <= Height /\ n \in Nat
  <2>1. chain = {} => Height = 0
    BY DEF Height, Tip, N
  <2> QED
    BY <2>1
<1>3. Tip(chain) \in chain /\ Num[Tip(chain)] = Height
  BY <1>1, <1>2 DEF HeightInv, TipIs, Height, N
<1>4. PICK g \in Genesis : Num[g] <= Num[b]
  BY DEF OnRoot
<1>5. PICK d \in chain : Num[d] <= Num[g]
  BY <1>2 DEF RootInv
<1>6. Num[d] <= n
  <2>1. Num[d] \in Nat /\ Num[g] \in Nat /\ Num[b] \in Nat
    BY <1>1, NodeosAssumption
  <2> QED
    BY <1>2, <1>4, <1>5, <2>1
<1>7. n \in Num[d]..Num[Tip(chain)]
  <2>1. Num[d] \in Nat /\ Num[Tip(chain)] \in Nat
    BY <1>1, <1>3
  <2> QED
    BY <1>2, <1>3, <1>6, <2>1
<1>8. PICK e \in chain : Num[e] = n
  BY <1>1, <1>3, <1>5, <1>7 DEF IsStretch
<1>9. At(chain, n) \in chain /\ Num[At(chain, n)] = n
  BY <1>8 DEF At
<1> QED
  BY <1>1, <1>2, <1>9 DEF Id

\* What nodeos sends is anchored in the branch it is on.
LEMMA SentAnchored ==
  ASSUME NodeosTypeOK, NodeosInv, RootInv, NEW m \in BlocksResult, m.this_block \in chain
  PROVE  Anchored(m)
<1> DEFINE t == m.this_block
<1>1. chain \in SUBSET Block /\ IsStretch(chain) /\ \A x \in Block : Num[x] \in Nat
  BY TreeAssumption DEF NodeosTypeOK, NodeosInv
<1>2. OnRoot(t)
  BY DEF RootInv
<1>3. ASSUME NEW b \in Block, OnRoot(b), Num[b] <= Fixed(m), SameBranch(b, t)
      PROVE  b \in chain
  <2>0. PICK S \in SUBSET Block : IsStretch(S) /\ b \in S /\ t \in S
    BY <1>3 DEF SameBranch
  <2>1. N(t) = Num[t] /\ m.lib \in Nat
    BY <1>1, TreeAssumption DEF N, BlocksResult
  <2>2. Fixed(m) <= Num[t] /\ Fixed(m) \in Nat
    BY <1>1, <2>1 DEF Fixed
  <2>3. Num[b] <= Num[t]
    BY <1>1, <1>3, <2>2
  <2>4. PICK g \in Genesis : Num[g] <= Num[b]
    BY <1>3 DEF OnRoot
  <2>5. PICK d \in chain : Num[d] <= Num[g]
    BY <2>4 DEF RootInv
  <2>6. Num[d] <= Num[b]
    <3>1. Num[d] \in Nat /\ Num[b] \in Nat /\ Num[g] \in Nat
      BY <1>1, NodeosAssumption
    <3> QED
      BY <2>4, <2>5, <3>1
  <2>7. t \in chain
    OBVIOUS
  <2> HIDE DEF t
  <2> QED
    BY <1>1, <1>3, <2>0, <2>3, <2>6, <2>7, StretchesAgree
<1> QED
  BY <1>2, <1>3 DEF Anchored

\* Blocks up to the last irreversible one stay on the branch.
LEMMA AnchoredKept ==
  ASSUME NEW m, Anchored(m), Fixed(m) \in Nat,
         \A b \in chain : Num[b] <= Fixed(m) => b \in chain'
  PROVE  Anchored(m)'
<1>1. ASSUME NEW b \in Block \ chain', Num[b] <= Fixed(m) PROVE b \in Block \ chain
  BY <1>1
<1> QED
  BY <1>1 DEF Anchored, Fixed, OnRoot

------------------------------------------------------------------------------
(* The messages under way *)

\* What is said of the line stays true when nodeos applies a block or moves its last
\* irreversible block up.
LEMMA QuietLine ==
  ASSUME NodeosTypeOK, UNCHANGED <<wire, begin>>,
         \/ UNCHANGED <<chain, next>>
         \/ \E c \in Block : ApplyBlock(c)
  PROVE  /\ \A b \in Block : \A i : Followed(b, i) => Followed(b, i)'
         /\ \A s \in Nat, t \in Block : \A i : Reached(t, i, s) => Reached(t, i, s)'
<1>1. /\ chain \subseteq Block /\ next \in Nat /\ begin \in Nat
      /\ \A b \in Block : Num[b] \in Nat /\ N(b) \in Nat
  BY TreeAssumption DEF NodeosTypeOK, N
<1>2. /\ \A b \in Block : Kept(b) => Kept(b)'
      /\ \A n \in Nat, s \in Nat : Reaches(n, next, s) => Reaches(n, next', s)
  <2>1. CASE UNCHANGED <<chain, next>>
    BY <2>1 DEF Kept
  <2>2. ASSUME NEW c \in Block, ApplyBlock(c)
        PROVE  /\ \A b \in Block : Kept(b) => Kept(b)'
               /\ \A n \in Nat, s \in Nat : Reaches(n, next, s) => Reaches(n, next', s)
    <3>1. /\ chain' = {x \in chain : Num[x] < Num[c]} \cup {c}
          /\ next' = (IF Num[c] < next THEN Num[c] ELSE next)
      BY <2>2 DEF ApplyBlock, Below
    <3>2. next' <= next /\ next' <= Num[c] /\ next' \in Nat
      BY <1>1, <3>1
    <3>3. ASSUME NEW b \in Block PROVE Kept(b) => Kept(b)'
      BY <1>1, <3>1, <3>2 DEF Kept
    <3>4. \A n \in Nat, s \in Nat : Reaches(n, next, s) => Reaches(n, next', s)
      BY <1>1, <3>2 DEF Reaches
    <3> QED
      BY <3>3, <3>4
  <2> QED
    BY <2>1, <2>2
<1>3. ASSUME NEW b \in Block, NEW i, Followed(b, i) PROVE Followed(b, i)'
  BY <1>2, <1>3 DEF Followed, Spares, Links
<1>4. ASSUME NEW s \in Nat, NEW t \in Block, NEW i, Reached(t, i, s) PROVE Reached(t, i, s)'
  <2>1. Reaches(N(t), next, s) => Reaches(N(t), next', s)
    BY <1>1, <1>2
  <2> QED
    BY <1>4, <2>1 DEF Reached, Reaches
<1> QED
  BY <1>3, <1>4

\* The block nodeos sends is of its branch, and so is the one it sends next.
LEMMA SentLine ==
  ASSUME NodeosTypeOK, SendBlocksResult, NEW s, NEW i \in DOMAIN wire', NEW t,
         t = wire'[i].this_block, t # NoBlock, i \notin DOMAIN wire
  PROVE  Followed(t, i)' /\ Reached(t, i, s)'
<1>1. PICK m : m = [this_block |-> Id(next), prev_block |-> Id(next - 1), lib |-> lib]
  OBVIOUS
<1>2. /\ next' = next + 1 /\ wire' = Append(wire, m) /\ wire \in Seq(BlocksResult)
      /\ UNCHANGED <<chain, begin>> /\ next \in Nat /\ chain \subseteq Block
      /\ \A c \in Block : Num[c] \in Nat /\ N(c) = Num[c]
  BY <1>1, TreeAssumption DEF SendBlocksResult, NodeosTypeOK, N
<1>3. m \in BlocksResult
  BY <1>1, <1>2, AtTyped DEF Id, MaybeBlock, BlocksResult, NodeosTypeOK
<1>4. DOMAIN wire' = 1..(Len(wire) + 1) /\ i = Len(wire) + 1 /\ wire'[i] = m /\ i \in Nat
  BY <1>2, <1>3
<1>5. t \in chain /\ N(t) = next
  BY <1>1, <1>2, <1>4 DEF Id, At
<1>6. Kept(t)' /\ Reaches(N(t), next, s)'
  BY <1>2, <1>5 DEF Kept, Reaches
<1>7. \A k \in DOMAIN wire' : ~(i < k)
  BY <1>4
<1> QED
  BY <1>6, <1>7 DEF Followed, Reached

\* What is said of block b after place i of the line stays true when nodeos sends.
LEMMA FollowedSent ==
  ASSUME NodeosTypeOK, NodeosInv, RootInv, HeightInv, SendBlocksResult,
         NEW b \in Block, OnRoot(b), NEW i \in 0..Len(wire), Followed(b, i)
  PROVE  Followed(b, i)'
<1>0. PICK m : m = [this_block |-> Id(next), prev_block |-> Id(next - 1), lib |-> lib]
  OBVIOUS
<1> DEFINE L == Len(wire)
<1>1. /\ next \in 1..Height /\ next' = next + 1 /\ wire' = Append(wire, m)
      /\ UNCHANGED <<chain, begin>>
  BY <1>0 DEF SendBlocksResult
<1>2. /\ wire \in Seq(BlocksResult) /\ begin \in Nat /\ next \in Nat /\ Num[b] \in Nat
      /\ Num[b] > 0 /\ chain \subseteq Block /\ IsStretch(chain) /\ b # NoBlock
      /\ \A c \in Block : Num[c] \in Nat /\ c # NoBlock /\ N(c) = Num[c]
  BY TreeAssumption DEF NodeosTypeOK, NodeosInv, N
<1>3. m.this_block = Id(next) /\ m.prev_block = Id(next - 1)
  BY <1>0
<1>4. /\ Id(next) # NoBlock => begin <= next /\ Id(next) \in chain /\ Num[Id(next)] = next
      /\ Num[b] <= next /\ Id(next) = NoBlock => next < begin
      /\ b \in chain /\ begin <= Num[b] => Id(Num[b]) = b
  <2>1. Id(next) # NoBlock => begin <= next /\ Id(next) \in chain /\ Num[Id(next)] = next
    BY <1>2 DEF Id, At
  <2>2. Num[b] <= next /\ begin <= next => Id(next) # NoBlock
    BY <1>1, <1>2, SentAt
  <2>3. b \in chain /\ begin <= Num[b] => Id(Num[b]) = b
    <3>1. b \in chain => At(chain, Num[b]) = b
      BY <1>2 DEF At, IsStretch
    <3> QED
      BY <1>2, <3>1 DEF Id
  <2> QED
    BY <1>2, <2>1, <2>2, <2>3
<1>5. /\ \A k \in 1..L : k \in DOMAIN wire /\ k \in DOMAIN wire' /\ wire'[k] = wire[k]
      /\ L + 1 \in DOMAIN wire' /\ wire'[L + 1] = m /\ L \in Nat /\ i \in 0..L
      /\ DOMAIN wire' = 1..(L + 1) /\ DOMAIN wire = 1..L
  <2>1. m \in BlocksResult
    BY <1>2, <1>0, AtTyped DEF Id, MaybeBlock, BlocksResult, NodeosTypeOK
  <2> QED
    BY <1>1, <1>2, <2>1
<1> HIDE DEF L
<1>6. Links(m, b)' \/ ~Kept(b)
  <2> SUFFICES ASSUME Kept(b), N(m.this_block) = Num[b] + 1
               PROVE  m.prev_block = b \/ Num[b] < begin
    BY <1>1 DEF Links
  <2>1. Id(next) # NoBlock
    BY <1>2, <1>3 DEF N
  <2>2. next = Num[b] + 1 /\ begin <= next
    BY <1>2, <1>3, <1>4, <2>1
  <2>3. b \in chain \/ Num[b] < begin
    BY <1>2, <2>2 DEF Kept
  <2>4. next - 1 = Num[b]
    BY <1>2, <2>2
  <2> QED
    BY <1>2, <1>3, <1>4, <2>3, <2>4
<1>7. Kept(b) /\ Spares(m, b) => Kept(b)'
  <2> SUFFICES ASSUME Kept(b), Spares(m, b), Num[b] < next + 1 PROVE b \in chain \/ Num[b] < begin
    BY <1>1 DEF Kept
  <2>1. CASE Num[b] < next
    BY <2>1 DEF Kept
  <2>2. CASE ~(Num[b] < next)
    <3>1. Num[b] = next
      BY <1>2, <2>2
    <3>2. Id(next) = NoBlock
      BY <1>2, <1>3, <1>4, <3>1 DEF Spares
    <3> QED
      BY <1>2, <1>4, <3>1, <3>2
  <2> QED
    BY <2>1, <2>2
<1>8. ASSUME NEW k \in DOMAIN wire', NEW x, x = wire'[k], i < k,
             \A j \in (i + 1)..(k - 1) : Spares(wire'[j], b)
      PROVE  Links(x, b)'
  <2>1. CASE k = L + 1
    <3>1. ASSUME NEW j \in DOMAIN wire, i < j PROVE Spares(wire[j], b)
      <4>1. j \in (i + 1)..(k - 1) /\ wire'[j] = wire[j]
        BY <1>5, <2>1, <3>1
      <4> QED
        BY <1>8, <4>1
    <3>2. Kept(b)
      BY <3>1 DEF Followed
    <3> QED
      BY <1>5, <1>6, <1>8, <2>1, <3>2
  <2>2. CASE k # L + 1
    <3>1. k \in DOMAIN wire /\ x = wire[k]
      BY <1>5, <1>8, <2>2
    <3>2. \A j \in (i + 1)..(k - 1) : Spares(wire[j], b)
      BY <1>5, <1>8, <3>1
    <3>3. Links(x, b)
      BY <1>8, <3>1, <3>2 DEF Followed
    <3> QED
      BY <1>1, <3>3 DEF Links
  <2> QED
    BY <2>1, <2>2
<1>9. ASSUME \A j \in DOMAIN wire' : i < j => Spares(wire'[j], b)
      PROVE  Kept(b)'
  <2>1. Kept(b)
    <3>1. \A j \in DOMAIN wire : i < j => Spares(wire[j], b)
      BY <1>5, <1>9
    <3> QED
      BY <3>1 DEF Followed
  <2>2. i < L + 1
    BY <1>5
  <2> QED
    BY <1>5, <1>7, <1>9, <2>1, <2>2
<1> QED
  BY <1>8, <1>9 DEF Followed, Spares

LEMMA ReachedSent ==
  ASSUME NodeosTypeOK, NodeosInv, RootInv, HeightInv, SendBlocksResult,
         NEW s \in Nat, NEW t \in Block, OnRoot(t), NEW i \in 0..Len(wire), Reached(t, i, s)
  PROVE  Reached(t, i, s)'
<1>0. PICK m : m = [this_block |-> Id(next), prev_block |-> Id(next - 1), lib |-> lib]
  OBVIOUS
<1> DEFINE L == Len(wire)
<1>1. /\ next \in 1..Height /\ next' = next + 1 /\ wire' = Append(wire, m)
      /\ UNCHANGED <<chain, begin>>
  BY <1>0 DEF SendBlocksResult
<1>2. /\ wire \in Seq(BlocksResult) /\ begin \in Nat /\ next \in Nat /\ N(t) = Num[t]
      /\ Num[t] \in Nat /\ chain \subseteq Block
      /\ \A c \in Block : Num[c] \in Nat /\ c # NoBlock /\ N(c) = Num[c]
  BY TreeAssumption DEF NodeosTypeOK, NodeosInv, N
<1>3. m.this_block = Id(next)
  BY <1>0
<1>4. /\ Id(next) # NoBlock => N(Id(next)) = next
      /\ Num[t] <= next /\ Id(next) = NoBlock => next < begin
  <2>1. Id(next) # NoBlock => N(Id(next)) = next
    BY <1>2 DEF Id, At
  <2>2. Num[t] <= next /\ begin <= next => Id(next) # NoBlock
    BY <1>1, <1>2, SentAt
  <2> QED
    BY <1>2, <2>1, <2>2
<1>5. /\ \A k \in 1..L : k \in DOMAIN wire /\ k \in DOMAIN wire' /\ wire'[k] = wire[k]
      /\ L + 1 \in DOMAIN wire' /\ wire'[L + 1] = m /\ L \in Nat /\ i \in 0..L
      /\ DOMAIN wire' = 1..(L + 1) /\ DOMAIN wire = 1..L
  <2>1. m \in BlocksResult
    BY <1>2, <1>0, AtTyped DEF Id, MaybeBlock, BlocksResult, NodeosTypeOK
  <2> QED
    BY <1>1, <1>2, <2>1
<1> HIDE DEF L
<1>6. Reaches(Num[t], next, s) /\ m.this_block = NoBlock => Reaches(Num[t], next + 1, s)
  <2>1. CASE Num[t] < next
    BY <1>2, <1>3, <1>4, <2>1 DEF Reaches
  <2>2. CASE ~(Num[t] < next)
    BY <1>2, <2>2 DEF Reaches
  <2> QED
    BY <2>1, <2>2
<1>7. ASSUME NEW k \in DOMAIN wire', NEW x, x = wire'[k], i < k, x.this_block # NoBlock,
             \A j \in (i + 1)..(k - 1) : wire'[j].this_block = NoBlock
      PROVE  Reaches(Num[t], N(x.this_block), s)
  <2>1. CASE k = L + 1
    <3>1. ASSUME NEW j \in DOMAIN wire, i < j PROVE wire[j].this_block = NoBlock
      <4>1. j \in (i + 1)..(k - 1) /\ wire'[j] = wire[j]
        BY <1>5, <2>1, <3>1
      <4> QED
        BY <1>7, <4>1
    <3>2. Reaches(Num[t], next, s)
      BY <1>2, <3>1 DEF Reached
    <3> QED
      BY <1>3, <1>4, <1>5, <1>7, <2>1, <3>2
  <2>2. CASE k # L + 1
    <3>1. k \in DOMAIN wire /\ x = wire[k]
      BY <1>5, <1>7, <2>2
    <3>2. \A j \in (i + 1)..(k - 1) : wire[j].this_block = NoBlock
      BY <1>5, <1>7, <3>1
    <3> QED
      BY <1>2, <1>7, <3>1, <3>2 DEF Reached
  <2> QED
    BY <2>1, <2>2
<1>8. ASSUME \A j \in DOMAIN wire' : i < j => wire'[j].this_block = NoBlock
      PROVE  Reaches(Num[t], next + 1, s)
  <2>1. \A j \in DOMAIN wire : i < j => wire[j].this_block = NoBlock
    BY <1>5, <1>8
  <2>2. Reaches(Num[t], next, s)
    BY <1>2, <2>1 DEF Reached
  <2>3. i < L + 1
    BY <1>5
  <2> QED
    BY <1>5, <1>6, <1>8, <2>2, <2>3
<1> QED
  BY <1>1, <1>2, <1>7, <1>8 DEF Reached, Reaches

\* A message that leaves a block in place moves what is said of it one place on.
LEMMA PlaceAfterFirst ==
  ASSUME wire \in Seq(BlocksResult), wire # <<>>
  PROVE  /\ \A b : Followed(b, 0) /\ Spares(wire[1], b) => Followed(b, 1)
         /\ \A t, s : Reached(t, 0, s) /\ wire[1].this_block = NoBlock => Reached(t, 1, s)
<1>1. /\ \A k \in DOMAIN wire : 1 < k =>
           0 < k /\ \A j \in 1..(k - 1) : j = 1 \/ j \in (1 + 1)..(k - 1)
      /\ \A j \in DOMAIN wire : 0 < j => j = 1 \/ 1 < j
      /\ 0 + 1 = 1
  OBVIOUS
<1>2. ASSUME NEW b, Followed(b, 0), Spares(wire[1], b) PROVE Followed(b, 1)
  BY <1>1, <1>2 DEF Followed
<1>3. ASSUME NEW t, NEW s, Reached(t, 0, s), wire[1].this_block = NoBlock PROVE Reached(t, 1, s)
  BY <1>1, <1>3 DEF Reached
<1> QED
  BY <1>2, <1>3

\* Taking a message moves every place one forward.
LEMMA PlaceForward ==
  ASSUME wire \in Seq(BlocksResult), wire # <<>>, wire' = Tail(wire),
         UNCHANGED <<chain, begin, next>>
  PROVE  /\ \A b : \A i \in Nat : Followed(b, i + 1) => Followed(b, i)'
         /\ \A t, s : \A i \in Nat : Reached(t, i + 1, s) => Reached(t, i, s)'
         /\ \A i \in DOMAIN wire' : i \in Nat /\ i + 1 \in DOMAIN wire /\ wire'[i] = wire[i + 1]
<1>1. \A k \in DOMAIN wire' : k \in Nat /\ k + 1 \in DOMAIN wire /\ wire'[k] = wire[k + 1]
  OBVIOUS
<1>2. \A j \in DOMAIN wire : j > 1 => j - 1 \in DOMAIN wire' /\ wire'[j - 1] = wire[j]
  OBVIOUS
<1>3. ASSUME NEW i \in Nat, NEW k \in DOMAIN wire', NEW j \in (i + 2)..k
      PROVE  j - 1 \in (i + 1)..(k - 1) /\ wire'[j - 1] = wire[j]
  <2>1. j \in DOMAIN wire /\ j > 1 /\ j - 1 \in (i + 1)..(k - 1)
    BY <1>1
  <2> QED
    BY <1>2, <2>1
<1>4. ASSUME NEW b, NEW i \in Nat, Followed(b, i + 1) PROVE Followed(b, i)'
  <2>1. ASSUME NEW k \in DOMAIN wire', i < k,
               \A j \in (i + 1)..(k - 1) : Spares(wire'[j], b),
               NEW x, x = wire'[k]
        PROVE  Links(x, b)
    <3>1. \A j \in (i + 2)..k : Spares(wire[j], b)
      <4>1. ASSUME NEW j \in (i + 2)..k PROVE Spares(wire[j], b)
        <5>1. j - 1 \in (i + 1)..(k - 1) /\ wire'[j - 1] = wire[j]
          BY <1>3
        <5> QED
          BY <2>1, <5>1
      <4> QED
        BY <4>1
    <3>2. /\ k + 1 \in DOMAIN wire /\ i + 1 < k + 1 /\ (k + 1) - 1 = k /\ (i + 1) + 1 = i + 2
          /\ x = wire[k + 1]
      BY <1>1, <2>1
    <3> QED
      BY <1>4, <3>1, <3>2 DEF Followed
  <2>2. ASSUME \A j \in DOMAIN wire' : i < j => Spares(wire'[j], b)
        PROVE  Kept(b)
    <3>1. ASSUME NEW j \in DOMAIN wire, i + 1 < j PROVE Spares(wire[j], b)
      <4>1. j > 1 /\ i < j - 1
        BY <3>1
      <4> QED
        BY <1>2, <2>2, <4>1
    <3> QED
      BY <1>4, <3>1 DEF Followed
  <2> QED
    BY <2>1, <2>2 DEF Followed, Spares, Links, Kept
<1>5. ASSUME NEW t, NEW s, NEW i \in Nat, Reached(t, i + 1, s) PROVE Reached(t, i, s)'
  <2>1. ASSUME NEW k \in DOMAIN wire', i < k, NEW x, x = wire'[k], x.this_block # NoBlock,
               \A j \in (i + 1)..(k - 1) : wire'[j].this_block = NoBlock
        PROVE  Reaches(N(t), N(x.this_block), s)
    <3>1. \A j \in (i + 2)..k : wire[j].this_block = NoBlock
      <4>1. ASSUME NEW j \in (i + 2)..k PROVE wire[j].this_block = NoBlock
        <5>1. j - 1 \in (i + 1)..(k - 1) /\ wire'[j - 1] = wire[j]
          BY <1>3
        <5> QED
          BY <2>1, <5>1
      <4> QED
        BY <4>1
    <3>2. /\ k + 1 \in DOMAIN wire /\ i + 1 < k + 1 /\ (k + 1) - 1 = k /\ (i + 1) + 1 = i + 2
          /\ x = wire[k + 1]
      BY <1>1, <2>1
    <3> QED
      BY <1>5, <2>1, <3>1, <3>2 DEF Reached
  <2>2. ASSUME \A j \in DOMAIN wire' : i < j => wire'[j].this_block = NoBlock
        PROVE  Reaches(N(t), next, s)
    <3>1. ASSUME NEW j \in DOMAIN wire, i + 1 < j PROVE wire[j].this_block = NoBlock
      <4>1. j > 1 /\ i < j - 1
        BY <3>1
      <4> QED
        BY <1>2, <2>2, <4>1
    <3> QED
      BY <1>5, <3>1 DEF Reached
  <2> QED
    BY <2>1, <2>2 DEF Reached, Reaches
<1> QED
  BY <1>1, <1>4, <1>5

------------------------------------------------------------------------------
(* From where a session streams *)

\* From where a session streams: no later than what it asks for, nor than any position
\* it offers that nodeos does not have.
LEMMA StreamFromLeast ==
  ASSUME NEW start \in Nat, NEW positions \in SUBSET Block
  PROVE  LET n == StreamFrom(start, positions)
         IN  /\ n \in Nat /\ n <= start
             /\ \A b \in positions : Num[b] < n => Id(Num[b]) = b
<1> DEFINE P == {q \in positions : Num[q] < start /\ Id(Num[q]) # q}
           S == {start} \cup {Num[p] : p \in P}
<1>1. \A b \in Block : Num[b] \in Nat
  BY TreeAssumption
<1>2. Min(S) \in Nat /\ \A k \in S : Min(S) <= k
  <2>1. S \in SUBSET Nat /\ S # {}
    BY <1>1
  <2> HIDE DEF S
  <2> QED
    BY <2>1, MinInSet
<1>3. Min(S) <= start
  BY <1>2
<1>4. ASSUME NEW b \in positions, Num[b] < Min(S) PROVE Id(Num[b]) = b
  <2> SUFFICES ASSUME Id(Num[b]) # b PROVE FALSE
    OBVIOUS
  <2>1. Num[b] \in Nat
    BY <1>1
  <2>2. Num[b] < start
    BY <1>2, <1>3, <1>4, <2>1
  <2>3. Num[b] \in S
    BY <2>2
  <2>4. Min(S) <= Num[b]
    BY <1>2, <2>3
  <2> QED
    BY <1>2, <1>4, <2>1, <2>4
<1>5. StreamFrom(start, positions) = Min(S)
  BY DEF StreamFrom
<1> HIDE DEF S, P
<1> QED
  BY <1>2, <1>3, <1>4, <1>5

\* What a session asks for: at most the block after its head, unless nodeos's logs
\* begin later or the operator skips to block s.
LEMMA WantedReaches ==
  ASSUME begin \in Nat, NEW s \in Nat, NEW h \in MaybeBlock, NEW n \in Nat,
         n <= Max({s, N(h) + 1, begin})
  PROVE  Reaches(N(h), n, s)
<1> DEFINE m == N(h) + 1
           T == {s, m, begin}
<1>1. m \in Nat /\ N(h) \in Nat
  BY NIsNat
<1>2. Max(T) \in T
  <2>1. Max(T) = CHOOSE x \in T : \A y \in T : x >= y
    BY DEF Max
  <2> HIDE DEF m
  <2>2. \E x \in T : \A y \in T : x >= y
    BY <1>1
  <2> QED
    BY <2>1, <2>2
<1>3. n <= s \/ n <= N(h) + 1 \/ n <= begin
  BY <1>2
<1> QED
  BY <1>1, <1>3 DEF Reaches
==============================================================================
