------------------------------ MODULE BlockTree ------------------------------
(***************************************************************************)
(* The blocks nodeos may ever apply, as a forest: every block has a number *)
(* and, above number 1, one parent whose number is one less.  Two blocks   *)
(* with one number are two branches.  NoBlock stands for the empty id ''   *)
(* and for an absent optional block_position; its number is 0, the value   *)
(* head has when head_id is ''.                                            *)
(***************************************************************************)
EXTENDS Naturals

CONSTANTS
  Block,      \* block ids
  NoBlock,    \* no block
  Num,        \* [Block -> Nat \ {0}]: a block's number
  Parent      \* [Block -> Block \cup {NoBlock}]: the block it extends

ASSUME TreeAssumption ==
  /\ NoBlock \notin Block
  /\ Num \in [Block -> Nat \ {0}]
  /\ Parent \in [Block -> Block \cup {NoBlock}]
  /\ \A b \in Block : IF Parent[b] = NoBlock THEN Num[b] = 1
                                             ELSE Num[b] = Num[Parent[b]] + 1

MaybeBlock == Block \cup {NoBlock}

N(b) == IF b = NoBlock THEN 0 ELSE Num[b]

\* The blocks of S numbered below n: what a deletion from n on leaves.
Below(S, n) == {b \in S : Num[b] < n}

\* The member of S with number n, if there is one.
At(S, n) == IF \E b \in S : Num[b] = n THEN CHOOSE b \in S : Num[b] = n ELSE NoBlock

\* The newest block of S, NoBlock when S is empty.
Tip(S) == IF S = {} THEN NoBlock ELSE CHOOSE b \in S : \A c \in S : Num[c] <= Num[b]

\* h is the newest block of S.
TipIs(S, h) == IF h = NoBlock THEN S = {} ELSE h \in S /\ \A b \in S : Num[b] <= Num[h]

\* A set of blocks that is one unbroken stretch of one branch.
IsStretch(S) ==
  /\ \A b, c \in S : Num[b] = Num[c] => b = c
  /\ \A b, c \in S : \A n \in Num[b]..Num[c] : \E d \in S : Num[d] = n
  /\ \A b, c \in S : Num[c] = Num[b] + 1 => Parent[c] = b

\* The branch that ends in a block.
Branch[b \in MaybeBlock] == IF b = NoBlock THEN {} ELSE {b} \cup Branch[Parent[b]]
==============================================================================
