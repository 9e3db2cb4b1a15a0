-------------------------------- MODULE Nodeos --------------------------------
(***************************************************************************)
(* nodeos and its state-history plugin, as src/ relies on them.  nodeos is *)
(* not part of the repository: this module is the environment of a filler. *)
(*                                                                         *)
(* chain is nodeos's current branch; switching forks removes its newest    *)
(* blocks down to a block at or above the last irreversible one.  After a  *)
(* get_blocks_request a session streams the branch from `next` on, falls   *)
(* back when a block below `next` is applied, and labels every message     *)
(* with the last irreversible block of the moment it was sent.             *)
(***************************************************************************)
EXTENDS BlockTree, Sequences, FiniteSets, FiniteSetsExt

CONSTANTS
  Genesis,    \* the branch nodeos has when the model starts, up to its newest block
  LogBegins,  \* first blocks a replacement node's history logs may have
  LosesHead,  \* a restarted node may have lost its reversible blocks
  MaxWire     \* bound on messages in transit (the code asks for 2^32 - 1)

ASSUME NodeosAssumption ==
  /\ Genesis \subseteq Block /\ IsStretch(Genesis) /\ TipIs(Genesis, Tip(Genesis))
  /\ LogBegins \subseteq Nat \ {0}
  /\ LosesHead \in BOOLEAN
  /\ MaxWire \in Nat \ {0}

\* The logs of the first node go back to block 1 (begin is 1 at first).
ASSUME GenesisAssumption == \A b \in Genesis : Parent[b] \in Genesis \cup {NoBlock}

VARIABLES
  chain,      \* blocks of the current branch
  lib,        \* number of the last irreversible block
  begin,      \* first block number the node can serve
  next,       \* the session's next block number; 0 when nothing was requested
  wire        \* get_blocks_results sent and not yet received

nodeosVars == <<chain, lib, begin, next, wire>>

BlocksResult == [this_block : MaybeBlock, prev_block : MaybeBlock, lib : Nat]

NodeosTypeOK ==
  /\ chain \subseteq Block
  /\ lib \in Nat /\ begin \in Nat /\ next \in Nat
  /\ wire \in Seq(BlocksResult)

NodeosInit ==
  /\ chain = Genesis
  /\ lib = 0
  /\ begin = 1
  /\ next = 0
  /\ wire = <<>>

Height == N(Tip(chain))

\* The id nodeos has for number n: none below what its logs hold.
Id(n) == IF n < begin THEN NoBlock ELSE At(chain, n)

\* nodeos applies block b: the next block of its branch, or the first block
\* of a better branch after popping the blocks from b's number on.
ApplyBlock(b) ==
  /\ b \notin chain
  /\ Parent[b] \in chain
  /\ Num[b] > lib
  /\ chain' = Below(chain, Num[b]) \cup {b}
  /\ next' = IF Num[b] < next THEN Num[b] ELSE next
  /\ UNCHANGED <<lib, begin, wire>>

\* The last irreversible block moves up the branch.
AdvanceLib ==
  /\ lib < Height
  /\ lib' = lib + 1
  /\ UNCHANGED <<chain, begin, next, wire>>

\* The session sends the block at `next`; below `begin` it has none to send.
SendBlocksResult ==
  /\ next \in 1..Height
  /\ Len(wire) < MaxWire
  /\ wire' = Append(wire, [this_block |-> Id(next), prev_block |-> Id(next - 1), lib |-> lib])
  /\ next' = next + 1
  /\ UNCHANGED <<chain, lib, begin>>

\* While no session is open, nodeos is restarted (its reversible blocks may be
\* gone) or replaced by a node whose logs begin later.
ReplaceNode(n, bg) ==
  /\ n \in lib..Height
  /\ LosesHead \/ n = Height
  /\ bg >= begin
  /\ bg <= lib
  /\ chain' = Below(chain, n + 1)
  /\ begin' = bg
  /\ <<chain', begin'>> # <<chain, begin>>
  /\ UNCHANGED <<lib, next, wire>>

\* First block nodeos streams for get_blocks_request(start, positions): it goes
\* back to the first position below start that is not on its branch.
StreamFrom(start, positions) ==
  Min({start} \cup {Num[p] : p \in {q \in positions : Num[q] < start /\ Id(Num[q]) # q}})

\* The session's end, whoever closes it.
SessionGone ==
  /\ next' = 0
  /\ wire' = <<>>
  /\ UNCHANGED <<chain, lib, begin>>

------------------------------------------------------------------------------
(* What holds of nodeos's branch, and of the messages under way, as long   *)
(* as a filler takes them in order.                                        *)

\* prev_block, when a result has one, is the parent of this_block.
Linked(m) == m.this_block # NoBlock => m.prev_block \in {NoBlock, Parent[m.this_block]}

NodeosInv == IsStretch(chain) /\ \A k \in DOMAIN wire : Linked(wire[k])

\* nodeos's branch has a newest block.
HeightInv == TipIs(chain, Tip(chain))

\* A block of a branch that goes as far back as nodeos's first one.
OnRoot(b) == \E g \in Genesis : Num[g] <= Num[b]

RootInv ==
  /\ \A c \in chain : OnRoot(c)
  /\ chain # {} => \A g \in Genesis : \E d \in chain : Num[d] <= Num[g]

\* Two blocks of one branch.
SameBranch(b, c) == \E S \in SUBSET Block : IsStretch(S) /\ b \in S /\ c \in S

\* The newest block of a message's branch that was irreversible when it was sent.
Fixed(m) == IF N(m.this_block) < m.lib THEN N(m.this_block) ELSE m.lib

\* The irreversible part of the branch that a message's block is on is, and stays,
\* part of nodeos's.
Anchored(m) ==
  m.this_block # NoBlock =>
    /\ OnRoot(m.this_block)
    /\ \A b \in Block \ chain :
         Num[b] <= Fixed(m) /\ OnRoot(b) => ~SameBranch(b, m.this_block)

\* Message m leaves block b of the history in place, and links to it if it comes next.
Spares(m, b) == m.this_block # NoBlock => Num[b] < N(m.this_block)
Links(m, b) == N(m.this_block) = Num[b] + 1 => m.prev_block = b \/ Num[b] < begin

\* Below what nodeos sends next, block b is its own.
Kept(b) == Num[b] < next => b \in chain \/ Num[b] < begin

\* The first message after place i of the wire that could link to block b does, as
\* will one nodeos still has to send.
Followed(b, i) ==
  /\ \A k \in DOMAIN wire :
       i < k /\ (\A j \in (i + 1)..(k - 1) : Spares(wire[j], b)) => Links(wire[k], b)
  /\ (\A j \in DOMAIN wire : i < j => Spares(wire[j], b)) => Kept(b)

\* No number is left out between n and p, unless it is below nodeos's logs or
\* skipped by the operator, who asks for nothing below s.
Reaches(n, p, s) == p <= n + 1 \/ n < begin \/ n + 1 < s

\* From block t on, the head after place i, no number is left out.
Reached(t, i, s) ==
  /\ \A k \in DOMAIN wire :
       /\ i < k /\ wire[k].this_block # NoBlock
       /\ \A j \in (i + 1)..(k - 1) : wire[j].this_block = NoBlock
       => Reaches(N(t), N(wire[k].this_block), s)
  /\ (\A j \in DOMAIN wire : i < j => wire[j].this_block = NoBlock) => Reaches(N(t), next, s)
==============================================================================
