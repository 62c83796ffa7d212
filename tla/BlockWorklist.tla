----------------------------- MODULE BlockWorklist -----------------------------
(***************************************************************************)
(* The walk over the blocks of a function that loop_doublefree_checker and *)
(* borrowed_reference_checker share: a queue seeded with the blocks that   *)
(* have no predecessor.  A block is marked as handled not when it enters   *)
(* the queue but when one of its successors does.  What is done with the   *)
(* statements of a block is left to the checkers.                          *)
(***************************************************************************)
EXTENDS FunctionCFG

CONSTANTS
  Order,   \* the blocks in the order in which clang lists them
  Graphs   \* the graphs a function may have

ASSUME WorklistAssumption ==
  /\ Order \in Seq(Block) /\ ToSet(Order) = Block
  /\ Graphs \subseteq Graph

VARIABLES
  cfg,         \* the graph of the function at hand
  scan,        \* the place in Order that the search for entries has reached
  unfinished,  \* the queue
  handled,
  block,       \* the block taken from the queue, Null between two
  next,        \* the successor of block to look at next
  examined     \* the blocks whose statements have been looked at

walk == <<cfg, scan, unfinished, handled, block, next, examined>>

WalkInit ==
  /\ cfg \in Graphs
  /\ scan = 1
  /\ unfinished = <<>>
  /\ handled = {}
  /\ block = Null
  /\ next = 1
  /\ examined = {}

\* The first loop looks for the entry block and takes every block without predecessor.
Collect ==
  /\ scan <= Len(Order)
  /\ scan' = scan + 1
  /\ IF IsEntry(cfg, Order[scan])
     THEN /\ unfinished' = Append(unfinished, Order[scan])
          /\ handled' = handled \cup {Order[scan]}
     ELSE UNCHANGED <<unfinished, handled>>
  /\ UNCHANGED <<cfg, block, next, examined>>

Take ==
  /\ scan > Len(Order) /\ block = Null /\ unfinished # <<>>
  /\ block' = Head(unfinished)
  /\ unfinished' = Tail(unfinished)
  /\ next' = 1
  /\ UNCHANGED <<cfg, scan, handled, examined>>

\* Two slips one could make in Queue: the mark is forgotten, or the wrong one looked up.
QueueUnmarked ==
  /\ block # Null /\ next <= Len(cfg.succ[block])
  /\ next' = next + 1
  /\ LET succ == Target(cfg.succ[block][next])
     IN unfinished' = IF succ # Null /\ succ \notin handled THEN Append(unfinished, succ) ELSE unfinished
  /\ UNCHANGED <<cfg, scan, handled, block, examined>>

QueueByOwnMark ==
  /\ block # Null /\ next <= Len(cfg.succ[block])
  /\ next' = next + 1
  /\ LET succ == Target(cfg.succ[block][next])
     IN IF succ # Null /\ block \notin handled
        THEN /\ unfinished' = Append(unfinished, succ)
             /\ handled' = handled \cup {block}
        ELSE UNCHANGED <<unfinished, handled>>
  /\ UNCHANGED <<cfg, scan, block, examined>>

\* One successor: unless it is missing or handled it enters the queue, and the block
\* it is a successor of counts as handled.
Queue ==
  /\ block # Null /\ next <= Len(cfg.succ[block])
  /\ next' = next + 1
  /\ LET succ == Target(cfg.succ[block][next])
     IN IF succ # Null /\ succ \notin handled
        THEN /\ unfinished' = Append(unfinished, succ)
             /\ handled' = handled \cup {block}
        ELSE UNCHANGED <<unfinished, handled>>
  /\ UNCHANGED <<cfg, scan, block, examined>>

Examine ==
  /\ block # Null /\ next > Len(cfg.succ[block])
  /\ examined' = examined \cup {block}
  /\ block' = Null
  /\ UNCHANGED <<cfg, scan, unfinished, handled, next>>

WalkNext == Collect \/ Take \/ Queue \/ Examine

WalkSpec == WalkInit /\ [][WalkNext]_walk

-----------------------------------------------------------------------------
(* Properties.                                                             *)

WalkTypeOK ==
  /\ cfg \in Graph
  /\ scan \in 1..(Len(Order) + 1)
  /\ unfinished \in Seq(Block)
  /\ handled \subseteq Block
  /\ block \in Block \cup {Null}
  /\ next \in Nat \ {0}
  /\ examined \subseteq Block

\* A set that holds the entries and everything control can go to from its blocks.
Closed(g, R) == Entries(g) \subseteq R /\ \A b \in R : Follow(g, b) \subseteq R
Reachable(g) == {b \in Block : \A R \in SUBSET Block : Closed(g, R) => b \in R}

WalkDone == scan > Len(Order) /\ block = Null /\ unfinished = <<>>

\* The walk looks at no block that control cannot reach, and it is not over before it
\* has looked at every block that control can reach, although a handled block never
\* enters the queue again and blocks are marked late (":64 handled.insert(block)").
ExaminesReachable ==
  /\ examined \subseteq Reachable(cfg)
  /\ WalkDone => Reachable(cfg) \subseteq examined

\* Blocks the walk has looked at, is looking at or has yet to look at.
Known == examined \cup ToSet(unfinished) \cup ({block} \ {Null})

\* The inductive invariant behind ExaminesReachable.
WalkInv ==
  /\ WalkTypeOK
  /\ block # Null => scan > Len(Order)
  /\ examined # {} => scan > Len(Order)
  /\ \A k \in 1..(scan - 1) : IsEntry(cfg, Order[k]) => Order[k] \in Known
  /\ handled \subseteq Known
  /\ \A b \in examined : Follow(cfg, b) \subseteq Known
  /\ block # Null => \A k \in DOMAIN cfg.succ[block] :
                       k < next /\ Target(cfg.succ[block][k]) # Null
                       => Target(cfg.succ[block][k]) \in Known
  /\ Known \subseteq Reachable(cfg)

=============================================================================
