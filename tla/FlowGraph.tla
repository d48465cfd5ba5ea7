------------------------------ MODULE FlowGraph ------------------------------
(***************************************************************************)
(* Control flow graphs and what LLVM's dominator trees and loop info say   *)
(* of them, by definition: paths, not algorithms.  A graph is for each of  *)
(* its blocks the sequence of the block's successors, in which a block     *)
(* may occur twice.  Block 1 is the entry; 0 is NULL.                      *)
(***************************************************************************)
EXTENDS Integers, Sequences, FiniteSets

NULL == 0
Entry == 1

Blocks(g) == DOMAIN g
Succs(g, a) == {g[a][i] : i \in DOMAIN g[a]}

IsFlowGraph(g) ==
    /\ g \in Seq(Seq(Nat))
    /\ Entry \in Blocks(g)
    /\ \A a \in Blocks(g) : Succs(g, a) \subseteq Blocks(g) \ {Entry}

\* The blocks on paths from the blocks of from that avoid the blocks of cut.
Reachable(g, from, cut) ==
    LET R[k \in Nat] ==
            IF k = 0 THEN (from \cap Blocks(g)) \ cut
            ELSE R[k - 1] \cup (UNION {Succs(g, a) : a \in R[k - 1]} \ cut)
    IN  R[Cardinality(Blocks(g))]

isReachable(g, b) == b \in Reachable(g, {Entry}, {})

\* Every path from the entry to b goes through a (so an unreachable block is
\* dominated by every block).
Dom(g, a, b) == a = b \/ b \notin Reachable(g, {Entry}, {a})

\* Every path from b to the end of the function goes through a.
Ends(g) == {b \in Blocks(g) : g[b] = <<>>}
PostDom(g, a, b) == a = b \/ Reachable(g, {b}, {a}) \cap Ends(g) = {}

\* The block of S that all of S dominate (resp. post-dominate): the nearest.
NearestBy(S, D(_, _)) ==
    IF \E d \in S : \A e \in S : D(e, d)
    THEN CHOOSE d \in S : \A e \in S : D(e, d)
    ELSE NULL

IDom(g, b) ==
    IF ~isReachable(g, b) THEN NULL
    ELSE NearestBy({a \in Blocks(g) \ {b} : isReachable(g, a) /\ Dom(g, a, b)},
                   LAMBDA a, c : Dom(g, a, c))

IPostDom(g, b) ==
    NearestBy({a \in Blocks(g) \ {b} : PostDom(g, a, b)},
              LAMBDA a, c : PostDom(g, a, c))

NCD(g, a, b) ==
    IF Entry \in {a, b} THEN Entry
    ELSE IF ~isReachable(g, a) \/ ~isReachable(g, b) THEN NULL
    ELSE NearestBy({d \in Blocks(g) : /\ isReachable(g, d)
                                      /\ Dom(g, d, a) /\ Dom(g, d, b)},
                   LAMBDA d, e : Dom(g, d, e))

-----------------------------------------------------------------------------
\* Natural loops, named by their headers.

Latches(g, h) ==
    {l \in Blocks(g) : isReachable(g, l) /\ h \in Succs(g, l) /\ Dom(g, h, l)}

Headers(g) == {h \in Blocks(g) : Latches(g, h) # {}}

\* The header and whatever reaches a latch without going through it.
LoopBlocks(g, h) ==
    {h} \cup {b \in Blocks(g) : /\ isReachable(g, b)
                                /\ Reachable(g, {b}, {h}) \cap Latches(g, h) # {}}

Depth(g, b) == Cardinality({h \in Headers(g) : b \in LoopBlocks(g, h)})

\* The loops that are in no other loop.
TopLevel(g) == {h \in Headers(g) : Depth(g, h) = 1}
=============================================================================
