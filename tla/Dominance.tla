------------------------------ MODULE Dominance ------------------------------
(***************************************************************************)
(* The C interface to LLVM's dominator trees (projects/lib/analysis/       *)
(* dominance.cpp): one function's trees are kept in globals and computed   *)
(* again when another function is asked about.  The clients are passes:    *)
(* they ask, they walk over the children of a block in the tree, and they  *)
(* change the functions they work on.                                      *)
(***************************************************************************)
EXTENDS FlowGraph

CONSTANTS
    Funs,        \* the functions of the module
    Graphs,      \* the control flow graphs a function may have
    MaxEdits     \* bound: changes the passes make

None == "none"

\* In place of a block: a pointer to a node is NULL and has been followed.
Crash == -1

DominanceAssumption ==
    /\ \A g \in Graphs : IsFlowGraph(g)
    /\ MaxEdits \in Nat
    /\ None \notin Funs

VARIABLES
    graph,       \* the functions as they are
    Current,     \* the function the trees are for, or None
    DT,          \* the graph DT and PDT were calculated from
    LI,          \* per function: how often LI->analyze saw it, and as what
    walk,        \* a walk over the children of a block
    edits,       \* changes so far
    asked,       \* history: the functions a client has asked about
    last,        \* history: the last one it asked about, nesting depth apart
                 \*   (the first question counts, whatever it is)
    clean        \* history: that one has not changed since it was asked about

vars == <<graph, Current, DT, LI, walk, edits, asked, last, clean>>
cache == <<Current, DT, LI>>
client == <<asked, last, clean>>

NoGraph == << >>
Idle == [fun |-> None, b |-> NULL, child |-> NULL, seen |-> <<>>, steady |-> TRUE]

Init ==
    /\ graph \in [Funs -> Graphs]
    /\ Current = None
    /\ DT = NoGraph
    /\ LI = [f \in Funs |-> [times |-> 0, g |-> NoGraph]]
    /\ walk = Idle
    /\ edits = 0
    /\ asked = {}
    /\ last = None
    /\ clean = TRUE

-----------------------------------------------------------------------------
\* UpdateDominators.

\* A bug: the trees are calculated only once.
Outdated_first(f) == Current = None

Outdated(f) == Current # f

\* LI is never cleared: a function analysed twice keeps its loops of before.
Analyzed(f) ==
    [LI EXCEPT ![f] = [times |-> IF @.times = 0 THEN 1 ELSE 2, g |-> graph[f]]]

UpdateDominators(f) ==
    IF Outdated(f)
    THEN /\ Current' = f
         /\ DT' = graph[f]
         /\ LI' = Analyzed(f)
    ELSE UNCHANGED cache

\* What a client knows of its own doing.
Asks(f) ==
    /\ asked' = asked \cup {f}
    /\ last' = f
    /\ clean' = IF f = last THEN clean ELSE TRUE

-----------------------------------------------------------------------------
\* The queries, as answers from a tree t, the graph it was calculated from.
\* An unreachable block, or one that is not in t, has no node.

Node(t, b) == b \in Blocks(t) /\ isReachable(t, b)

\* The children of a node, taken in the order of the blocks.
Children(t, b) == {c \in Blocks(t) : IDom(t, c) = b}
Least(S) == IF S = {} THEN NULL ELSE CHOOSE c \in S : \A d \in S : c <= d

FirstDomChild(t, b) == IF Node(t, b) THEN Least(Children(t, b)) ELSE NULL

\* Without a test for the node.
NextDomChild(t, b, c) ==
    CASE ~Node(t, b) -> Crash
      [] Node(t, b) /\ c \in Children(t, b) -> Least({d \in Children(t, b) : d > c})
      [] OTHER -> NULL

\* Nor here: for a block PDT does not know, no answer at all.
ImmPostDom(t, b) == IF b \in Blocks(t) THEN {IPostDom(t, b)} ELSE {}

\* All a client can be told of blocks a and b of a function.
Says(t, a, b) ==
    [Dominates |-> Dom(t, a, b),
     PostDominates |-> PostDom(t, a, b),
     IsReachable |-> isReachable(t, a),
     ImmDom |-> IF Node(t, a) THEN IDom(t, a) ELSE NULL,
     ImmPostDom |-> ImmPostDom(t, a),
     FirstDomChild |-> FirstDomChild(t, a),
     NearestCommonDominator |-> NCD(t, a, b)]

\* A query about f; the answer, from DT', changes nothing else.
Query(f) ==
    /\ UpdateDominators(f)
    /\ Asks(f)
    /\ UNCHANGED <<graph, walk, edits>>

\* The trees the next query about f is answered from.
TreeFor(f) == IF Outdated(f) THEN graph[f] ELSE DT

\* LLVMGetLoopNestingDepth updates only as long as there is no LI at all.
NoLoopInfo == \A f \in Funs : LI[f].times = 0

GetLoopNestingDepth(f) ==
    /\ IF NoLoopInfo THEN UpdateDominators(f) ELSE UNCHANGED cache
    /\ IF asked = {} THEN Asks(f) ELSE asked' = asked \cup {f} /\ UNCHANGED <<last, clean>>
    /\ UNCHANGED <<graph, walk, edits>>

\* What it says now: analysing a function on top of its old loops gives
\* something else than its loops.
DepthFor(f, b) ==
    CASE NoLoopInfo -> {Depth(graph[f], b)}
      [] ~NoLoopInfo /\ LI[f].times = 0 -> {0}
      [] LI[f].times = 1 -> {Depth(LI[f].g, b)}
      [] OTHER -> 0..2 * Cardinality(Blocks(graph[f]))

-----------------------------------------------------------------------------
\* A client's loop: for (c = First(b); c; c = Next(b, c)).

WalkFrom(f, b) ==
    /\ walk = Idle
    /\ UpdateDominators(f)
    /\ Asks(f)
    /\ walk' = [fun |-> f, b |-> b, child |-> FirstDomChild(DT', b),
                seen |-> <<>>, steady |-> clean']
    /\ UNCHANGED <<graph, edits>>

WalkOn ==
    /\ walk.child # NULL
    /\ UpdateDominators(walk.fun)
    /\ Asks(walk.fun)
    /\ walk' = [walk EXCEPT !.seen = Append(@, walk.child),
                            !.child = NextDomChild(DT', walk.b, walk.child)]
    /\ UNCHANGED <<graph, edits>>

WalkEnds ==
    /\ walk # Idle /\ walk.child = NULL
    /\ walk' = Idle
    /\ UNCHANGED <<graph, edits, cache, client>>

\* A pass changes a function, or frees it and gets another at its address.
Edit(f, g) ==
    /\ edits < MaxEdits
    /\ graph[f] # g
    /\ walk.fun = f => walk.b \in Blocks(g)
    /\ graph' = [graph EXCEPT ![f] = g]
    /\ edits' = edits + 1
    /\ clean' = IF f = last THEN FALSE ELSE clean
    /\ walk' = IF walk.fun = f THEN [walk EXCEPT !.steady = FALSE] ELSE walk
    /\ UNCHANGED <<cache, asked, last>>

-----------------------------------------------------------------------------

Next ==
    /\ walk.child # Crash
    /\ \/ \E f \in Funs :
             \/ Query(f) \/ GetLoopNestingDepth(f)
             \/ \E b \in Blocks(graph[f]) : WalkFrom(f, b)
             \/ \E g \in Graphs : Edit(f, g)
       \/ WalkOn \/ WalkEnds

Spec == Init /\ [][Next]_vars

-----------------------------------------------------------------------------
\* Properties.

TypeOK ==
    /\ graph \in [Funs -> Graphs]
    /\ Current \in Funs \cup {None}
    /\ DT \in Graphs \cup {NoGraph}
    /\ LI \in [Funs -> [times : 0..2, g : Graphs \cup {NoGraph}]]
    /\ walk.fun \in Funs \cup {None}
    /\ edits \in 0..MaxEdits
    /\ asked \subseteq Funs
    /\ last \in asked \cup {None}
    /\ clean \in BOOLEAN

\* A pass that does not ask about a function it has changed, before it has
\* asked about another one, gets the truth, in whatever order functions are
\* asked about, changed and come back to; and no query follows a NULL node.
Trusts(f) == last # f \/ clean

AnswersRight ==
    \A f \in Funs : Trusts(f) /\ TreeFor(f) # graph[f] =>
        \A a, b \in Blocks(graph[f]) : Says(TreeFor(f), a, b) = Says(graph[f], a, b)

\* A pass that asks about one function only, and does not change it, is told
\* its loop nesting.
DepthOfFirst ==
    \A f \in Funs : Trusts(f) /\ asked \subseteq {f} =>
        \A b \in Blocks(graph[f]) : DepthFor(f, b) = {Depth(graph[f], b)}

\* While a function stays as it is, a walk follows no NULL node and meets each
\* block whose immediate dominator is b once, and nothing else, even if other
\* functions are asked about, and their trees calculated, between two steps.
WalkComplete ==
    /\ walk.steady => walk.child # Crash
    /\ walk # Idle /\ walk.child = NULL /\ walk.steady =>
           LET seen == {walk.seen[i] : i \in DOMAIN walk.seen} IN
               /\ seen = {c \in Blocks(graph[walk.fun]) : IDom(graph[walk.fun], c) = walk.b}
               /\ Len(walk.seen) = Cardinality(seen)

\* What the passes of an optimizer are told, where they may rely on it.
AnswersSound == TypeOK /\ AnswersRight /\ DepthOfFirst /\ WalkComplete
=============================================================================
