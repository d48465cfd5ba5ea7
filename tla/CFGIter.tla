------------------------------- MODULE CFGIter -------------------------------
(***************************************************************************)
(* How a client goes over the parts of a function with projects/lib.  The  *)
(* First/Next walks, over the successors or predecessors of a block        *)
(* (cfg.cpp) and over the top-level loops (loop.cpp), find their place     *)
(* again by the element they are given.  The blocks of a loop, or those    *)
(* behind its exits, are put into a worklist (worklist.cpp), which the     *)
(* client pops until it is empty.  Its loop body may redirect edges.       *)
(***************************************************************************)
EXTENDS FlowGraph

CONSTANTS
    Graphs,      \* the control flow graphs walked over
    MaxEdits     \* bound: edges the client's loop body redirects

CFGIterAssumption ==
    /\ \A g \in Graphs : IsFlowGraph(g)
    /\ MaxEdits \in Nat

Worklists == {"blocks", "exits"}
Kinds == {"succ", "pred", "loop"} \cup Worklists

VARIABLES
    g,           \* the function
    kind, b,     \* what is gone over, and the block whose neighbours they are,
                 \*   or the header of the loop
    made,        \* what was made before: the loops of LLVMCreateLoopInfoRef,
                 \*   or what is still in the worklist
    at,          \* the element the client is at, NULL at the end
    met,         \* how often it met each block: 0, 1, or 2 for more
    edits        \* edges redirected

vars == <<g, kind, b, made, at, met, edits>>

-----------------------------------------------------------------------------
\* The lists.  A block is a predecessor once per edge.

Preds(G, x) ==
    LET Upto[k \in 0..Len(G)] ==
            IF k = 0 THEN <<>>
            ELSE Upto[k - 1] \o [i \in 1..Cardinality({j \in DOMAIN G[k] : G[k][j] = x}) |-> k]
    IN  Upto[Len(G)]

InOrder(S, n) ==
    LET Upto[k \in 0..n] ==
            IF k = 0 THEN <<>>
            ELSE IF k \in S THEN Append(Upto[k - 1], k) ELSE Upto[k - 1]
    IN  Upto[n]

\* getExitBlocks: a block behind an exit is there once per edge.
ExitEdges(G, h) ==
    {e \in UNION {{a} \X DOMAIN G[a] : a \in LoopBlocks(G, h)} :
        G[e[1]][e[2]] \notin LoopBlocks(G, h)}
ExitBlocks(G, h) == {G[e[1]][e[2]] : e \in ExitEdges(G, h)}

\* A worklist is a set: its order is that of the addresses.
BlocksInLoop(G, h) == InOrder(LoopBlocks(G, h), Len(G))
GetExitBlocks(G, h) == InOrder(ExitBlocks(G, h), Len(G))

GetSingleExit(G, h) ==
    IF \E e \in ExitEdges(G, h) : ExitEdges(G, h) = {e}
    THEN CHOOSE x \in ExitBlocks(G, h) : TRUE
    ELSE NULL

\* All there is to meet.
List(G) == CASE kind = "succ" -> G[b]
             [] kind = "pred" -> Preds(G, b)
             [] kind = "loop" -> InOrder(TopLevel(G), Len(G))
             [] kind = "blocks" -> BlocksInLoop(G, b)
             [] kind = "exits" -> GetExitBlocks(G, b)

First(s) == IF s = <<>> THEN NULL ELSE s[1]

\* A bug: the place is found before the flag is tested.
NextAfter_stays(s, x) ==
    IF \E i \in DOMAIN s : s[i] = x THEN x ELSE NULL

\* The flag next: what follows the first element equal to x.
NextAfter(s, x) ==
    IF ~\E i \in DOMAIN s : s[i] = x THEN NULL
    ELSE LET i == CHOOSE i \in DOMAIN s : s[i] = x /\ \A j \in 1..i-1 : s[j] # x
         IN  IF i = Len(s) THEN NULL ELSE s[i + 1]

CountPredecessors(G, x) == Len(Preds(G, x))
SinglePredecessor(G, x) == Len(Preds(G, x)) = 1
SingleSuccessor(G, x) == Len(G[x]) = 1

\* A bug: what is popped is not erased.
Popped_keeps(s) == s

\* worklist_pop
Popped(s) == IF s = <<>> THEN s ELSE Tail(s)

-----------------------------------------------------------------------------

Init ==
    /\ g \in Graphs
    /\ kind \in Kinds
    /\ b \in Blocks(g)
    /\ kind \in Worklists => b \in Headers(g)
    /\ at = First(List(g))
    /\ made = CASE kind = "loop" -> List(g)
                [] kind \in Worklists -> Popped(List(g))
                [] OTHER -> <<>>
    /\ met = [x \in Blocks(g) |-> 0]
    /\ edits = 0

Meet == [met EXCEPT ![at] = IF @ = 0 THEN 1 ELSE 2]

\* The loop body meets the element, and the next one is asked for.
Step ==
    /\ at # NULL
    /\ met' = Meet
    /\ \/ /\ kind \notin Worklists
          /\ at' = NextAfter(IF kind = "loop" THEN made ELSE List(g), at)
          /\ UNCHANGED made
       \/ /\ kind \in Worklists
          /\ at' = First(made)
          /\ made' = Popped(made)
    /\ UNCHANGED <<g, kind, b, edits>>

\* The loop body redirects an edge; what was made before does not notice.
Redirect ==
    /\ at # NULL
    /\ edits < MaxEdits
    /\ \E x \in Blocks(g) : \E i \in DOMAIN g[x] : \E y \in Blocks(g) \ {Entry, g[x][i]} :
          g' = [g EXCEPT ![x][i] = y]
    /\ edits' = edits + 1
    /\ UNCHANGED <<kind, b, made, at, met>>

Next == Step \/ Redirect

\* The client goes on until the end; it need not redirect anything.
Spec == Init /\ [][Next]_vars /\ WF_vars(Step)

-----------------------------------------------------------------------------
\* Properties.

Distinct(s) == \A i, j \in DOMAIN s : s[i] = s[j] => i = j

TypeOK ==
    /\ IsFlowGraph(g)
    /\ kind \in Kinds /\ b \in Blocks(g)
    /\ at \in Blocks(g) \cup {NULL}
    /\ met \in [Blocks(g) -> 0..2]
    /\ edits \in 0..MaxEdits

\* A walk over a list that stays as it is ends having met every element once,
\* as many blocks as CountPredecessors says and one when SinglePredecessor or
\* SingleSuccessor says so (a block with two edges to b is no single one).
\* Behind an exit that GetSingleExit knows is all there is to meet.
MeetsEachOnce ==
    at = NULL /\ edits = 0 =>
        LET once == {x \in Blocks(g) : met[x] = 1} IN
            /\ once = {List(g)[i] : i \in DOMAIN List(g)}
            /\ \A x \in Blocks(g) : met[x] < 2
            /\ kind = "pred" => /\ CountPredecessors(g, b) = Cardinality(once)
                                /\ SinglePredecessor(g, b) <=> Cardinality(once) = 1
            /\ kind = "exits" /\ GetSingleExit(g, b) # NULL => once = {GetSingleExit(g, b)}
            /\ kind = "succ" => (SingleSuccessor(g, b) <=> Cardinality(once) = 1)

\* It ends if and only if no element is in the list twice: a conditional branch
\* with one target, a switch with a shared case, keep a client for ever.  What
\* was made before ends, whatever the loop body does to the function.
EndsIfDistinct ==
    /\ [](at = NULL /\ edits = 0 => Distinct(List(g)))
    /\ (Distinct(List(g)) /\ [](edits = 0)) => <>(at = NULL)
    /\ (kind \in {"loop"} \cup Worklists) => <>(at = NULL)

\* Redirecting an edge may cut a walk over its block short or send it back; a
\* walk over loops, whose list is not the function's, or over a worklist meets
\* nothing twice.
MadeUnaffected ==
    kind \in {"loop"} \cup Worklists => \A x \in Blocks(g) : met[x] <= 1

\* What a client has met, in the end or so far.
WalksSound == TypeOK /\ MeetsEachOnce /\ MadeUnaffected
=============================================================================
