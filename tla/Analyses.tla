------------------------------- MODULE Analyses -------------------------------
(***************************************************************************)
(* The analysis library as the passes of an optimizer meet it: the cache   *)
(* of trees (Dominance) and the walks over a function and its loops        *)
(* (CFGIter), each with a client of its own.  They share no state, so one  *)
(* client at a time is looked at: part = "trees" or "walk".                *)
(***************************************************************************)
CONSTANTS
    Funs, Graphs, MaxEdits,         \* see Dominance
    WalkGraphs, MaxRedirects        \* Graphs and MaxEdits of CFGIter

VARIABLES
    part,
    graph, Current, DT, LI, walk, edits, asked, last, clean,
    fun, kind, block, made, at, met, redirected

D == INSTANCE Dominance

I == INSTANCE CFGIter WITH
    Graphs <- WalkGraphs, MaxEdits <- MaxRedirects,
    g <- fun, b <- block, edits <- redirected

trees == <<graph, Current, DT, LI, walk, edits, asked, last, clean>>
walked == <<fun, kind, block, made, at, met, redirected>>

\* What the passes are told of dominance and loops (see Dominance).
TreesSound == part = "trees" => D!AnswersSound

\* What a client's loop meets (see CFGIter).
WalksSound == part = "walk" => I!WalksSound
=============================================================================
