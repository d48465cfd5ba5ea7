------------------------------ MODULE MCOptimizer ------------------------------
(***************************************************************************)
(* Small instances of the optimizers and of the analyses that their passes *)
(* ask, side by side: part says which of the three runs, and the others    *)
(* rest in one state.                                                      *)
(*                                                                         *)
(* part = "main": OptDriver with all the command lines over two files, one *)
(* of which is named as the other's statistics, for every state of those.  *)
(*                                                                         *)
(* part = "trees": Dominance with two functions that may each be a         *)
(* diamond, a loop, a nest of two loops (one with an exit on the way) or   *)
(* have a block that cannot be reached, and two changes.                   *)
(*                                                                         *)
(* part = "walk": CFGIter with every graph of three blocks with at most    *)
(* three successors from the entry and two from the others, some of four   *)
(* with loops side by side or nested, and one redirected edge; the blocks  *)
(* and the exits of every loop of these too.                               *)
(***************************************************************************)
EXTENDS OptDriver, Analyses

MCFiles == {"a.bc", "a.bc.stats"}
MCStatsOf == [x \in MCFiles |-> IF x = "a.bc" THEN "a.bc.stats" ELSE "a.bc.stats.stats"]

Diamond == << <<2, 3>>, <<4>>, <<4>>, <<>> >>
SingleLoop == << <<2>>, <<3, 4>>, <<2>>, <<>> >>
Nest == << <<2>>, <<3, 5>>, <<3, 4>>, <<2>>, <<>> >>
Island == << <<2>>, <<>>, <<2>> >>

MCFuns == {"f", "g"}
MCGraphs == {Diamond, SingleLoop, Nest, Island}

Upto(n, S) == UNION {[1..k -> S] : k \in 0..n}
MCWalkGraphs ==
    {<<x, y, z>> : x \in Upto(3, {2, 3}), y \in Upto(2, {2, 3}), z \in Upto(2, {2, 3})}
    \cup {<< <<2>>, <<2, 3>>, <<3, 4>>, <<>> >>, << <<2>>, <<3>>, <<2, 3, 4>>, <<4, 4>> >>,
          << <<2, 2, 3, 4>>, <<4>>, <<4, 2>>, <<>> >>}

ASSUME D!DominanceAssumption /\ I!CFGIterAssumption

MainRests ==
    /\ tool = "p3" /\ in = "a.bc" /\ out = "a.bc" /\ options = {}
    /\ original = [x \in Names |-> Absent] /\ locked = {} /\ fs = original
    /\ tof = "none" /\ M = Absent /\ pc = "open" /\ status = "running"

TreesRest ==
    /\ graph = [x \in {"f", "g"} |-> Diamond]
    /\ Current = D!None /\ DT = D!NoGraph
    /\ LI = [x \in {"f", "g"} |-> [times |-> 0, g |-> D!NoGraph]]
    /\ walk = D!Idle /\ edits = 0 /\ asked = {} /\ last = D!None /\ clean = TRUE

WalkRests ==
    /\ fun = <<<<2>>, <<>>>> /\ kind = "succ" /\ block = 1 /\ made = <<>>
    /\ at = 2 /\ met = <<0, 0>> /\ redirected = 0

MCInit ==
    \/ part = "main" /\ Init /\ TreesRest /\ WalkRests
    \/ part = "trees" /\ D!Init /\ MainRests /\ WalkRests
    \/ part = "walk" /\ I!Init /\ MainRests /\ TreesRest

MCMain == part = "main" /\ Next /\ UNCHANGED <<part, trees, walked>>
MCTrees == part = "trees" /\ D!Next /\ UNCHANGED <<part, vars, walked>>
MCStep == part = "walk" /\ I!Step /\ UNCHANGED <<part, vars, trees>>
MCRedirect == part = "walk" /\ I!Redirect /\ UNCHANGED <<part, vars, trees>>

\* Only the client of a walk is known to go on, as in CFGIter.
MCSpec ==
    /\ MCInit
    /\ [][MCMain \/ MCTrees \/ MCStep \/ MCRedirect]_<<part, vars, trees, walked>>
    /\ WF_<<part, vars, trees, walked>>(MCStep)

\* When a client's loop ends (see CFGIter).
EndsIfDistinct == part = "walk" => I!EndsIfDistinct
================================================================================
