------------------------------ MODULE DeadCode ------------------------------
(***************************************************************************)
(* What a dead code elimination tool promises, whatever order it works in: *)
(* it either rejects its input untouched, or erases one dead instruction   *)
(* at a time and is done only when none is left.  Both passes of           *)
(* Tutorials/5 implement this specification.                               *)
(***************************************************************************)
EXTENDS IR

VARIABLES
    prog,      \* the input module, fixed
    code,      \* the instructions not erased so far
    phase      \* "running", "rejected" or "done"

vars == <<prog, code, phase>>

Init ==
    /\ prog \in Modules
    /\ code = Instr
    /\ phase = "running"

Reject ==
    /\ phase = "running"
    /\ code = Instr
    /\ phase' = "rejected"
    /\ UNCHANGED <<prog, code>>

Erase(i) ==
    /\ phase = "running"
    /\ isDead(prog, code, i)
    /\ code' = code \ {i}
    /\ UNCHANGED <<prog, phase>>

Finish ==
    /\ phase = "running"
    /\ \A i \in code : ~isDead(prog, code, i)
    /\ phase' = "done"
    /\ UNCHANGED <<prog, code>>

Next == Reject \/ (\E i \in code : Erase(i)) \/ Finish

Safety == Init /\ [][Next]_vars

Spec == Safety /\ WF_vars(Next)

TypeOK ==
    /\ prog \in Modules
    /\ code \subseteq Instr
    /\ phase \in {"running", "rejected", "done"}

\* A tool that is done has kept exactly the live instructions, so the result
\* does not depend on the order in which dead ones were found.
DoneIsLive == phase = "done" => code = Live(prog)
=============================================================================
