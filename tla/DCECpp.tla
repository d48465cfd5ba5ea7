------------------------------- MODULE DCECpp -------------------------------
(***************************************************************************)
(* The C++ tool Tutorials/5/C++/dce.cpp.  It differs from the C tool in    *)
(* three ways the properties can see: it starts each function with all of  *)
(* its instructions in the worklist, it drains the worklist before it goes *)
(* to the next function, and it opens its output before it reads its input *)
(* (a ToolOutputFile, deleted on exit unless main asks to keep it).        *)
(***************************************************************************)
EXTENDS IR, FiniteSets

VARIABLES
    pc,         \* where main is
    module,     \* the module in argv[1], chosen in Init and fixed
    present,    \* the instructions not erased
    fun,        \* the function RunDeadCodeElimination is at, NF+1 at the end
    worklist,   \* its std::set<Instruction*>
    DCE_count,  \* the global of dce.cpp
    Out,        \* the file argv[2]
    output,     \* the modules written to argv[2] so far: none or one
    status      \* main's result, -1 while it runs

vars == <<pc, module, present, fun, worklist, DCE_count, Out, output, status>>

pass == <<present, fun, worklist, DCE_count>>

Init ==
    /\ pc = "args"
    /\ module \in Modules
    /\ present = Instr
    /\ fun = 1
    /\ worklist = {}
    /\ DCE_count = 0
    /\ Out = "untouched"
    /\ output = {}
    /\ status = -1

-----------------------------------------------------------------------------
\* main, before the pass.

\* argc < 3 ends the tool before argv[2] is touched.
CheckArgs ==
    /\ pc = "args"
    /\ \/ pc' = "open" /\ UNCHANGED status
       \/ pc' = "rejected" /\ status' = 1
    /\ UNCHANGED <<module, pass, Out, output>>

\* new ToolOutputFile creates or truncates argv[2].
OpenOutput ==
    /\ pc = "open"
    /\ pc' = "read"
    /\ Out' = "open"
    /\ UNCHANGED <<module, pass, output, status>>

\* A bug: leaving without the destructor of Out.
ReadFails_leaks ==
    /\ pc = "read"
    /\ pc' = "rejected"
    /\ status' = 1
    /\ UNCHANGED <<module, pass, Out, output>>

\* parseIRFile returns no module; the destructor of Out deletes the file.
ReadFails ==
    /\ pc = "read"
    /\ pc' = "rejected"
    /\ status' = 1
    /\ Out' = "deleted"
    /\ UNCHANGED <<module, pass, output>>

ReadModule ==
    /\ pc = "read"
    /\ pc' = "fill"
    /\ UNCHANGED <<module, pass, Out, output, status>>

-----------------------------------------------------------------------------
\* RunDeadCodeElimination.

\* A bug: the loop over the functions runs once too often.
Fill_onceMore ==
    /\ pc = "fill"
    /\ fun <= NF + 1
    /\ worklist' = worklist \cup {i \in present : module.fn[i] = fun}
    /\ pc' = "drain"
    /\ UNCHANGED <<module, present, fun, DCE_count, Out, output, status>>

\* The block and instruction loops of one function (a declaration has no
\* block, and fills nothing).
Fill ==
    /\ pc = "fill"
    /\ fun <= NF
    /\ worklist' = worklist \cup {i \in present : module.fn[i] = fun}
    /\ pc' = "drain"
    /\ UNCHANGED <<module, present, fun, DCE_count, Out, output, status>>

\* *worklist.begin()
Top(i) ==
    /\ i \in worklist
    /\ \A j \in worklist : module.addr[i] <= module.addr[j]

EraseTop(i) ==
    /\ worklist' = (worklist \ {i}) \cup module.ops[i]
    /\ present' = present \ {i}
    /\ DCE_count' = DCE_count + 1

\* A bug: begin() is not taken out of the set.
SkipTop_requeue(i) ==
    /\ worklist' = worklist
    /\ UNCHANGED <<present, DCE_count>>

SkipTop(i) ==
    /\ worklist' = worklist \ {i}
    /\ UNCHANGED <<present, DCE_count>>

\* One round of the while loop.
Pop ==
    /\ pc = "drain"
    /\ \E i \in worklist :
          /\ Top(i)
          /\ \/ isDead(module, present, i) /\ EraseTop(i)
             \/ ~isDead(module, present, i) /\ SkipTop(i)
    /\ UNCHANGED <<pc, module, fun, Out, output, status>>

\* A bug: the while loop is an if, so one round is all a function gets.
NextFunction_undrained ==
    /\ pc = "drain"
    /\ fun' = fun + 1
    /\ pc' = "fill"
    /\ UNCHANGED <<module, present, worklist, DCE_count, Out, output, status>>

NextFunction ==
    /\ pc = "drain"
    /\ worklist = {}
    /\ fun' = fun + 1
    /\ pc' = "fill"
    /\ UNCHANGED <<module, present, worklist, DCE_count, Out, output, status>>

PassDone ==
    /\ pc = "fill"
    /\ fun > NF
    /\ pc' = "verify"
    /\ UNCHANGED <<module, pass, Out, output, status>>

-----------------------------------------------------------------------------
\* main, after the pass.

\* LLVMVerifyModule finds nothing to complain of.
Verified == module.valid /\ OperandsIn(module, present)

\* Verified bitcode is written and kept; otherwise the destructor of Out
\* deletes the file.  The status is 0 either way.
Write ==
    /\ pc = "verify"
    /\ \/ Verified /\ output' = {present} /\ Out' = "kept"
       \/ ~Verified /\ output' = {} /\ Out' = "deleted"
    /\ pc' = "finished"
    /\ status' = 0
    /\ UNCHANGED <<module, pass>>

-----------------------------------------------------------------------------

Exited == pc \in {"rejected", "finished"}

Next ==
    \/ CheckArgs \/ OpenOutput \/ ReadFails \/ ReadModule
    \/ Fill \/ Pop \/ NextFunction \/ PassDone
    \/ Write

\* A sequential program that no one suspends: it takes a step while it can.
Spec == Init /\ [][Next]_vars /\ WF_vars(Next)

-----------------------------------------------------------------------------
\* Properties.

TypeOK ==
    /\ pc \in {"args", "open", "read", "fill", "drain", "verify",
               "rejected", "finished"}
    /\ module \in Modules
    /\ present \subseteq Instr
    /\ fun \in 1..NF+1
    /\ worklist \subseteq Instr
    /\ DCE_count \in 0..N
    /\ Out \in {"untouched", "open", "kept", "deleted"}
    /\ output \subseteq SUBSET Instr
    /\ status \in {-1, 0, 1}

\* The raw pointers of the worklist point to instructions that still exist,
\* and to instructions of the function being worked on: an operand never
\* pulls in another function's code.
WorklistLocal ==
    worklist \subseteq {i \in present : module.fn[i] = fun}

\* A function the outer loop has left has no dead instruction, and work on
\* later functions does not make one.
FunctionsLeftClean ==
    \A i \in present : module.fn[i] < fun => ~isDead(module, present, i)

\* Seeding the worklist with everything and draining per function gives the
\* same result as the C tool: what is written is the live part of the input,
\* and only of an input the verifier accepts.
OutputIsLive ==
    \A o \in output : o = Live(module) /\ module.valid

\* argv[2] is left in one of three states: never opened, deleted, or holding
\* one complete module.  No exit path leaves an empty or half-written file.
NoPartialOutput ==
    Exited => \/ Out \in {"untouched", "deleted"} /\ output = {}
              \/ Out = "kept" /\ Cardinality(output) = 1

\* Draining one function after the other keeps to the function and never has
\* to come back.
DrainsInTurn == WorklistLocal /\ FunctionsLeftClean

\* What is left in argv[2], on every way out.
OutputRight == OutputIsLive /\ NoPartialOutput

\* Every run ends with an exit status.
Terminates == <>(Exited /\ status \in {0, 1})

phaseBar ==
    CASE pc = "rejected" -> "rejected"
      [] pc \in {"verify", "finished"} -> "done"
      [] OTHER -> "running"

DC == INSTANCE DeadCode WITH prog <- module, code <- present, phase <- phaseBar

\* The tool implements "erase dead instructions until none is left", and ends.
ImplementsDeadCode == DC!Spec /\ Terminates
=============================================================================
