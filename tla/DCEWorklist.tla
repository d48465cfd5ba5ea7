---------------------------- MODULE DCEWorklist ----------------------------
(***************************************************************************)
(* The C tool Tutorials/5/C/dce.c: main, RunDeadCodeElimination and the    *)
(* worklist of worklist.cpp it works with.                                 *)
(*                                                                         *)
(* The worklist is a std::set<Value*>: inserting twice is inserting once   *)
(* and pop takes the value with the lowest address, so the order in which  *)
(* instructions are erased is up to the allocator.                         *)
(***************************************************************************)
EXTENDS IR, FiniteSets

VARIABLES
    pc,         \* where main is
    module,     \* the module in argv[1], chosen in Init and fixed
    present,    \* the instructions not erased
    cursor,     \* the next instruction the scan loops look at
    worklist,   \* the std::set behind worklist_t
    DCE_count,  \* the global of dce.c
    output,     \* the modules written to argv[2] so far: none or one
    status      \* main's result, -1 while it runs

vars == <<pc, module, present, cursor, worklist, DCE_count, output, status>>

Init ==
    /\ pc = "args"
    /\ module \in Modules
    /\ present = Instr
    /\ cursor = 1
    /\ worklist = {}
    /\ DCE_count = 0
    /\ output = {}
    /\ status = -1

-----------------------------------------------------------------------------
\* main, before the pass.

\* argc < 3 is answered with a message and exit status 0.
CheckArgs ==
    /\ pc = "args"
    /\ \/ pc' = "read" /\ UNCHANGED status
       \/ pc' = "rejected" /\ status' = 0
    /\ UNCHANGED <<module, present, cursor, worklist, DCE_count, output>>

\* The file cannot be read, or its bytes are not bitcode.
ReadFails ==
    /\ pc = "read"
    /\ pc' = "rejected"
    /\ status' = 1
    /\ UNCHANGED <<module, present, cursor, worklist, DCE_count, output>>

ReadModule ==
    /\ pc = "read"
    /\ pc' = "scan"
    /\ UNCHANGED <<module, present, cursor, worklist, DCE_count, output, status>>

-----------------------------------------------------------------------------
\* RunDeadCodeElimination.

\* One round of the innermost scan loop.
Scan ==
    /\ pc = "scan"
    /\ cursor <= N
    /\ worklist' = IF isDead(module, present, cursor)
                   THEN worklist \cup {cursor} ELSE worklist
    /\ cursor' = cursor + 1
    /\ UNCHANGED <<pc, module, present, DCE_count, output, status>>

\* A bug: the scan stops before the last instruction.
ScanDone_early ==
    /\ pc = "scan"
    /\ cursor >= N
    /\ pc' = "drain"
    /\ UNCHANGED <<module, present, cursor, worklist, DCE_count, output, status>>

ScanDone ==
    /\ pc = "scan"
    /\ cursor > N
    /\ pc' = "drain"
    /\ UNCHANGED <<module, present, cursor, worklist, DCE_count, output, status>>

\* What worklist_pop returns: *begin() of the set.
Top(i) ==
    /\ i \in worklist
    /\ \A j \in worklist : module.addr[i] <= module.addr[j]

\* A bug: the operands are counted as well.
EraseTop_countsOperands(i) ==
    /\ worklist' = (worklist \ {i}) \cup module.ops[i]
    /\ present' = present \ {i}
    /\ DCE_count' = DCE_count + (IF module.ops[i] = {} THEN 1 ELSE 2)

\* isDead(I) held: queue the operands, which still have their use in I, count,
\* and erase I from its block.
EraseTop(i) ==
    /\ worklist' = (worklist \ {i}) \cup module.ops[i]
    /\ present' = present \ {i}
    /\ DCE_count' = DCE_count + 1

\* A bug: the operand loop stands outside the if.
SkipTop_queuesOperands(i) ==
    /\ worklist' = (worklist \ {i}) \cup module.ops[i]
    /\ UNCHANGED <<present, DCE_count>>

SkipTop(i) ==
    /\ worklist' = worklist \ {i}
    /\ UNCHANGED <<present, DCE_count>>

\* One round of the while loop.
Pop ==
    /\ pc = "drain"
    /\ \E i \in worklist :
          /\ Top(i)
          /\ \/ isDead(module, present, i) /\ EraseTop(i)
             \/ ~isDead(module, present, i) /\ SkipTop(i)
    /\ UNCHANGED <<pc, module, cursor, output, status>>

DrainDone ==
    /\ pc = "drain"
    /\ worklist = {}
    /\ pc' = "verify"
    /\ UNCHANGED <<module, present, cursor, worklist, DCE_count, output, status>>

-----------------------------------------------------------------------------
\* main, after the pass.

\* LLVMVerifyModule finds nothing to complain of.
Verified == module.valid /\ OperandsIn(module, present)

\* A bug: the verifier's answer is not looked at.
Write_unverified ==
    /\ pc = "verify"
    /\ output' \in {{}, {present}}
    /\ pc' = "finished"
    /\ status' = 0
    /\ UNCHANGED <<module, present, cursor, worklist, DCE_count>>

\* LLVMWriteBitcodeToFile may fail as well; its result is not looked at.
Write ==
    /\ pc = "verify"
    /\ output' \in IF Verified THEN {{}, {present}} ELSE {{}}
    /\ pc' = "finished"
    /\ status' = 0
    /\ UNCHANGED <<module, present, cursor, worklist, DCE_count>>

-----------------------------------------------------------------------------

Exited == pc \in {"rejected", "finished"}

Next ==
    \/ CheckArgs \/ ReadFails \/ ReadModule
    \/ Scan \/ ScanDone \/ Pop \/ DrainDone
    \/ Write

\* A sequential program that no one suspends: it takes a step while it can.
Spec == Init /\ [][Next]_vars /\ WF_vars(Next)

-----------------------------------------------------------------------------
\* Properties.

TypeOK ==
    /\ pc \in {"args", "read", "scan", "drain", "verify", "rejected", "finished"}
    /\ module \in Modules
    /\ present \subseteq Instr
    /\ cursor \in 1..N+1
    /\ worklist \subseteq Instr
    /\ DCE_count \in 0..N
    /\ output \subseteq SUBSET Instr
    /\ status \in {-1, 0, 1}

\* The worklist holds raw pointers.  None of them points to an erased
\* instruction, so isDead never reads freed memory: an instruction is taken
\* out before it is erased, and it can only come back as the operand of one
\* that is still there.
NoDangling == worklist \subseteq present

\* No instruction is erased while another still uses it, so what is left is a
\* module the verifier accepts whenever it would have accepted the input.
OperandsKept == OperandsIn(module, present)

\* Nothing live is erased at any moment of the run, even for a moment.
LiveKept == Live(module) \subseteq present

\* What is written is exactly the live part of the input, and only of an input
\* the verifier accepts: a second run of the tool would remove nothing, and
\* neither heap addresses nor the order of erasures show in the result.
OutputIsLive ==
    \A o \in output : o = Live(module) /\ module.valid

\* On an input without cyclic data flow what is written is what the
\* instructions with effects need, nothing else.  (Instructions that only keep
\* each other alive through a phi are not found by this algorithm.)
AcyclicOutputNeeded ==
    Acyclic(module) => \A o \in output : o = Needed(module)

\* "Removed %d instructions." is the number of instructions removed.
CountsErased == DCE_count = N - Cardinality(present)

\* What erasing must not do at any moment of the run, in whatever order the
\* heap addresses put the worklist.
ErasesSafely == NoDangling /\ OperandsKept /\ LiveKept /\ CountsErased

\* What the tool leaves in its output, whatever the module and its layout.
OutputRight == OutputIsLive /\ AcyclicOutputNeeded

\* The drain loop makes progress in every round although it puts instructions
\* back: either an instruction is gone for good, or the worklist shrank.
DrainProgresses ==
    [][pc = "drain" /\ pc' = "drain" =>
          \/ present' \subseteq present /\ present' # present
          \/ /\ present' = present
             /\ worklist' \subseteq worklist /\ worklist' # worklist]_vars

\* Every run ends with an exit status.
Terminates == <>(Exited /\ status \in {0, 1})

phaseBar ==
    CASE pc = "rejected" -> "rejected"
      [] pc \in {"verify", "finished"} -> "done"
      [] OTHER -> "running"

DC == INSTANCE DeadCode WITH prog <- module, code <- present, phase <- phaseBar

\* The tool implements "erase dead instructions until none is left": reading
\* and scanning are invisible, leaving the drain loop is being done; and it
\* comes to its own end, too.
ImplementsDeadCode == DC!Spec /\ Terminates
=============================================================================
