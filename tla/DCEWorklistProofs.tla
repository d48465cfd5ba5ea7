------------------------- MODULE DCEWorklistProofs -------------------------
(***************************************************************************)
(* The C tool, for every module it may be given: type correctness, no      *)
(* dangling worklist entry, the result, the count, the progress of the     *)
(* drain loop and the implementation of DeadCode (its safety part).        *)
(***************************************************************************)
EXTENDS DCEWorklist, DeadCodeProofs, FiniteSetTheorems

-----------------------------------------------------------------------------
\* The inductive invariant.

\* DCE_count is missing here: its bound comes from CountsErased.
Types ==
    /\ pc \in {"args", "read", "scan", "drain", "verify", "rejected", "finished"}
    /\ module \in Modules
    /\ present \subseteq Instr
    /\ cursor \in 1..N+1
    /\ worklist \subseteq present
    /\ output \subseteq SUBSET Instr
    /\ status \in {-1, 0, 1}

\* Every dead instruction is in the worklist, or the scan has yet to reach it.
DeadQueued ==
    \A i \in present : isDead(module, present, i) =>
        \/ i \in worklist
        \/ pc \in {"args", "read", "rejected"}
        \/ pc = "scan" /\ cursor <= i

\* Nothing is erased before the drain loop, and nothing dead is left after it.
Phases ==
    /\ pc \in {"args", "read", "scan", "rejected"} => present = Instr
    /\ pc \in {"args", "read", "rejected"} => cursor = 1 /\ worklist = {}
    /\ pc \in {"verify", "finished"} => worklist = {}
    /\ pc # "finished" => output = {}

IInv ==
    /\ Types
    /\ DeadQueued
    /\ Phases
    /\ OperandsKept
    /\ LiveKept
    /\ \A o \in output : o = present /\ module.valid

LEMMA InitIInv == Init => IInv
<1>1. SUFFICES ASSUME Init PROVE IInv
  OBVIOUS
<1>2. Types /\ Phases /\ DeadQueued
  BY <1>1, IRAssumption DEF Init, Types, Phases, DeadQueued
<1>3. OperandsKept
  BY <1>1, IRAssumption DEF Init, OperandsKept, OperandsIn, ModuleType
<1>4. LiveKept
  BY <1>1, LiveJustified DEF Init, LiveKept
<1>5. QED
  BY <1>1, <1>2, <1>3, <1>4 DEF IInv, Init

\* The two outcomes of a round of the drain loop.
LEMMA EraseStep ==
    ASSUME IInv, NEW i \in worklist, isDead(module, present, i), EraseTop(i),
           pc = "drain", UNCHANGED <<pc, module, cursor, output, status>>
    PROVE  IInv'
<1>1. module \in ModuleType /\ i \in present /\ i \in Instr
  BY IRAssumption DEF IInv, Types
<1>2. module.ops[i] \subseteq present \ {i}
  BY <1>1 DEF IInv, OperandsKept, OperandsIn, isDead, HasUse
<1>3. Types'
  BY <1>1, <1>2 DEF IInv, Types, EraseTop
<1>4. DeadQueued'
  BY OnlyOperandsDie DEF IInv, DeadQueued, EraseTop
<1>5. Phases'
  BY DEF IInv, Phases, EraseTop
<1>6. OperandsKept'
  BY EraseKeepsOperands DEF IInv, OperandsKept, EraseTop
<1>7. LiveKept'
  BY EraseKeepsLive DEF IInv, LiveKept, EraseTop
<1>8. output' = {}
  BY DEF IInv, Phases
<1>9. QED
  BY <1>3, <1>4, <1>5, <1>6, <1>7, <1>8 DEF IInv

LEMMA SkipStep ==
    ASSUME IInv, NEW i \in worklist, ~isDead(module, present, i), SkipTop(i),
           pc = "drain", UNCHANGED <<pc, module, cursor, output, status>>
    PROVE  IInv'
<1>1. Types' /\ Phases' /\ DeadQueued'
  BY DEF IInv, Types, Phases, DeadQueued, SkipTop
<1>2. QED
  BY <1>1 DEF IInv, OperandsKept, LiveKept, SkipTop

LEMMA NextIInv == IInv /\ [Next]_vars => IInv'
<1>1. SUFFICES ASSUME IInv, [Next]_vars PROVE IInv'
  OBVIOUS
<1> USE <1>1
<1>2. CASE CheckArgs
  <2>1. Types' /\ Phases' /\ DeadQueued'
    BY <1>2 DEF CheckArgs, IInv, Types, Phases, DeadQueued
  <2>2. QED
    BY <1>2, <2>1 DEF CheckArgs, IInv, OperandsKept, LiveKept
<1>3. CASE ReadFails
  <2>1. Types' /\ Phases' /\ DeadQueued'
    BY <1>3 DEF ReadFails, IInv, Types, Phases, DeadQueued
  <2>2. QED
    BY <1>3, <2>1 DEF ReadFails, IInv, OperandsKept, LiveKept
<1>4. CASE ReadModule
  <2>1. Types' /\ Phases'
    BY <1>4 DEF ReadModule, IInv, Types, Phases
  <2>2. DeadQueued'
    BY <1>4 DEF ReadModule, IInv, Types, Phases, DeadQueued, Instr
  <2>3. QED
    BY <1>4, <2>1, <2>2 DEF ReadModule, IInv, OperandsKept, LiveKept
<1>5. CASE Scan
  <2>1. Types' /\ Phases'
    BY <1>5, IRAssumption DEF Scan, IInv, Types, Phases, Instr
  <2>2. DeadQueued'
    BY <1>5, IRAssumption DEF Scan, IInv, Types, DeadQueued, Instr
  <2>3. QED
    BY <1>5, <2>1, <2>2 DEF Scan, IInv, OperandsKept, LiveKept
<1>6. CASE ScanDone
  <2>1. Types' /\ Phases'
    BY <1>6 DEF ScanDone, IInv, Types, Phases
  <2>2. DeadQueued'
    BY <1>6, IRAssumption DEF ScanDone, IInv, Types, DeadQueued, Instr
  <2>3. QED
    BY <1>6, <2>1, <2>2 DEF ScanDone, IInv, OperandsKept, LiveKept
<1>7. CASE Pop
  BY <1>7, EraseStep, SkipStep DEF Pop
<1>8. CASE DrainDone
  <2>1. Types' /\ Phases' /\ DeadQueued'
    BY <1>8 DEF DrainDone, IInv, Types, Phases, DeadQueued
  <2>2. QED
    BY <1>8, <2>1 DEF DrainDone, IInv, OperandsKept, LiveKept
<1>9. CASE Write
  <2>1. Types' /\ Phases' /\ DeadQueued'
    BY <1>9 DEF Write, IInv, Types, Phases, DeadQueued
  <2>2. \A o \in output' : o = present' /\ module'.valid
    BY <1>9 DEF Write, Verified
  <2>3. QED
    BY <1>9, <2>1, <2>2 DEF Write, IInv, OperandsKept, LiveKept
<1>10. CASE UNCHANGED vars
  <2>1. Types' /\ Phases' /\ DeadQueued'
    BY <1>10 DEF vars, IInv, Types, Phases, DeadQueued
  <2>2. QED
    BY <1>10, <2>1 DEF vars, IInv, OperandsKept, LiveKept
<1>11. QED
  BY <1>2, <1>3, <1>4, <1>5, <1>6, <1>7, <1>8, <1>9, <1>10 DEF Next

LEMMA Invariance == Spec => []IInv
  BY InitIInv, NextIInv, PTL DEF Spec

-----------------------------------------------------------------------------
\* The theorems.

\* No pointer in the worklist is ever left dangling: what pop returns is an
\* instruction that has not been erased.
THEOREM NoDanglingThm == Spec => []NoDangling
<1>1. IInv => NoDangling
  BY DEF IInv, Types, NoDangling
<1>2. QED
  BY <1>1, Invariance, PTL

\* Nothing live is ever erased.
THEOREM LiveKeptThm == Spec => []LiveKept
<1>1. IInv => LiveKept
  BY DEF IInv
<1>2. QED
  BY <1>1, Invariance, PTL

\* The use lists stay well-formed: an operand outlives its users.
THEOREM KeptThm == Spec => []OperandsKept
<1>1. IInv => OperandsKept
  BY DEF IInv
<1>2. QED
  BY <1>1, Invariance, PTL

\* Once the worklist is empty after the scan, what is present is what is live.
LEMMA DrainedIsLive ==
    ASSUME IInv, pc \in {"drain", "verify", "finished"}, worklist = {}
    PROVE  present = Live(module) /\ \A i \in present : ~isDead(module, present, i)
<1>1. \A i \in present : ~isDead(module, present, i)
  BY DEF IInv, DeadQueued
<1>2. QED
  BY <1>1, NoneDeadIsLive DEF IInv, Types, LiveKept

\* What the tool writes is the live part of a module the verifier accepts,
\* for every module, every heap layout and every way of being interrupted by
\* a failing read or write.
THEOREM OutputThm == Spec => []OutputIsLive
<1>1. IInv => OutputIsLive
  BY DrainedIsLive DEF IInv, Phases, OutputIsLive
<1>2. QED
  BY <1>1, Invariance, PTL

\* On acyclic data flow the result is what the effects need and no more.
THEOREM AcyclicOutputThm == Spec => []AcyclicOutputNeeded
<1>1. IInv => AcyclicOutputNeeded
  <2>1. SUFFICES ASSUME IInv, Acyclic(module), NEW o \in output
                 PROVE  o = Needed(module)
    BY DEF AcyclicOutputNeeded
  <2>2. o = Live(module)
    BY <2>1, DrainedIsLive DEF IInv, Phases
  <2>3. QED
    BY <2>1, <2>2, AcyclicLiveNeeded DEF IInv, Types
<1>2. QED
  BY <1>1, Invariance, PTL

\* Every round of the drain loop removes an instruction or shrinks the worklist,
\* so the loop cannot go round for ever.
THEOREM ProgressThm == Spec => DrainProgresses
<1>1. IInv /\ [Next]_vars =>
        [pc = "drain" /\ pc' = "drain" =>
          \/ present' \subseteq present /\ present' # present
          \/ /\ present' = present
             /\ worklist' \subseteq worklist /\ worklist' # worklist]_vars
  <2>1. SUFFICES ASSUME IInv, Next, pc = "drain", pc' = "drain"
                 PROVE  \/ present' \subseteq present /\ present' # present
                        \/ /\ present' = present
                           /\ worklist' \subseteq worklist /\ worklist' # worklist
    OBVIOUS
  <2>2. Pop
    BY <2>1 DEF Next, CheckArgs, ReadFails, ReadModule, Scan, ScanDone,
                DrainDone, Write
  <2>3. QED
    BY <2>1, <2>2 DEF Pop, EraseTop, SkipTop, IInv, Types
<1>2. QED
  BY <1>1, Invariance, PTL DEF Spec, DrainProgresses

-----------------------------------------------------------------------------
\* Counting, and with it type correctness.

LEMMA InstrFinite == IsFiniteSet(Instr) /\ Cardinality(Instr) = N
  BY IRAssumption, FS_Interval DEF Instr

LEMMA CountStep == IInv /\ CountsErased /\ [Next]_vars => CountsErased'
<1>1. SUFFICES ASSUME IInv, CountsErased, [Next]_vars PROVE CountsErased'
  OBVIOUS
<1> USE <1>1
<1>2. CASE UNCHANGED <<present, DCE_count>>
  BY <1>2 DEF CountsErased
<1>3. ASSUME NEW i \in worklist, EraseTop(i) PROVE CountsErased'
  <2>1. IsFiniteSet(present) /\ i \in present
    BY InstrFinite, FS_Subset DEF IInv, Types
  <2>2. Cardinality(present') = Cardinality(present) - 1
    BY <1>3, <2>1, FS_RemoveElement DEF EraseTop
  <2>3. Cardinality(present) \in Nat
    BY <2>1, FS_CardinalityType
  <2>4. QED
    BY <1>3, <2>2, <2>3, IRAssumption DEF EraseTop, CountsErased
<1>4. QED
  BY <1>2, <1>3 DEF Next, vars, CheckArgs, ReadFails, ReadModule, Scan, ScanDone,
       Pop, SkipTop, DrainDone, Write

\* The number the tool reports is the number of instructions it erased.
THEOREM CountThm == Spec => []CountsErased
<1>1. Init => CountsErased
  BY InstrFinite, IRAssumption DEF Init, CountsErased
<1>2. QED
  BY <1>1, CountStep, Invariance, PTL DEF Spec

\* All that erasing must not do: no pointer dangles, no operand is missed,
\* nothing live is gone, nothing is counted twice.
THEOREM ErasesSafelyThm == Spec => []ErasesSafely
<1>1. NoDangling /\ OperandsKept /\ LiveKept /\ CountsErased => ErasesSafely
  BY DEF ErasesSafely
<1>2. QED
  BY <1>1, NoDanglingThm, KeptThm, LiveKeptThm, CountThm, PTL

\* The output is the live part of the module, and what its effects need when
\* its data flow is acyclic.
THEOREM OutputRightThm == Spec => []OutputRight
<1>1. OutputIsLive /\ AcyclicOutputNeeded => OutputRight
  BY DEF OutputRight
<1>2. QED
  BY <1>1, OutputThm, AcyclicOutputThm, PTL

\* Every variable keeps its type; DCE_count never exceeds the module's size.
THEOREM TypeThm == Spec => []TypeOK
<1>1. IInv /\ CountsErased => TypeOK
  <2>1. SUFFICES ASSUME IInv, CountsErased PROVE TypeOK
    OBVIOUS
  <2>2. IsFiniteSet(present) /\ Cardinality(present) \in Nat /\ Cardinality(present) <= N
    BY <2>1, InstrFinite, FS_Subset, FS_CardinalityType DEF IInv, Types
  <2>3. DCE_count \in 0..N
    BY <2>1, <2>2, IRAssumption DEF CountsErased
  <2>4. QED
    BY <2>1, <2>3 DEF IInv, Types, TypeOK
<1>2. QED
  BY <1>1, Invariance, CountThm, PTL

-----------------------------------------------------------------------------
\* Implementation of DeadCode.

LEMMA InitRefines == Init => DC!Init
  BY DEF Init, DC!Init, DC!Instr, Instr, phaseBar

LEMMA StepRefines == IInv /\ [Next]_vars => [DC!Next]_DC!vars
<1>1. SUFFICES ASSUME IInv, [Next]_vars PROVE [DC!Next]_DC!vars
  OBVIOUS
<1> USE <1>1
<1>2. CASE CheckArgs
  BY <1>2 DEF CheckArgs, IInv, Phases, DC!Next, DC!Reject,
       DC!vars, DC!Instr, Instr, phaseBar
<1>3. CASE ReadFails
  BY <1>3 DEF ReadFails, IInv, Phases, DC!Next, DC!Reject,
       DC!Instr, Instr, phaseBar
<1>4. CASE ReadModule \/ Scan \/ ScanDone
  BY <1>4 DEF ReadModule, Scan, ScanDone, DC!vars, phaseBar
<1>5. CASE Pop
  <2>1. PICK i \in worklist :
               \/ isDead(module, present, i) /\ EraseTop(i)
               \/ ~isDead(module, present, i) /\ SkipTop(i)
    BY <1>5 DEF Pop
  <2>2. i \in present
    BY DEF IInv, Types
  <2>3. CASE EraseTop(i) /\ isDead(module, present, i)
    <3>1. DC!Erase(i)
      BY <1>5, <2>3 DEF Pop, EraseTop, DC!Erase, DC!isDead, DC!HasUse,
           DC!Removable, isDead, HasUse, Removable, phaseBar
    <3>2. QED
      BY <2>2, <3>1 DEF DC!Next
  <2>4. CASE SkipTop(i)
    BY <1>5, <2>4 DEF Pop, SkipTop, DC!vars, phaseBar
  <2>5. QED
    BY <2>1, <2>3, <2>4
<1>6. CASE DrainDone
  <2>1. \A i \in present : ~isDead(module, present, i)
    BY <1>6, DrainedIsLive DEF DrainDone
  <2>2. DC!Finish
    BY <1>6, <2>1 DEF DrainDone, DC!Finish, DC!isDead, DC!HasUse, DC!Removable,
         isDead, HasUse, Removable, phaseBar
  <2>3. QED
    BY <2>2 DEF DC!Next
<1>7. CASE Write
  BY <1>7 DEF Write, DC!vars, phaseBar
<1>8. CASE UNCHANGED vars
  BY <1>8 DEF vars, DC!vars, phaseBar
<1>9. QED
  BY <1>2, <1>3, <1>4, <1>5, <1>6, <1>7, <1>8 DEF Next

\* The tool implements "reject the input, or erase dead instructions one by
\* one until there is none".
THEOREM RefinementThm == Spec => DC!Safety
  BY InitRefines, StepRefines, Invariance, PTL DEF Spec, DC!Safety
=============================================================================
