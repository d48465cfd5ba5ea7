---------------------------- MODULE DCECppProofs ----------------------------
(***************************************************************************)
(* The C++ tool, for every module it may be given: the worklist stays      *)
(* inside the current function, functions left behind stay clean, the      *)
(* result is the live part of the input, and the output file is left whole *)
(* or not at all.                                                          *)
(***************************************************************************)
EXTENDS DCECpp, DeadCodeProofs, FiniteSetTheorems

\* DCE_count plays no part in any guard and is left out.
Types ==
    /\ pc \in {"args", "open", "read", "fill", "drain", "verify",
               "rejected", "finished"}
    /\ module \in Modules
    /\ present \subseteq Instr
    /\ fun \in 1..NF+1
    /\ WorklistLocal

\* In the function being drained, what is dead is in the worklist.
DeadQueued ==
    pc = "drain" =>
        \A i \in present :
            module.fn[i] = fun /\ isDead(module, present, i) => i \in worklist

Phases ==
    /\ pc # "drain" => worklist = {}
    /\ pc = "drain" => fun <= NF
    /\ pc \in {"args", "open", "read", "rejected"} => present = Instr /\ fun = 1
    /\ pc \in {"verify", "finished"} => fun > NF

File ==
    /\ pc \in {"args", "open"} => Out = "untouched"
    /\ pc = "rejected" => Out \in {"untouched", "deleted"}
    /\ pc = "finished" => \/ Out = "deleted" /\ output = {}
                          \/ Out = "kept" /\ output = {present}
    /\ pc # "finished" => output = {}
    /\ output # {} => module.valid

IInv ==
    /\ Types
    /\ DeadQueued
    /\ FunctionsLeftClean
    /\ Phases
    /\ File
    /\ OperandsIn(module, present)
    /\ Live(module) \subseteq present

LEMMA InitIInv == Init => IInv
<1>1. SUFFICES ASSUME Init PROVE IInv
  OBVIOUS
<1>2. Types /\ Phases /\ File /\ DeadQueued
  BY <1>1, IRAssumption DEF Init, Types, WorklistLocal, Phases, File, DeadQueued
<1>3. OperandsIn(module, present)
  BY <1>1, IRAssumption DEF Init, OperandsIn, ModuleType
<1>4. FunctionsLeftClean
  BY <1>1, IRAssumption DEF Init, FunctionsLeftClean, ModuleType, Functions
<1>5. QED
  BY <1>1, <1>2, <1>3, <1>4, LiveJustified DEF IInv, Init

\* A round of the while loop that erases: the only instructions that can die
\* with i are its operands, and those are in i's function.
LEMMA EraseStep ==
    ASSUME IInv, NEW i \in worklist, isDead(module, present, i), EraseTop(i),
           pc = "drain", UNCHANGED <<pc, module, fun, Out, output, status>>
    PROVE  IInv'
<1>1. /\ module \in ModuleType /\ WellBuilt(module)
      /\ i \in present /\ i \in Instr /\ module.fn[i] = fun
  BY IRAssumption DEF IInv, Types, WorklistLocal
<1>2. \A j \in module.ops[i] : j \in present \ {i} /\ module.fn[j] = fun
  BY <1>1 DEF IInv, OperandsIn, isDead, HasUse, WellBuilt
<1>3. Types'
  BY <1>1, <1>2 DEF IInv, Types, WorklistLocal, EraseTop
<1>4. DeadQueued'
  BY OnlyOperandsDie DEF IInv, DeadQueued, EraseTop
<1>5. FunctionsLeftClean'
  <2>1. SUFFICES ASSUME NEW j \in present \ {i}, module.fn[j] < fun,
                        isDead(module, present \ {i}, j)
                 PROVE  FALSE
    BY DEF FunctionsLeftClean, EraseTop
  <2>2. ~isDead(module, present, j)
    BY <2>1 DEF IInv, FunctionsLeftClean
  <2>3. module.fn[j] = fun
    BY <1>2, <2>1, <2>2, OnlyOperandsDie
  <2>4. QED
    BY <2>1, <2>3 DEF IInv, Types
<1>6. Phases' /\ File'
  BY DEF IInv, Phases, File, EraseTop
<1>7. OperandsIn(module, present)'
  BY EraseKeepsOperands DEF IInv, EraseTop
<1>8. (Live(module) \subseteq present)'
  BY EraseKeepsLive DEF IInv, EraseTop
<1>9. QED
  BY <1>3, <1>4, <1>5, <1>6, <1>7, <1>8 DEF IInv

LEMMA SkipStep ==
    ASSUME IInv, NEW i \in worklist, ~isDead(module, present, i), SkipTop(i),
           pc = "drain", UNCHANGED <<pc, module, fun, Out, output, status>>
    PROVE  IInv'
<1>1. Types' /\ Phases' /\ DeadQueued' /\ FunctionsLeftClean' /\ File'
  BY DEF IInv, Types, WorklistLocal, Phases, DeadQueued, FunctionsLeftClean,
         File, SkipTop
<1>2. QED
  BY <1>1 DEF IInv, SkipTop

\* The drain loop is over for this function: it joins the clean ones.
LEMMA NextFunctionStep == IInv /\ NextFunction => IInv'
<1>1. SUFFICES ASSUME IInv, NextFunction PROVE IInv'
  OBVIOUS
<1> USE <1>1
<1>2. \A i \in present : module.fn[i] \in Int
  BY IRAssumption DEF IInv, Types, ModuleType, Functions
<1>3. Types' /\ Phases' /\ DeadQueued' /\ File'
  BY IRAssumption DEF NextFunction, IInv, Types, WorklistLocal, Phases,
     DeadQueued, File
<1>4. FunctionsLeftClean'
  BY <1>2 DEF NextFunction, IInv, Types, DeadQueued, FunctionsLeftClean
<1>5. QED
  BY <1>3, <1>4 DEF NextFunction, IInv

LEMMA NextIInv == IInv /\ [Next]_vars => IInv'
<1>1. SUFFICES ASSUME IInv, [Next]_vars PROVE IInv'
  OBVIOUS
<1> USE <1>1
<1>2. CASE CheckArgs \/ OpenOutput \/ ReadFails \/ ReadModule \/ UNCHANGED vars
  <2>1. UNCHANGED <<module, present, fun, worklist>>
    BY <1>2 DEF CheckArgs, OpenOutput, ReadFails, ReadModule, pass, vars
  <2>2. Types' /\ Phases'
    BY <1>2, <2>1 DEF CheckArgs, OpenOutput, ReadFails, ReadModule, vars, pass,
       IInv, Types, WorklistLocal, Phases
  <2>3. DeadQueued' /\ FunctionsLeftClean'
    BY <1>2, <2>1 DEF CheckArgs, OpenOutput, ReadFails, ReadModule, vars,
       IInv, DeadQueued, FunctionsLeftClean
  <2>4. File'
    BY <1>2 DEF CheckArgs, OpenOutput, ReadFails, ReadModule, vars, pass, IInv, File
  <2>5. QED
    BY <2>1, <2>2, <2>3, <2>4 DEF IInv
<1>3. CASE Fill
  <2>1. Types' /\ Phases' /\ File'
    BY <1>3 DEF Fill, IInv, Types, WorklistLocal, Phases, File
  <2>2. DeadQueued' /\ FunctionsLeftClean'
    BY <1>3 DEF Fill, IInv, DeadQueued, FunctionsLeftClean
  <2>3. QED
    BY <1>3, <2>1, <2>2 DEF Fill, IInv
<1>4. CASE Pop
  BY <1>4, EraseStep, SkipStep DEF Pop
<1>5. CASE NextFunction
  BY <1>5, NextFunctionStep
<1>6. CASE PassDone
  <2>1. Types' /\ Phases' /\ File'
    BY <1>6 DEF PassDone, pass, IInv, Types, WorklistLocal, Phases, File
  <2>2. DeadQueued' /\ FunctionsLeftClean'
    BY <1>6 DEF PassDone, pass, IInv, DeadQueued, FunctionsLeftClean
  <2>3. QED
    BY <1>6, <2>1, <2>2 DEF PassDone, pass, IInv
<1>7. CASE Write
  <2>1. Types' /\ Phases' /\ File'
    BY <1>7 DEF Write, Verified, pass, IInv, Types, WorklistLocal, Phases, File
  <2>2. DeadQueued' /\ FunctionsLeftClean'
    BY <1>7 DEF Write, pass, IInv, DeadQueued, FunctionsLeftClean
  <2>3. QED
    BY <1>7, <2>1, <2>2 DEF Write, pass, IInv
<1>8. QED
  BY <1>2, <1>3, <1>4, <1>5, <1>6, <1>7 DEF Next

LEMMA Invariance == Spec => []IInv
  BY InitIInv, NextIInv, PTL DEF Spec

-----------------------------------------------------------------------------
\* The theorems.

\* The worklist holds instructions of the current function that still exist.
THEOREM LocalThm == Spec => []WorklistLocal
<1>1. IInv => WorklistLocal
  BY DEF IInv, Types
<1>2. QED
  BY <1>1, Invariance, PTL

\* A function the outer loop has left never again holds dead code.
THEOREM CleanThm == Spec => []FunctionsLeftClean
<1>1. IInv => FunctionsLeftClean
  BY DEF IInv
<1>2. QED
  BY <1>1, Invariance, PTL

\* Draining function by function stays inside the function and leaves it clean.
THEOREM DrainsThm == Spec => []DrainsInTurn
<1>1. WorklistLocal /\ FunctionsLeftClean => DrainsInTurn
  BY DEF DrainsInTurn
<1>2. QED
  BY <1>1, LocalThm, CleanThm, PTL

\* Behind the last function nothing is dead.
LEMMA AllClean ==
    ASSUME IInv, fun > NF
    PROVE  /\ \A i \in present : ~isDead(module, present, i)
           /\ present = Live(module)
<1>1. \A i \in present : module.fn[i] \in 1..NF
  BY IRAssumption DEF IInv, Types, ModuleType, Functions
<1>2. \A i \in present : ~isDead(module, present, i)
  BY <1>1, IRAssumption DEF IInv, Types, FunctionsLeftClean
<1>3. QED
  BY <1>2, NoneDeadIsLive DEF IInv, Types

\* What the C++ tool writes is what the C tool writes: the live part of the
\* input, if the verifier accepts it.
THEOREM OutputThm == Spec => []OutputIsLive
<1>1. IInv => OutputIsLive
  BY AllClean DEF IInv, Types, Phases, File, OutputIsLive
<1>2. QED
  BY <1>1, Invariance, PTL

\* On every exit path argv[2] is untouched, deleted, or holds one module.
THEOREM NoPartialThm == Spec => []NoPartialOutput
<1>1. Cardinality({present}) = 1
  BY FS_Singleton
<1>2. IInv => NoPartialOutput
  BY <1>1 DEF IInv, File, Exited, NoPartialOutput
<1>3. QED
  BY <1>2, Invariance, PTL

\* argv[2] holds the live part of the input, or is untouched or gone.
THEOREM OutputRightThm == Spec => []OutputRight
<1>1. OutputIsLive /\ NoPartialOutput => OutputRight
  BY DEF OutputRight
<1>2. QED
  BY <1>1, OutputThm, NoPartialThm, PTL

-----------------------------------------------------------------------------
\* Counting, and with it type correctness.

\* What IInv leaves out: the counter, and the types of main's own variables.
Reported ==
    /\ DCE_count = N - Cardinality(present)
    /\ Out \in {"untouched", "open", "kept", "deleted"}
    /\ output \subseteq SUBSET Instr
    /\ status \in {-1, 0, 1}

LEMMA InstrFinite == IsFiniteSet(Instr) /\ Cardinality(Instr) = N
  BY IRAssumption, FS_Interval DEF Instr

LEMMA InitReported == Init => Reported
  BY InstrFinite, IRAssumption DEF Init, Reported

LEMMA StepReported == IInv /\ Reported /\ [Next]_vars => Reported'
<1>1. SUFFICES ASSUME IInv, Reported, [Next]_vars PROVE Reported'
  OBVIOUS
<1> USE <1>1
<1>2. CASE CheckArgs \/ OpenOutput \/ ReadFails \/ ReadModule \/ UNCHANGED vars
  BY <1>2 DEF CheckArgs, OpenOutput, ReadFails, ReadModule, pass, vars, Reported
<1>3. CASE Fill \/ NextFunction \/ PassDone
  BY <1>3 DEF Fill, NextFunction, PassDone, pass, Reported
<1>4. CASE Pop
  <2>1. PICK i \in worklist : EraseTop(i) \/ SkipTop(i)
    BY <1>4 DEF Pop
  <2>2. CASE EraseTop(i)
    <3>1. IsFiniteSet(present) /\ i \in present
      BY InstrFinite, FS_Subset DEF IInv, Types, WorklistLocal
    <3>2. Cardinality(present') = Cardinality(present) - 1
      BY <2>2, <3>1, FS_RemoveElement DEF EraseTop
    <3>3. Cardinality(present) \in Nat
      BY <3>1, FS_CardinalityType
    <3>4. DCE_count' = N - Cardinality(present')
      BY <2>2, <3>2, <3>3, IRAssumption DEF EraseTop, Reported
    <3>5. QED
      BY <1>4, <3>4 DEF Pop, Reported
  <2>3. CASE SkipTop(i)
    BY <1>4, <2>3 DEF Pop, SkipTop, Reported
  <2>4. QED
    BY <2>1, <2>2, <2>3
<1>5. CASE Write
  <2>1. present \in SUBSET Instr
    BY DEF IInv, Types
  <2>2. QED
    BY <1>5, <2>1 DEF Write, pass, Reported
<1>6. QED
  BY <1>2, <1>3, <1>4, <1>5 DEF Next

\* Every variable keeps its type; DCE_count never exceeds the module's size.
THEOREM TypeThm == Spec => []TypeOK
<1>1. IInv /\ Reported => TypeOK
  <2>1. SUFFICES ASSUME IInv, Reported PROVE TypeOK
    OBVIOUS
  <2>2. IsFiniteSet(present) /\ Cardinality(present) \in Nat /\ Cardinality(present) <= N
    BY <2>1, InstrFinite, FS_Subset, FS_CardinalityType DEF IInv, Types
  <2>3. DCE_count \in 0..N
    BY <2>1, <2>2, IRAssumption DEF Reported
  <2>4. QED
    BY <2>1, <2>3 DEF IInv, Types, WorklistLocal, Reported, TypeOK
<1>2. QED
  BY <1>1, InitReported, StepReported, Invariance, PTL DEF Spec

-----------------------------------------------------------------------------
\* Implementation of DeadCode.

LEMMA InitRefines == Init => DC!Init
  BY DEF Init, DC!Init, DC!Instr, Instr, phaseBar

LEMMA StepRefines == IInv /\ [Next]_vars => [DC!Next]_DC!vars
<1>1. SUFFICES ASSUME IInv, [Next]_vars PROVE [DC!Next]_DC!vars
  OBVIOUS
<1> USE <1>1
<1>2. CASE CheckArgs \/ ReadFails
  BY <1>2 DEF CheckArgs, ReadFails, pass, IInv, Phases, DC!Next, DC!Reject,
     DC!vars, DC!Instr, Instr, phaseBar
<1>3. CASE OpenOutput \/ ReadModule \/ Fill \/ NextFunction \/ Write
  BY <1>3 DEF OpenOutput, ReadModule, Fill, NextFunction, Write, pass, DC!vars,
     phaseBar
<1>4. CASE Pop
  <2>1. PICK i \in worklist :
               \/ isDead(module, present, i) /\ EraseTop(i)
               \/ ~isDead(module, present, i) /\ SkipTop(i)
    BY <1>4 DEF Pop
  <2>2. i \in present
    BY DEF IInv, Types, WorklistLocal
  <2>3. CASE EraseTop(i) /\ isDead(module, present, i)
    <3>1. DC!Erase(i)
      BY <1>4, <2>3 DEF Pop, EraseTop, DC!Erase, DC!isDead, DC!HasUse,
           DC!Removable, isDead, HasUse, Removable, phaseBar
    <3>2. QED
      BY <2>2, <3>1 DEF DC!Next
  <2>4. CASE SkipTop(i)
    BY <1>4, <2>4 DEF Pop, SkipTop, DC!vars, phaseBar
  <2>5. QED
    BY <2>1, <2>3, <2>4
<1>5. CASE PassDone
  <2>1. \A i \in present : ~isDead(module, present, i)
    BY <1>5, AllClean DEF PassDone
  <2>2. DC!Finish
    BY <1>5, <2>1 DEF PassDone, pass, DC!Finish, DC!isDead, DC!HasUse,
         DC!Removable, isDead, HasUse, Removable, phaseBar
  <2>3. QED
    BY <2>2 DEF DC!Next
<1>6. CASE UNCHANGED vars
  BY <1>6 DEF vars, DC!vars, phaseBar
<1>7. QED
  BY <1>2, <1>3, <1>4, <1>5, <1>6 DEF Next

\* The tool implements the same abstract tool as the C program.
THEOREM RefinementThm == Spec => DC!Safety
  BY InitRefines, StepRefines, Invariance, PTL DEF Spec, DC!Safety
=============================================================================
