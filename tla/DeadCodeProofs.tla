--------------------------- MODULE DeadCodeProofs ---------------------------
(***************************************************************************)
(* Facts about dead instructions that hold of every module, whatever tool  *)
(* erases them; and that DeadCode determines its result: whatever the      *)
(* order of the erasures, being done means having kept the live            *)
(* instructions.                                                           *)
(***************************************************************************)
EXTENDS IR, TLAPS

\* The live instructions justify themselves: a live instruction that may be
\* removed has a live user.
LEMMA LiveJustified ==
    ASSUME NEW m
    PROVE  Live(m) \subseteq Instr /\ Justified(m, Live(m))
  BY DEF Live, Justified

\* No set that justifies itself sticks out of Live.
LEMMA LiveLargest ==
    ASSUME NEW m, NEW S \in SUBSET Instr, Justified(m, S)
    PROVE  S \subseteq Live(m)
  BY DEF Live

\* Erasing an instruction isDead accepts loses nothing live.
LEMMA EraseKeepsLive ==
    ASSUME NEW m, NEW S, NEW i, Live(m) \subseteq S, isDead(m, S, i)
    PROVE  Live(m) \subseteq S \ {i}
<1>1. i \notin Live(m)
  <2>1. SUFFICES ASSUME i \in Live(m) PROVE FALSE
    OBVIOUS
  <2>2. PICK u \in Live(m) : i \in m.ops[u]
    BY <2>1, LiveJustified DEF Justified, isDead
  <2>3. QED
    BY <2>2 DEF isDead, HasUse
<1>2. QED
  BY <1>1

\* A set that keeps everything live and in which isDead accepts nothing is
\* the live set.
LEMMA NoneDeadIsLive ==
    ASSUME NEW m, NEW S \in SUBSET Instr, Live(m) \subseteq S,
           \A i \in S : ~isDead(m, S, i)
    PROVE  S = Live(m)
<1>1. Justified(m, S)
  BY DEF Justified, isDead, HasUse
<1>2. QED
  BY <1>1, LiveLargest

\* Erasing an instruction nothing uses leaves no use of an erased value.
LEMMA EraseKeepsOperands ==
    ASSUME NEW m, NEW S, NEW i, OperandsIn(m, S), isDead(m, S, i)
    PROVE  OperandsIn(m, S \ {i})
  BY DEF OperandsIn, isDead, HasUse

\* An erasure makes nothing dead but operands of the erased instruction.
LEMMA OnlyOperandsDie ==
    ASSUME NEW m, NEW S, NEW i, NEW j, isDead(m, S \ {i}, j)
    PROVE  isDead(m, S, j) \/ j \in m.ops[i]
  BY DEF isDead, HasUse

\* An acyclic module has no live instruction beyond the needed ones, and the
\* other way round.
THEOREM AcyclicLiveNeeded ==
    ASSUME NEW m \in Modules, Acyclic(m)
    PROVE  Live(m) = Needed(m)
<1>0. m \in ModuleType
  BY IRAssumption
<1>1. Needed(m) \subseteq Instr /\ RootsClosed(m, Needed(m))
  <2>1. Needed(m) \subseteq Instr
    BY DEF Needed
  <2>2. ASSUME NEW i \in Instr, ~Removable(m, i) PROVE i \in Needed(m)
    BY <2>2 DEF Needed, RootsClosed
  <2>3. ASSUME NEW i \in Needed(m), NEW j \in m.ops[i] PROVE j \in Needed(m)
    <3>1. i \in Instr
      BY <2>1
    <3>2. j \in Instr
      BY <1>0, <3>1 DEF ModuleType
    <3>3. QED
      BY <3>2 DEF Needed, RootsClosed
  <2>4. QED
    BY <2>1, <2>2, <2>3 DEF RootsClosed
<1>2. Justified(m, Needed(m))
  <2>1. SUFFICES ASSUME NEW i \in Needed(m), Removable(m, i),
                        \A u \in Needed(m) : i \notin m.ops[u]
                 PROVE  FALSE
    BY DEF Justified
  <2>2. RootsClosed(m, Needed(m) \ {i})
    BY <1>1, <2>1 DEF RootsClosed
  <2>3. Needed(m) \ {i} \in SUBSET Instr
    BY <1>1
  <2>4. i \in Needed(m) \ {i}
    BY <2>1, <2>2, <2>3 DEF Needed
  <2>5. QED
    BY <2>4
<1>3. Live(m) \subseteq Needed(m)
  <2> DEFINE D == Live(m) \ Needed(m)
  <2>1. SUFFICES ASSUME D # {} PROVE FALSE
    OBVIOUS
  <2>2. D \in SUBSET Instr
    BY LiveJustified
  <2>3. PICK i \in D : \A u \in D : i \notin m.ops[u]
    BY <2>1, <2>2 DEF Acyclic
  <2>4. Removable(m, i)
    BY <1>1, <2>2 DEF RootsClosed
  <2>5. PICK u \in Live(m) : i \in m.ops[u]
    BY <2>4, LiveJustified DEF Justified
  <2>6. u \in Needed(m)
    BY <2>3, <2>5
  <2>7. QED
    BY <1>1, <2>5, <2>6 DEF RootsClosed
<1>4. QED
  BY <1>1, <1>2, <1>3, LiveLargest
-----------------------------------------------------------------------------
\* DeadCode, over variables of its own: the tools that extend this module for
\* the lemmas map it to theirs.

VARIABLES prog, code, phase

Abs == INSTANCE DeadCode

\* What stays true between erasures.
AbsInv ==
    Abs!TypeOK /\ Live(prog) \subseteq code /\ (phase = "done" => code = Live(prog))

LEMMA SameAbove ==
    /\ \A m : Abs!Live(m) = Live(m)
    /\ \A m, S, i : Abs!isDead(m, S, i) <=> isDead(m, S, i)
<1>1. \A m, i : Abs!Removable(m, i) <=> Removable(m, i)
  BY DEF Abs!Removable, Removable
<1>2. \A m, S : Abs!Justified(m, S) <=> Justified(m, S)
  BY <1>1 DEF Abs!Justified, Justified
<1>3. \A m, S, i : Abs!isDead(m, S, i) <=> isDead(m, S, i)
  BY <1>1 DEF Abs!isDead, isDead, Abs!HasUse, HasUse
<1>4. \A m : Abs!Live(m) = Live(m)
  BY <1>2 DEF Abs!Live, Live, Abs!Instr, Instr
<1>5. QED
  BY <1>3, <1>4

\* However dead instructions are found, a tool that is done has kept exactly
\* the live ones.
THEOREM DoneKeepsLive == Abs!Safety => []Abs!DoneIsLive
<1>1. Abs!Init => AbsInv
  BY LiveJustified DEF Abs!Init, AbsInv, Abs!TypeOK, Abs!Instr, Instr
<1>2. AbsInv /\ [Abs!Next]_(Abs!vars) => AbsInv'
  <2>1. SUFFICES ASSUME AbsInv, [Abs!Next]_(Abs!vars) PROVE AbsInv'
    OBVIOUS
  <2>2. CASE Abs!Reject
    BY <2>1, <2>2 DEF Abs!Reject, AbsInv, Abs!TypeOK
  <2>3. ASSUME NEW i \in code, Abs!Erase(i) PROVE AbsInv'
    <3>1. isDead(prog, code, i) /\ code' = code \ {i} /\ UNCHANGED <<prog, phase>>
      BY <2>3, SameAbove DEF Abs!Erase
    <3>2. Live(prog) \subseteq code \ {i}
      BY <2>1, <3>1, EraseKeepsLive DEF AbsInv
    <3>3. phase = "running"
      BY <2>3 DEF Abs!Erase
    <3>4. QED
      BY <2>1, <3>1, <3>2, <3>3 DEF AbsInv, Abs!TypeOK
  <2>4. CASE Abs!Finish
    <3>1. \A i \in code : ~isDead(prog, code, i)
      BY <2>4, SameAbove DEF Abs!Finish
    <3>2. code = Live(prog)
      BY <2>1, <3>1, NoneDeadIsLive DEF AbsInv, Abs!TypeOK, Abs!Instr, Instr
    <3>3. QED
      BY <2>1, <2>4, <3>2 DEF Abs!Finish, AbsInv, Abs!TypeOK
  <2>5. CASE UNCHANGED Abs!vars
    BY <2>1, <2>5 DEF Abs!vars, AbsInv, Abs!TypeOK
  <2>6. QED
    BY <2>1, <2>2, <2>3, <2>4, <2>5 DEF Abs!Next
<1>3. AbsInv => Abs!DoneIsLive
  BY SameAbove DEF AbsInv, Abs!DoneIsLive
<1>4. QED
  BY <1>1, <1>2, <1>3, PTL DEF Abs!Safety
=============================================================================
