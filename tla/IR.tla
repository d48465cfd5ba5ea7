--------------------------------- MODULE IR ---------------------------------
(***************************************************************************)
(* The part of an LLVM module that dead code elimination reads: which      *)
(* instruction uses which, and whether the opcode may be removed at all.   *)
(* Shared by the two passes of Tutorials/5 (C/dce.c and C++/dce.cpp).      *)
(*                                                                         *)
(* Instructions are numbered in program order, the order of the nested     *)
(* function / basic block / instruction loops.  Basic blocks themselves    *)
(* play no part: both passes flatten them.                                 *)
(***************************************************************************)
EXTENDS Integers

CONSTANTS
    N,         \* number of instructions of the module
    NF,        \* number of functions of the module (declarations included)
    Modules    \* the modules the pass may be given, a subset of ModuleType

Instr == 1..N
Functions == 1..NF

\* "pure" stands for every opcode of the list isDead accepts at once, "other"
\* for every opcode of its default case (stores, calls, terminators, ...).
Kinds == {"pure", "load", "volatileLoad", "other"}

\* ops: the operands that are instructions (an operand used twice is inserted
\* into a std::set twice, which is once); addr: where the object lives on the
\* heap, the order of a std::set of pointers; fn: the enclosing function;
\* valid: what LLVMVerifyModule says of everything but the use lists, since
\* reading bitcode does not verify it.
ModuleType ==
    [ops : [Instr -> SUBSET Instr], kind : [Instr -> Kinds],
     addr : [Instr -> Nat], fn : [Instr -> Functions], valid : BOOLEAN]

\* Distinct objects have distinct addresses, functions follow each other in
\* program order, and an instruction uses only instructions of its function.
WellBuilt(m) ==
    /\ \A i, j \in Instr : m.addr[i] = m.addr[j] => i = j
    /\ \A i, j \in Instr : i <= j => m.fn[i] <= m.fn[j]
    /\ \A i \in Instr : \A j \in m.ops[i] : m.fn[j] = m.fn[i]

ASSUME IRAssumption ==
    /\ N \in Nat
    /\ NF \in Nat
    /\ Modules \subseteq ModuleType
    /\ \A m \in Modules : WellBuilt(m)

\* LLVMGetFirstUse(I) # NULL, when "present" are the instructions not erased.
HasUse(m, present, i) == \E u \in present : i \in m.ops[u]

\* The switch of isDead: a load is removable unless it is volatile.
Removable(m, i) == m.kind[i] \in {"pure", "load"}

\* A bug: isDead does not look at the use list.
isDead_ignoresUses(m, present, i) == Removable(m, i)

isDead(m, present, i) == ~HasUse(m, present, i) /\ Removable(m, i)

(***************************************************************************)
(* What the pass is for.  A set of instructions justifies itself when each *)
(* of its members must be kept or is used by a member.  Live(m) is the     *)
(* largest such set: everything outside it can be erased one dead          *)
(* instruction after another, nothing inside it ever can.                  *)
(***************************************************************************)
Justified(m, S) ==
    \A i \in S : Removable(m, i) => \E u \in S : i \in m.ops[u]

Live(m) == UNION {S \in SUBSET Instr : Justified(m, S)}

\* What a compiler writer would keep: the instructions that must stay and
\* whatever they need, directly or not.
RootsClosed(m, S) ==
    /\ \A i \in Instr : ~Removable(m, i) => i \in S
    /\ \A i \in S : m.ops[i] \subseteq S

Needed(m) ==
    {i \in Instr : \A S \in SUBSET Instr : RootsClosed(m, S) => i \in S}

\* No value depends on itself: every set of instructions has a member that no
\* member uses.  A loop-carried phi breaks it.
Acyclic(m) ==
    \A S \in SUBSET Instr :
        S # {} => \E i \in S : \A u \in S : i \notin m.ops[u]

\* Every operand of an instruction of S is in S: no use of an erased value.
OperandsIn(m, S) == \A i \in S : m.ops[i] \subseteq S
=============================================================================
