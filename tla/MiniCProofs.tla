------------------------------ MODULE MiniCProofs ------------------------------
(***************************************************************************)
(* Texts of every length over any names, through p2 and p2cpp: loads read  *)
(* what C means by a name, up to the one scope of a function; a program    *)
(* within C stops the tool in two places only; a finished function stays   *)
(* as it is.  A function has the parameters it was written with, each      *)
(* stored under its name, and ends in a return.                            *)
(*                                                                         *)
(* The invariant IInv is Typed, Phases (when a scope and a block are open),*)
(* Known (a scope holds what the open blocks hold, and only allocas of the *)
(* function: with one alloca of a name it cannot confuse two), Agree (the  *)
(* globals are those of C, the parameters and the value too) and Means     *)
(* (MeansC, of loads that mean something).  FInv, below, is beside it for  *)
(* the functions themselves.                                               *)
(***************************************************************************)
EXTENDS MiniC, FiniteSetTheorems, WellFoundedInduction, TLAPS

Storage == Nat \ {0}
Place == Storage \cup {NoVal}
NameMap == [Names -> Place]
BlockType == [decls : BOOLEAN, names : NameMap]
ParamType == [name : Names \cup {NoName}, type : Types]
AnyType == Types \cup {NoVal}
Inst == [op : {"alloca"}, val : Storage, name : Names, type : AnyType]
        \cup [op : {"store"}, val : Storage, arg : Int]
        \cup [op : {"load"}, val : Storage, name : Names, meant : Place]
        \cup [op : {"ret"}, how : {"implicit", "written", "value"}, type : AnyType]
FunctionType == [ret : AnyType, types : Seq(Types), insts : Seq(Inst)]

Typed ==
    /\ tool \in Tools
    /\ env \in Seq([Names -> SUBSET Storage])
    /\ globals \in NameMap /\ outside \in NameMap
    /\ params \in Seq(ParamType)
    /\ sig.ret \in AnyType
    /\ code \in Seq(FunctionType)
    /\ made \in Nat
    /\ blocks \in Seq(BlockType)
    /\ sound \in BOOLEAN

\* One scope is open from the beginning of a function to its end, and a block
\* from the time there is an LLVM function to build.
InFunction == phase \in {"storing", "body"}

Phases ==
    /\ phase \in {"top", "building", "storing", "body", "crashed"}
    /\ phase = "top" => env = << >> /\ blocks = << >>
    /\ phase = "building" => env = <<[n \in Names |-> {}]>> /\ blocks = << >>
    /\ InFunction => Len(env) = 1 /\ blocks # << >> /\ code # << >>

Allocated(insts, n, v) ==
    \E i \in DOMAIN insts : insts[i].op = "alloca" /\ insts[i].val = v /\ insts[i].name = n

\* The scope has what the blocks have, and nothing that is not in the function.
Known ==
    InFunction =>
        /\ \A j \in DOMAIN blocks : \A n \in Names :
              blocks[j].names[n] # NoVal => blocks[j].names[n] \in env[1][n]
        /\ \A n \in Names : \A v \in env[1][n] : Allocated(code[Builder].insts, n, v)

\* Within C the module has the globals that C means, and a value is no garbage.
Legible(v) == v.kind # "garbage" /\ (v.kind = "constant" => v = Constant)

Agree == sound => globals = outside /\ Legible(value) /\ InC(params)

\* What MeansC allows a load c behind the declarations js, where C has the
\* globals out.
Stands(insts, js, c, out) ==
    \/ c.val = c.meant
    \/ \E j \in js : insts[j].val = c.val /\ (js # {j} \/ c.meant = out[c.name])

\* A load that means no storage could come to mean a global declared later.
Means ==
    sound => \A k \in DOMAIN code : \A i \in DOMAIN code[k].insts :
        LET c == code[k].insts[i] IN
            c.op = "load" =>
                /\ c.meant # NoVal
                /\ Stands(code[k].insts, Declarations(code[k].insts, c.name) \cap 1..i-1, c, outside)

IInv == Typed /\ Phases /\ Known /\ Agree /\ Means

LEMMA MeansIs == ASSUME Means PROVE MeansC
  BY DEF Means, Stands, MeansC

-----------------------------------------------------------------------------
Below == {p \in Nat \X Nat : p[1] < p[2]}

LEMMA Least ==
    ASSUME NEW T \in SUBSET Nat, T # {}
    PROVE  \E x \in T : \A y \in T : x <= y
<1>1. IsWellFoundedOn(Below, Nat)
  BY NatLessThanWellFounded, Zenon DEF OpToRel, Below
<1>2. PICK x \in T : \A y \in T : <<y, x>> \notin Below
  BY <1>1, WFMin, Zenon
<1>3. \A i, j \in Nat : <<i, j>> \in Below <=> i < j
  BY DEF Below
<1>4. ASSUME NEW y \in T PROVE x <= y
  <2>1. x \in Nat /\ y \in Nat
    OBVIOUS
  <2>2. ~(y < x)
    BY <1>2, <1>3, <2>1
  <2>3. QED
    BY <2>1, <2>2
<1>5. QED
  BY <1>4

MeantIn(bs, out, n) ==
    LET in == {j \in DOMAIN bs : bs[j].names[n] # NoVal} IN
        IF in = {} THEN out[n]
        ELSE bs[CHOOSE j \in in : \A k \in in : j <= k].names[n]

\* A name stands for what one of the blocks has for it, or for the global.
LEMMA MeantCases ==
    ASSUME NEW bs \in Seq(BlockType), NEW out, NEW n \in Names
    PROVE  \/ \E j \in DOMAIN bs : bs[j].names[n] # NoVal /\ MeantIn(bs, out, n) = bs[j].names[n]
           \/ /\ \A j \in DOMAIN bs : bs[j].names[n] = NoVal
              /\ MeantIn(bs, out, n) = out[n]
<1> DEFINE in == {j \in DOMAIN bs : bs[j].names[n] # NoVal}
<1>1. CASE in = {}
  BY <1>1 DEF MeantIn
<1>2. CASE in # {}
  <2>1. in \in SUBSET Nat
    OBVIOUS
  <2>2. \E j \in in : \A k \in in : j <= k
    BY <1>2, <2>1, Least
  <2>3. PICK j \in in : j = CHOOSE m \in in : \A k \in in : m <= k
    BY <2>2
  <2>4. MeantIn(bs, out, n) = bs[j].names[n]
    BY <1>2, <2>3 DEF MeantIn
  <2>5. QED
    BY <2>4
<1>3. QED
  BY <1>1, <1>2

-----------------------------------------------------------------------------
\* Steps that leave the scopes alone and write behind what there is.

SameNames ==
    /\ blocks' \in Seq(BlockType) /\ Len(blocks') = Len(blocks)
    /\ \A j \in DOMAIN blocks : \A n \in Names : blocks'[j].names[n] = blocks[j].names[n]

\* is is what a step appends to the last function.
Appended(is) ==
    /\ code' \in Seq(FunctionType) /\ Len(code') = Len(code)
    /\ \A k \in 1..(Len(code) - 1) : code'[k] = code[k]
    /\ code # << >> => code'[Builder].insts = code[Builder].insts \o is

LEMMA EmitAppends ==
    ASSUME Typed, code # << >>, NEW is \in Seq(Inst), Emit(is)
    PROVE  Appended(is)
<1> DEFINE n == Len(code)
<1>1. /\ n \in Nat /\ n \in 1..n /\ code[n] \in FunctionType
      /\ code \in [1..n -> FunctionType] /\ DOMAIN code = 1..n
  BY DEF Typed
<1>2. code[n].insts \o is \in Seq(Inst)
  BY <1>1 DEF FunctionType
<1>3. PICK f \in FunctionType : f = [code[n] EXCEPT !.insts = @ \o is]
  BY <1>1, <1>2 DEF FunctionType
<1>4. code' = [code EXCEPT ![n] = f]
  BY <1>3 DEF Emit, Builder
<1>5. f.insts = code[n].insts \o is
  BY <1>1, <1>3 DEF FunctionType
<1>6. code' \in [1..n -> FunctionType]
  BY <1>1, <1>4, Zenon
<1>7. code' \in Seq(FunctionType) /\ Len(code') = n
  BY <1>1, <1>6
<1>8. \A k \in 1..n : code'[k] = IF k = n THEN f ELSE code[k]
  BY <1>1, <1>4, Zenon
<1>9. code'[n].insts = code[n].insts \o is
  BY <1>1, <1>5, <1>8
<1>10. \A k \in 1..(n - 1) : code'[k] = code[k]
  <2>1. n \in Nat
    BY <1>1
  <2>2. \A m \in Nat : \A k \in 1..(m - 1) : k \in 1..m /\ k # m
    OBVIOUS
  <2>3. QED
    BY <1>8, <2>1, <2>2, Zenon
<1>11. QED
  BY <1>7, <1>9, <1>10, Zenon DEF Appended, Builder

LEMMA NothingAppended == ASSUME Typed, UNCHANGED code PROVE Appended(<< >>)
<1>1. ASSUME code # << >> PROVE code[Builder].insts \o << >> = code[Builder].insts
  <2>1. code[Builder] \in FunctionType
    BY <1>1 DEF Typed, Builder
  <2>2. code[Builder].insts \in Seq(Inst)
    BY <2>1 DEF FunctionType
  <2>3. QED
    BY <2>2
<1>2. QED
  BY <1>1 DEF Typed, Appended

LEMMA InstsTyped ==
    ASSUME Typed, NEW k \in DOMAIN code PROVE code[k].insts \in Seq(Inst)
<1>1. code[k] \in FunctionType
  BY DEF Typed
<1>2. QED
  BY <1>1 DEF FunctionType

LEMMA AllocatedStays ==
    ASSUME NEW s \in Seq(Inst), NEW is \in Seq(Inst), NEW n, NEW v, Allocated(s, n, v)
    PROVE  Allocated(s \o is, n, v)
<1>1. \A i \in DOMAIN s : i \in DOMAIN (s \o is) /\ (s \o is)[i] = s[i]
  OBVIOUS
<1>2. QED
  BY <1>1 DEF Allocated

LEMMA ScopesKept ==
    ASSUME Typed, Known, NEW is \in Seq(Inst), Appended(is), SameNames, UNCHANGED env,
           InFunction' => InFunction /\ code # << >>
    PROVE  Known'
<1>1. DOMAIN blocks' = DOMAIN blocks
  BY DEF Typed, SameNames
<1>2. ASSUME InFunction'
      PROVE  \A n, v : Allocated(code[Builder].insts, n, v) => Allocated(code[Builder].insts, n, v)'
  <2>1. code[Builder].insts \in Seq(Inst)
    BY <1>2, InstsTyped DEF Typed, Builder
  <2>2. Builder' = Builder
    BY DEF Appended, Builder
  <2>3. (code[Builder].insts)' = code[Builder].insts \o is
    BY <1>2, <2>2 DEF Appended
  <2>4. ASSUME NEW n, NEW v, Allocated(code[Builder].insts, n, v)
        PROVE  Allocated((code[Builder].insts)', n, v)
    BY <2>1, <2>3, <2>4, AllocatedStays
  <2>5. QED
    BY <2>4 DEF Allocated
<1>3. QED
  BY <1>1, <1>2 DEF Known, SameNames

\* What stands among the declarations js stands among more.
LEMMA StandsAmongMore ==
    ASSUME NEW s, NEW t, NEW js, NEW ks, NEW c, NEW out, NEW later,
           Stands(s, js, c, out), js \subseteq ks, \A j \in js : t[j] = s[j],
           c.meant = out[c.name] => c.meant = later[c.name]
    PROVE  Stands(t, ks, c, later)
<1>1. CASE c.val = c.meant
  BY <1>1 DEF Stands
<1>2. CASE c.val # c.meant
  <2>1. PICK j \in js : s[j].val = c.val /\ (js # {j} \/ c.meant = out[c.name])
    BY <1>2 DEF Stands
  <2>2. j \in ks /\ t[j].val = c.val /\ (js # {j} => ks # {j})
    BY <2>1
  <2>3. QED
    BY <2>1, <2>2 DEF Stands
<1>3. QED
  BY <1>1, <1>2

\* What is appended means what C means, if its loads do.
LoadsRight(is) ==
    \A i \in DOMAIN is : is[i].op = "load" =>
        /\ is[i].meant # NoVal
        /\ Stands(code[Builder].insts, Declarations(code[Builder].insts, is[i].name), is[i], outside)

LEMMA MeansKept ==
    ASSUME Typed, Means, NEW is \in Seq(Inst), Appended(is), sound' => sound /\ LoadsRight(is),
           \A n \in Names : outside[n] # NoVal => outside'[n] = outside[n]
    PROVE  Means'
<1> SUFFICES ASSUME sound', NEW k \in DOMAIN code', NEW i \in DOMAIN code'[k].insts,
                    code'[k].insts[i].op = "load"
             PROVE  LET c == code'[k].insts[i] IN
                       /\ c.meant # NoVal
                       /\ Stands(code'[k].insts, Declarations(code'[k].insts, c.name) \cap 1..i-1,
                                 c, outside')
  BY DEF Means, Stands, Declarations
<1> DEFINE c == code'[k].insts[i]
<1>1. code \in Seq(FunctionType) /\ code' \in Seq(FunctionType) /\ Len(code') = Len(code)
  BY DEF Typed, Appended
<1>2. DOMAIN code' = 1..Len(code) /\ DOMAIN code = 1..Len(code) /\ Len(code) \in Nat /\ code # << >>
  BY <1>1
<1>3. c.name \in Names
  <2>1. code'[k].insts \in Seq(Inst)
    <3>1. code'[k] \in FunctionType
      BY <1>1
    <3>2. QED
      BY <3>1 DEF FunctionType
  <2>2. c \in Inst
    BY <2>1
  <2>3. QED
    BY <2>2 DEF Inst
<1>4. CASE k # Len(code)
  <2> DEFINE s == code[k].insts
             js == Declarations(s, c.name) \cap 1..i-1
  <2>1. code'[k] = code[k] /\ k \in DOMAIN code
    BY <1>2, <1>4 DEF Appended
  <2>2. c.meant # NoVal /\ Stands(s, js, c, outside)
    BY <2>1 DEF Means
  <2>3. c.meant = outside[c.name] => c.meant = outside'[c.name]
    BY <1>3, <2>2
  <2>4. Stands(s, js, c, outside')
    BY <2>2, <2>3, StandsAmongMore
  <2>5. QED
    BY <2>1, <2>2, <2>4
<1>5. CASE k = Len(code)
  <2> DEFINE s == code[k].insts
             t == s \o is
             js == Declarations(s, c.name)
             ks == Declarations(t, c.name) \cap 1..i-1
  <2>1. k \in DOMAIN code /\ s \in Seq(Inst)
    BY <1>2, InstsTyped
  <2>2. code'[k].insts = t
    BY <1>2, <1>5 DEF Appended, Builder
  <2>3. /\ Len(s) \in Nat /\ DOMAIN s = 1..Len(s) /\ DOMAIN t = 1..(Len(s) + Len(is))
        /\ Len(is) \in Nat /\ \A j \in 1..Len(s) : t[j] = s[j]
    BY <2>1
  <2> HIDE DEF s, t
  <2>4. i \in 1..(Len(s) + Len(is)) /\ c = t[i]
    BY <2>2, <2>3
  <2> HIDE DEF c
  <2>5. CASE i <= Len(s)
    <3>1. i \in DOMAIN s /\ \A j \in 1..i-1 : j \in 1..Len(s)
      BY <2>3, <2>4, <2>5
    <3>2. s[i] = c /\ c.op = "load"
      BY <2>2, <2>3, <2>4, <3>1
    <3>3. c.meant # NoVal /\ Stands(s, js \cap 1..i-1, c, outside)
      BY <2>1, <3>1, <3>2 DEF Means, s
    <3>4. c.meant = outside[c.name] => c.meant = outside'[c.name]
      BY <1>3, <3>3 DEF c
    <3>5. js \cap 1..i-1 \subseteq ks /\ \A j \in js \cap 1..i-1 : t[j] = s[j]
      BY <2>3, <3>1 DEF Declarations
    <3>6. Stands(t, ks, c, outside')
      BY <3>3, <3>4, <3>5, StandsAmongMore
    <3>7. QED
      BY <2>2, <3>3, <3>6 DEF c
  <2>6. CASE i > Len(s)
    <3>1. i - Len(s) \in DOMAIN is /\ is[i - Len(s)] = c /\ c.op = "load"
      BY <2>1, <2>2, <2>3, <2>4, <2>6 DEF t
    <3>2. c.meant # NoVal /\ Stands(s, js, c, outside)
      BY <1>5, <3>1 DEF LoadsRight, Builder, s
    <3>3. c.meant = outside[c.name] => c.meant = outside'[c.name]
      BY <1>3, <3>2 DEF c
    <3>4. js \subseteq ks /\ \A j \in js : t[j] = s[j]
      BY <2>3, <2>4, <2>6 DEF Declarations
    <3>5. Stands(t, ks, c, outside')
      BY <3>2, <3>3, <3>4, StandsAmongMore
    <3>6. QED
      BY <2>2, <3>2, <3>5 DEF c
  <2>7. QED
    BY <2>3, <2>4, <2>5, <2>6
<1>6. QED
  BY <1>4, <1>5

LEMMA QuietStep ==
    ASSUME IInv, NEW is \in Seq(Inst), Appended(is), SameNames,
           UNCHANGED <<tool, env, globals, outside, made>>,
           InFunction' => InFunction,
           params' \in Seq(ParamType), sig'.ret \in AnyType,
           sound' \in BOOLEAN, sound' => sound /\ LoadsRight(is)
    PROVE  Typed' /\ Known' /\ Means'
<1>1. Typed'
  BY DEF IInv, Typed, Appended, SameNames
<1>2. InFunction' => InFunction /\ code # << >>
  BY DEF IInv, Phases
<1>3. Known'
  BY <1>2, ScopesKept DEF IInv
<1>4. Means'
  BY MeansKept DEF IInv
<1>5. QED
  BY <1>1, <1>3, <1>4

-----------------------------------------------------------------------------
\* Lookups.

LEMMA FindTyped ==
    ASSUME Typed, NEW n \in Names, Tbl!Find(n)
    PROVE  found' \in Place
<1>1. CASE \E i \in 1..Len(env) : found' \in env[i][n]
  BY <1>1 DEF Typed, Place
<1>2. CASE found' = globals[n]
  BY <1>2 DEF Typed, NameMap
<1>3. QED
  BY <1>1, <1>2 DEF Tbl!Find

\* A name that C knows is found, and as what C means, if it is declared once.
LEMMA Finds ==
    ASSUME IInv, InFunction, NEW n \in Names, Tbl!Find(n), globals = outside, Meant(n) # NoVal
    PROVE  LET s == code[Builder].insts IN
               found' \in Storage /\ Stands(s, Declarations(s, n), Load(found', n, Meant(n)), outside)
<1> DEFINE s == code[Builder].insts
           js == Declarations(s, n)
           c == Load(found', n, Meant(n))
<1>1. /\ Len(env) = 1 /\ env[1] \in [Names -> SUBSET Storage]
      /\ code # << >> /\ blocks \in Seq(BlockType)
  <2>1. Len(env) = 1 /\ code # << >>
    BY Zenon DEF IInv, Phases
  <2>2. env \in Seq([Names -> SUBSET Storage]) /\ blocks \in Seq(BlockType)
    BY DEF IInv, Typed
  <2>3. QED
    BY <2>1, <2>2
<1>2. c.val = found' /\ c.name = n /\ c.meant = Meant(n)
  BY DEF Load
<1>3. Meant(n) = MeantIn(blocks, outside, n)
  BY DEF Meant, MeantIn
<1> HIDE DEF c
<1>4. CASE env[1][n] # {}
  <2>1. found' \in env[1][n]
    BY <1>1, <1>4 DEF Tbl!Find
  <2>2. \A v \in env[1][n] : \E j \in js : s[j].val = v
    BY DEF IInv, Known, Allocated, Declarations
  <2>3. \/ Meant(n) \in env[1][n]
        \/ Meant(n) = outside[n]
    <3>1. \/ \E j \in DOMAIN blocks : blocks[j].names[n] # NoVal /\ Meant(n) = blocks[j].names[n]
          \/ Meant(n) = outside[n]
      BY <1>1, <1>3, MeantCases
    <3>2. QED
      BY <3>1 DEF IInv, Known
  <2> HIDE DEF s, js
  <2>4. PICK j \in js : s[j].val = found'
    BY <2>1, <2>2
  <2>5. js # {j} \/ Meant(n) = outside[n] => Stands(s, js, c, outside)
    BY <1>2, <2>4 DEF Stands
  <2>6. ASSUME js = {j}, Meant(n) \in env[1][n] PROVE Stands(s, js, c, outside)
    <3>1. s[j].val = Meant(n)
      BY <2>2, <2>6
    <3>2. QED
      BY <1>2, <2>4, <3>1 DEF Stands
  <2>7. Stands(s, js, c, outside)
    BY <2>3, <2>5, <2>6
  <2>8. found' \in Storage
    BY <1>1, <2>1
  <2>9. QED
    BY <2>7, <2>8 DEF s, js, c
<1>5. CASE env[1][n] = {}
  <2>1. \A j \in DOMAIN blocks : blocks[j].names[n] = NoVal
    BY <1>5 DEF IInv, Known
  <2>2. Meant(n) = outside[n]
    BY <1>1, <1>3, <2>1, MeantCases
  <2>3. found' = globals[n]
    BY <1>1, <1>5 DEF Tbl!Find
  <2>4. found' = Meant(n) /\ found' \in Storage
    BY <2>2, <2>3 DEF IInv, Typed, NameMap, Place
  <2>5. QED
    BY <1>2, <2>4 DEF Stands, c
<1>6. QED
  BY <1>4, <1>5

\* What a read appends, and when it crashes.
LEMMA ReadsAppend ==
    ASSUME IInv, phase = "body", NEW n \in Names, Reads(n)
    PROVE  /\ UNCHANGED <<env, globals>>
           /\ phase' \in {phase, "crashed"}
           /\ sound /\ Meant(n) # NoVal => phase' = phase /\ found' # NoVal
           /\ \E is \in Seq(Inst) :
                 Appended(is) /\ (sound /\ Meant(n) # NoVal => LoadsRight(is))
<1>1. Tbl!Find(n) /\ UNCHANGED <<env, globals>>
  BY DEF Reads, Tbl!Find
<1>2. InFunction /\ code # << >> /\ env # << >> /\ Builder # 0
  <2>1. InFunction
    BY DEF InFunction
  <2>2. Len(env) = 1 /\ code # << >>
    BY <2>1, Zenon DEF IInv, Phases
  <2>3. env \in Seq([Names -> SUBSET Storage]) /\ code \in Seq(FunctionType)
    BY DEF IInv, Typed
  <2>4. env # << >>
    BY <2>2
  <2>5. Len(code) # 0
    BY <2>2, <2>3
  <2>6. QED
    BY <2>1, <2>2, <2>4, <2>5 DEF Builder
<1>3. Meant(n) \in Place
  <2>1. blocks \in Seq(BlockType) /\ outside[n] \in Place
    BY DEF IInv, Typed, NameMap
  <2>2. MeantIn(blocks, outside, n) \in Place
    <3>1. CASE MeantIn(blocks, outside, n) = outside[n]
      BY <2>1, <3>1
    <3>2. ASSUME NEW j \in DOMAIN blocks, MeantIn(blocks, outside, n) = blocks[j].names[n]
          PROVE  MeantIn(blocks, outside, n) \in Place
      <4>1. blocks[j] \in BlockType
        BY <2>1
      <4>2. QED
        BY <3>2, <4>1 DEF BlockType, NameMap
    <3>3. QED
      BY <2>1, <3>1, <3>2, MeantCases
  <2>3. QED
    BY <2>2 DEF Meant, MeantIn
<1>4. ASSUME sound, Meant(n) # NoVal
      PROVE  LET s == code[Builder].insts IN
                 found' \in Storage /\ Stands(s, Declarations(s, n), Load(found', n, Meant(n)), outside)
  BY <1>1, <1>2, <1>4, Finds DEF IInv, Agree
<1>5. CASE found' # NoVal
  <2> DEFINE is == <<Load(found', n, Meant(n))>>
  <2>1. Emit(is) /\ UNCHANGED phase
    BY <1>2, <1>5 DEF Reads, is_global_scope
  <2>2. is \in Seq(Inst)
    <3>1. found' \in Storage
      BY <1>1, <1>5, FindTyped DEF IInv, Place
    <3>2. Load(found', n, Meant(n)) \in Inst
      BY <1>3, <3>1 DEF Load, Inst
    <3>3. QED
      BY <3>2
  <2>3. Appended(is)
    BY <1>2, <2>1, <2>2, EmitAppends DEF IInv
  <2>4. sound /\ Meant(n) # NoVal => LoadsRight(is)
    BY <1>2, <1>4 DEF LoadsRight, Load
  <2>5. QED
    BY <1>1, <1>5, <2>1, <2>2, <2>3, <2>4
<1>6. CASE found' = NoVal
  <2>1. UNCHANGED code /\ phase' \in {phase, "crashed"}
    BY <1>6 DEF Reads, Crashes
  <2>2. ~(sound /\ Meant(n) # NoVal)
    BY <1>4, <1>6, NoValAssumption DEF Storage
  <2>3. << >> \in Seq(Inst) /\ Appended(<< >>)
    BY <2>1, NothingAppended DEF IInv
  <2>4. QED
    BY <1>1, <2>1, <2>2, <2>3
<1>7. QED
  BY <1>5, <1>6

-----------------------------------------------------------------------------
\* One lemma per action.

LEMMA InitKeeps == Init => IInv
<1> SUFFICES ASSUME Init PROVE IInv
  OBVIOUS
<1>1. env = << >> /\ globals = NoNames
  BY DEF Init, Tbl!Init, NoNames
<1>2. NoNames \in NameMap
  BY DEF NoNames, NameMap, Place
<1>3. Typed
  BY <1>1, <1>2 DEF Init, Typed, NoSig, AnyType
<1>4. Phases /\ Known
  BY <1>1 DEF Init, Phases, InFunction, Known
<1>5. Agree
  BY <1>1 DEF Init, Agree, Legible, Constant, InC, NoNames
<1>6. Means
  BY DEF Init, Means
<1>7. QED
  BY <1>3, <1>4, <1>5, <1>6 DEF IInv

LEMMA SameNamesIfUnchanged == ASSUME Typed, UNCHANGED blocks PROVE SameNames
  BY DEF Typed, SameNames

LEMMA StatementOf ==
    ASSUME Typed, blocks # << >>
    PROVE  /\ Statement(blocks) \in Seq(BlockType) /\ Len(Statement(blocks)) = Len(blocks)
           /\ \A j \in DOMAIN blocks : \A n \in Names :
                 Statement(blocks)[j].names[n] = blocks[j].names[n]
<1> DEFINE cs == Statement(blocks)
<1>1. blocks \in Seq(BlockType) /\ 1 \in DOMAIN blocks /\ blocks[1] \in BlockType
  BY DEF Typed
<1>2. PICK b \in BlockType : b = [blocks[1] EXCEPT !.decls = FALSE]
  BY <1>1 DEF BlockType
<1>3. b.names = blocks[1].names
  BY <1>1, <1>2 DEF BlockType
<1>4. cs = [blocks EXCEPT ![1] = b]
  BY <1>2 DEF Statement
<1>5. blocks \in [1..Len(blocks) -> BlockType] /\ Len(blocks) \in Nat /\ DOMAIN blocks = 1..Len(blocks)
  BY <1>1
<1>6. cs \in [1..Len(blocks) -> BlockType]
  BY <1>4, <1>5, Zenon
<1>7. cs \in Seq(BlockType) /\ Len(cs) = Len(blocks)
  BY <1>5, <1>6
<1>8. \A j \in DOMAIN blocks : cs[j] = IF j = 1 THEN b ELSE blocks[j]
  BY <1>4, Zenon
<1>9. QED
  BY <1>3, <1>7, <1>8

LEMMA StatementNames ==
    ASSUME Typed, blocks # << >>, blocks' = Statement(blocks)
    PROVE  SameNames
  BY StatementOf DEF SameNames

LEMMA LoadsRightIfNone ==
    ASSUME NEW is, \A i \in DOMAIN is : is[i].op # "load" PROVE LoadsRight(is)
  BY DEF LoadsRight

\* Statements, which need their scopes and blocks as they are.
LEMMA MentionsKeep ==
    ASSUME IInv, NEW n \in Names, Mentions(n), value' = value \/ value' = ReadValue
    PROVE  IInv'
<1>1. phase = "body" /\ Reads(n) /\ blocks' = Statement(blocks)
      /\ sound' = (sound /\ Meant(n) # NoVal)
      /\ UNCHANGED <<tool, params, sig, made, outside>>
  BY DEF Mentions
<1>2. PICK is \in Seq(Inst) : Appended(is) /\ (sound /\ Meant(n) # NoVal => LoadsRight(is))
  BY <1>1, ReadsAppend
<1>3. /\ UNCHANGED <<env, globals>> /\ phase' \in {phase, "crashed"}
      /\ sound' => phase' = phase /\ found' # NoVal
  BY <1>1, ReadsAppend
<1>4. InFunction /\ blocks # << >>
  BY <1>1, Zenon DEF IInv, Phases, InFunction
<1>5. SameNames
  BY <1>1, <1>4, StatementNames DEF IInv
<1>6. Typed' /\ Known' /\ Means'
  BY <1>1, <1>2, <1>3, <1>4, <1>5, QuietStep DEF IInv, Typed
<1>7. Phases'
  BY <1>1, <1>2, <1>3, <1>4, <1>5 DEF IInv, Phases, InFunction, SameNames, Appended, Typed
<1>8. Agree'
  <2>1. SUFFICES ASSUME sound' PROVE Agree'
    BY DEF Agree
  <2>2. sound /\ phase' = "body" /\ found' # NoVal
    BY <1>1, <1>3, <2>1
  <2>3. Legible(value')
    BY <2>2 DEF IInv, Agree, Legible, ReadValue
  <2>4. QED
    BY <1>1, <1>3, <2>2, <2>3 DEF IInv, Agree
<1>9. QED
  BY <1>6, <1>7, <1>8 DEF IInv

LEMMA InitializerKeeps == ASSUME IInv, NEW n \in Names, Initializer(n) PROVE IInv'
<1>1. /\ Reads(n) /\ sound' = (sound /\ phase = "body" /\ Meant(n) # NoVal)
      /\ UNCHANGED <<tool, params, sig, value, made, blocks, outside>>
  BY DEF Initializer
<1>2. SameNames
  BY <1>1, SameNamesIfUnchanged DEF IInv
<1>3. CASE phase = "body"
  <2>1. PICK is \in Seq(Inst) : Appended(is) /\ (sound /\ Meant(n) # NoVal => LoadsRight(is))
    BY <1>1, <1>3, ReadsAppend
  <2>2. /\ UNCHANGED <<env, globals>> /\ phase' \in {phase, "crashed"}
        /\ sound' => phase' = phase
    BY <1>1, <1>3, ReadsAppend
  <2>3. Typed' /\ Known' /\ Means'
    BY <1>1, <1>2, <1>3, <2>1, <2>2, QuietStep DEF IInv, Typed, InFunction
  <2>4. Phases'
    BY <1>1, <1>3, <2>1, <2>2 DEF IInv, Phases, InFunction, Appended, Typed
  <2>5. Agree'
    BY <1>1, <2>2 DEF IInv, Agree
  <2>6. QED
    BY <2>3, <2>4, <2>5 DEF IInv
<1>4. CASE phase = "top"
  <2>1. /\ UNCHANGED <<env, globals>> /\ phase' \in {"top", "crashed"} /\ ~sound'
    BY <1>1, <1>4 DEF Reads, Tbl!Find, Crashes
  <2>2. env = << >> /\ blocks = << >>
    BY <1>4 DEF IInv, Phases
  <2>3. Appended(<<Load(found', n, found')>>) \/ Appended(<< >>)
    <3>1. CASE UNCHANGED code
      BY <3>1, NothingAppended DEF IInv
    <3>2. CASE ~UNCHANGED code
      <4>1. found' # NoVal /\ code # << >> /\ Emit(<<Load(found', n, found')>>)
        BY <1>1, <2>2, <3>2 DEF Reads, Builder, is_global_scope
      <4>2. found' \in Storage
        BY <1>1, <4>1, FindTyped DEF Reads, IInv, Place
      <4>3. Load(found', n, found') \in Inst
        BY <4>2 DEF Load, Inst, Place
      <4>4. <<Load(found', n, found')>> \in Seq(Inst)
        BY <4>3
      <4>5. QED
        BY <4>1, <4>4, EmitAppends DEF IInv
    <3>3. QED
      BY <3>1, <3>2
  <2>4. code' \in Seq(FunctionType)
    BY <2>3 DEF Appended
  <2>5. Typed'
    BY <1>1, <2>1, <2>4 DEF IInv, Typed
  <2>6. Phases' /\ Known' /\ Agree' /\ Means'
    BY <1>1, <2>1, <2>2 DEF IInv, Phases, Known, InFunction, Agree, Means
  <2>7. QED
    BY <2>5, <2>6 DEF IInv
<1>5. QED
  BY <1>3, <1>4 DEF Initializer, Declaring, AtTop

\* A statement that builds at most a return.
LEMMA StatementKeeps ==
    ASSUME IInv, phase = "body", NEW is \in Seq(Inst), Appended(is),
           \A i \in DOMAIN is : is[i].op # "load",
           blocks' = Statement(blocks), phase' \in {"body", "crashed"},
           sound' \in BOOLEAN, sound' => sound /\ Legible(value'),
           UNCHANGED <<tool, env, globals, params, sig, made, outside>>
    PROVE  IInv'
<1>1. InFunction /\ blocks # << >>
  BY Zenon DEF IInv, Phases, InFunction
<1>2. SameNames
  BY <1>1, StatementNames DEF IInv
<1>3. Typed' /\ Known' /\ Means'
  BY <1>1, <1>2, LoadsRightIfNone, QuietStep DEF IInv, Typed
<1>4. Phases'
  BY <1>1, <1>2 DEF IInv, Phases, InFunction, SameNames, Appended, Typed
<1>5. Agree'
  BY DEF IInv, Agree
<1>6. QED
  BY <1>3, <1>4, <1>5 DEF IInv

LEMMA LiteralKeeps == ASSUME IInv, Literal PROVE IInv'
<1>1. Appended(<< >>)
  BY NothingAppended DEF IInv, Literal
<1>2. << >> \in Seq(Inst) /\ \A i \in DOMAIN << >> : << >>[i].op # "load"
  OBVIOUS
<1>3. QED
  BY <1>1, <1>2, StatementKeeps DEF Literal, Legible, table, Constant, IInv, Typed

LEMMA AssignKeeps == ASSUME IInv, NEW n \in Names, Assign(n) PROVE IInv'
<1>1. Appended(<< >>)
  BY NothingAppended DEF IInv, Assign
<1>2. << >> \in Seq(Inst) /\ \A i \in DOMAIN << >> : << >>[i].op # "load"
  OBVIOUS
<1>3. phase = "body" /\ InFunction
  BY DEF Assign, InFunction
<1>4. Tbl!Find(n) /\ UNCHANGED <<env, globals>>
  BY DEF Assign, Tbl!Find
<1>5. ASSUME sound' PROVE sound /\ Legible(value')
  <2>1. sound /\ Meant(n) # NoVal
    BY <1>5 DEF Assign
  <2>2. found' \in Storage
    BY <1>3, <1>4, <2>1, Finds DEF IInv, Agree
  <2>3. found' # NoVal
    BY <2>2, NoValAssumption DEF Storage
  <2>4. QED
    BY <2>1, <2>3 DEF Assign, Legible
<1>6. QED
  BY <1>1, <1>2, <1>3, <1>4, <1>5, StatementKeeps DEF Assign, IInv, Typed

\* A single return is appended.
LEMMA ReturnAppends ==
    ASSUME IInv, phase = "body", NEW h \in {"implicit", "written", "value"}, NEW t \in AnyType,
           Emit(<<Ret(h, t)>>)
    PROVE  /\ <<Ret(h, t)>> \in Seq(Inst) /\ Appended(<<Ret(h, t)>>)
           /\ \A i \in DOMAIN <<Ret(h, t)>> : <<Ret(h, t)>>[i].op # "load"
<1>1. Ret(h, t) \in Inst /\ Ret(h, t).op # "load"
  BY DEF Ret, Inst
<1>2. <<Ret(h, t)>> \in Seq(Inst)
  BY <1>1
<1>3. code # << >>
  BY Zenon DEF IInv, Phases, InFunction
<1>4. Appended(<<Ret(h, t)>>)
  BY <1>2, <1>3, EmitAppends DEF IInv
<1>5. QED
  BY <1>1, <1>2, <1>4

LEMMA MarkTypes == Void \in AnyType /\ Int32 \in AnyType /\ NoVal \in AnyType
  BY DEF Void, Int32, AnyType, Types

LEMMA ReturnKeeps == ASSUME IInv, Return PROVE IInv'
<1> DEFINE is == <<Ret("written", Void)>>
<1>1. phase = "body" /\ Emit(is)
  BY DEF Return
<1>2. is \in Seq(Inst) /\ Appended(is) /\ \A i \in DOMAIN is : is[i].op # "load"
  BY <1>1, MarkTypes, ReturnAppends
<1> HIDE DEF is
<1>3. QED
  BY <1>1, <1>2, StatementKeeps DEF Return, table, Legible, Constant, IInv, Typed

LEMMA ReturnExprKeeps == ASSUME IInv, ReturnExpr PROVE IInv'
<1>1. /\ phase = "body" /\ blocks' = Statement(blocks) /\ value' = Constant
      /\ UNCHANGED <<tool, env, globals, params, sig, made, outside, sound>>
  BY DEF ReturnExpr, table
<1>2. phase' \in {"body", "crashed"}
  BY <1>1 DEF ReturnExpr, Crashes
<1>3. \E is \in Seq(Inst) : Appended(is) /\ \A i \in DOMAIN is : is[i].op # "load"
  <2>1. CASE UNCHANGED code
    <3>1. Appended(<< >>)
      BY <2>1, NothingAppended DEF IInv
    <3>2. << >> \in Seq(Inst) /\ \A i \in DOMAIN << >> : << >>[i].op # "load"
      OBVIOUS
    <3>3. QED
      BY <3>1, <3>2
  <2>2. ASSUME NEW h \in {"implicit", "written", "value"}, NEW t \in AnyType, Emit(<<Ret(h, t)>>)
        PROVE  \E is \in Seq(Inst) : Appended(is) /\ \A i \in DOMAIN is : is[i].op # "load"
    BY <1>1, <2>2, ReturnAppends
  <2>3. QED
    BY <2>1, <2>2, MarkTypes DEF ReturnExpr
<1>4. QED
  BY <1>1, <1>2, <1>3, StatementKeeps DEF Legible, Constant, IInv, Typed

\* Steps outside of a function body.
LEMMA MeansStays ==
    ASSUME Typed, Means, UNCHANGED <<code, outside>>, sound' => sound PROVE Means'
<1>1. Appended(<< >>)
  BY NothingAppended
<1>2. << >> \in Seq(Inst) /\ LoadsRight(<< >>)
  BY DEF LoadsRight
<1>3. QED
  BY <1>1, <1>2, MeansKept

LEMMA ParamKeeps ==
    ASSUME IInv, NEW n \in Names \cup {NoName}, NEW t \in ParamTypes[tool], Param(n, t) PROVE IInv'
<1>1. /\ phase = "top" /\ params' = push_param(params, n, t)
      /\ sound' = (sound /\ InC(params'))
      /\ UNCHANGED <<tool, env, globals, phase, sig, code, value, made, blocks, outside>>
  BY DEF Param, table
<1>2. t \in Types
  BY MiniCAssumption DEF IInv, Typed
<1>3. [name |-> n, type |-> t] \in ParamType
  BY <1>2 DEF ParamType
<1>4. params' \in Seq(ParamType)
  BY <1>1, <1>3 DEF push_param, IInv, Typed
<1>5. Typed'
  BY <1>1, <1>4 DEF IInv, Typed
<1>6. Phases' /\ Known'
  BY <1>1 DEF IInv, Phases, Known, InFunction
<1>7. Means'
  BY <1>1, MeansStays DEF IInv
<1>8. Agree'
  BY <1>1 DEF IInv, Agree
<1>9. QED
  BY <1>5, <1>6, <1>7, <1>8 DEF IInv

LEMMA PushScopeKeeps ==
    ASSUME IInv, NEW f \in Names, NEW t \in RetTypes[tool], PushScope(f, t) PROVE IInv'
<1>1. /\ phase = "top" /\ phase' = "building" /\ sig' = [name |-> f, ret |-> t]
      /\ env' = <<[n \in Names |-> {}]>> \o env
      /\ UNCHANGED <<tool, globals, params, code, value, made, blocks, outside, sound>>
  BY DEF PushScope, Tbl!Push, Tbl!NoNames
<1>2. env = << >> /\ blocks = << >>
  BY <1>1 DEF IInv, Phases
<1>3. env' = <<[n \in Names |-> {}]>>
  BY <1>1, <1>2
<1>4. t \in AnyType
  BY MiniCAssumption DEF IInv, Typed, AnyType
<1>5. [n \in Names |-> {}] \in [Names -> SUBSET Storage]
  OBVIOUS
<1>6. Typed'
  BY <1>1, <1>3, <1>4, <1>5 DEF IInv, Typed
<1>7. Phases' /\ Known' /\ Agree' /\ Means'
  BY <1>1, <1>2, <1>3 DEF IInv, Phases, Known, InFunction, Agree, Means
<1>8. QED
  BY <1>6, <1>7 DEF IInv

LEMMA DeclareGlobalKeeps == ASSUME IInv, NEW n \in Names, DeclareGlobal(n) PROVE IInv'
<1>1. /\ phase = "top" /\ made' = made + 1 /\ value' = Constant
      /\ globals' = [globals EXCEPT ![n] = IF Tbl!Taken(n) THEN @ ELSE made + 1]
      /\ outside' = [outside EXCEPT ![n] = IF @ = NoVal THEN made + 1 ELSE @]
      /\ sound' = (sound /\ n \notin functions)
      /\ UNCHANGED <<tool, env, phase, params, sig, code, blocks>>
  BY DEF DeclareGlobal, AtTop, Tbl!DeclareGlobal
<1>2. made + 1 \in Storage
  BY DEF IInv, Typed, Storage
<1>3. globals' \in NameMap /\ outside' \in NameMap
  BY <1>1, <1>2 DEF IInv, Typed, NameMap, Place
<1>4. Typed'
  BY <1>1, <1>2, <1>3 DEF IInv, Typed, Storage
<1>5. Phases' /\ Known'
  BY <1>1 DEF IInv, Phases, Known, InFunction
<1>6. Means'
  <2>1. Appended(<< >>) /\ << >> \in Seq(Inst) /\ LoadsRight(<< >>)
    BY <1>1, NothingAppended DEF IInv, LoadsRight
  <2>2. \A m \in Names : outside[m] # NoVal => outside'[m] = outside[m]
    BY <1>1 DEF IInv, Typed, NameMap
  <2>3. QED
    BY <1>1, <2>1, <2>2, MeansKept DEF IInv
<1>7. sound' => globals' = outside'
  BY <1>1 DEF IInv, Agree, Tbl!Taken
<1>8. Agree'
  BY <1>1, <1>7 DEF IInv, Agree, Legible, Constant
<1>9. QED
  BY <1>4, <1>5, <1>6, <1>8 DEF IInv

-----------------------------------------------------------------------------
\* A declaration inside a function: the scope, the block and the code get it.

LEMMA AllocatedIsNew ==
    ASSUME NEW s \in Seq(Inst), NEW is \in Seq(Inst), NEW n, NEW v, Allocated(is, n, v)
    PROVE  Allocated(s \o is, n, v)
<1>1. PICK i \in DOMAIN is : is[i].op = "alloca" /\ is[i].val = v /\ is[i].name = n
  BY DEF Allocated
<1>2. Len(s) + i \in DOMAIN (s \o is) /\ (s \o is)[Len(s) + i] = is[i]
  OBVIOUS
<1>3. QED
  BY <1>1, <1>2 DEF Allocated

LEMMA Opened ==
    ASSUME Typed, blocks # << >>, NEW n \in Names, NEW v \in Place,
           blocks' = [blocks EXCEPT ![1].names[n] = v]
    PROVE  /\ blocks' \in Seq(BlockType) /\ Len(blocks') = Len(blocks)
           /\ DOMAIN blocks' = DOMAIN blocks /\ 1 \in DOMAIN blocks
           /\ \A j \in DOMAIN blocks : \A m \in Names :
                 blocks'[j].names[m] = IF j = 1 /\ m = n THEN v ELSE blocks[j].names[m]
<1>1. /\ blocks \in [1..Len(blocks) -> BlockType] /\ Len(blocks) \in Nat
      /\ DOMAIN blocks = 1..Len(blocks) /\ 1 \in DOMAIN blocks /\ blocks[1] \in BlockType
  BY DEF Typed
<1>2. PICK b \in BlockType : b = [blocks[1] EXCEPT !.names[n] = v]
  BY <1>1 DEF BlockType, NameMap
<1>3. \A m \in Names : b.names[m] = IF m = n THEN v ELSE blocks[1].names[m]
  BY <1>1, <1>2 DEF BlockType, NameMap
<1>4. blocks' = [blocks EXCEPT ![1] = b]
  BY <1>2
<1>5. blocks' \in [1..Len(blocks) -> BlockType]
  BY <1>1, <1>4, Zenon
<1>6. blocks' \in Seq(BlockType) /\ Len(blocks') = Len(blocks)
  BY <1>1, <1>5
<1>7. \A j \in DOMAIN blocks : blocks'[j] = IF j = 1 THEN b ELSE blocks[j]
  BY <1>4, Zenon
<1>8. QED
  BY <1>1, <1>3, <1>6, <1>7

LEMMA OneScope ==
    ASSUME NEW T, NEW s \in Seq(T), Len(s) = 1
    PROVE  s \in [1..1 -> T] /\ s[1] \in T
  OBVIOUS

LEMMA IsSequence ==
    ASSUME NEW T, NEW n \in Nat, NEW s \in [1..n -> T]
    PROVE  s \in Seq(T) /\ Len(s) = n
  OBVIOUS

LEMMA Declared ==
    ASSUME IInv, InFunction, NEW n \in Names, Tbl!Declare(n, made + 1), Opens(n, made + 1),
           NEW is \in Seq(Inst), Appended(is), Allocated(is, n, made + 1),
           \A i \in DOMAIN is : is[i].op # "load",
           made' = made + 1, UNCHANGED <<tool, outside, params, sig>>,
           InFunction', sound' \in BOOLEAN, sound' => sound
    PROVE  Typed' /\ Known' /\ Means' /\ Len(env') = 1 /\ blocks' # << >>
<1> DEFINE v == made + 1
<1>1. v \in Storage /\ v # NoVal /\ made' \in Nat
  BY NoValAssumption DEF IInv, Typed, Storage
<1>2. Len(env) = 1 /\ blocks # << >> /\ code # << >> /\ UNCHANGED globals
  BY Zenon DEF IInv, Phases, Tbl!Declare
<1>3. env[1] \in [Names -> SUBSET Storage] /\ env \in Seq([Names -> SUBSET Storage])
  <2>1. env \in Seq([Names -> SUBSET Storage])
    BY DEF IInv, Typed
  <2>2. QED
    BY <1>2, <2>1, OneScope, Zenon
<1>4. PICK e \in [Names -> SUBSET Storage] : e = [env[1] EXCEPT ![n] = @ \cup {v}]
  BY <1>1, <1>3
<1>5. env' = [env EXCEPT ![1] = e]
  BY <1>4 DEF Tbl!Declare
<1>6. env' \in Seq([Names -> SUBSET Storage]) /\ Len(env') = 1 /\ env'[1] = e
  <2>1. env \in [1..1 -> [Names -> SUBSET Storage]] /\ 1 \in 1..1
    BY <1>2, <1>3, OneScope
  <2>2. env' \in [1..1 -> [Names -> SUBSET Storage]] /\ env'[1] = e
    BY <1>4, <1>5, <2>1, Zenon
  <2>3. QED
    BY <2>2, 1 \in Nat, IsSequence, Zenon
<1>7. \A m \in Names : e[m] = IF m = n THEN env[1][n] \cup {v} ELSE env[1][m]
  BY <1>3, <1>4
<1>8. /\ blocks' \in Seq(BlockType) /\ Len(blocks') = Len(blocks)
      /\ DOMAIN blocks' = DOMAIN blocks /\ 1 \in DOMAIN blocks
      /\ \A j \in DOMAIN blocks : \A m \in Names :
            blocks'[j].names[m] = IF j = 1 /\ m = n THEN v ELSE blocks[j].names[m]
  <2>1. Typed /\ v \in Place /\ blocks' = [blocks EXCEPT ![1].names[n] = v]
    BY <1>1, Zenon DEF Opens, IInv, Place
  <2> HIDE DEF v
  <2>2. blocks # << >>
    BY <1>2
  <2>3. QED
    BY <2>1, <2>2, Opened, ZenonT(60)
<1>9. Typed'
  BY <1>1, <1>2, <1>6, <1>8 DEF IInv, Typed, Appended
<1>10. blocks \in Seq(BlockType) /\ code \in Seq(FunctionType)
  BY DEF IInv, Typed
<1>11. \A m \in Names : \A w : \/ Allocated(code[Builder].insts, m, w)
                               \/ m = n /\ w = v
                               => Allocated(code[Builder].insts, m, w)'
  <2> DEFINE s == code[Builder].insts
  <2>1. s \in Seq(Inst)
    BY <1>2, <1>10, InstsTyped DEF IInv, Builder
  <2>2. s' = s \o is
    BY <1>2 DEF Appended, Builder
  <2>3. ASSUME NEW m \in Names, NEW w, Allocated(s, m, w) \/ (m = n /\ w = v)
        PROVE  Allocated(s', m, w)
    BY <2>1, <2>2, <2>3, AllocatedStays, AllocatedIsNew
  <2>4. QED
    BY <2>3 DEF Allocated
<1>12. Known'
  <2>1. \A j \in DOMAIN blocks : \A m \in Names :
            blocks[j].names[m] # NoVal => blocks[j].names[m] \in env[1][m]
    BY DEF IInv, Known
  <2>2. \A m \in Names : \A w \in env[1][m] : Allocated(code[Builder].insts, m, w)
    BY DEF IInv, Known
  <2>3. \A j \in DOMAIN blocks' : \A m \in Names :
            blocks'[j].names[m] # NoVal => blocks'[j].names[m] \in env'[1][m]
    BY <2>1, <1>6, <1>7, <1>8
  <2>4. \A m \in Names : \A w \in env'[1][m] : Allocated(code[Builder].insts, m, w)'
    BY <2>2, <1>6, <1>7, <1>11
  <2>5. QED
    BY <2>3, <2>4 DEF Known
<1>13. Means'
  BY LoadsRightIfNone, MeansKept DEF IInv
<1>14. blocks' # << >>
  BY <1>2, <1>8, <1>10
<1>15. QED
  BY <1>6, <1>9, <1>12, <1>13, <1>14

LEMMA DeclareLocalKeeps == ASSUME IInv, NEW n \in Names, DeclareLocal(n) PROVE IInv'
<1> DEFINE is == <<Alloca(made + 1, n, NoVal)>>
<1>1. phase = "body" /\ InFunction /\ blocks # << >> /\ code # << >>
  <2>1. phase = "body"
    BY DEF DeclareLocal, Declaring, AtTop, is_global_scope, IInv, Phases
  <2>2. QED
    BY <2>1, Zenon DEF IInv, Phases, InFunction
<1>2. /\ Tbl!Declare(n, made + 1) /\ made' = made + 1 /\ Emit(is) /\ Opens(n, made + 1)
      /\ (sound' = (sound /\ n \notin init)) /\ value' = Constant
      /\ UNCHANGED <<tool, phase, params, sig, outside>>
  BY <1>1 DEF DeclareLocal
<1>3. Alloca(made + 1, n, NoVal) \in Inst
  BY MarkTypes DEF Alloca, Inst, IInv, Typed, Storage
<1>4. is \in Seq(Inst)
  BY <1>3
<1>5. Appended(is)
  BY <1>1, <1>2, <1>4, EmitAppends DEF IInv
<1>6. Allocated(is, n, made + 1) /\ \A i \in DOMAIN is : is[i].op # "load"
  BY DEF Allocated, Alloca
<1> HIDE DEF is
<1>7. InFunction' /\ sound' \in BOOLEAN /\ (sound' => sound)
  BY <1>1, <1>2 DEF InFunction, IInv, Typed
<1>8. Typed' /\ Known' /\ Means' /\ Len(env') = 1 /\ blocks' # << >>
  BY <1>1, <1>2, <1>4, <1>5, <1>6, <1>7, Declared
<1>9. Phases'
  BY <1>1, <1>2, <1>5, <1>8 DEF Phases, Appended, Typed, IInv
<1>10. UNCHANGED globals
  BY <1>2 DEF Tbl!Declare
<1>11. Agree'
  BY <1>2, <1>10 DEF IInv, Agree, Legible, Constant
<1>12. QED
  BY <1>8, <1>9, <1>11 DEF IInv

LEMMA StoredIsNat == ASSUME Typed, code # << >> PROVE Stored \in Nat
<1> DEFINE s == code[Builder].insts
<1>1. s \in Seq(Inst)
  BY InstsTyped DEF Typed, Builder
<1>2. IsFiniteSet(1..Len(s)) /\ DOMAIN s = 1..Len(s)
  BY <1>1, FS_Interval
<1>3. IsFiniteSet({i \in DOMAIN s : s[i].op = "store"})
  BY <1>2, FS_Subset
<1>4. QED
  BY <1>3, FS_CardinalityType DEF Stored

LEMMA StoreParamKeeps == ASSUME IInv, StoreParam PROVE IInv'
<1> DEFINE i == IF tool = "p2" THEN Len(params) - Stored ELSE Stored + 1
           p == Node(i)
           is == <<Alloca(made + 1, p.name, p.type), Store(made + 1, Argument(i))>>
<1>1. /\ phase = "storing" /\ Stored < Len(params)
      /\ UNCHANGED <<tool, params, sig, value, outside, sound>>
  BY DEF StoreParam
<1>2. InFunction /\ blocks # << >> /\ code # << >> /\ Len(env) = 1
  BY <1>1, Zenon DEF IInv, Phases, InFunction
<1>3. i \in 1..Len(params)
  <2>1. Stored \in Nat /\ Len(params) \in Nat
    BY <1>2, StoredIsNat DEF IInv, Typed
  <2>2. QED
    BY <1>1, <2>1
<1>4. p \in ParamType /\ \E j \in DOMAIN params : p = params[j]
  <2>1. params \in Seq(ParamType)
    BY DEF IInv, Typed
  <2>2. Len(params) + 1 - i \in DOMAIN params
    BY <1>3, <2>1
  <2>3. QED
    BY <2>1, <2>2 DEF Node
<1>5. CASE p.name = NoName
  <2>1. phase' = "crashed" /\ UNCHANGED <<env, globals, code, made, blocks>>
    BY <1>5 DEF StoreParam, Crashes, table
  <2>2. Means'
    BY <1>1, <2>1, MeansStays DEF IInv
  <2>3. Typed' /\ Phases' /\ Known' /\ Agree'
    BY <1>1, <2>1 DEF IInv, Typed, Phases, Known, InFunction, Agree
  <2>4. QED
    BY <2>2, <2>3 DEF IInv
<1>6. CASE p.name # NoName
  <2>1. /\ Tbl!Declare(p.name, made + 1) /\ made' = made + 1 /\ Emit(is)
        /\ Opens(p.name, made + 1) /\ UNCHANGED phase
    BY <1>6 DEF StoreParam
  <2>2. p.name \in Names /\ p.type \in AnyType /\ Argument(i) \in Int
    BY <1>3, <1>4, <1>6 DEF ParamType, AnyType, Argument
  <2>3. made + 1 \in Storage
    BY DEF IInv, Typed, Storage
  <2> HIDE DEF i, p
  <2>4. Alloca(made + 1, p.name, p.type) \in Inst /\ Store(made + 1, Argument(i)) \in Inst
    BY <2>2, <2>3 DEF Alloca, Store, Inst
  <2>5. is \in Seq(Inst)
    BY <2>4
  <2>6. Appended(is)
    BY <1>2, <2>1, <2>5, EmitAppends DEF IInv
  <2>7. Allocated(is, p.name, made + 1) /\ \A k \in DOMAIN is : is[k].op # "load"
    BY DEF Allocated, Alloca, Store
  <2> HIDE DEF is
  <2>8. InFunction' /\ sound' \in BOOLEAN /\ (sound' => sound)
    BY <1>1, <1>2, <2>1 DEF InFunction, IInv, Typed
  <2>9. Typed' /\ Known' /\ Means' /\ Len(env') = 1 /\ blocks' # << >>
    BY <1>1, <1>2, <2>1, <2>2, <2>5, <2>6, <2>7, <2>8, Declared
  <2>10. Phases'
    BY <1>1, <1>2, <2>1, <2>6, <2>9 DEF Phases, Appended, Typed, IInv
  <2>11. UNCHANGED globals
    BY <2>1 DEF Tbl!Declare
  <2>12. Agree'
    BY <1>1, <2>1, <2>11 DEF IInv, Agree
  <2>13. QED
    BY <2>9, <2>10, <2>12 DEF IInv
<1>7. QED
  BY <1>5, <1>6

LEMMA BodyBeginsKeeps == ASSUME IInv, BodyBegins PROVE IInv'
<1>1. /\ phase = "storing" /\ phase' = "body" /\ params' = << >>
      /\ UNCHANGED <<tool, env, globals, sig, code, value, made, blocks, outside, sound>>
  BY DEF BodyBegins, table, ghosts
<1>2. Typed'
  BY <1>1 DEF IInv, Typed
<1>3. Phases' /\ Agree'
  <2>1. InC(params')
    BY <1>1 DEF InC
  <2>2. QED
    BY <1>1, <2>1 DEF IInv, Phases, InFunction, Agree
<1>4. Known'
  <2>1. Appended(<< >>) /\ SameNames /\ << >> \in Seq(Inst)
    BY <1>1, NothingAppended, SameNamesIfUnchanged DEF IInv
  <2>2. InFunction /\ code # << >>
    BY <1>1, Zenon DEF IInv, Phases, InFunction
  <2>3. QED
    BY <1>1, <2>1, <2>2, ScopesKept DEF IInv
<1>5. Means'
  BY <1>1, MeansStays DEF IInv
<1>6. QED
  BY <1>2, <1>3, <1>4, <1>5 DEF IInv

LEMMA AddFunctionKeeps == ASSUME IInv, AddFunction PROVE IInv'
<1> DEFINE f == [ret |-> sig.ret, types |-> ParamArray(params), insts |-> << >>]
           b == [decls |-> TRUE, names |-> NoNames]
<1>1. /\ phase = "building" /\ phase' = "storing" /\ code' = Append(code, f)
      /\ blocks' = <<b>> /\ sound' = (sound /\ ~Tbl!Taken(sig.name))
      /\ UNCHANGED <<tool, env, globals, params, sig, value, made, outside>>
  BY DEF AddFunction, Tbl!DefineFunction
<1>2. env = <<[n \in Names |-> {}]>>
  BY <1>1 DEF IInv, Phases
<1>3. b \in BlockType /\ \A n \in Names : b.names[n] = NoVal
  BY DEF BlockType, NameMap, NoNames, Place
<1>4. f \in FunctionType /\ f.insts = << >>
  <2>1. params \in Seq(ParamType) /\ sig.ret \in AnyType
    BY DEF IInv, Typed
  <2>2. ParamArray(params) \in [1..Len(params) -> Types]
    <3>1. \A i \in 1..Len(params) : Len(params) + 1 - i \in DOMAIN params
      BY <2>1
    <3>2. \A i \in 1..Len(params) : params[Len(params) + 1 - i].type \in Types
      <4>1. \A q \in ParamType : q.type \in Types
        BY DEF ParamType
      <4>2. \A k \in DOMAIN params : params[k] \in ParamType
        BY <2>1
      <4>3. QED
        BY <3>1, <4>1, <4>2
    <3>3. DOMAIN params = 1..Len(params)
      BY <2>1
    <3>4. QED
      BY <3>2, <3>3 DEF ParamArray
  <2>3. ParamArray(params) \in Seq(Types)
    BY <2>1, <2>2, IsSequence
  <2> HIDE DEF ParamArray
  <2>4. QED
    BY <2>1, <2>3 DEF FunctionType
<1> HIDE DEF f, b
<1>5. code \in Seq(FunctionType)
  BY DEF IInv, Typed
<1>6. code' \in Seq(FunctionType) /\ Len(code') = Len(code) + 1 /\ Len(code) \in Nat
  BY <1>1, <1>4, <1>5
<1>7. \A k \in DOMAIN code' : IF k \in DOMAIN code THEN code'[k] = code[k] ELSE code'[k] = f
  BY <1>1, <1>4, <1>5
<1>8. Len(blocks') = 1 /\ DOMAIN blocks' = {1} /\ blocks'[1] = b /\ blocks' \in Seq(BlockType)
  BY <1>1, <1>3
<1>9. Typed'
  BY <1>1, <1>6, <1>8 DEF IInv, Typed
<1>10. Phases'
  <2>1. code' # << >> /\ blocks' # << >>
    <3>1. code' # << >>
      BY <1>6
    <3>2. blocks' # << >>
      BY <1>1
    <3>3. QED
      BY <3>1, <3>2
  <2>2. Len(env') = 1
    BY <1>1, <1>2
  <2>3. QED
    BY <1>1, <2>1, <2>2 DEF Phases
<1>11. (\A n \in Names : env'[1][n] = {})
       /\ (\A j \in DOMAIN blocks' : \A n \in Names : blocks'[j].names[n] = NoVal)
  BY <1>1, <1>2, <1>3, <1>8
<1>12. Known'
  BY <1>11 DEF Known
<1>13. Agree'
  BY <1>1 DEF IInv, Agree
<1>14. Means'
  <2>1. Means /\ (sound' => sound) /\ UNCHANGED outside
    BY <1>1 DEF IInv
  <2>2. ASSUME NEW k \in DOMAIN code', NEW i \in DOMAIN code'[k].insts
        PROVE  k \in DOMAIN code /\ code'[k] = code[k]
    BY <1>4, <1>7, <2>2
  <2>3. QED
    BY <2>1, <2>2 DEF Means
<1>15. QED
  BY <1>9, <1>10, <1>12, <1>13, <1>14 DEF IInv

LEMMA EndFunctionKeeps == ASSUME IInv, EndFunction PROVE IInv'
<1> DEFINE is == IF EndsInRet(code[Builder].insts) THEN << >> ELSE Implicit(sig.ret)
<1>1. /\ phase = "body" /\ phase' = "top" /\ Emit(is) /\ env' = Tail(env)
      /\ blocks' = << >> /\ sig' = NoSig /\ value' = Constant
      /\ UNCHANGED <<tool, globals, params, made, outside, sound>>
  BY DEF EndFunction, Pop, Tbl!Pop
<1>2. code # << >> /\ Len(env) = 1 /\ env \in Seq([Names -> SUBSET Storage])
  <2>1. code # << >> /\ Len(env) = 1
    BY <1>1, Zenon DEF IInv, Phases, InFunction
  <2>2. QED
    BY <2>1 DEF IInv, Typed
<1>3. is \in Seq(Inst) /\ \A i \in DOMAIN is : is[i].op # "load"
  <2>1. \A t \in AnyType : Ret("implicit", t) \in Inst /\ Ret("implicit", t).op # "load"
    BY DEF Ret, Inst
  <2>2. sig.ret \in AnyType /\ Int32 \in AnyType /\ tool \in Tools
    BY MarkTypes DEF IInv, Typed
  <2>3. is = << >> \/ is = <<Ret("implicit", sig.ret)>> \/ is = <<Ret("implicit", Int32)>>
    BY <2>2 DEF Implicit, Tools
  <2> HIDE DEF is
  <2>4. ASSUME NEW r \in Inst, r.op # "load", is = <<r>>
        PROVE  is \in Seq(Inst) /\ \A i \in DOMAIN is : is[i].op # "load"
    BY <2>4
  <2>5. << >> \in Seq(Inst) /\ \A i \in DOMAIN << >> : << >>[i].op # "load"
    OBVIOUS
  <2>6. CASE is = << >>
    BY <2>5, <2>6
  <2>7. QED
    BY <2>1, <2>2, <2>3, <2>4, <2>6, Zenon
<1> HIDE DEF is
<1>4. Appended(is)
  BY <1>1, <1>2, <1>3, EmitAppends DEF IInv
<1>5. env' = << >>
  BY <1>1, <1>2
<1>6. Typed'
  <2>1. sig'.ret \in AnyType
    BY <1>1, MarkTypes DEF NoSig
  <2>2. env' \in Seq([Names -> SUBSET Storage]) /\ blocks' \in Seq(BlockType)
    <3>1. \A T : << >> \in Seq(T)
      OBVIOUS
    <3>2. QED
      BY <1>1, <1>5, <3>1, Zenon
  <2>3. code' \in Seq(FunctionType)
    BY <1>4 DEF Appended
  <2>4. QED
    BY <1>1, <2>1, <2>2, <2>3 DEF IInv, Typed
<1>7. Phases' /\ Known'
  BY <1>1, <1>5 DEF Phases, Known, InFunction
<1>8. Agree'
  BY <1>1 DEF IInv, Agree, Legible, Constant
<1>9. Means'
  BY <1>1, <1>3, <1>4, LoadsRightIfNone, MeansKept DEF IInv
<1>10. QED
  BY <1>6, <1>7, <1>8, <1>9 DEF IInv

LEMMA OpenBlockKeeps == ASSUME IInv, OpenBlock PROVE IInv'
<1> DEFINE b == [decls |-> TRUE, names |-> NoNames]
           cs == Statement(blocks)
<1>1. /\ phase = "body" /\ blocks' = <<b>> \o cs /\ value' = Constant
      /\ UNCHANGED <<tool, env, globals, phase, params, sig, code, made, outside, sound>>
  BY DEF OpenBlock, table
<1>2. InFunction /\ blocks # << >> /\ code # << >> /\ Len(env) = 1
  BY <1>1, Zenon DEF IInv, Phases, InFunction
<1>3. b \in BlockType /\ \A n \in Names : b.names[n] = NoVal
  BY DEF BlockType, NameMap, NoNames, Place
<1>4. /\ cs \in Seq(BlockType) /\ Len(cs) = Len(blocks)
      /\ \A j \in DOMAIN blocks : \A n \in Names : cs[j].names[n] = blocks[j].names[n]
  BY <1>2, StatementOf DEF IInv
<1> HIDE DEF b, cs
<1>5. blocks \in Seq(BlockType) /\ DOMAIN blocks = 1..Len(blocks) /\ Len(blocks) \in Nat
  BY DEF IInv, Typed
<1>6. /\ blocks' \in Seq(BlockType) /\ Len(blocks') = Len(blocks) + 1
      /\ DOMAIN blocks' = 1..(Len(blocks) + 1)
  BY <1>1, <1>3, <1>4, <1>5
<1>7. \A j \in DOMAIN blocks' : \A n \in Names :
          \/ j = 1 /\ blocks'[j].names[n] = NoVal
          \/ j - 1 \in DOMAIN blocks /\ blocks'[j].names[n] = blocks[j - 1].names[n]
  <2>1. \A j \in DOMAIN blocks' : j = 1 \/ j - 1 \in DOMAIN blocks
    BY <1>5, <1>6
  <2>2. blocks'[1] = b /\ \A j \in DOMAIN blocks : blocks'[j + 1] = cs[j]
    BY <1>1, <1>3, <1>4, <1>5
  <2>3. \A j \in DOMAIN blocks' : j # 1 => blocks'[j] = cs[j - 1]
    BY <2>1, <2>2, <1>6
  <2>4. QED
    BY <1>3, <1>4, <2>1, <2>2, <2>3
<1>8. \A j \in DOMAIN blocks : \A n \in Names :
          j + 1 \in DOMAIN blocks' /\ blocks'[j + 1].names[n] = blocks[j].names[n]
  BY <1>5, <1>6, <1>7
<1>9. Typed'
  BY <1>1, <1>6 DEF IInv, Typed
<1>10. Phases'
  BY <1>1, <1>2, <1>6 DEF IInv, Phases, InFunction
<1>11. Known'
  <2>1. \A j \in DOMAIN blocks' : \A n \in Names :
            blocks'[j].names[n] # NoVal => blocks'[j].names[n] \in env'[1][n]
    BY <1>1, <1>2, <1>7 DEF IInv, Known
  <2>2. \A n \in Names : \A w \in env'[1][n] : Allocated(code[Builder].insts, n, w)'
    <3>1. \A n \in Names : \A w \in env[1][n] : Allocated(code[Builder].insts, n, w)
      BY <1>2 DEF IInv, Known
    <3>2. (code[Builder].insts)' = code[Builder].insts
      BY <1>1 DEF Builder
    <3>3. \A n \in Names : \A w : Allocated(code[Builder].insts, n, w) => Allocated(code[Builder].insts, n, w)'
      BY <3>2 DEF Allocated
    <3>4. QED
      BY <1>1, <3>1, <3>3
  <2>3. QED
    BY <2>1, <2>2 DEF Known
<1>12. Agree'
  BY <1>1 DEF IInv, Agree, Legible, Constant
<1>13. Means'
  BY <1>1, MeansStays DEF IInv
<1>14. QED
  BY <1>9, <1>10, <1>11, <1>12, <1>13 DEF IInv

LEMMA CloseBlockKeeps == ASSUME IInv, CloseBlock PROVE IInv'
<1>1. /\ phase = "body" /\ Len(blocks) > 1 /\ blocks' = Tail(blocks) /\ value' = Constant
      /\ UNCHANGED <<tool, env, globals, phase, params, sig, code, made, outside, sound>>
  BY DEF CloseBlock, BlockEnds, table
<1>2. InFunction /\ code # << >> /\ Len(env) = 1
  BY <1>1, Zenon DEF IInv, Phases, InFunction
<1>3. blocks \in Seq(BlockType) /\ DOMAIN blocks = 1..Len(blocks) /\ Len(blocks) \in Nat
  BY DEF IInv, Typed
<1>4. /\ blocks' \in Seq(BlockType) /\ Len(blocks') = Len(blocks) - 1
      /\ DOMAIN blocks' = 1..(Len(blocks) - 1)
      /\ \A j \in DOMAIN blocks' : j + 1 \in DOMAIN blocks /\ blocks'[j] = blocks[j + 1]
  BY <1>1, <1>3
<1>5. Typed'
  BY <1>1, <1>4 DEF IInv, Typed
<1>6. Phases'
  <2>1. blocks' # << >>
    <3>1. Len(blocks') # 0
      <4>1. Len(blocks') = Len(blocks) - 1 /\ Len(blocks) \in Nat /\ Len(blocks) > 1
        BY <1>1, <1>3, <1>4, Zenon
      <4>2. QED
        BY <4>1
    <3>2. Len(<< >>) = 0
      OBVIOUS
    <3>3. QED
      BY <3>1, <3>2, Zenon
  <2>2. QED
    BY <1>1, <1>2, <2>1 DEF Phases
<1>7. Known'
  <2>1. \A j \in DOMAIN blocks' : \A n \in Names :
            blocks'[j].names[n] # NoVal => blocks'[j].names[n] \in env'[1][n]
    BY <1>1, <1>2, <1>4 DEF IInv, Known
  <2>2. \A n \in Names : \A w \in env'[1][n] : Allocated(code[Builder].insts, n, w)'
    <3>1. \A n \in Names : \A w \in env[1][n] : Allocated(code[Builder].insts, n, w)
      BY <1>2 DEF IInv, Known
    <3>2. (code[Builder].insts)' = code[Builder].insts
      BY <1>1 DEF Builder
    <3>3. \A n \in Names : \A w : Allocated(code[Builder].insts, n, w) => Allocated(code[Builder].insts, n, w)'
      BY <3>2 DEF Allocated
    <3>4. QED
      BY <1>1, <3>1, <3>3
  <2>3. QED
    BY <2>1, <2>2 DEF Known
<1>8. Agree'
  BY <1>1 DEF IInv, Agree, Legible, Constant
<1>9. Means'
  BY <1>1, MeansStays DEF IInv
<1>10. QED
  BY <1>5, <1>6, <1>7, <1>8, <1>9 DEF IInv

-----------------------------------------------------------------------------
LEMMA UnchangedKeeps == ASSUME IInv, UNCHANGED vars PROVE IInv'
<1>1. UNCHANGED <<tool, env, globals, phase, params, sig, code, value, made, blocks, outside, sound>>
  BY DEF vars, table, ghosts
<1>2. Typed'
  BY <1>1 DEF IInv, Typed
<1>3. Phases' /\ Agree'
  BY <1>1 DEF IInv, Phases, InFunction, Agree
<1>4. Known'
  <2>1. Appended(<< >>) /\ SameNames /\ << >> \in Seq(Inst)
    BY <1>1, NothingAppended, SameNamesIfUnchanged DEF IInv
  <2>2. InFunction' => InFunction /\ code # << >>
    BY <1>1, Zenon DEF IInv, Phases, InFunction
  <2>3. QED
    BY <1>1, <2>1, <2>2, ScopesKept DEF IInv
<1>5. Means'
  BY <1>1, MeansStays DEF IInv
<1>6. QED
  BY <1>2, <1>3, <1>4, <1>5 DEF IInv

LEMMA StepKeeps == ASSUME IInv, Next PROVE IInv'
<1>1. CASE \E n \in Names : DeclareGlobal(n) \/ DeclareLocal(n)
  BY <1>1, DeclareGlobalKeeps, DeclareLocalKeeps
<1>2. CASE \E n \in Names \cup {NoName}, t \in ParamTypes[tool] : Param(n, t)
  BY <1>2, ParamKeeps
<1>3. CASE \E f \in Names, t \in RetTypes[tool] : PushScope(f, t)
  BY <1>3, PushScopeKeeps
<1>4. CASE AddFunction \/ StoreParam \/ BodyBegins \/ EndFunction
  BY <1>4, AddFunctionKeeps, StoreParamKeeps, BodyBeginsKeeps, EndFunctionKeeps
<1>5. CASE OpenBlock \/ CloseBlock
  BY <1>5, OpenBlockKeeps, CloseBlockKeeps
<1>6. CASE \E n \in Names : Initializer(n) \/ Use(n) \/ Operand(n) \/ Assign(n)
  BY <1>6, InitializerKeeps, MentionsKeep, AssignKeeps DEF Use, Operand
<1>7. CASE Literal \/ Return \/ ReturnExpr
  BY <1>7, LiteralKeeps, ReturnKeeps, ReturnExprKeeps
<1>8. QED
  BY <1>1, <1>2, <1>3, <1>4, <1>5, <1>6, <1>7 DEF Next

LEMMA Invariance == Spec => []IInv
<1>1. IInv /\ [Next]_vars => IInv'
  BY StepKeeps, UnchangedKeeps
<1>2. QED
  BY <1>1, InitKeeps, PTL DEF Spec

\* However long the text and however many its names: a load built from it
\* reads the storage of the declaration C means.  Where the name is declared
\* more than once in the function it may be that of another of these, and where
\* C means a global that the one declaration before hides, that of the latter.
THEOREM MeaningThm == Spec => []MeansC
<1>1. IInv => MeansC
  BY MeansIs DEF IInv
<1>2. QED
  BY <1>1, Invariance, PTL

\* Who may write, and where.
LEMMA Writes ==
    ASSUME IInv, Next
    PROVE  \/ UNCHANGED code
           \/ \E f : code' = Append(code, f)
           \/ (\E is : Emit(is)) /\ (InFunction \/ ~sound')
<1>1. ASSUME NEW n \in Names, DeclareLocal(n) PROVE InFunction /\ \E is : Emit(is)
  BY <1>1 DEF DeclareLocal, Declaring, AtTop, is_global_scope, InFunction, IInv, Phases
<1>2. ASSUME NEW n \in Names, Initializer(n)
      PROVE  UNCHANGED code \/ ((\E is : Emit(is)) /\ (InFunction \/ ~sound'))
  BY <1>2 DEF Initializer, Reads, Declaring, InFunction
<1>3. ASSUME NEW n \in Names, Mentions(n)
      PROVE  UNCHANGED code \/ ((\E is : Emit(is)) /\ InFunction)
  BY <1>3 DEF Mentions, Reads, InFunction
<1>4. StoreParam => UNCHANGED code \/ ((\E is : Emit(is)) /\ InFunction)
  BY DEF StoreParam, InFunction
<1>5. EndFunction \/ Return => (\E is : Emit(is)) /\ InFunction
  BY DEF EndFunction, Return, InFunction
<1>6. ReturnExpr => UNCHANGED code \/ ((\E is : Emit(is)) /\ InFunction)
  BY DEF ReturnExpr, InFunction
<1>7. AddFunction => \E f : code' = Append(code, f)
  BY DEF AddFunction
<1>8. /\ \A n \in Names : DeclareGlobal(n) \/ Assign(n) => UNCHANGED code
      /\ \A n, t : Param(n, t) \/ PushScope(n, t) => UNCHANGED code
      /\ BodyBegins \/ OpenBlock \/ CloseBlock \/ Literal => UNCHANGED code
  BY DEF DeclareGlobal, Assign, Param, PushScope, BodyBegins, OpenBlock, CloseBlock, Literal
<1>9. QED
  BY <1>1, <1>2, <1>3, <1>4, <1>5, <1>6, <1>7, <1>8 DEF Next, Use, Operand

\* The Builder still points into the function before: nothing within C is
\* written there once it is finished.
THEOREM FinishedThm == Spec => FinishedStays
<1> DEFINE Stays == sound' => \A k \in DOMAIN code : Finished(k) => code'[k] = code[k]
<1>1. ASSUME IInv, Next PROVE Stays
  <2> SUFFICES ASSUME sound', NEW k \in DOMAIN code, Finished(k) PROVE code'[k] = code[k]
    OBVIOUS
  <2>1. code \in Seq(FunctionType)
    BY <1>1 DEF IInv, Typed
  <2>2. ASSUME NEW f, code' = Append(code, f) PROVE code'[k] = code[k]
    BY <2>1, <2>2
  <2>3. ASSUME NEW is, Emit(is), InFunction PROVE code'[k] = code[k]
    <3>1. blocks # << >>
      BY <1>1, <2>3, Zenon DEF IInv, Phases
    <3>2. k < Builder
      BY <3>1 DEF Finished
    <3>3. k # Builder
      BY <2>1, <3>2 DEF Builder
    <3>4. QED
      BY <2>3, <3>3, Zenon DEF Emit
  <2>4. QED
    BY <1>1, <2>2, <2>3, Writes
<1>2. IInv /\ [Next]_vars => [Stays]_vars
  BY <1>1
<1>3. QED
  BY <1>2, Invariance, PTL DEF Spec, FinishedStays
-----------------------------------------------------------------------------
\* What a function is built of.  FInv goes beside IInv: Table and Budget (all
\* storage is an item of the text), Built, Listing (the parameters as written,
\* and the types made of them), Holding (what BuildFunction has stored, one
\* way round or the other) and Returns.

Table ==
    /\ env \in Seq([Names -> SUBSET Vals]) /\ Len(env) <= 1
    /\ globals \in [Names -> Vals \cup {NoVal}] /\ functions \subseteq Names

Built == \A k \in DOMAIN code : \A i \in DOMAIN code[k].insts : InstOK(code[k].insts[i], code[k])

\* Parameters that are read but have no storage yet.
Pending ==
    CASE phase = "crashed" -> 0
      [] phase = "storing" -> Len(params) - Stored
      [] OTHER -> Len(params)

Budget ==
    /\ items \in 0..MaxItems /\ made + Pending <= items
    /\ Len(params) <= MaxParams /\ init \subseteq Names

\* declared is the list of parameters turned round.
Entering == params # << >> \/ phase \in {"building", "storing"}

Listing ==
    /\ declared \in Seq(ParamType)
    /\ phase = "body" => params = << >>
    /\ Entering => /\ Len(declared) = Len(params)
                   /\ \A i \in DOMAIN declared : declared[i] = Node(i)
    /\ phase \in {"building", "storing", "body"} => sig.name \in Names /\ sig.ret \in RetTypes[tool]
    /\ InFunction =>
          /\ code[Builder].ret = sig.ret
          /\ Len(code[Builder].types) = Len(declared)
          /\ \A i \in DOMAIN declared : code[Builder].types[i] = declared[i].type

\* The i-th parameter has storage, and the i-th argument is stored there.
Held(i) ==
    \E j \in 1..(Len(code[Builder].insts) - 1) :
        LET a == code[Builder].insts[j]  st == code[Builder].insts[j + 1] IN
            /\ a.op = "alloca" /\ a.type = declared[i].type /\ a.name = declared[i].name
            /\ st = Store(a.val, i)
            /\ Declarations(code[Builder].insts, a.name) = {j} => env[1][a.name] = {a.val}

\* The parameters BuildFunction has come to.
Reached == IF tool = "p2" THEN (Len(params) - Stored + 1)..Len(params) ELSE 1..Stored

Holding ==
    /\ phase = "storing" => Stored <= Len(params) /\ \A i \in Reached : Held(i)
    /\ phase = "body" => \A i \in DOMAIN declared : Held(i)

\* A return before it keeps the end of the rule from adding one.
Implied(fn, i) ==
    fn.insts[i].op = "ret" /\ fn.insts[i].how = "implicit" =>
        /\ fn.insts[i].type = fn.ret
        /\ i = 1 \/ fn.insts[i - 1].op # "ret"

Returns ==
    sound => \A k \in DOMAIN code :
        /\ Finished(k) /\ (tool = "p2" \/ ~code[k].ret.ptr) => EndsInRet(code[k].insts)
        /\ \A i \in DOMAIN code[k].insts : Implied(code[k], i)

FInv == Table /\ Built /\ Budget /\ Listing /\ Holding /\ Returns

\* A step that writes is behind the instructions of the last function.
Adds(is) ==
    /\ Len(code') = Len(code) /\ DOMAIN code' = DOMAIN code
    /\ \A k \in DOMAIN code : k # Builder => code'[k] = code[k]
    /\ code # << >> =>
          /\ code'[Builder].ret = code[Builder].ret
          /\ code'[Builder].types = code[Builder].types
          /\ code'[Builder].insts = code[Builder].insts \o is

LEMMA LastIs ==
    ASSUME Typed, code # << >>
    PROVE  Builder \in DOMAIN code /\ code[Builder] \in FunctionType /\ code[Builder].insts \in Seq(Inst)
<1>1. Builder \in DOMAIN code
  BY DEF Typed, Builder
<1>2. code[Builder] \in FunctionType
  BY <1>1 DEF Typed
<1>3. QED
  BY <1>1, <1>2 DEF FunctionType

LEMMA EmitAdds == ASSUME Typed, code # << >>, NEW is, Emit(is) PROVE Adds(is)
<1>1. /\ Builder \in DOMAIN code /\ code[Builder] \in FunctionType
  BY LastIs
<1> DEFINE f == [code[Builder] EXCEPT !.insts = @ \o is]
<1>2. f.ret = code[Builder].ret /\ f.types = code[Builder].types /\ f.insts = code[Builder].insts \o is
  BY <1>1 DEF FunctionType
<1>3. code' = [code EXCEPT ![Builder] = f]
  BY DEF Emit
<1> HIDE DEF f
<1>4. DOMAIN code' = DOMAIN code /\ \A k \in DOMAIN code : code'[k] = IF k = Builder THEN f ELSE code[k]
  BY <1>3
<1>5. Len(code') = Len(code)
  <2>1. code \in Seq(FunctionType)
    BY DEF Typed
  <2>2. QED
    BY <1>3, <2>1
<1>6. QED
  BY <1>1, <1>2, <1>4, <1>5 DEF Adds

LEMMA NothingAdded == ASSUME Typed, UNCHANGED code PROVE Adds(<< >>)
<1>1. ASSUME code # << >> PROVE code[Builder].insts \o << >> = code[Builder].insts
  <2>1. code[Builder].insts \in Seq(Inst)
    BY <1>1, LastIs
  <2>2. QED
    BY <2>1
<1>2. QED
  BY <1>1 DEF Adds

\* What is added to a list of instructions is behind all of them.
LEMMA Concat ==
    ASSUME NEW X, NEW s \in Seq(X), NEW Y, NEW is \in Seq(Y)
    PROVE  /\ Len(s) \in Nat /\ Len(is) \in Nat /\ Len(s \o is) = Len(s) + Len(is)
           /\ DOMAIN s = 1..Len(s) /\ DOMAIN is = 1..Len(is)
           /\ DOMAIN (s \o is) = 1..(Len(s) + Len(is))
           /\ \A i \in 1..Len(s) : (s \o is)[i] = s[i]
           /\ \A i \in 1..Len(is) : (s \o is)[Len(s) + i] = is[i]
<1>1. s \in Seq(X \cup Y) /\ is \in Seq(X \cup Y)
  OBVIOUS
<1>2. QED
  BY <1>1

LEMMA BuiltKept ==
    ASSUME Typed, Built, NEW Y, NEW is \in Seq(Y), Adds(is),
           code # << >> => \A i \in DOMAIN is : InstOK(is[i], code[Builder])
    PROVE  Built'
<1> SUFFICES ASSUME NEW k \in DOMAIN code', NEW i \in DOMAIN code'[k].insts
             PROVE  InstOK(code'[k].insts[i], code'[k])
  BY DEF Built, InstOK
<1>1. k \in DOMAIN code /\ code # << >>
  BY DEF Adds
<1>2. CASE k # Builder
  BY <1>1, <1>2 DEF Adds, Built
<1>3. CASE k = Builder
  <2> DEFINE s == code[Builder].insts
  <2>1. s \in Seq(Inst) /\ code'[k].insts = s \o is /\ code'[k].types = code[Builder].types
    BY <1>1, <1>3, LastIs DEF Adds
  <2>2. /\ \A c : InstOK(c, code[Builder]) => InstOK(c, code'[k])
        /\ \A j \in DOMAIN s : InstOK(s[j], code[Builder])
    BY <1>1, <1>3, <2>1 DEF InstOK, Built
  <2> HIDE DEF s
  <2>3. i \in 1..(Len(s) + Len(is))
    BY <2>1, Concat
  <2>4. Len(s) \in Nat /\ Len(is) \in Nat
    BY <2>1, Concat
  <2>5. CASE i \in 1..Len(s)
    <3>1. i \in DOMAIN s /\ (s \o is)[i] = s[i]
      BY <2>1, <2>5, Concat
    <3>2. QED
      BY <2>1, <2>2, <3>1
  <2>6. CASE i - Len(s) \in 1..Len(is)
    <3>1. i - Len(s) \in DOMAIN is /\ Len(s) + (i - Len(s)) = i
      BY <2>3, <2>4, <2>6
    <3>2. (s \o is)[i] = is[i - Len(s)]
      BY <2>1, <2>6, <3>1, Concat
    <3>3. QED
      BY <1>1, <2>1, <2>2, <3>1, <3>2
  <2>7. QED
    BY <2>3, <2>4, <2>5, <2>6
<1>4. QED
  BY <1>2, <1>3

LEMMA HeldKept ==
    ASSUME Typed, code # << >>, NEW Y, NEW is \in Seq(Y), Adds(is), UNCHANGED declared,
           NEW i, Held(i),
           \A n \in Names : env'[1][n] = env[1][n] \/ Declarations(is, n) # {}
    PROVE  Held(i)'
<1> DEFINE s == code[Builder].insts
           t == s \o is
<1>1. s \in Seq(Inst)
  BY LastIs
<1>2. PICK j \in 1..(Len(s) - 1) :
         /\ s[j].op = "alloca" /\ s[j].type = declared[i].type /\ s[j].name = declared[i].name
         /\ s[j + 1] = Store(s[j].val, i)
         /\ Declarations(s, s[j].name) = {j} => env[1][s[j].name] = {s[j].val}
  BY DEF Held
<1>3. Builder' = Builder /\ (code[Builder].insts)' = t
  BY DEF Adds, Builder
<1>4. s[j].name \in Names
  <2>1. s[j] \in Inst
    BY <1>1
  <2>2. QED
    BY <1>2, <2>1 DEF Inst
<1> HIDE DEF s, t
<1>5. /\ Len(t) = Len(s) + Len(is) /\ Len(s) \in Nat /\ Len(is) \in Nat
      /\ DOMAIN s = 1..Len(s) /\ DOMAIN is = 1..Len(is) /\ DOMAIN t = 1..(Len(s) + Len(is))
      /\ \A m \in 1..Len(s) : t[m] = s[m]
      /\ \A m \in 1..Len(is) : t[Len(s) + m] = is[m]
  BY <1>1, Concat DEF t
<1>6. j \in 1..(Len(t) - 1) /\ j \in 1..Len(s) /\ j + 1 \in 1..Len(s)
  BY <1>2, <1>5
<1>7. t[j] = s[j] /\ t[j + 1] = s[j + 1]
  BY <1>5, <1>6
<1>8. ASSUME Declarations(t, t[j].name) = {j} PROVE env'[1][t[j].name] = {t[j].val}
  <2>1. Declarations(s, s[j].name) = {j}
    BY <1>2, <1>5, <1>6, <1>7, <1>8 DEF Declarations
  <2>2. Declarations(is, s[j].name) = {}
    <3>1. \A m \in 1..Len(is) : Len(s) + m \in DOMAIN t /\ Len(s) + m # j
      BY <1>5, <1>6
    <3>2. \A m \in 1..Len(is) : Len(s) + m \notin Declarations(t, s[j].name)
      BY <1>7, <1>8, <3>1
    <3>3. QED
      BY <1>5, <3>1, <3>2 DEF Declarations
  <2>3. QED
    BY <1>2, <1>4, <1>7, <2>1, <2>2
<1>9. /\ t[j].op = "alloca" /\ t[j].type = declared[i].type /\ t[j].name = declared[i].name
      /\ t[j + 1] = Store(t[j].val, i)
      /\ Declarations(t, t[j].name) = {j} => env'[1][t[j].name] = {t[j].val}
  BY <1>2, <1>7, <1>8
<1>10. QED
  BY <1>3, <1>6, <1>9 DEF Held

LEMMA ReturnsKept ==
    ASSUME Typed, Returns, NEW Y, NEW is \in Seq(Y), Adds(is), UNCHANGED tool,
           sound' => sound /\ (is = << >> \/ blocks # << >>), blocks' = << >> => blocks = << >>,
           \A i \in DOMAIN is : ~(is[i].op = "ret" /\ is[i].how = "implicit")
    PROVE  Returns'
<1> SUFFICES ASSUME sound', NEW k \in DOMAIN code'
             PROVE  /\ Finished(k)' /\ (tool = "p2" \/ ~code'[k].ret.ptr) => EndsInRet(code'[k].insts)
                    /\ \A i \in DOMAIN code'[k].insts : Implied(code'[k], i)
  BY DEF Returns, Implied, EndsInRet
<1>1. k \in DOMAIN code /\ code # << >> /\ Builder' = Builder
  BY DEF Adds, Builder
<1>2. /\ Finished(k) /\ (tool = "p2" \/ ~code[k].ret.ptr) => EndsInRet(code[k].insts)
      /\ \A i \in DOMAIN code[k].insts : Implied(code[k], i)
  BY <1>1 DEF Returns
<1>3. CASE k # Builder
  <2>1. code'[k] = code[k]
    BY <1>1, <1>3 DEF Adds
  <2>2. Finished(k)' => Finished(k)
    BY <1>1 DEF Finished
  <2>3. QED
    BY <1>2, <2>1, <2>2
<1>4. CASE k = Builder
  <2> DEFINE s == code[Builder].insts
  <2>1. s \in Seq(Inst) /\ code'[k].insts = s \o is /\ code'[k].ret = code[k].ret
    BY <1>1, <1>4, LastIs DEF Adds
  <2>2. Finished(k)' => Finished(k) /\ is = << >>
    <3>1. Builder \in Nat
      BY DEF Typed, Builder
    <3>2. QED
      BY <1>1, <1>4, <3>1 DEF Finished
  <2>3. is = << >> => s \o is = s
    BY <2>1
  <2>4. ASSUME NEW i \in DOMAIN (s \o is) PROVE Implied(code'[k], i)
    <3>1. \A j \in 1..Len(s) : Implied(code[k], j)
      BY <1>2, <1>4, <2>1
    <3> HIDE DEF s
    <3>2. i \in 1..(Len(s) + Len(is)) /\ Len(s) \in Nat /\ Len(is) \in Nat
      BY <2>1, Concat
    <3>3. CASE i \in 1..Len(s)
      <4>1. (s \o is)[i] = s[i] /\ (i # 1 => i - 1 \in 1..Len(s) /\ (s \o is)[i - 1] = s[i - 1])
        <5>1. i # 1 => i - 1 \in 1..Len(s)
          BY <3>2, <3>3
        <5>2. QED
          BY <2>1, <3>3, <5>1, Concat
      <4>2. QED
        BY <1>4, <2>1, <3>1, <3>3, <4>1 DEF Implied, s
    <3>4. CASE i - Len(s) \in 1..Len(is)
      <4>1. Len(s) + (i - Len(s)) = i /\ i - Len(s) \in DOMAIN is
        BY <3>2, <3>4
      <4>2. (s \o is)[i] = is[i - Len(s)]
        BY <2>1, <3>4, <4>1, Concat
      <4>3. QED
        BY <2>1, <4>1, <4>2 DEF Implied
    <3>5. QED
      BY <3>2, <3>3, <3>4
  <2>5. QED
    BY <1>2, <1>4, <2>1, <2>2, <2>3, <2>4
<1>5. QED
  BY <1>3, <1>4

\* A step that declares nothing and enters or leaves no function.
LEMMA QuietKeepsF ==
    ASSUME IInv, FInv, NEW Y, NEW is \in Seq(Y), Adds(is),
           code # << >> => \A i \in DOMAIN is : InstOK(is[i], code[Builder]),
           \A i \in DOMAIN is : ~(is[i].op = "ret" /\ is[i].how = "implicit"),
           phase \in {"top", "body"}, phase' \in {phase, "crashed"},
           UNCHANGED <<tool, env, globals, functions, params, sig, made, declared>>,
           init' \subseteq Names, items' \in 0..MaxItems, items <= items',
           sound' => sound /\ (is = << >> \/ blocks # << >>), blocks' = << >> => blocks = << >>
    PROVE  FInv'
<1>1. Table'
  BY DEF FInv, Table
<1>2. Built'
  BY BuiltKept DEF IInv, FInv
<1>3. Budget'
  <2>1. made \in Nat /\ Len(params) \in Nat /\ items \in Nat /\ items' \in Nat
    BY MiniCAssumption DEF IInv, Typed, FInv, Budget
  <2>2. Pending = Len(params) /\ Pending' \in {0, Len(params)}
    BY DEF Pending
  <2>3. QED
    BY <2>1, <2>2 DEF FInv, Budget
<1>4. phase' = "body" => phase = "body" /\ InFunction /\ code # << >>
  BY Zenon DEF IInv, Phases, InFunction
<1>5. Builder' = Builder
  BY DEF Adds, Builder
<1>6. Listing'
  <2>1. Entering' => Entering
    BY DEF Entering
  <2>2. InFunction' => phase' = "body"
    BY DEF InFunction
  <2>3. InFunction' => /\ code'[Builder].ret = code[Builder].ret
                       /\ code'[Builder].types = code[Builder].types
    BY <1>4, <2>2 DEF Adds
  <2>4. InFunction' =>
          /\ code'[Builder'].ret = sig'.ret
          /\ Len(code'[Builder'].types) = Len(declared')
          /\ \A i \in DOMAIN declared' : code'[Builder'].types[i] = declared'[i].type
    BY <1>4, <1>5, <2>2, <2>3 DEF FInv, Listing
  <2>5. /\ declared' \in Seq(ParamType)
        /\ phase' = "body" => params' = << >>
        /\ phase' \in {"building", "storing", "body"} => sig'.name \in Names /\ sig'.ret \in RetTypes[tool']
        /\ Entering' => /\ Len(declared') = Len(params')
                        /\ \A i \in DOMAIN declared' : declared'[i] = Node(i)'
    BY <2>1, <1>4 DEF FInv, Listing, Node
  <2>6. QED
    BY <2>4, <2>5 DEF Listing
<1>7. Holding'
  <2>1. ASSUME phase' = "body", NEW i \in DOMAIN declared PROVE Held(i)'
    <3>1. Held(i)
      BY <1>4, <2>1 DEF FInv, Holding
    <3>2. QED
      BY <1>4, <2>1, <3>1, HeldKept DEF IInv
  <2>2. QED
    BY <2>1 DEF Holding
<1>8. Returns'
  BY ReturnsKept DEF IInv, FInv
<1>9. QED
  BY <1>1, <1>2, <1>3, <1>6, <1>7, <1>8 DEF FInv

LEMMA ItemIs == ASSUME Budget, Item PROVE items' \in 0..MaxItems /\ items <= items'
  BY MiniCAssumption DEF Budget, Item

LEMMA FindsStorage ==
    ASSUME Table, NEW n \in Names, Tbl!Find(n) PROVE found' \in Vals \cup {NoVal}
<1>1. CASE \E i \in 1..Len(env) : found' \in env[i][n]
  BY <1>1 DEF Table
<1>2. CASE found' = globals[n]
  BY <1>2 DEF Table
<1>3. QED
  BY <1>1, <1>2 DEF Tbl!Find

\* What a read adds: a load, or nothing.
LEMMA ReadsAdd ==
    ASSUME IInv, FInv, NEW n \in Names, Reads(n)
    PROVE  /\ UNCHANGED <<env, globals, functions>> /\ phase' \in {phase, "crashed"}
           /\ \/ UNCHANGED code
              \/ \E c : InstOK(c, code[Builder]) /\ c.op = "load" /\ Adds(<<c>>)
<1>1. /\ UNCHANGED <<env, globals, functions>> /\ phase' \in {phase, "crashed"}
      /\ Tbl!Find(n)
  BY DEF Reads, Tbl!Find, Crashes
<1>2. CASE UNCHANGED code
  BY <1>1, <1>2
<1>3. CASE ~UNCHANGED code
  <2>1. PICK m : found' # NoVal /\ Builder # 0 /\ Emit(<<Load(found', n, m)>>)
    BY <1>3 DEF Reads
  <2>2. code # << >>
    BY <2>1 DEF Builder
  <2>3. Adds(<<Load(found', n, m)>>)
    BY <2>1, <2>2, EmitAdds DEF IInv
  <2>4. found' \in Vals
    BY <1>1, <2>1, FindsStorage DEF FInv
  <2>5. InstOK(Load(found', n, m), code[Builder]) /\ Load(found', n, m).op = "load"
    BY <2>4 DEF InstOK, Load
  <2>6. QED
    BY <1>1, <2>3, <2>5
<1>4. QED
  BY <1>2, <1>3

\* The three ways to write at most one instruction quietly.
LEMMA OneAdded ==
    ASSUME IInv, FInv,
           UNCHANGED code \/ \E c : /\ InstOK(c, code[Builder]) /\ Adds(<<c>>)
                                   /\ ~(c.op = "ret" /\ c.how = "implicit"),
           phase \in {"top", "body"}, phase' \in {phase, "crashed"},
           UNCHANGED <<tool, env, globals, functions, params, sig, made, declared>>,
           init' \subseteq Names, items' \in 0..MaxItems, items <= items',
           sound' => sound /\ (blocks # << >> \/ UNCHANGED code), blocks' = << >> => blocks = << >>
    PROVE  FInv'
<1>1. CASE UNCHANGED code
  <2>1. Adds(<< >>) /\ << >> \in Seq(Inst) /\ DOMAIN << >> = {}
    BY <1>1, NothingAdded DEF IInv
  <2>2. QED
    BY <2>1, QuietKeepsF
<1>2. ASSUME NEW c, InstOK(c, code[Builder]), Adds(<<c>>), ~(c.op = "ret" /\ c.how = "implicit"),
             ~UNCHANGED code
      PROVE  FInv'
  <2>1. <<c>> \in Seq({c}) /\ \A i \in DOMAIN <<c>> : <<c>>[i] = c
    OBVIOUS
  <2>2. QED
    BY <1>2, <2>1, QuietKeepsF
<1>3. QED
  BY <1>1, <1>2

LEMMA InBody == ASSUME IInv, phase = "body" PROVE InFunction /\ blocks # << >> /\ code # << >> /\ Len(env) = 1
  BY Zenon DEF IInv, Phases, InFunction

LEMMA StatementStays ==
    ASSUME IInv, phase = "body", blocks' = Statement(blocks) PROVE blocks' # << >>
<1>1. blocks # << >> /\ blocks \in Seq(BlockType)
  BY InBody DEF IInv, Typed
<1>2. DOMAIN blocks' = DOMAIN blocks /\ DOMAIN blocks # {}
  BY <1>1 DEF Statement
<1>3. QED
  BY <1>2

LEMMA MentionsKeepF ==
    ASSUME IInv, FInv, NEW n \in Names, Mentions(n) PROVE FInv'
<1>1. /\ phase = "body" /\ Reads(n) /\ blocks' = Statement(blocks) /\ (sound' => sound)
      /\ Item /\ UNCHANGED <<tool, params, sig, init, made, declared>>
  BY DEF Mentions
<1>2. blocks # << >> /\ blocks' # << >> /\ items' \in 0..MaxItems /\ items <= items'
  BY <1>1, InBody, StatementStays, ItemIs DEF FInv
<1>3. init' \subseteq Names
  BY <1>1 DEF FInv, Budget
<1>4. /\ UNCHANGED <<env, globals, functions>> /\ phase' \in {phase, "crashed"}
      /\ \/ UNCHANGED code
         \/ \E c : InstOK(c, code[Builder]) /\ c.op = "load" /\ Adds(<<c>>)
  BY <1>1, ReadsAdd
<1>5. QED
  BY <1>1, <1>2, <1>3, <1>4, OneAdded

LEMMA InitializerKeepsF == ASSUME IInv, FInv, NEW n \in Names, Initializer(n) PROVE FInv'
<1>1. /\ phase \in {"top", "body"} /\ Reads(n) /\ (sound' => sound /\ phase = "body")
      /\ Item /\ UNCHANGED <<tool, params, sig, made, declared, blocks>> /\ init' = init \cup {n}
  BY DEF Initializer, Declaring, AtTop
<1>2. (phase = "body" => blocks # << >>) /\ items' \in 0..MaxItems /\ items <= items'
  BY <1>1, InBody, ItemIs DEF FInv
<1>3. init' \subseteq Names
  BY <1>1 DEF FInv, Budget
<1>4. /\ UNCHANGED <<env, globals, functions>> /\ phase' \in {phase, "crashed"}
      /\ \/ UNCHANGED code
         \/ \E c : InstOK(c, code[Builder]) /\ c.op = "load" /\ Adds(<<c>>)
  BY <1>1, ReadsAdd
<1>5. QED
  BY <1>1, <1>2, <1>3, <1>4, OneAdded

\* The statements that write a return at most, and what opens or closes a block.
LEMMA RetAdds ==
    ASSUME IInv, phase = "body", NEW h \in {"written", "value"}, NEW t, Emit(<<Ret(h, t)>>)
    PROVE  \E c : /\ InstOK(c, code[Builder]) /\ Adds(<<c>>)
                  /\ ~(c.op = "ret" /\ c.how = "implicit")
<1>1. Adds(<<Ret(h, t)>>)
  BY InBody, EmitAdds DEF IInv
<1>2. InstOK(Ret(h, t), code[Builder]) /\ Ret(h, t).how # "implicit"
  BY DEF InstOK, Ret
<1>3. QED
  BY <1>1, <1>2

LEMMA StatementsKeepF ==
    ASSUME IInv, FInv, Literal \/ Return \/ ReturnExpr \/ \E n \in Names : Assign(n) PROVE FInv'
<1>1. /\ phase = "body" /\ phase' \in {phase, "crashed"} /\ blocks' = Statement(blocks)
      /\ (sound' => sound) /\ (Item \/ UNCHANGED items)
      /\ UNCHANGED <<tool, env, globals, functions, params, sig, init, made, declared>>
  <2>1. CASE Literal
    BY <2>1 DEF Literal, table
  <2>2. CASE Return
    BY <2>2 DEF Return, table
  <2>3. CASE ReturnExpr
    BY <2>3 DEF ReturnExpr, table, Crashes
  <2>4. ASSUME NEW n \in Names, Assign(n)
        PROVE  /\ phase = "body" /\ phase' \in {phase, "crashed"} /\ blocks' = Statement(blocks)
               /\ (sound' => sound) /\ (Item \/ UNCHANGED items)
               /\ UNCHANGED <<tool, env, globals, functions, params, sig, init, made, declared>>
    BY <2>4 DEF Assign, Tbl!Find
  <2>5. QED
    BY <2>1, <2>2, <2>3, <2>4
<1>2. blocks # << >> /\ blocks' # << >>
  BY <1>1, InBody, StatementStays
<1>3. init' \subseteq Names /\ items' \in 0..MaxItems /\ items <= items'
  BY <1>1, ItemIs DEF FInv, Budget
<1>4. UNCHANGED code \/ \E h \in {"written", "value"} : \E t : Emit(<<Ret(h, t)>>)
  BY DEF Literal, Return, ReturnExpr, Assign
<1>5. UNCHANGED code \/ \E c : /\ InstOK(c, code[Builder]) /\ Adds(<<c>>)
                              /\ ~(c.op = "ret" /\ c.how = "implicit")
  BY <1>1, <1>4, RetAdds
<1>6. QED
  BY <1>1, <1>2, <1>3, <1>5, OneAdded

LEMMA BlocksKeepF == ASSUME IInv, IInv', FInv, OpenBlock \/ CloseBlock PROVE FInv'
<1>1. /\ phase = "body" /\ phase' = phase /\ UNCHANGED code /\ (Item \/ UNCHANGED items)
      /\ UNCHANGED <<tool, env, globals, functions, params, sig, init, made, declared, sound>>
  BY DEF OpenBlock, CloseBlock, BlockEnds, table
<1>2. blocks' # << >>
  BY <1>1, Zenon DEF IInv, Phases, InFunction
<1>3. init' \subseteq Names /\ items' \in 0..MaxItems /\ items <= items'
  BY <1>1, ItemIs DEF FInv, Budget
<1>4. QED
  BY <1>1, <1>2, <1>3, OneAdded

\* The global scope.
LEMMA DeclareGlobalKeepsF == ASSUME IInv, FInv, NEW n \in Names, DeclareGlobal(n) PROVE FInv'
<1>1. /\ phase = "top" /\ params = << >> /\ Item /\ Tbl!DeclareGlobal(n, made + 1) /\ made' = made + 1
      /\ (sound' => sound) /\ init' = {}
      /\ UNCHANGED <<tool, phase, params, sig, code, declared, blocks>>
  BY DEF DeclareGlobal, AtTop
<1>2. /\ UNCHANGED <<env, functions>>
      /\ globals' = [globals EXCEPT ![n] = IF Tbl!Taken(n) THEN @ ELSE made + 1]
  BY <1>1 DEF Tbl!DeclareGlobal
<1>3. Budget' /\ made + 1 \in Vals
  <2>1. Pending = 0 /\ Pending' = 0
    BY <1>1 DEF Pending
  <2>2. made \in Nat /\ items \in 0..MaxItems /\ made <= items /\ items' = items + 1 /\ items < MaxItems
    BY <1>1, <2>1 DEF IInv, Typed, FInv, Budget, Item
  <2>3. QED
    BY <1>1, <2>1, <2>2, MiniCAssumption DEF FInv, Budget, Vals
<1>4. Table'
  BY <1>2, <1>3 DEF FInv, Table
<1>5. Built'
  BY <1>1 DEF FInv, Built, InstOK
<1>6. Listing'
  BY <1>1 DEF FInv, Listing, Entering, InFunction
<1>7. Holding'
  BY <1>1 DEF Holding
<1>8. Returns'
  BY <1>1 DEF FInv, Returns, Finished, Implied, EndsInRet, Builder
<1>9. QED
  BY <1>3, <1>4, <1>5, <1>6, <1>7, <1>8 DEF FInv

LEMMA ParamKeepsF ==
    ASSUME IInv, FInv, NEW n \in Names \cup {NoName}, NEW t \in ParamTypes[tool], Param(n, t) PROVE FInv'
<1> DEFINE q == [name |-> n, type |-> t]
<1>1. /\ phase = "top" /\ Len(params) < MaxParams /\ Item /\ params' = <<q>> \o params
      /\ declared' = (IF params = << >> THEN <<q>> ELSE Append(declared, q))
      /\ (sound' => sound)
      /\ UNCHANGED <<tool, env, globals, functions, phase, sig, code, init, made, blocks>>
  BY DEF Param, table, push_param
<1>2. t \in Types
  BY MiniCAssumption DEF IInv, Typed
<1>3. q \in ParamType
  BY <1>2 DEF ParamType
<1> HIDE DEF q
<1>4. params \in Seq(ParamType) /\ declared \in Seq(ParamType)
  BY DEF IInv, Typed, FInv, Listing
<1>5. Len(params') = Len(params) + 1 /\ Len(params) \in Nat
  BY <1>1, <1>3, <1>4
<1>6. Budget'
  <2>1. Pending = Len(params) /\ Pending' = Len(params')
    BY <1>1 DEF Pending
  <2>2. made \in Nat /\ items \in 0..MaxItems /\ items' = items + 1 /\ items < MaxItems
    BY <1>1 DEF IInv, Typed, FInv, Budget, Item
  <2>3. QED
    BY <1>1, <1>5, <2>1, <2>2, MiniCAssumption DEF FInv, Budget
<1>7. Table' /\ Built' /\ Returns'
  BY <1>1 DEF FInv, Table, Built, InstOK, Returns, Finished, Implied, EndsInRet, Builder
<1>8. Holding'
  BY <1>1 DEF Holding
<1>9. Listing'
  <2>1. declared' \in Seq(ParamType) /\ Len(declared') = Len(params')
        /\ \A i \in DOMAIN declared' : declared'[i] = params'[Len(params') + 1 - i]
    <3>1. CASE params = << >>
      BY <1>1, <1>3, <3>1
    <3>2. CASE params # << >>
      <4>1. Len(declared) = Len(params) /\ \A i \in DOMAIN declared : declared[i] = params[Len(params) + 1 - i]
        BY <3>2 DEF FInv, Listing, Entering, Node
      <4>2. declared' = Append(declared, q)
        BY <1>1, <3>2
      <4>3. /\ declared' \in Seq(ParamType) /\ Len(declared') = Len(params) + 1
            /\ DOMAIN declared' = 1..(Len(params) + 1)
            /\ declared'[Len(params) + 1] = q
            /\ \A i \in 1..Len(params) : declared'[i] = declared[i]
        BY <1>3, <1>4, <4>1, <4>2
      <4>4. params'[1] = q /\ \A j \in 1..Len(params) : params'[j + 1] = params[j]
        BY <1>1, <1>3, <1>4
      <4>5. ASSUME NEW i \in DOMAIN declared' PROVE declared'[i] = params'[Len(params') + 1 - i]
        <5>1. CASE i = Len(params) + 1
          <6>1. Len(params') + 1 - i = 1
            BY <1>5, <5>1
          <6>2. QED
            BY <4>3, <4>4, <5>1, <6>1
        <5>2. CASE i # Len(params) + 1
          <6>1. i \in 1..Len(params) /\ Len(params) + 1 - i \in 1..Len(params)
                /\ Len(params') + 1 - i = (Len(params) + 1 - i) + 1
            BY <1>5, <4>3, <5>2
          <6>2. DOMAIN declared = 1..Len(params)
            BY <1>4, <4>1
          <6>3. QED
            BY <4>1, <4>3, <4>4, <6>1, <6>2
        <5>3. QED
          BY <5>1, <5>2
      <4>6. QED
        BY <1>5, <4>3, <4>5
    <3>3. QED
      BY <3>1, <3>2
  <2>2. QED
    BY <1>1, <2>1 DEF Listing, Node, InFunction
<1>10. QED
  BY <1>6, <1>7, <1>8, <1>9 DEF FInv

LEMMA PushScopeKeepsF ==
    ASSUME IInv, FInv, NEW f \in Names, NEW t \in RetTypes[tool], PushScope(f, t) PROVE FInv'
<1>1. /\ phase = "top" /\ Item /\ phase' = "building" /\ sig' = [name |-> f, ret |-> t]
      /\ env' = <<[n \in Names |-> {}]>> \o env
      /\ declared' = (IF params = << >> THEN << >> ELSE declared)
      /\ UNCHANGED <<tool, globals, functions, params, code, init, made, blocks, sound>>
  BY DEF PushScope, Tbl!Push, Tbl!NoNames
<1>2. env' = <<[n \in Names |-> {}]>>
  <2>1. env = << >>
    BY <1>1 DEF IInv, Phases
  <2>2. QED
    BY <1>1, <2>1
<1>3. Table'
  <2>1. [n \in Names |-> {}] \in [Names -> SUBSET Vals]
    OBVIOUS
  <2>2. env' \in Seq([Names -> SUBSET Vals]) /\ Len(env') = 1
    BY <1>2, <2>1
  <2>3. QED
    BY <1>1, <2>2 DEF FInv, Table
<1>4. Budget'
  <2>1. Pending = Pending'
    BY <1>1 DEF Pending
  <2>2. items' \in 0..MaxItems /\ items <= items'
    BY <1>1, ItemIs DEF FInv
  <2>3. made \in Nat /\ Pending \in Nat /\ items \in Nat
    BY <1>1 DEF IInv, Typed, Pending, FInv, Budget
  <2>4. made + Pending <= items /\ Len(params) <= MaxParams /\ init \subseteq Names
    BY DEF FInv, Budget
  <2>5. items' \in Nat /\ made' + Pending' <= items'
    <3>1. made' = made /\ items' \in Nat /\ items <= items'
      BY <1>1, <2>2, MiniCAssumption
    <3>2. made + Pending \in Nat /\ made + Pending <= items /\ items \in Nat
      BY <2>3, <2>4
    <3>3. \A a, b, c \in Nat : a <= b /\ b <= c => a <= c
      OBVIOUS
    <3>4. made + Pending <= items'
      BY <3>1, <3>2, <3>3, Zenon
    <3>5. QED
      BY <2>1, <3>1, <3>4, Zenon
  <2>6. QED
    BY <1>1, <2>2, <2>4, <2>5 DEF Budget
<1>5. Built' /\ Returns'
  BY <1>1 DEF FInv, Built, InstOK, Returns, Finished, Implied, EndsInRet, Builder
<1>6. Holding'
  BY <1>1 DEF Holding
<1>7. Listing'
  BY <1>1 DEF FInv, Listing, Entering, Node, InFunction
<1>8. QED
  BY <1>3, <1>4, <1>5, <1>6, <1>7 DEF FInv

LEMMA BodyBeginsKeepsF == ASSUME IInv, FInv, BodyBegins PROVE FInv'
<1>1. /\ phase = "storing" /\ phase' = "body" /\ Stored = Len(params) /\ params' = << >>
      /\ UNCHANGED <<tool, env, globals, functions, sig, code, init, made, items, declared, blocks, sound>>
  BY DEF BodyBegins, table, ghosts
<1>2. Table' /\ Built' /\ Returns'
  BY <1>1 DEF FInv, Table, Built, InstOK, Returns, Finished, Implied, EndsInRet, Builder
<1>3. Budget'
  <2>1. Pending = 0 /\ Pending' = 0
    BY <1>1 DEF Pending, IInv, Typed
  <2>2. QED
    BY <1>1, <2>1, MiniCAssumption DEF FInv, Budget
<1>4. Listing'
  BY <1>1 DEF FInv, Listing, Entering, InFunction, Builder
<1>5. Holding'
  <2>1. Len(declared) = Len(params) /\ declared \in Seq(ParamType)
    BY <1>1 DEF FInv, Listing, Entering
  <2>2. DOMAIN declared \subseteq Reached
    BY <1>1, <2>1 DEF Reached
  <2>3. \A i \in DOMAIN declared : Held(i)
    BY <1>1, <2>2 DEF FInv, Holding
  <2>4. \A i \in DOMAIN declared : Held(i) => Held(i)'
    BY <1>1 DEF Held, Builder
  <2>5. QED
    BY <1>1, <2>3, <2>4 DEF Holding
<1>6. QED
  BY <1>2, <1>3, <1>4, <1>5 DEF FInv

LEMMA AddFunctionKeepsF == ASSUME IInv, FInv, AddFunction PROVE FInv'
<1> DEFINE f == [ret |-> sig.ret, types |-> ParamArray(params), insts |-> << >>]
<1>1. /\ phase = "building" /\ phase' = "storing" /\ code' = Append(code, f)
      /\ blocks' # << >> /\ (sound' => sound)
      /\ UNCHANGED <<tool, env, globals, params, sig, init, made, items, declared>>
  BY DEF AddFunction, Tbl!DefineFunction
<1>2. blocks = << >>
  BY <1>1 DEF IInv, Phases
<1>3. params \in Seq(ParamType) /\ code \in Seq(FunctionType)
  BY DEF IInv, Typed
<1>4. f.insts = << >> /\ f.ret = sig.ret /\ f.types = ParamArray(params)
  OBVIOUS
<1> HIDE DEF f
<1>5. /\ Len(code') = Len(code) + 1 /\ Len(code) \in Nat /\ DOMAIN code' = 1..(Len(code) + 1)
      /\ DOMAIN code = 1..Len(code)
      /\ code'[Len(code) + 1] = f /\ \A k \in 1..Len(code) : code'[k] = code[k]
  BY <1>1, <1>3
<1>6. Builder' = Len(code) + 1 /\ (code[Builder])' = f
  BY <1>5 DEF Builder
<1>7. Stored' = 0
  <2>1. {i \in DOMAIN (code[Builder].insts)' : (code[Builder].insts)'[i].op = "store"} = {}
    BY <1>4, <1>6
  <2>2. Cardinality({}) = 0
    BY FS_EmptySet
  <2>3. QED
    BY <2>1, <2>2 DEF Stored
<1>8. Table'
  <2>1. functions' \subseteq Names
    BY <1>1 DEF AddFunction, Tbl!DefineFunction, FInv, Table, Listing
  <2>2. QED
    BY <1>1, <2>1 DEF FInv, Table
<1>9. Built'
  BY <1>4, <1>5 DEF FInv, Built, InstOK
<1>10. Budget'
  <2>1. Pending = Len(params) /\ Pending' = Len(params)
    BY <1>1, <1>3, <1>7 DEF Pending
  <2>2. QED
    BY <1>1, <2>1 DEF FInv, Budget
<1>11. Listing'
  <2>1. Len(declared) = Len(params) /\ declared \in Seq(ParamType)
        /\ \A i \in DOMAIN declared : declared[i] = Node(i)
    BY <1>1 DEF FInv, Listing, Entering
  <2>2. DOMAIN ParamArray(params) = DOMAIN params /\ Len(ParamArray(params)) = Len(params)
    BY <1>3 DEF ParamArray
  <2>3. \A i \in DOMAIN params : ParamArray(params)[i] = Node(i).type
    BY DEF ParamArray, Node
  <2>4. DOMAIN declared = DOMAIN params
    BY <1>3, <2>1
  <2>5. /\ (code[Builder].ret)' = sig.ret /\ (code[Builder].types)' = ParamArray(params)
    BY <1>4, <1>6
  <2>6. Len(ParamArray(params)) = Len(declared)
        /\ \A i \in DOMAIN declared : ParamArray(params)[i] = declared[i].type
    BY <2>1, <2>2, <2>3, <2>4
  <2>7. (\A i \in DOMAIN declared : declared'[i] = Node(i)') /\ Len(declared') = Len(params')
    BY <1>1, <2>1 DEF Node
  <2>8. sig.name \in Names /\ sig.ret \in RetTypes[tool]
    BY <1>1 DEF FInv, Listing
  <2> HIDE DEF ParamArray
  <2>9. QED
    BY <1>1, <2>1, <2>5, <2>6, <2>7, <2>8 DEF Listing
<1>12. Holding'
  <2>1. Reached' = {}
    BY <1>1, <1>3, <1>7 DEF Reached
  <2>2. Stored' <= Len(params')
    BY <1>1, <1>3, <1>7
  <2>3. QED
    BY <1>1, <2>1, <2>2 DEF Holding
<1>13. Returns'
  <2> SUFFICES ASSUME sound', NEW k \in DOMAIN code'
               PROVE  /\ Finished(k)' /\ (tool = "p2" \/ ~code'[k].ret.ptr) => EndsInRet(code'[k].insts)
                      /\ \A i \in DOMAIN code'[k].insts : Implied(code'[k], i)
    BY <1>1 DEF Returns, Implied, EndsInRet
  <2>1. CASE k \in DOMAIN code
    BY <1>1, <1>2, <1>5, <2>1 DEF FInv, Returns, Finished
  <2>2. CASE k = Len(code) + 1
    <3>1. ~Finished(k)'
      BY <1>1, <1>5, <1>6, <2>2 DEF Finished
    <3>2. QED
      BY <1>4, <1>5, <2>2, <3>1
  <2>3. QED
    BY <1>5, <2>1, <2>2
<1>14. QED
  BY <1>8, <1>9, <1>10, <1>11, <1>12, <1>13 DEF FInv

LEMMA DeclaresTable ==
    ASSUME IInv, Table, Len(env) = 1, NEW n \in Names, made + 1 \in Vals, Tbl!Declare(n, made + 1)
    PROVE  /\ Table' /\ env'[1][n] = env[1][n] \cup {made + 1}
           /\ \A m \in Names : m # n => env'[1][m] = env[1][m]
<1>1. env[1] \in [Names -> SUBSET Vals] /\ env \in Seq([Names -> SUBSET Vals]) /\ 1 \in DOMAIN env
  <2> DEFINE X == [Names -> SUBSET Vals]
  <2>1. env \in Seq(X) /\ Len(env) = 1
    BY DEF Table
  <2> HIDE DEF X
  <2>2. env[1] \in X /\ 1 \in DOMAIN env
    BY <2>1
  <2>3. QED
    BY <2>1, <2>2 DEF X
<1> DEFINE row == [env[1] EXCEPT ![n] = @ \cup {made + 1}]
<1>2. env' = [env EXCEPT ![1] = row] /\ UNCHANGED <<globals, functions>>
  BY DEF Tbl!Declare
<1>3. row \in [Names -> SUBSET Vals] /\ row[n] = env[1][n] \cup {made + 1}
      /\ \A m \in Names : m # n => row[m] = env[1][m]
  BY <1>1
<1> HIDE DEF row
<1>4. env' \in Seq([Names -> SUBSET Vals]) /\ Len(env') = Len(env) /\ env'[1] = row
  <2> DEFINE X == [Names -> SUBSET Vals]
  <2> HIDE DEF X
  <2>1. env \in Seq(X) /\ 1 \in DOMAIN env /\ row \in X
    BY <1>1, <1>3 DEF X
  <2>2. env' \in Seq(X) /\ Len(env') = Len(env) /\ env'[1] = row
    BY <1>2, <2>1
  <2>3. QED
    BY <2>2 DEF X
<1>5. QED
  BY <1>2, <1>3, <1>4 DEF Table

LEMMA DeclareLocalKeepsF == ASSUME IInv, IInv', FInv, NEW n \in Names, DeclareLocal(n) PROVE FInv'
<1> DEFINE c == Alloca(made + 1, n, NoVal)
<1>1. /\ env # << >> /\ Item /\ Tbl!Declare(n, made + 1) /\ made' = made + 1 /\ Emit(<<c>>)
      /\ (sound' => sound) /\ init' = {}
      /\ UNCHANGED <<tool, phase, params, sig, declared>>
  BY DEF DeclareLocal, is_global_scope
<1>2. phase = "body"
  BY <1>1 DEF DeclareLocal, Declaring, AtTop, is_global_scope, IInv, Phases
<1>3. blocks # << >> /\ code # << >> /\ Len(env) = 1 /\ InFunction /\ Opens(n, made + 1)
  BY <1>2, InBody DEF DeclareLocal
<1>4. blocks' # << >>
  BY <1>1, <1>2, Zenon DEF IInv, Phases, InFunction
<1>5. Budget' /\ made + 1 \in Vals
  <2>1. params = << >> /\ Pending = 0 /\ Pending' = 0
    BY <1>1, <1>2 DEF Pending, FInv, Listing
  <2>2. made \in Nat /\ items \in 0..MaxItems /\ made <= items /\ items' = items + 1 /\ items < MaxItems
    BY <1>1, <2>1 DEF IInv, Typed, FInv, Budget, Item
  <2>3. QED
    BY <1>1, <2>1, <2>2, MiniCAssumption DEF FInv, Budget, Vals
<1>6. /\ Table' /\ \A m \in Names : m # n => env'[1][m] = env[1][m]
      /\ UNCHANGED <<globals, functions>>
  BY <1>1, <1>3, <1>5, DeclaresTable DEF FInv, Tbl!Declare
<1>7. c.op = "alloca" /\ InstOK(c, code[Builder])
  BY <1>5 DEF Alloca, InstOK
<1> HIDE DEF c
<1>8. Adds(<<c>>) /\ <<c>> \in Seq({c}) /\ \A i \in DOMAIN <<c>> : <<c>>[i] = c
  BY <1>1, <1>3, EmitAdds DEF IInv
<1>9. Built'
  BY <1>7, <1>8, BuiltKept DEF IInv, FInv
<1>10. Builder' = Builder /\ code'[Builder].ret = code[Builder].ret /\ code'[Builder].types = code[Builder].types
  BY <1>3, <1>8 DEF Adds, Builder
<1>11. Listing'
  BY <1>1, <1>2, <1>3, <1>10 DEF FInv, Listing, Entering, InFunction
<1>12. \A m \in Names : env'[1][m] = env[1][m] \/ Declarations(<<c>>, m) # {}
  <2>1. 1 \in DOMAIN <<c>> /\ c.name = n
    BY DEF Alloca, c
  <2>2. Declarations(<<c>>, n) # {}
    BY <1>7, <1>8, <2>1 DEF Declarations
  <2>3. QED
    BY <1>6, <2>2
<1>13. Holding'
  <2>1. ASSUME NEW i \in DOMAIN declared PROVE Held(i)'
    <3>1. Held(i)
      BY <1>2, <2>1 DEF FInv, Holding
    <3>2. QED
      BY <1>1, <1>3, <1>8, <1>12, <3>1, HeldKept DEF IInv
  <2>2. QED
    BY <1>1, <1>2, <2>1 DEF Holding
<1>14. Returns'
  BY <1>1, <1>3, <1>4, <1>7, <1>8, ReturnsKept DEF IInv, FInv
<1>15. QED
  BY <1>5, <1>6, <1>9, <1>11, <1>13, <1>14 DEF FInv

\* One round of BuildFunction's loop.
LEMMA StoresOneMore ==
    ASSUME Typed, code # << >>, NEW c, NEW d, c.op # "store", d.op = "store", Adds(<<c, d>>)
    PROVE  Stored' = Stored + 1
<1> DEFINE s == code[Builder].insts
           t == s \o <<c, d>>
           S(q) == {i \in DOMAIN q : q[i].op = "store"}
<1>1. s \in Seq(Inst) /\ <<c, d>> \in Seq({c, d})
  BY LastIs
<1>2. Builder' = Builder /\ (code[Builder].insts)' = t
  BY DEF Adds, Builder
<1>3. Len(<<c, d>>) = 2 /\ <<c, d>>[1] = c /\ <<c, d>>[2] = d
  OBVIOUS
<1> HIDE DEF s
<1>4. /\ Len(s) \in Nat /\ DOMAIN s = 1..Len(s) /\ DOMAIN t = 1..(Len(s) + 2)
      /\ t[Len(s) + 1] = c /\ t[Len(s) + 2] = d /\ \A i \in 1..Len(s) : t[i] = s[i]
  BY <1>1, <1>3, Concat
<1> HIDE DEF t
<1>5. S(t) = S(s) \cup {Len(s) + 2} /\ Len(s) + 2 \notin S(s)
  BY <1>4
<1>6. IsFiniteSet(S(s))
  <2>1. IsFiniteSet(DOMAIN s)
    BY <1>4, FS_Interval
  <2>2. QED
    BY <2>1, FS_Subset
<1>7. Cardinality(S(t)) = Cardinality(S(s)) + 1
  BY <1>5, <1>6, FS_AddElement
<1>8. QED
  BY <1>2, <1>7 DEF Stored, s

LEMMA StoreParamKeepsF == ASSUME IInv, IInv', FInv, StoreParam PROVE FInv'
<1> DEFINE i == IF tool = "p2" THEN Len(params) - Stored ELSE Stored + 1
           p == Node(i)
           c == Alloca(made + 1, p.name, p.type)
           d == Store(made + 1, Argument(i))
<1>1. /\ phase = "storing" /\ Stored < Len(params)
      /\ UNCHANGED <<tool, params, sig, init, items, declared, sound>>
  BY DEF StoreParam
<1>2. InFunction /\ blocks # << >> /\ code # << >> /\ Len(env) = 1
  BY <1>1, Zenon DEF IInv, Phases, InFunction
<1>3. Stored \in Nat /\ Len(params) \in Nat /\ i \in 1..Len(params)
  <2>1. Stored \in Nat /\ Len(params) \in Nat
    BY <1>2, StoredIsNat DEF IInv, Typed
  <2>2. QED
    BY <1>1, <2>1
<1>4. Pending = Len(params) - Stored /\ made \in Nat /\ items \in 0..MaxItems
  BY <1>1 DEF Pending, IInv, Typed, FInv, Budget
<1>5. made + 1 <= items
  BY <1>1, <1>3, <1>4 DEF FInv, Budget
<1>6. made + 1 \in Vals
  BY <1>4, <1>5, MiniCAssumption DEF Vals
<1>7. /\ Len(declared) = Len(params) /\ declared \in Seq(ParamType)
      /\ \A k \in DOMAIN declared : declared[k] = Node(k)
      /\ Len(code[Builder].types) = Len(declared) /\ code[Builder].types \in Seq(Types)
  <2>1. code[Builder].types \in Seq(Types)
    BY <1>2, LastIs DEF IInv, FunctionType
  <2>2. QED
    BY <1>1, <1>2, <2>1 DEF FInv, Listing, Entering
<1>8. CASE p.name = NoName
  <2>1. phase' = "crashed" /\ UNCHANGED <<env, globals, functions, code, made, blocks>>
    BY <1>8 DEF StoreParam, Crashes, table
  <2>2. Table' /\ Built' /\ Returns'
    BY <1>1, <2>1 DEF FInv, Table, Built, InstOK, Returns, Finished, Implied, EndsInRet, Builder
  <2>3. Budget'
    <3>1. Pending' = 0
      BY <2>1 DEF Pending
    <3>2. QED
      BY <1>1, <1>4, <1>5, <2>1, <3>1 DEF FInv, Budget
  <2>4. Listing' /\ Holding'
    BY <1>1, <2>1 DEF FInv, Listing, Entering, Node, InFunction, Holding
  <2>5. QED
    BY <2>2, <2>3, <2>4 DEF FInv
<1>9. CASE p.name # NoName
  <2>1. /\ Tbl!Declare(p.name, made + 1) /\ made' = made + 1 /\ Emit(<<c, d>>)
        /\ Opens(p.name, made + 1) /\ UNCHANGED phase
    BY <1>9 DEF StoreParam
  <2>2. p = declared[i] /\ i \in DOMAIN declared /\ p \in ParamType
    BY <1>3, <1>7
  <2>3. p.name \in Names
    BY <1>9, <2>2 DEF ParamType
  <2> HIDE DEF p, i
  <2>4. /\ Table' /\ env'[1][p.name] = env[1][p.name] \cup {made + 1}
        /\ \A m \in Names : m # p.name => env'[1][m] = env[1][m]
        /\ UNCHANGED <<globals, functions>>
    BY <1>2, <1>6, <2>1, <2>3, DeclaresTable DEF FInv, Tbl!Declare
  <2>5. /\ c.op = "alloca" /\ d.op = "store" /\ InstOK(c, code[Builder])
        /\ InstOK(d, code[Builder])
    <3>1. i \in DOMAIN code[Builder].types
      BY <1>7, <2>2
    <3>2. QED
      BY <1>6, <2>3, <3>1 DEF Alloca, Store, Argument, InstOK
  <2>6. c.val = made + 1 /\ c.name = p.name /\ c.type = p.type /\ d = Store(made + 1, i)
    BY DEF Alloca, Argument
  <2> HIDE DEF c, d
  <2>7. Adds(<<c, d>>)
    BY <1>2, <2>1, EmitAdds DEF IInv
  <2>8. <<c, d>> \in Seq({c, d}) /\ \A k \in DOMAIN <<c, d>> : <<c, d>>[k] \in {c, d}
    OBVIOUS
  <2>9. Stored' = Stored + 1
    BY <1>2, <2>5, <2>7, StoresOneMore DEF IInv
  <2>10. Built'
    BY <2>5, <2>7, <2>8, BuiltKept DEF IInv, FInv
  <2>11. Budget'
    <3>1. Pending' = Len(params) - (Stored + 1)
      BY <1>1, <2>1, <2>9 DEF Pending
    <3>2. QED
      BY <1>1, <1>3, <1>4, <2>1, <3>1 DEF FInv, Budget
  <2>12. Listing'
    <3>1. Builder' = Builder /\ code'[Builder].ret = code[Builder].ret /\ code'[Builder].types = code[Builder].types
      BY <1>2, <2>7 DEF Adds, Builder
    <3>2. QED
      BY <1>1, <1>2, <2>1, <3>1 DEF FInv, Listing, Entering, Node, InFunction
  <2> PICK e \in DOMAIN declared : e = i
    BY <2>2
  <2>13. Held(e)'
    <3> DEFINE s == code[Builder].insts
               t == s \o <<c, d>>
    <3>1. s \in Seq(Inst) /\ Len(<<c, d>>) = 2 /\ <<c, d>>[1] = c /\ <<c, d>>[2] = d
      BY <1>2, LastIs DEF IInv
    <3>2. Builder' = Builder /\ (code[Builder].insts)' = t
      BY <1>2, <2>7 DEF Adds, Builder
    <3>3. \A v \in env[1][p.name] : Allocated(s, p.name, v)
      BY <1>2, <2>3 DEF IInv, Known
    <3> HIDE DEF s
    <3>4. /\ Len(s) \in Nat /\ DOMAIN s = 1..Len(s) /\ Len(t) = Len(s) + 2
          /\ DOMAIN t = 1..(Len(s) + 2) /\ \A m \in 1..Len(s) : t[m] = s[m]
          /\ t[Len(s) + 1] = c /\ t[Len(s) + 2] = d
      BY <2>8, <3>1, Concat
    <3> HIDE DEF t
    <3>5. Len(s) + 1 \in 1..(Len(t) - 1) /\ (Len(s) + 1) + 1 = Len(s) + 2
      BY <3>4
    <3>6. ASSUME Declarations(t, c.name) = {Len(s) + 1} PROVE env'[1][c.name] = {c.val}
      <4>1. \A m \in 1..Len(s) : m # Len(s) + 1 /\ m \in DOMAIN t
        BY <3>4
      <4>2. \A m \in DOMAIN s : ~(s[m].op = "alloca" /\ s[m].name = c.name)
        BY <3>4, <3>6, <4>1 DEF Declarations
      <4>3. env[1][p.name] = {}
        BY <2>6, <3>3, <4>2 DEF Allocated
      <4>4. QED
        BY <2>4, <2>6, <4>3
    <3>7. /\ c.type = declared[e].type /\ c.name = declared[e].name /\ d = Store(c.val, e)
      BY <2>2, <2>6
    <3>8. QED
      BY <1>1, <2>5, <3>2, <3>4, <3>5, <3>6, <3>7 DEF Held
  <2>14. \A m \in Names : env'[1][m] = env[1][m] \/ Declarations(<<c, d>>, m) # {}
    <3>1. Declarations(<<c, d>>, p.name) # {}
      <4>1. 1 \in DOMAIN <<c, d>> /\ <<c, d>>[1] = c
        OBVIOUS
      <4>2. QED
        BY <2>5, <2>6, <4>1 DEF Declarations
    <3>2. QED
      BY <2>4, <3>1
  <2>15. \A k : Held(k) => Held(k)'
    BY <1>1, <1>2, <2>7, <2>8, <2>14, HeldKept DEF IInv
  <2>16. Holding'
    <3>1. \A k \in Reached' : k \in Reached \/ k = e
      BY <1>1, <1>3, <2>9 DEF Reached, i
    <3>2. \A k \in Reached : Held(k)
      BY <1>1 DEF FInv, Holding
    <3>3. \A k \in Reached' : Held(k)'
      BY <2>13, <2>15, <3>1, <3>2
    <3>4. Stored' <= Len(params')
      BY <1>1, <1>3, <2>9
    <3>5. QED
      BY <1>1, <2>1, <3>3, <3>4 DEF Holding
  <2>17. blocks' # << >>
    BY <1>1, <2>1, Zenon DEF IInv, Phases, InFunction
  <2>18. Returns'
    BY <1>1, <1>2, <2>5, <2>7, <2>8, <2>17, ReturnsKept DEF IInv, FInv
  <2>19. QED
    BY <2>4, <2>10, <2>11, <2>12, <2>16, <2>18 DEF FInv
<1>10. QED
  BY <1>8, <1>9

\* The end of the rule.
LEMMA EndFunctionKeepsF == ASSUME IInv, FInv, EndFunction PROVE FInv'
<1> DEFINE s == code[Builder].insts
           is == IF EndsInRet(s) THEN << >> ELSE Implicit(sig.ret)
<1>1. /\ phase = "body" /\ phase' = "top" /\ Emit(is) /\ env' = Tail(env) /\ blocks' = << >>
      /\ UNCHANGED <<tool, globals, functions, params, init, made, items, declared, sound>>
  BY DEF EndFunction, Pop, Tbl!Pop
<1>2. InFunction /\ blocks # << >> /\ code # << >> /\ Len(env) = 1
  BY <1>1, InBody
<1>3. s \in Seq(Inst) /\ code[Builder] \in FunctionType /\ Builder \in DOMAIN code
  BY <1>2, LastIs DEF IInv
<1>4. Adds(is)
  BY <1>1, <1>2, EmitAdds DEF IInv
<1>5. sig.ret \in RetTypes[tool] /\ code[Builder].ret = sig.ret
  BY <1>1, <1>2 DEF FInv, Listing
<1>6. sig.ret \in Types /\ (tool = "p2cpp" => sig.ret.base = "int")
  BY <1>5, MiniCAssumption DEF IInv, Typed, Tools
<1>7. \/ is = << >> /\ (EndsInRet(s) \/ (tool = "p2cpp" /\ sig.ret.ptr))
      \/ is = <<Ret("implicit", sig.ret)>> /\ ~EndsInRet(s)
  <2>1. tool = "p2cpp" /\ ~sig.ret.ptr => sig.ret = Int32
    BY <1>6 DEF Types, Int32
  <2>2. tool \in {"p2", "p2cpp"} /\ sig.ret.ptr \in BOOLEAN
    BY <1>6 DEF IInv, Typed, Tools, Types
  <2>3. QED
    BY <2>1, <2>2 DEF Implicit
<1> HIDE DEF s, is
<1>8. is \in Seq({Ret("implicit", sig.ret)})
  <2>1. \A r : << >> \in Seq({r}) /\ <<r>> \in Seq({r})
    OBVIOUS
  <2>2. QED
    BY <1>7, <2>1, Zenon
<1>9. Table'
  <2>1. env' = << >>
    BY <1>1, <1>2 DEF FInv, Table
  <2>2. \A T : << >> \in Seq(T) /\ Len(<< >>) <= 1
    OBVIOUS
  <2>3. env' \in Seq([Names -> SUBSET Vals]) /\ Len(env') <= 1
    BY <2>1, <2>2, Zenon
  <2>4. QED
    BY <1>1, <2>3 DEF FInv, Table
<1>10. Built'
  <2>1. InstOK(Ret("implicit", sig.ret), code[Builder])
    BY DEF InstOK, Ret
  <2>2. \A i \in DOMAIN is : InstOK(is[i], code[Builder])
    BY <1>7, <2>1
  <2>3. QED
    BY <1>4, <1>8, <2>2, BuiltKept DEF IInv, FInv
<1>11. Budget'
  <2>1. Pending = Pending'
    BY <1>1 DEF Pending
  <2>2. QED
    BY <1>1, <2>1 DEF FInv, Budget
<1>12. Listing' /\ Holding'
  BY <1>1 DEF FInv, Listing, Entering, InFunction, Holding
<1>13. Returns'
  <2> SUFFICES ASSUME sound, NEW k \in DOMAIN code
               PROVE  /\ tool = "p2" \/ ~code'[k].ret.ptr => EndsInRet(code'[k].insts)
                      /\ \A i \in DOMAIN code'[k].insts : Implied(code'[k], i)
    BY <1>1, <1>4 DEF Returns, Implied, EndsInRet, Adds
  <2>1. \A i \in DOMAIN code[k].insts : Implied(code[k], i)
    BY DEF FInv, Returns
  <2>2. CASE k # Builder
    <3>1. k < Builder
      BY <2>2 DEF Builder, IInv, Typed
    <3>2. QED
      BY <1>4, <2>1, <2>2, <3>1 DEF FInv, Returns, Finished, Adds
  <2>3. CASE k = Builder
    <3>1. code'[k].insts = s \o is /\ code'[k].ret = sig.ret
      BY <1>2, <1>4, <1>5, <2>3 DEF Adds, s
    <3>2. CASE is = << >> /\ (EndsInRet(s) \/ (tool = "p2cpp" /\ sig.ret.ptr))
      <4>1. code'[k].insts = s
        BY <1>3, <3>1, <3>2
      <4>2. \A i \in DOMAIN s : Implied(code'[k], i)
        BY <1>5, <2>1, <2>3, <3>1, <4>1 DEF Implied, s
      <4>3. QED
        BY <3>1, <3>2, <4>1, <4>2
    <3>3. CASE is = <<Ret("implicit", sig.ret)>> /\ ~EndsInRet(s)
      <4> DEFINE r == Ret("implicit", sig.ret)
                 t == s \o is
                 n == Len(s)
      <4>1. Len(is) = 1 /\ is[1] = r /\ r.op = "ret" /\ r.type = sig.ret
        BY <3>3 DEF Ret
      <4> HIDE DEF r
      <4>2. n \in Nat /\ Len(t) = n + 1 /\ DOMAIN t = 1..(n + 1) /\ DOMAIN s = 1..n
            /\ t[n + 1] = r /\ \A i \in 1..n : t[i] = s[i]
        <5>1. /\ Len(s) \in Nat /\ Len(s \o is) = Len(s) + 1 /\ DOMAIN s = 1..Len(s)
              /\ DOMAIN (s \o is) = 1..(Len(s) + 1)
          <6>1. /\ Len(s) \in Nat /\ Len(s \o is) = Len(s) + Len(is)
                /\ DOMAIN s = 1..Len(s) /\ DOMAIN (s \o is) = 1..(Len(s) + Len(is))
            BY <1>3, <1>8, Concat
          <6>2. Len(is) = 1
            BY <4>1
          <6>3. QED
            BY <6>1, <6>2
        <5>2. \A i \in 1..Len(s) : (s \o is)[i] = s[i]
          BY <1>3, <1>8, Concat
        <5>3. (s \o is)[Len(s) + 1] = is[1]
          <6>1. 1 \in 1..Len(is)
            BY <4>1
          <6>2. QED
            BY <1>3, <1>8, <6>1, Concat
        <5>4. QED
          BY <4>1, <5>1, <5>2, <5>3
      <4>3. n = 0 \/ s[n].op # "ret"
        BY <1>3, <3>3 DEF EndsInRet
      <4> HIDE DEF n, t
      <4>4. EndsInRet(t)
        <5>1. t # << >>
          BY <4>2
        <5>2. QED
          BY <4>1, <4>2, <5>1 DEF EndsInRet
      <4>5. ASSUME NEW i \in 1..n PROVE Implied(code'[k], i)
        <5>1. Implied(code[k], i)
          BY <2>1, <2>3, <4>2 DEF s
        <5>2. t[i] = s[i] /\ (i # 1 => t[i - 1] = s[i - 1])
          BY <4>2
        <5>3. QED
          BY <1>5, <2>3, <3>1, <5>1, <5>2 DEF Implied, s, t
      <4>6. Implied(code'[k], n + 1)
        <5>1. n + 1 = 1 \/ t[(n + 1) - 1].op # "ret"
          BY <4>2, <4>3
        <5>2. QED
          BY <3>1, <4>1, <4>2, <5>1 DEF Implied, t
      <4>7. \A i \in 1..(n + 1) : i \in 1..n \/ i = n + 1
        BY <4>2
      <4>8. QED
        BY <3>1, <4>2, <4>4, <4>5, <4>6, <4>7 DEF t
    <3>4. QED
      BY <1>7, <3>2, <3>3
  <2>4. QED
    BY <2>2, <2>3
<1>14. QED
  BY <1>9, <1>10, <1>11, <1>12, <1>13 DEF FInv

LEMMA InitKeepsF == ASSUME Init PROVE FInv
<1>1. /\ env = << >> /\ globals = [n \in Names |-> NoVal] /\ functions = {} /\ phase = "top"
      /\ params = << >> /\ code = << >> /\ init = {} /\ made = 0 /\ items = 0 /\ declared = << >>
  BY DEF Init, Tbl!Init
<1>2. Table /\ Built /\ Returns
  BY <1>1 DEF Table, Built, Returns
<1>3. Budget
  BY <1>1, MiniCAssumption DEF Budget, Pending
<1>4. Listing /\ Holding
  BY <1>1 DEF Listing, Entering, InFunction, Holding
<1>5. QED
  BY <1>2, <1>3, <1>4 DEF FInv

LEMMA UnchangedKeepsF == ASSUME FInv, UNCHANGED vars PROVE FInv'
<1>1. UNCHANGED <<tool, env, globals, functions, phase, params, sig, code, init, made, items,
                  declared, blocks, sound>>
  BY DEF vars, table, ghosts
<1>2. Table' /\ Built' /\ Returns'
  BY <1>1 DEF FInv, Table, Built, InstOK, Returns, Finished, Implied, EndsInRet, Builder
<1>3. Budget'
  BY <1>1 DEF FInv, Budget, Pending, Stored, Builder
<1>4. Listing'
  BY <1>1 DEF FInv, Listing, Entering, InFunction, Builder, Node
<1>5. Holding'
  <2>1. Reached' = Reached /\ Stored' = Stored /\ \A i : Held(i)' <=> Held(i)
    BY <1>1 DEF Reached, Stored, Held, Builder
  <2>2. QED
    BY <1>1, <2>1 DEF FInv, Holding
<1>6. QED
  BY <1>2, <1>3, <1>4, <1>5 DEF FInv

LEMMA StepKeepsF == ASSUME IInv, IInv', FInv, Next PROVE FInv'
<1>1. CASE \E n \in Names : DeclareGlobal(n) \/ DeclareLocal(n)
  BY <1>1, DeclareGlobalKeepsF, DeclareLocalKeepsF
<1>2. CASE \E n \in Names \cup {NoName}, t \in ParamTypes[tool] : Param(n, t)
  BY <1>2, ParamKeepsF
<1>3. CASE \E f \in Names, t \in RetTypes[tool] : PushScope(f, t)
  BY <1>3, PushScopeKeepsF
<1>4. CASE AddFunction \/ StoreParam \/ BodyBegins \/ EndFunction
  BY <1>4, AddFunctionKeepsF, StoreParamKeepsF, BodyBeginsKeepsF, EndFunctionKeepsF
<1>5. CASE OpenBlock \/ CloseBlock
  BY <1>5, BlocksKeepF
<1>6. CASE \E n \in Names : Initializer(n) \/ Use(n) \/ Operand(n) \/ Assign(n)
  BY <1>6, InitializerKeepsF, MentionsKeepF, StatementsKeepF DEF Use, Operand
<1>7. CASE Literal \/ Return \/ ReturnExpr
  BY <1>7, StatementsKeepF
<1>8. QED
  BY <1>1, <1>2, <1>3, <1>4, <1>5, <1>6, <1>7 DEF Next

LEMMA FInvSound == ASSUME IInv, FInv PROVE FunctionsSound
<1>1. TypeOK
  <2>1. phase # "crashed" => (env = << >> <=> phase = "top")
    <3>1. phase = "building" => Len(env) = 1
      BY DEF IInv, Phases
    <3>2. phase \in {"building", "storing", "body"} => env # << >>
      BY <3>1 DEF IInv, Phases, InFunction
    <3>3. QED
      BY <3>2 DEF IInv, Phases
  <2>2. made <= items /\ items <= MaxItems
    <3>1. Pending \in Nat
      <4>1. phase = "storing" => Stored \in Nat /\ Stored <= Len(params)
        BY StoredIsNat, Zenon DEF IInv, Phases, InFunction, FInv, Holding
      <4>2. Len(params) \in Nat
        BY DEF IInv, Typed
      <4>3. QED
        BY <4>1, <4>2 DEF Pending
    <3>2. QED
      BY <3>1, MiniCAssumption DEF IInv, Typed, FInv, Budget
  <2>3. QED
    BY <2>1, <2>2 DEF IInv, FInv, Typed, Phases, Table, Built, Budget, TypeOK
<1>2. FunctionsAsDeclared
  <2> SUFFICES ASSUME phase = "body" PROVE FunctionsAsDeclared
    BY DEF FunctionsAsDeclared
  <2>1. /\ Len(code[Builder].types) = Len(declared)
        /\ \A i \in DOMAIN declared : code[Builder].types[i] = declared[i].type
    BY DEF FInv, Listing, InFunction
  <2>2. code[Builder].insts \in Seq(Inst)
    BY InBody, LastIs DEF IInv
  <2>3. \A j \in 1..(Len(code[Builder].insts) - 1) : j \in DOMAIN code[Builder].insts
    BY <2>2
  <2>4. \A i \in DOMAIN declared : Held(i)
    BY DEF FInv, Holding
  <2>5. ASSUME NEW i \in DOMAIN declared
        PROVE  \E j \in DOMAIN code[Builder].insts :
                  LET a == code[Builder].insts[j]  st == code[Builder].insts[j + 1] IN
                      /\ a.op = "alloca" /\ a.type = declared[i].type /\ a.name = declared[i].name
                      /\ st = Store(a.val, i)
                      /\ Declarations(code[Builder].insts, a.name) = {j} => env[1][a.name] = {a.val}
    <3>1. Held(i)
      BY <2>4
    <3>2. QED
      BY <2>3, <3>1, Zenon DEF Held
  <2>6. QED
    BY <2>1, <2>5, Zenon DEF FunctionsAsDeclared
<1>3. Terminated
  <2> SUFFICES ASSUME sound, NEW k \in DOMAIN code, NEW i \in DOMAIN code[k].insts,
                      code[k].insts[i].op = "ret", code[k].insts[i].how = "implicit"
               PROVE  /\ code[k].insts[i].type = code[k].ret
                      /\ ~EndsInRet(SubSeq(code[k].insts, 1, i - 1))
    BY DEF FInv, Returns, Terminated
  <2> DEFINE s == code[k].insts
             t == SubSeq(s, 1, i - 1)
  <2>1. s \in Seq(Inst)
    BY InstsTyped DEF IInv
  <2>2. s[i].type = code[k].ret /\ (i = 1 \/ s[i - 1].op # "ret")
    BY DEF FInv, Returns, Implied
  <2> HIDE DEF s
  <2>3. i \in Nat /\ i >= 1 /\ Len(t) = i - 1 /\ \A j \in 1..(i - 1) : t[j] = s[j]
    BY <2>1 DEF s
  <2>4. CASE i = 1
    <3>1. t = << >>
      BY <2>1, <2>3, <2>4
    <3>2. QED
      BY <2>2, <3>1 DEF EndsInRet, s
  <2>5. CASE i # 1
    <3>1. t[Len(t)] = s[i - 1] /\ s[i - 1].op # "ret"
      BY <2>2, <2>3, <2>5
    <3>2. QED
      BY <2>2, <3>1 DEF EndsInRet, s
  <2>6. QED
    BY <2>4, <2>5
<1>4. QED
  BY <1>1, <1>2, <1>3 DEF FunctionsSound

LEMMA Both == Spec => [](IInv /\ FInv)
<1>1. Init => IInv /\ FInv
  BY InitKeeps, InitKeepsF
<1>2. (IInv /\ FInv) /\ [Next]_vars => (IInv /\ FInv)'
  BY StepKeeps, UnchangedKeeps, StepKeepsF, UnchangedKeepsF
<1>3. QED
  BY <1>1, <1>2, PTL DEF Spec

\* Whichever way a parameter list is turned round, and however long: a function
\* has the types it was written with and the i-th name is where the i-th
\* argument is stored; a finished one ends in a return, and the end of the rule
\* adds one of the function's type where there is none.
THEOREM FunctionsThm == Spec => []FunctionsSound
<1>1. IInv /\ FInv => FunctionsSound
  BY FInvSound
<1>2. QED
  BY <1>1, Both, PTL

\* A name that is read is found, and a value that is returned is no garbage.
LEMMA CrashPlaces ==
    ASSUME IInv, FInv, Next, sound', phase # "crashed", phase' = "crashed"
    PROVE  \/ phase = "storing" /\ declared = NoParameters
           \/ ReturnExpr /\ tool = "p2cpp" /\ value = Constant
<1>1. ASSUME NEW n \in Names, Reads(n), phase = "body", sound, Meant(n) # NoVal PROVE FALSE
  BY <1>1, ReadsAppend
<1>2. ~\E n \in Names : Initializer(n) \/ Mentions(n)
  BY <1>1 DEF Initializer, Mentions
<1>3. CASE StoreParam
  <2> DEFINE i == IF tool = "p2" THEN Len(params) - Stored ELSE Stored + 1
  <2>1. phase = "storing" /\ Stored < Len(params) /\ sound /\ Node(i).name = NoName
    BY <1>3 DEF StoreParam
  <2>2. code # << >> /\ params \in Seq(ParamType)
    BY <2>1, Zenon DEF IInv, Phases, InFunction, Typed
  <2>3. Stored \in Nat
    BY <2>2, StoredIsNat DEF IInv
  <2>4. Len(params) + 1 - i \in DOMAIN params
    <3>1. Len(params) \in Nat /\ DOMAIN params = 1..Len(params)
      BY <2>2
    <3>2. i \in 1..Len(params)
      BY <2>1, <2>3, <3>1
    <3> HIDE DEF i
    <3>3. QED
      BY <3>1, <3>2
  <2>5. params = NoParameters
    BY <2>1, <2>4 DEF IInv, Agree, InC, Node
  <2>6. /\ declared \in Seq(ParamType) /\ Len(declared) = Len(params)
        /\ \A j \in DOMAIN declared : declared[j] = Node(j)
    BY <2>1 DEF FInv, Listing, Entering
  <2>7. Len(params) = 1
    BY <2>5 DEF NoParameters
  <2>8. declared[1] = params[1] /\ DOMAIN declared = 1..1
    BY <2>6, <2>7 DEF Node
  <2>9. declared = NoParameters
    BY <2>5, <2>6, <2>7, <2>8 DEF NoParameters
  <2>10. QED
    BY <2>1, <2>9
<1>4. CASE ReturnExpr
  <2>1. tool = "p2cpp" /\ value.kind \in {"constant", "garbage"} /\ sound
    BY <1>4 DEF ReturnExpr, IInv, Typed, Tools
  <2>2. QED
    BY <1>4, <2>1 DEF IInv, Agree, Legible
<1>5. /\ \A n \in Names : ~DeclareGlobal(n) /\ ~DeclareLocal(n) /\ ~Assign(n)
      /\ \A n, t : ~Param(n, t) /\ ~PushScope(n, t)
      /\ ~AddFunction /\ ~BodyBegins /\ ~EndFunction /\ ~OpenBlock /\ ~CloseBlock
      /\ ~Literal /\ ~Return
  BY DEF DeclareGlobal, DeclareLocal, Assign, Param, PushScope, AddFunction, BodyBegins,
         EndFunction, OpenBlock, CloseBlock, Literal, Return
<1>6. QED
  BY <1>2, <1>3, <1>4, <1>5 DEF Next, Use, Operand

\* Neither tool crashes on a text that keeps to C and declares what it uses,
\* but p2 at the parameters (void), and p2cpp where it may at the return of an
\* expression that begins with a constant or an operator without a rule.
THEOREM AcceptsThm == Spec => AcceptsC
<1> DEFINE Two == \/ phase = "storing" /\ declared = NoParameters
                  \/ ReturnExpr /\ tool = "p2cpp" /\ value = Constant
           Accepts == sound' /\ phase # "crashed" /\ phase' = "crashed" => Two
<1>1. ASSUME IInv, FInv, Next PROVE Accepts
  BY <1>1, CrashPlaces
<1>2. IInv /\ FInv /\ [Next]_vars => [Accepts]_vars
  BY <1>1
<1>3. QED
  BY <1>2, Both, PTL DEF Spec, AcceptsC
=============================================================================
