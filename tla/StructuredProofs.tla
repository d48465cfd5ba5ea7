-------------------------- MODULE StructuredProofs --------------------------
(***************************************************************************)
(* Programs of every length and nesting, through both code generators: the *)
(* function that is written is whole and does what the program says;       *)
(* expressions of every length through the translators: their code means   *)
(* what the input says; and inputs of every length through the             *)
(* calculator's tables.                                                    *)
(*                                                                         *)
(* The invariant SInv is TypeOK, Shape (the blocks behind the open         *)
(* statements are all different and none is the one being written),        *)
(* Regular (the finished blocks are those with a terminator, which comes   *)
(* last, and branches stay in the function), Linked (every block but the   *)
(* first is the target of a finished one made before it) and Executing.    *)
(* Regular is BlocksEnd; that every block is reached follows from Linked,  *)
(* by induction over the number of the block.                              *)
(*                                                                         *)
(* That of the refinement is SInv and XInv: Nested (what is open is what   *)
(* the statements so far leave open, and the blocks behind it are empty),  *)
(* Wired (every instruction is that of its statement, and what follows it  *)
(* is the instruction of the statement that comes next) and Stored (the    *)
(* slots are those of the variables assigned before the statement).        *)
(*                                                                         *)
(* That of the translators is EInv: Counted and, for the tool that prints, *)
(* Printing (registers in use hold what their expressions mean) or, for    *)
(* those that build, Composing (operands denote it).                       *)
(*                                                                         *)
(* That of the calculator is CInv: the stack is a path of the automaton,   *)
(* bounded by the state on top where nothing is open (Stacks); that state  *)
(* says what the last token was (Place), and the stack what is open in the *)
(* line (Nesting, Openers); what was shifted might follow, what is         *)
(* complained of might not (Followed, Refused).                            *)
(***************************************************************************)
EXTENDS Structured, Expressions, Calculator, FiniteSetTheorems, WellFoundedInduction, TLAPS

Building == phase \in {"parse", "head", "error", "crashed"}

Shape ==
    /\ \A k \in DOMAIN open :
          /\ open[k].join \in (DOMAIN code \ {cur}) \cup {0}
          /\ open[k].join = 0 => k = Len(open) /\ phase # "parse"
          /\ open[k].t = "while" => open[k].cond \in DOMAIN code
          /\ \A j \in DOMAIN open : open[j].join = open[k].join => j = k
    /\ phase = "head" => open # <<>> /\ Top.t = "while" /\ Top.join = 0
    /\ ~Building => open = <<>>

\* The same for any sequence of blocks c, of which those of P are unfinished.
EndsAt(c, b) == c[b] # <<>> /\ Terminator(c[b][Len(c[b])])

Regular(c, P) ==
    /\ \A b \in DOMAIN c : EndsAt(c, b) <=> b \notin P
    /\ \A b \in DOMAIN c : \A i \in DOMAIN c[b] :
          /\ Terminator(c[b][i]) => i = Len(c[b])
          /\ Targets(c[b][i]) \subseteq DOMAIN c

Linked(c) ==
    \A b \in DOMAIN c \ {1} : \E p \in DOMAIN c :
        p < b /\ EndsAt(c, p) /\ b \in Targets(c[p][Len(c[p])])

Executing ==
    /\ phase = "run" => at[1] \in DOMAIN code /\ at[2] \in DOMAIN code[at[1]]
    /\ bc = "written" <=> phase \in {"run", "returned", "undefined"}

Unfinished == IF Building THEN Pending ELSE {}

SInv == TypeOK /\ Shape /\ Regular(code, Unfinished) /\ Linked(code) /\ Executing

-----------------------------------------------------------------------------
\* Blocks, and what is appended to them.

LEMMA Concat ==
    ASSUME NEW X, NEW s \in Seq(X), NEW t \in Seq(X)
    PROVE  /\ s \o t \in Seq(X) /\ Len(s) \in Nat /\ Len(t) \in Nat
           /\ Len(s \o t) = Len(s) + Len(t)
           /\ DOMAIN s = 1..Len(s) /\ DOMAIN t = 1..Len(t)
           /\ DOMAIN (s \o t) = 1..(Len(s) + Len(t))
           /\ \A i \in 1..Len(s) : (s \o t)[i] = s[i] /\ s[i] \in X
           /\ \A i \in 1..Len(t) : (s \o t)[Len(s) + i] = t[i] /\ t[i] \in X
  OBVIOUS

\* d is c with is appended at block k and n empty blocks behind it.
Grown(c, k, is, n, d) == d = [c EXCEPT ![k] = @ \o is] \o [i \in 1..n |-> <<>>]

Written(c, k, is, n, d) ==
    /\ Len(c) \in Nat /\ DOMAIN c = 1..Len(c)
    /\ Len(d) = Len(c) + n /\ DOMAIN d = 1..(Len(c) + n)
    /\ d[k] = c[k] \o is
    /\ \A b \in DOMAIN c \ {k} : d[b] = c[b]
    /\ \A b \in DOMAIN d \ DOMAIN c : d[b] = <<>>

LEMMA GrownIs ==
    ASSUME NEW c \in Seq(Seq(InstrType)), NEW k \in DOMAIN c, NEW is \in Seq(InstrType),
           NEW n \in Nat, NEW d, Grown(c, k, is, n, d)
    PROVE  d \in Seq(Seq(InstrType)) /\ c[k] \in Seq(InstrType) /\ Written(c, k, is, n, d)
<1> DEFINE e == [c EXCEPT ![k] = @ \o is]
           f == [i \in 1..n |-> <<>>]
<1>1. c[k] \in Seq(InstrType) /\ c[k] \o is \in Seq(InstrType)
  <2>1. c[k] \in Seq(InstrType)
    OBVIOUS
  <2>2. QED
    BY <2>1, Concat
<1>2. e \in Seq(Seq(InstrType)) /\ Len(e) = Len(c) /\ e[k] = c[k] \o is
      /\ \A b \in DOMAIN c \ {k} : e[b] = c[b]
  BY <1>1
<1>3. f \in Seq(Seq(InstrType)) /\ Len(f) = n /\ \A i \in 1..n : f[i] = <<>>
  <2>1. <<>> \in Seq(InstrType)
    OBVIOUS
  <2>2. f \in [1..n -> Seq(InstrType)]
    BY <2>1
  <2>3. QED
    BY <2>2
<1> HIDE DEF e, f
<1>4. d = e \o f
  BY DEF Grown, e, f
<1>5. /\ d \in Seq(Seq(InstrType)) /\ Len(d) = Len(e) + Len(f) /\ DOMAIN d = 1..(Len(e) + Len(f))
      /\ \A i \in 1..Len(e) : d[i] = e[i]
      /\ \A i \in 1..Len(f) : d[Len(e) + i] = f[i]
  <2>0. e \in Seq(Seq(InstrType)) /\ f \in Seq(Seq(InstrType))
    BY <1>2, <1>3
  <2>1. /\ e \o f \in Seq(Seq(InstrType)) /\ Len(e \o f) = Len(e) + Len(f)
        /\ DOMAIN (e \o f) = 1..(Len(e) + Len(f))
        /\ \A i \in 1..Len(e) : (e \o f)[i] = e[i]
        /\ \A i \in 1..Len(f) : (e \o f)[Len(e) + i] = f[i]
    BY <2>0, Concat
  <2>2. QED
    BY <1>4, <2>1
<1>6. Len(c) \in Nat /\ DOMAIN c = 1..Len(c)
  OBVIOUS
<1>7. ASSUME NEW b \in DOMAIN d \ DOMAIN c PROVE d[b] = <<>>
  <2>1. b - Len(c) \in 1..n /\ Len(c) + (b - Len(c)) = b
    <3>1. b \in 1..(Len(c) + n) /\ b \notin 1..Len(c) /\ Len(c) \in Nat
      BY <1>2, <1>3, <1>5, <1>6
    <3>2. QED
      BY <3>1
  <2>2. QED
    BY <1>2, <1>3, <1>5, <2>1, ZenonT(60)
<1>8. \A b \in DOMAIN c : d[b] = e[b]
  BY <1>2, <1>5, <1>6
<1>9. QED
  BY <1>1, <1>2, <1>3, <1>5, <1>6, <1>7, <1>8 DEF Written

\* Instructions that end nothing, at an unfinished block.
LEMMA PlainKept ==
    ASSUME NEW c \in Seq(Seq(InstrType)), NEW k \in DOMAIN c, NEW is \in Seq(InstrType),
           c[k] \in Seq(InstrType), NEW d, Written(c, k, is, 0, d), NEW P, k \in P,
           Regular(c, P), Linked(c),
           \A i \in DOMAIN is : ~Terminator(is[i]) /\ Targets(is[i]) = {}
    PROVE  Regular(d, P) /\ Linked(d) /\ DOMAIN d = DOMAIN c
<1>1. /\ DOMAIN d = DOMAIN c
      /\ d[k] = c[k] \o is /\ c[k] \in Seq(InstrType) /\ \A b \in DOMAIN c \ {k} : d[b] = c[b]
  BY DEF Written
<1>2. ~EndsAt(c, k)
  BY DEF Regular
<1> DEFINE s == c[k]
           t == d[k]
<1>3. /\ Len(s) \in Nat /\ Len(is) \in Nat /\ Len(t) = Len(s) + Len(is)
      /\ DOMAIN s = 1..Len(s) /\ DOMAIN is = 1..Len(is) /\ DOMAIN t = 1..(Len(s) + Len(is))
      /\ \A i \in 1..Len(s) : t[i] = s[i]
      /\ \A i \in 1..Len(is) : t[Len(s) + i] = is[i]
      /\ t \in Seq(InstrType)
  BY <1>1, Concat
<1>4. \A i \in DOMAIN s : ~Terminator(s[i]) /\ Targets(s[i]) \subseteq DOMAIN c
  <2>1. ASSUME NEW i \in DOMAIN s, Terminator(s[i]) PROVE FALSE
    <3>1. i = Len(s)
      BY <2>1 DEF Regular
    <3>2. QED
      BY <1>2, <1>3, <2>1, <3>1 DEF EndsAt
  <2>2. QED
    BY <2>1 DEF Regular
<1> HIDE DEF s, t
<1>5. \A i \in DOMAIN t : ~Terminator(t[i]) /\ Targets(t[i]) \subseteq DOMAIN c
  <2> TAKE i \in DOMAIN t
  <2>1. CASE i <= Len(s)
    BY <1>3, <1>4, <2>1
  <2>2. CASE i > Len(s)
    <3>1. i - Len(s) \in 1..Len(is) /\ Len(s) + (i - Len(s)) = i
      BY <1>3, <2>2
    <3>2. QED
      BY <1>3, <3>1
  <2>3. QED
    BY <1>3, <2>1, <2>2
<1>6. ~EndsAt(d, k)
  <2>1. ASSUME t # <<>> PROVE Len(t) \in DOMAIN t
    BY <1>3, <2>1
  <2>2. QED
    BY <1>5, <2>1 DEF EndsAt, t
<1>7. \A b \in DOMAIN c \ {k} : EndsAt(d, b) <=> EndsAt(c, b)
  BY <1>1 DEF EndsAt
<1>8. Regular(d, P)
  BY <1>1, <1>5, <1>6, <1>7 DEF Regular, t
<1>9. Linked(d)
  BY <1>1, <1>2, <1>7 DEF Linked
<1>10. QED
  BY <1>1, <1>8, <1>9

\* A terminator, at an unfinished block: new blocks are where it goes to.
LEMMA EndKept ==
    ASSUME NEW c \in Seq(Seq(InstrType)), NEW k \in DOMAIN c, NEW x \in InstrType, NEW n \in Nat,
           NEW is \in Seq(InstrType), is = <<x>>, c[k] \in Seq(InstrType), NEW d, Written(c, k, is, n, d), NEW P, k \in P, P \subseteq DOMAIN c,
           Regular(c, P), Linked(c), Terminator(x), Targets(x) \subseteq DOMAIN d,
           DOMAIN d \ DOMAIN c \subseteq Targets(x)
    PROVE  /\ Regular(d, (P \ {k}) \cup (DOMAIN d \ DOMAIN c)) /\ Linked(d)
           /\ DOMAIN c = 1..Len(c) /\ DOMAIN d = 1..(Len(c) + n) /\ Len(c) \in Nat
<1>1. /\ Len(c) \in Nat /\ DOMAIN c = 1..Len(c) /\ DOMAIN d = 1..(Len(c) + n)
      /\ d[k] = c[k] \o is /\ c[k] \in Seq(InstrType) /\ \A b \in DOMAIN c \ {k} : d[b] = c[b]
      /\ \A b \in DOMAIN d \ DOMAIN c : d[b] = <<>>
  BY DEF Written
<1>2. ~EndsAt(c, k)
  BY DEF Regular
<1> DEFINE s == c[k]
           t == d[k]
<1>3. /\ Len(s) \in Nat /\ Len(t) = Len(s) + 1 /\ t # <<>>
      /\ DOMAIN s = 1..Len(s) /\ DOMAIN t = 1..(Len(s) + 1)
      /\ \A i \in 1..Len(s) : t[i] = s[i]
      /\ t[Len(s) + 1] = x
  <2>1. /\ Len(s) \in Nat /\ Len(t) = Len(s) + Len(is)
        /\ DOMAIN s = 1..Len(s) /\ DOMAIN t = 1..(Len(s) + Len(is))
        /\ \A i \in 1..Len(s) : t[i] = s[i]
        /\ \A i \in 1..Len(is) : t[Len(s) + i] = is[i]
    BY <1>1, Concat
  <2>2. Len(is) = 1 /\ is[1] = x
    OBVIOUS
  <2>3. 1 \in 1..Len(is)
    BY <2>2
  <2>4. t # <<>>
    BY <2>1, <2>2
  <2>5. QED
    BY <2>1, <2>2, <2>3, <2>4
<1>4. \A i \in DOMAIN s : ~Terminator(s[i]) /\ Targets(s[i]) \subseteq DOMAIN c
  <2>1. ASSUME NEW i \in DOMAIN s, Terminator(s[i]) PROVE FALSE
    <3>1. i = Len(s)
      BY <2>1 DEF Regular
    <3>2. QED
      BY <1>2, <1>3, <2>1, <3>1 DEF EndsAt
  <2>2. QED
    BY <2>1 DEF Regular
<1> HIDE DEF s, t
<1>5. DOMAIN c \subseteq DOMAIN d /\ Len(s) + 1 = Len(t)
  BY <1>1, <1>3
<1>6. \A i \in DOMAIN t : /\ Terminator(t[i]) => i = Len(t)
                          /\ Targets(t[i]) \subseteq DOMAIN d
  <2> TAKE i \in DOMAIN t
  <2>1. CASE i \in DOMAIN s
    BY <1>3, <1>4, <1>5, <2>1
  <2>2. CASE i = Len(s) + 1
    BY <1>3, <1>5, <2>2
  <2>3. QED
    BY <1>3, <2>1, <2>2
<1>7. EndsAt(d, k)
  BY <1>3, <1>5 DEF EndsAt, t
<1>8. /\ \A b \in DOMAIN c \ {k} : EndsAt(d, b) <=> EndsAt(c, b)
      /\ \A b \in DOMAIN d \ DOMAIN c : ~EndsAt(d, b)
  BY <1>1 DEF EndsAt
<1>9. Regular(d, (P \ {k}) \cup (DOMAIN d \ DOMAIN c))
  <2>1. \A b \in DOMAIN d :
            EndsAt(d, b) <=> b \notin (P \ {k}) \cup (DOMAIN d \ DOMAIN c)
    BY <1>7, <1>8 DEF Regular
  <2>2. ASSUME NEW b \in DOMAIN d, NEW i \in DOMAIN d[b]
        PROVE  (Terminator(d[b][i]) => i = Len(d[b])) /\ Targets(d[b][i]) \subseteq DOMAIN d
    <3>1. CASE b = k
      BY <1>6, <3>1 DEF t
    <3>2. CASE b \in DOMAIN c \ {k}
      BY <1>1, <1>5, <3>2 DEF Regular
    <3>3. CASE b \notin DOMAIN c
      BY <1>1, <3>3
    <3>4. QED
      BY <3>1, <3>2, <3>3
  <2>3. QED
    BY <2>1, <2>2 DEF Regular
<1>10. Linked(d)
  <2> SUFFICES ASSUME NEW b \in DOMAIN d \ {1}
               PROVE  \E p \in DOMAIN d :
                         p < b /\ EndsAt(d, p) /\ b \in Targets(d[p][Len(d[p])])
    BY DEF Linked
  <2>1. CASE b \in DOMAIN c
    <3>1. PICK p \in DOMAIN c : p < b /\ EndsAt(c, p) /\ b \in Targets(c[p][Len(c[p])])
      BY <2>1 DEF Linked
    <3>2. p # k
      BY <1>2, <3>1
    <3>3. QED
      BY <1>1, <1>5, <1>8, <3>1, <3>2
  <2>2. CASE b \notin DOMAIN c
    <3>1. k < b /\ k \in DOMAIN d
      BY <1>1, <2>2
    <3>2. d[k][Len(d[k])] = x
      BY <1>3, <1>5 DEF t
    <3>3. QED
      BY <1>7, <2>2, <3>1, <3>2
  <2>3. QED
    BY <2>1, <2>2
<1>11. QED
  BY <1>1, <1>9, <1>10

-----------------------------------------------------------------------------
\* Recursive definitions.

\* Positions and blocks: a set of numbers that is not empty has a least one.
Below == {p \in Nat \X Nat : p[1] < p[2]}

LEMMA Smallest ==
    ASSUME NEW T \in SUBSET Nat, T # {}
    PROVE  \E x \in T : \A y \in T : x <= y
<1>1. IsWellFoundedOn(Below, Nat)
  BY NatLessThanWellFounded, Zenon DEF OpToRel, Below
<1>2. PICK x \in T : \A y \in T : <<y, x>> \notin Below
  BY <1>1, WFMin, Zenon
<1>3. \A i, j \in Nat : <<i, j>> \in Below <=> i < j
  BY DEF Below
<1>4. ASSUME NEW y \in T PROVE x <= y
  <2>1. x \in Nat /\ y \in Nat
    OBVIOUS
  <2>2. ~(y < x)
    BY <1>2, <1>3, <2>1
  <2>3. QED
    BY <2>1, <2>2
<1>5. QED
  BY <1>4

\* Induction, over a set of numbers.
LEMMA Induction ==
    ASSUME NEW S, 0 \in S, \A k \in Nat : k \in S => k + 1 \in S
    PROVE  Nat \subseteq S
<1> DEFINE T == Nat \ S
<1>1. SUFFICES ASSUME T # {} PROVE FALSE
  OBVIOUS
<1>2. PICK x \in T : \A y \in T : x <= y
  BY <1>1, Smallest
<1>3. x \in Nat /\ x # 0
  OBVIOUS
<1>4. x - 1 \in Nat /\ x - 1 \notin T
  BY <1>2, <1>3
<1>5. (x - 1) + 1 \in S
  BY <1>4
<1>6. QED
  BY <1>3, <1>5

\* Recursion: the value at k is what h makes of the one before.
Recursive(f, n, a, h) ==
    f = [k \in 0..n |-> IF k = 0 THEN a ELSE h[k][f[k - 1]]]

LEMMA Recursion ==
    ASSUME NEW X, NEW a \in X, NEW n \in Nat, NEW h \in [1..n -> [X -> X]]
    PROVE  \E f \in [0..n -> X] : Recursive(f, n, a, h)
<1> DEFINE S == {m \in Nat : m <= n => \E f \in [0..m -> X] : Recursive(f, m, a, h)}
<1>1. 0 \in S
  <2>1. [k \in 0..0 |-> a] \in [0..0 -> X]
    OBVIOUS
  <2>2. Recursive([k \in 0..0 |-> a], 0, a, h)
    BY DEF Recursive
  <2>3. QED
    BY <2>1, <2>2
<1>2. ASSUME NEW m \in Nat, m \in S PROVE m + 1 \in S
  <2> SUFFICES ASSUME m + 1 <= n PROVE \E f \in [0..(m+1) -> X] : Recursive(f, m + 1, a, h)
    OBVIOUS
  <2>1. PICK f \in [0..m -> X] : Recursive(f, m, a, h)
    BY <1>2
  <2> DEFINE v == h[m + 1][f[m]]
             e == [k \in 0..(m + 1) |-> IF k = m + 1 THEN v ELSE f[k]]
  <2>2. v \in X
    BY <2>1
  <2>3. e \in [0..(m + 1) -> X]
    BY <2>1, <2>2
  <2>4. ASSUME NEW k \in 0..(m + 1)
        PROVE  e[k] = IF k = 0 THEN a ELSE h[k][e[k - 1]]
    <3>1. CASE k = m + 1
      <4>1. e[k] = v /\ k - 1 = m /\ e[k - 1] = f[m] /\ k # 0
        BY <3>1
      <4>2. QED
        BY <3>1, <4>1
    <3>2. CASE k # m + 1
      <4>1. k \in 0..m /\ e[k] = f[k]
        BY <3>2
      <4>2. f[k] = IF k = 0 THEN a ELSE h[k][f[k - 1]]
        BY <2>1, <4>1 DEF Recursive
      <4>3. k # 0 => e[k - 1] = f[k - 1]
        BY <4>1
      <4>4. QED
        BY <4>1, <4>2, <4>3
    <3>3. QED
      BY <3>1, <3>2
  <2>5. Recursive(e, m + 1, a, h)
    BY <2>4 DEF Recursive
  <2>6. QED
    BY <2>3, <2>5
<1>3. n \in S
  BY <1>1, <1>2, Induction
<1>4. QED
  BY <1>3

\* Where a block that ends can go next.
GoesTo(c, b) == Targets(c[b][Len(c[b])])

LEMMA ReachedAll ==
    ASSUME code \in Seq(Seq(InstrType)), code # <<>>, Regular(code, {}), Linked(code)
    PROVE  Reached[Len(code)] = DOMAIN code
<1> DEFINE L == Len(code)
           X == SUBSET DOMAIN code
           Go(R) == R \cup UNION {GoesTo(code, b) : b \in R}
           h == [k \in 1..L |-> [R \in X |-> Go(R)]]
           Def(f) == [n \in 0..L |-> IF n = 0 THEN {1} ELSE Go(f[n - 1])]
           F == CHOOSE f : f = Def(f)
<1>1. L \in Nat /\ DOMAIN code = 1..L /\ L # 0
  OBVIOUS
<1>2. \A b \in DOMAIN code : EndsAt(code, b)
  BY DEF Regular
<1>3. ASSUME NEW b \in DOMAIN code PROVE GoesTo(code, b) \subseteq DOMAIN code
  <2>1. code[b] \in Seq(InstrType) /\ code[b] # <<>>
    BY <1>2 DEF EndsAt
  <2>2. Len(code[b]) \in DOMAIN code[b]
    BY <2>1
  <2>3. QED
    BY <2>2 DEF Regular, GoesTo
<1>4. \A R \in X : Go(R) \in X
  BY <1>3
<1>5. {1} \in X
  BY <1>1
<1>6. h \in [1..L -> [X -> X]] /\ \A k \in 1..L : \A R \in X : h[k][R] = Go(R)
  BY <1>4
<1> HIDE DEF X, h, Go, L
<1>7. PICK f \in [0..L -> X] : Recursive(f, L, {1}, h)
  BY <1>1, <1>5, <1>6, Recursion
<1>8. f = Def(f)
  <2>1. \A n \in 0..L : n # 0 => n - 1 \in 0..L /\ n \in 1..L /\ f[n - 1] \in X
    BY <1>1, <1>7
  <2>2. \A n \in 0..L : n # 0 => h[n][f[n - 1]] = Go(f[n - 1])
    BY <1>6, <2>1
  <2>3. QED
    BY <1>7, <2>2 DEF Recursive
<1>9. F = Def(F)
  BY <1>8
<1>10. Reached = F
  BY DEF Reached, GoesTo, Go, L
<1> HIDE DEF F
<1>11. F[0] = {1} /\ \A n \in 1..L : F[n] = Go(F[n - 1])
  <2>1. \A n \in 1..L : n \in 0..L /\ n # 0
    BY <1>1
  <2>2. 0 \in 0..L
    BY <1>1
  <2>3. QED
    BY <1>9, <2>1, <2>2
<1> DEFINE Right(n) == F[n] \in X /\ \A b \in DOMAIN code : b <= n + 1 => b \in F[n]
           S == {n \in Nat : n <= L => Right(n)}
<1>12. 0 \in S
  <2>1. \A b \in DOMAIN code : b <= 0 + 1 => b = 1
    BY <1>1
  <2>2. QED
    BY <1>5, <1>11, <2>1
<1>13. ASSUME NEW n \in Nat, n \in S PROVE n + 1 \in S
  <2> SUFFICES ASSUME n + 1 <= L PROVE Right(n + 1)
    OBVIOUS
  <2>1. Right(n) /\ n + 1 \in 1..L /\ (n + 1) - 1 = n
    BY <1>1, <1>13
  <2>2. F[n + 1] = Go(F[n])
    BY <1>11, <2>1
  <2>3. F[n + 1] \in X
    BY <1>4, <2>1, <2>2 DEF X, Go
  <2>4. ASSUME NEW b \in DOMAIN code, b <= (n + 1) + 1 PROVE b \in F[n + 1]
    <3>1. CASE b <= n + 1
      BY <2>1, <2>2, <3>1 DEF Go
    <3>2. CASE ~(b <= n + 1)
      <4>1. b # 1
        BY <3>2
      <4>2. PICK p \in DOMAIN code : p < b /\ b \in GoesTo(code, p)
        BY <4>1 DEF Linked, GoesTo
      <4>3. p <= n + 1
        BY <1>1, <2>4, <4>2
      <4>4. QED
        BY <2>1, <2>2, <4>2, <4>3 DEF Go
    <3>3. QED
      BY <3>1, <3>2
  <2>5. QED
    BY <2>3, <2>4
<1>14. L \in S
  BY <1>1, <1>12, <1>13, Induction
<1>15. F[L] = DOMAIN code
  <2>1. Right(L)
    BY <1>1, <1>14
  <2>2. \A b \in DOMAIN code : b <= L + 1
    BY <1>1
  <2>3. QED
    BY <2>1, <2>2 DEF X
<1>16. QED
  BY <1>10, <1>15 DEF L

-----------------------------------------------------------------------------
\* Types of statements, values and instructions.

LEMMA TokenIs ==
    ASSUME Src!SourceAssumption, NEW tok \in Tokens
    PROVE  /\ tok.t = "assign" => tok.var \in Vars /\ tok.val \in Src!Exprs
           /\ tok.t \in {"if", "while", "return"} => tok.val \in Src!Exprs
<1>1. tok \in Src!TokenType
  BY DEF Src!SourceAssumption
<1>2. CASE tok \in [t : {"assign"}, var : Vars, val : Src!Exprs]
  BY <1>2
<1>3. CASE tok \in [t : {"if", "while", "return"}, val : Src!Exprs]
  BY <1>3
<1>4. CASE tok \in [t : {"end", "semi"}]
  BY <1>4
<1>5. QED
  BY <1>1, <1>2, <1>3, <1>4 DEF Src!TokenType

LEMMA GenTyped == ASSUME NEW e \in Src!Exprs PROVE Gen(e) \in Src!Exprs
  BY DEF Gen, Src!Exprs, Src!Ops

Memory == [Vars -> Src!Values \cup {-1}]

LEMMA Arithmetic ==
    ASSUME Src!SourceAssumption, NEW u \in Int, NEW w \in Int
    PROVE  /\ (u + w) % Modulus \in Src!Values /\ (u - w) % Modulus \in Src!Values
           /\ (u * w) % Modulus \in Src!Values /\ (0 - u) % Modulus \in Src!Values
           /\ 0 \in Src!Values /\ 1 \in Src!Values
<1>1. Modulus \in Nat /\ Modulus > 1 /\ Src!Values = 0..(Modulus - 1)
  BY DEF Src!SourceAssumption, Src!Values
<1>2. \A x \in Int : x % Modulus \in 0..(Modulus - 1)
  BY <1>1
<1>3. u + w \in Int /\ u - w \in Int /\ u * w \in Int /\ 0 - u \in Int
  OBVIOUS
<1>4. \A x \in Int : x % Modulus \in Src!Values
  BY <1>1, <1>2
<1>5. 0 \in Src!Values /\ 1 \in Src!Values
  BY <1>1
<1>6. QED
  BY <1>3, <1>4, <1>5, Zenon

LEMMA EvalTyped ==
    ASSUME Src!SourceAssumption, NEW e \in Src!Exprs, NEW m \in Memory
    PROVE  Src!Eval(e, m) \in Src!Values \cup {-1}
<1> DEFINE V == Src!Values \cup {-1}
<1>1. ASSUME NEW l \in Src!Leaf PROVE Src!LeafValue(l, m) \in V
  <2>1. CASE l \in [imm : Src!Values]
    BY <2>1 DEF Src!LeafValue
  <2>2. CASE l \in [id : Vars]
    <3>1. DOMAIN l = {"id"} /\ l.id \in Vars
      BY <2>2
    <3>2. "imm" \notin DOMAIN l
      BY <3>1
    <3>3. QED
      BY <3>1, <3>2 DEF Src!LeafValue, Memory
  <2>3. QED
    BY <2>1, <2>2 DEF Src!Leaf
<1>2. e.a \in Src!Leaf /\ e.b \in Src!Leaf /\ e.op \in Src!Ops
  BY DEF Src!Exprs
<1> DEFINE u == Src!LeafValue(e.a, m)
           w == Src!LeafValue(e.b, m)
<1>3. u \in V /\ w \in V
  BY <1>1, <1>2
<1>4. V \subseteq Int
  BY DEF Src!Values, Src!SourceAssumption
<1> HIDE DEF u, w, V
<1>5. u \in Int /\ w \in Int
  BY <1>3, <1>4
<1>6. /\ (u + w) % Modulus \in V /\ (u - w) % Modulus \in V
      /\ (u * w) % Modulus \in V /\ (0 - u) % Modulus \in V
      /\ 0 \in V /\ 1 \in V
  BY <1>5, Arithmetic DEF V
<1>7. Src!Apply(e.op, u, w) \in V
  BY <1>2, <1>3, <1>6 DEF Src!Apply, Src!Ops
<1>8. QED
  BY <1>7 DEF Src!Eval, u, w, V

LEMMA InstrTyped ==
    ASSUME NEW n \in Nat, NEW v \in Vars, NEW e \in Src!Exprs, NEW a \in Nat, NEW b \in Nat
    PROVE  /\ [op |-> "alloca", var |-> v, loc |-> n] \in InstrType
           /\ [op |-> "store", var |-> v, val |-> e, loc |-> n] \in InstrType
           /\ [op |-> "br", to |-> a, loc |-> n] \in InstrType
           /\ [op |-> "condbr", val |-> e, then |-> a, else |-> b, loc |-> n] \in InstrType
           /\ [op |-> "ret", val |-> e, loc |-> n] \in InstrType
  BY DEF InstrType

LEMMA InstrIs ==
    ASSUME NEW x \in InstrType
    PROVE  /\ x.op = "alloca" => x.var \in Vars
           /\ x.op = "store" => x.var \in Vars /\ x.val \in Src!Exprs
           /\ x.op \in {"condbr", "ret"} => x.val \in Src!Exprs
<1>1. CASE x \in [op : {"alloca"}, var : Vars, loc : Nat]
  BY <1>1
<1>2. CASE x \in [op : {"store"}, var : Vars, val : Src!Exprs, loc : Nat]
  BY <1>2
<1>3. CASE x \in [op : {"br"}, to : Nat, loc : Nat]
  BY <1>3
<1>4. CASE x \in [op : {"condbr"}, val : Src!Exprs, then : Nat, else : Nat, loc : Nat]
  BY <1>4
<1>5. CASE x \in [op : {"ret"}, val : Src!Exprs, loc : Nat]
  BY <1>5
<1>6. QED
  BY <1>1, <1>2, <1>3, <1>4, <1>5 DEF InstrType

LEMMA Emits ==
    ASSUME TypeOK, NEW is \in Seq(InstrType), NEW n \in Nat, code' = Emitted(is, n)
    PROVE  /\ code' \in Seq(Seq(InstrType)) /\ code[cur] \in Seq(InstrType)
           /\ Written(code, cur, is, n, code')
           /\ Len(code) \in Nat /\ DOMAIN code = 1..Len(code) /\ cur \in DOMAIN code
<1>1. code \in Seq(Seq(InstrType)) /\ cur \in DOMAIN code
  BY DEF TypeOK
<1>2. Grown(code, cur, is, n, code')
  BY DEF Emitted, Grown
<1>3. QED
  BY <1>1, <1>2, GrownIs

-----------------------------------------------------------------------------
\* The invariant, at first and in every step.

LEMMA InitS == ASSUME Src!SourceAssumption, Init PROVE SInv
<1>1. << <<>> >> \in Seq(Seq(InstrType)) /\ Len(<< <<>> >>) = 1 /\ << <<>> >>[1] = <<>>
      /\ DOMAIN << <<>> >> = {1}
  <2>1. \A T : <<>> \in Seq(T)
    OBVIOUS
  <2>2. \A T : \A s \in T : <<s>> \in Seq(T) /\ Len(<<s>>) = 1 /\ <<s>>[1] = s /\ DOMAIN <<s>> = {1}
    OBVIOUS
  <2>3. QED
    BY <2>1, <2>2
<1>2. DOMAIN code = {1} /\ code[1] = <<>> /\ code \in Seq(Seq(InstrType)) /\ Len(code) = 1
  BY <1>1 DEF Init
<1>3. TypeOK
  BY <1>2 DEF Init, TypeOK
<1>4. open = <<>> /\ cur = 1 /\ phase = "parse" /\ bc = "none"
  BY DEF Init
<1>5. Shape
  BY <1>4 DEF Shape, Building
<1>6. Unfinished = {1}
  BY <1>4 DEF Unfinished, Pending, Building
<1>7. Regular(code, Unfinished) /\ Linked(code)
  <2>1. ~EndsAt(code, 1)
    BY <1>2 DEF EndsAt
  <2>2. DOMAIN code[1] = {}
    BY <1>2
  <2>3. QED
    BY <1>2, <1>6, <2>1, <2>2 DEF Regular, Linked
<1>8. Executing
  BY <1>4 DEF Executing
<1>9. QED
  BY <1>3, <1>5, <1>7, <1>8 DEF SInv

\* What the rules of the grammar need of the invariant.
LEMMA ParseFacts ==
    ASSUME SInv, phase \in {"parse", "head"}
    PROVE  /\ Unfinished = Pending /\ cur \in Pending /\ Pending \subseteq DOMAIN code
           /\ Len(code) \in Nat /\ DOMAIN code = 1..Len(code) /\ cur \in 1..Len(code)
           /\ open \in Seq([t : {"if", "while"}, cond : Nat, join : Nat])
<1>1. Len(code) \in Nat /\ DOMAIN code = 1..Len(code) /\ cur \in 1..Len(code)
      /\ open \in Seq([t : {"if", "while"}, cond : Nat, join : Nat])
  BY DEF SInv, TypeOK
<1>2. cur \in Pending /\ Pending \subseteq DOMAIN code
  BY <1>1 DEF SInv, Shape, Pending
<1>3. QED
  BY <1>1, <1>2 DEF Unfinished, Building

LEMMA AssignStep ==
    ASSUME Src!SourceAssumption, SInv, NEW tok \in Tokens, Assign(tok)
    PROVE  SInv'
<1>1. /\ phase = "parse" /\ phase' = "parse" /\ tok.t = "assign" /\ prog' = Append(prog, tok)
      /\ UNCHANGED <<tool, open, cur, bc, at, mem, slots, result>>
      /\ map' = map \cup {tok.var}
  BY DEF Assign, Reduce, machine
<1>2. /\ Unfinished = Pending /\ cur \in Pending /\ Pending \subseteq DOMAIN code
      /\ Len(code) \in Nat /\ DOMAIN code = 1..Len(code)
  BY <1>1, ParseFacts
<1>3. tok.var \in Vars /\ tok.val \in Src!Exprs
  BY <1>1, TokenIs
<1>4. prog' \in Seq(Tokens) /\ Len(prog') \in Nat
  BY <1>1 DEF SInv, TypeOK
<1> DEFINE n == Len(prog')
           a == [op |-> "alloca", var |-> tok.var, loc |-> n]
           s == [op |-> "store", var |-> tok.var, val |-> Gen(tok.val), loc |-> n]
           is == (IF tok.var \in map THEN <<>> ELSE <<a>>) \o <<s>>
<1>5. a \in InstrType /\ s \in InstrType /\ a.op = "alloca" /\ s.op = "store"
  <2>1. Gen(tok.val) \in Src!Exprs
    BY <1>3, GenTyped
  <2>2. n \in Nat /\ tok.var \in Vars
    BY <1>3, <1>4
  <2>3. QED
    BY <2>1, <2>2 DEF InstrType
<1>6. code' = Emitted(is, 0)
  BY DEF Assign
<1> HIDE DEF a, s
<1>7. is \in Seq(InstrType) /\ \A i \in DOMAIN is : is[i] \in {a, s}
  <2>1. \A T : <<>> \in Seq(T) /\ \A x \in T : <<x>> \in Seq(T)
    OBVIOUS
  <2>2. (IF tok.var \in map THEN <<>> ELSE <<a>>) \in Seq({a, s}) /\ <<s>> \in Seq({a, s})
    BY <2>1
  <2>3. is \in Seq({a, s})
    BY <2>2, Concat
  <2> HIDE DEF is
  <2>4. QED
    BY <1>5, <2>3
<1>8. \A i \in DOMAIN is : ~Terminator(is[i]) /\ Targets(is[i]) = {}
  BY <1>5, <1>7 DEF Terminator, Targets
<1> HIDE DEF is, n
<1>9. /\ code' \in Seq(Seq(InstrType)) /\ code[cur] \in Seq(InstrType)
      /\ Written(code, cur, is, 0, code') /\ cur \in DOMAIN code
  BY <1>6, <1>7, Emits DEF SInv
<1>10. Regular(code', Pending) /\ Linked(code') /\ DOMAIN code' = DOMAIN code
  <2>1. code \in Seq(Seq(InstrType)) /\ Regular(code, Pending) /\ Linked(code)
    BY <1>2 DEF SInv, TypeOK
  <2>2. /\ cur \in DOMAIN code /\ is \in Seq(InstrType) /\ code[cur] \in Seq(InstrType)
        /\ Written(code, cur, is, 0, code') /\ cur \in Pending
    BY <1>2, <1>7, <1>9
  <2>3. QED
    BY <1>8, <2>1, <2>2, PlainKept
<1>11. Len(code') = Len(code)
  BY <1>9 DEF Written
<1>12. TypeOK'
  BY <1>1, <1>3, <1>4, <1>9, <1>11 DEF SInv, TypeOK
<1>13. Shape'
  BY <1>1, <1>10 DEF SInv, Shape, Building, Top
<1>14. Unfinished' = Pending
  BY <1>1 DEF Unfinished, Pending, Building
<1>15. Executing'
  BY <1>1 DEF SInv, Executing
<1>16. QED
  BY <1>10, <1>12, <1>13, <1>14, <1>15 DEF SInv

\* A step that builds nothing: it may add a statement, or end the parser's work.
LEMMA NothingBuilt ==
    ASSUME SInv, UNCHANGED <<tool, open, code, cur, map, bc, at, mem, slots, result>>,
           prog' \in Seq(Tokens), phase \in {"parse", "head"},
           phase' \in {phase, "error", "crashed"}
    PROVE  SInv'
<1>1. TypeOK'
  BY DEF SInv, TypeOK
<1>2. Shape'
  BY DEF SInv, Shape, Building, Top
<1>3. Unfinished' = Unfinished
  BY DEF Unfinished, Pending, Building
<1>4. Executing'
  BY DEF SInv, Executing
<1>5. QED
  BY <1>1, <1>2, <1>3, <1>4 DEF SInv

LEMMA NullStep ==
    ASSUME SInv, NEW tok \in Tokens, Null(tok)
    PROVE  SInv'
<1>1. prog' \in Seq(Tokens)
  BY DEF Null, Reduce, SInv, TypeOK
<1>2. QED
  BY <1>1, NothingBuilt DEF Null, machine

LEMMA CrashStep == ASSUME SInv, Crash PROVE SInv'
<1>1. prog' \in Seq(Tokens)
  BY DEF Crash, built, SInv, TypeOK
<1>2. QED
  BY <1>1, NothingBuilt DEF Crash, built, machine

LEMMA SyntaxErrorStep == ASSUME SInv, SyntaxError PROVE SInv'
<1>1. prog' \in Seq(Tokens)
  BY DEF SyntaxError, built, SInv, TypeOK
<1>2. QED
  BY <1>1, NothingBuilt DEF SyntaxError, built, machine

\* A rule that ends the block at the Builder, with n new ones behind the last.
LEMMA EndEmitted ==
    ASSUME SInv, phase \in {"parse", "head"}, NEW x \in InstrType, NEW n \in Nat,
           code' = Emitted(<<x>>, n), Terminator(x),
           Targets(x) \subseteq 1..(Len(code) + n),
           (Len(code) + 1)..(Len(code) + n) \subseteq Targets(x)
    PROVE  /\ code' \in Seq(Seq(InstrType)) /\ Len(code') = Len(code) + n
           /\ DOMAIN code' = 1..(Len(code) + n)
           /\ Regular(code', (Pending \ {cur}) \cup (Len(code) + 1)..(Len(code) + n))
           /\ Linked(code')
<1> DEFINE is == <<x>>
<1>1. is \in Seq(InstrType) /\ is = <<x>> /\ code' = Emitted(is, n)
  OBVIOUS
<1> HIDE DEF is
<1>2. /\ code' \in Seq(Seq(InstrType)) /\ code[cur] \in Seq(InstrType)
      /\ Written(code, cur, is, n, code') /\ cur \in DOMAIN code
      /\ Len(code) \in Nat /\ DOMAIN code = 1..Len(code)
  BY <1>1, Emits DEF SInv
<1>3. cur \in Pending /\ Pending \subseteq DOMAIN code /\ Regular(code, Pending) /\ Linked(code)
      /\ code \in Seq(Seq(InstrType))
  BY ParseFacts DEF SInv, TypeOK
<1>4. DOMAIN code' = 1..(Len(code) + n) /\ Len(code') = Len(code) + n
  BY <1>2 DEF Written
<1>5. DOMAIN code' \ DOMAIN code = (Len(code) + 1)..(Len(code) + n)
  BY <1>2, <1>4
<1>6. Targets(x) \subseteq DOMAIN code' /\ DOMAIN code' \ DOMAIN code \subseteq Targets(x)
  BY <1>4, <1>5
<1>7. Regular(code', (Pending \ {cur}) \cup (DOMAIN code' \ DOMAIN code)) /\ Linked(code')
  BY <1>1, <1>2, <1>3, <1>6, EndKept
<1>8. QED
  BY <1>2, <1>4, <1>5, <1>7

Joins(s) == {s[k].join : k \in DOMAIN s}
Opened == [t : {"if", "while"}, cond : Nat, join : Nat]

LEMMA AppendIs ==
    ASSUME NEW s \in Seq(Opened), NEW o \in Opened
    PROVE  /\ Append(s, o) \in Seq(Opened) /\ Len(s) \in Nat /\ Len(Append(s, o)) = Len(s) + 1
           /\ DOMAIN s = 1..Len(s) /\ DOMAIN Append(s, o) = 1..(Len(s) + 1)
           /\ \A k \in 1..Len(s) : Append(s, o)[k] = s[k]
           /\ Append(s, o)[Len(s) + 1] = o
           /\ Joins(Append(s, o)) = Joins(s) \cup {o.join}
<1> DEFINE r == Append(s, o)
<1>1. /\ r \in Seq(Opened) /\ Len(s) \in Nat /\ Len(r) = Len(s) + 1
      /\ DOMAIN s = 1..Len(s) /\ DOMAIN r = 1..(Len(s) + 1)
      /\ \A k \in 1..Len(s) : r[k] = s[k]
      /\ r[Len(s) + 1] = o
  OBVIOUS
<1> HIDE DEF r
<1>2. DOMAIN r = DOMAIN s \cup {Len(s) + 1}
  BY <1>1
<1>3. Joins(r) = Joins(s) \cup {o.join}
  BY <1>1, <1>2 DEF Joins
<1>4. QED
  BY <1>1, <1>3 DEF r

LEMMA PendingIs ==
    ASSUME SInv, phase \in {"parse", "head"}
    PROVE  /\ Pending \ {cur} = Joins(open) \ {0} /\ open \in Seq(Opened)
           /\ phase = "parse" => 0 \notin Joins(open)
           /\ Joins(open) \subseteq 0..Len(code) /\ cur \notin Joins(open)
<1>1. open \in Seq(Opened) /\ cur \in 1..Len(code) /\ Len(code) \in Nat /\ DOMAIN code = 1..Len(code)
  BY ParseFacts DEF Opened
<1>2. cur \notin Joins(open) /\ Joins(open) \subseteq 0..Len(code)
  BY <1>1 DEF SInv, Shape, Joins
<1>3. phase = "parse" => 0 \notin Joins(open)
  BY DEF SInv, Shape, Joins
<1>4. Pending = ({cur} \cup Joins(open)) \ {0}
  BY DEF Pending, Joins
<1>5. QED
  BY <1>1, <1>2, <1>3, <1>4

\* The types, where only the statements and the code can be new.
LEMMA TypeKept ==
    ASSUME TypeOK, UNCHANGED <<tool, map, bc, at, mem, slots, result>>,
           prog' \in Seq(Tokens), phase' \in {"parse", "head", "built"},
           open' \in Seq(Opened), code' \in Seq(Seq(InstrType)), cur' \in 1..Len(code')
    PROVE  TypeOK'
  BY DEF TypeOK, Opened

LEMMA IfStep ==
    ASSUME Src!SourceAssumption, SInv, NEW tok \in Tokens, If(tok)
    PROVE  SInv'
<1> DEFINE L == Len(code)
           o == [t |-> "if", cond |-> 0, join |-> L + 2]
           x == [op |-> "condbr", val |-> Gen(tok.val), then |-> L + 1, else |-> L + 2,
                 loc |-> Len(prog')]
<1>1. /\ phase = "parse" /\ phase' = "parse" /\ tok.t = "if" /\ prog' = Append(prog, tok)
      /\ UNCHANGED <<tool, map, bc, at, mem, slots, result>>
      /\ cur' = L + 1 /\ open' = Append(open, o) /\ code' = Emitted(<<x>>, 2)
  BY DEF If, Reduce, machine, Branches
<1>2. /\ Unfinished = Pending /\ cur \in Pending /\ Pending \subseteq DOMAIN code
      /\ L \in Nat /\ DOMAIN code = 1..L /\ cur \in 1..L
  BY <1>1, ParseFacts
<1>3. prog' \in Seq(Tokens) /\ Len(prog') \in Nat
  BY <1>1 DEF SInv, TypeOK
<1>4. x \in InstrType /\ Terminator(x) /\ Targets(x) = {L + 1, L + 2}
  <2>1. Gen(tok.val) \in Src!Exprs
    BY <1>1, TokenIs, GenTyped
  <2>2. QED
    BY <1>2, <1>3, <2>1 DEF InstrType, Terminator, Targets
<1>5. o \in Opened /\ o.join = L + 2 /\ o.t = "if"
  BY <1>2 DEF Opened
<1> HIDE DEF x, o
<1>6. (L + 1)..(L + 2) = {L + 1, L + 2} /\ {L + 1, L + 2} \subseteq 1..(L + 2)
  BY <1>2
<1>7. /\ code' \in Seq(Seq(InstrType)) /\ Len(code') = L + 2 /\ DOMAIN code' = 1..(L + 2)
      /\ Regular(code', (Pending \ {cur}) \cup {L + 1, L + 2}) /\ Linked(code')
  BY <1>1, <1>4, <1>6, EndEmitted
<1>8. /\ Pending \ {cur} = Joins(open) /\ open \in Seq(Opened)
      /\ Joins(open) \subseteq 1..L /\ cur \notin Joins(open)
  BY <1>1, <1>2, PendingIs
<1>9. /\ open' \in Seq(Opened) /\ Len(open) \in Nat /\ Len(open') = Len(open) + 1
      /\ DOMAIN open = 1..Len(open) /\ DOMAIN open' = 1..(Len(open) + 1)
      /\ \A k \in 1..Len(open) : open'[k] = open[k]
      /\ open'[Len(open) + 1] = o
      /\ Joins(open') = Joins(open) \cup {L + 2}
  BY <1>1, <1>5, <1>8, AppendIs
<1>10. TypeOK'
  <2>1. cur' \in 1..Len(code')
    BY <1>1, <1>2, <1>7
  <2>2. QED
    BY <1>1, <1>3, <1>7, <1>9, <2>1, TypeKept DEF SInv
<1>11. Shape'
  <2>1. \A k \in 1..Len(open) :
           /\ open[k].join \in 1..L
           /\ open[k].t = "while" => open[k].cond \in 1..L
           /\ \A j \in 1..Len(open) : open[j].join = open[k].join => j = k
    BY <1>2, <1>8, <1>9 DEF SInv, Shape, Joins
  <2>2. ASSUME NEW k \in DOMAIN open'
        PROVE  /\ open'[k].join \in 1..(L + 2) /\ open'[k].join # L + 1
               /\ open'[k].t = "while" => open'[k].cond \in 1..(L + 2)
               /\ \A j \in DOMAIN open' : open'[j].join = open'[k].join => j = k
    <3>1. CASE k = Len(open) + 1
      <4>1. open'[k].join = L + 2 /\ open'[k].t = "if"
        BY <1>5, <1>9, <3>1
      <4>2. \A j \in 1..Len(open) : open'[j].join # L + 2
        BY <1>2, <1>9, <2>1
      <4>3. QED
        BY <1>2, <1>9, <3>1, <4>1, <4>2
    <3>2. CASE k \in 1..Len(open)
      <4>1. open'[k] = open[k] /\ open[k].join \in 1..L
        BY <1>9, <2>1, <3>2
      <4>2. open'[Len(open) + 1].join = L + 2
        BY <1>5, <1>9
      <4>3. \A j \in DOMAIN open' : open'[j].join = open'[k].join => j = k
        BY <1>2, <1>9, <2>1, <3>2, <4>1, <4>2
      <4>4. QED
        BY <1>2, <2>1, <3>2, <4>1, <4>3
    <3>3. QED
      BY <1>9, <3>1, <3>2
  <2>3. ASSUME NEW k \in DOMAIN open'
        PROVE  /\ open'[k].join \in (DOMAIN code' \ {cur'}) \cup {0} /\ open'[k].join # 0
               /\ open'[k].t = "while" => open'[k].cond \in DOMAIN code'
    BY <1>1, <1>2, <1>7, <2>2, SMTT(60)
  <2>4. QED
    BY <1>1, <2>2, <2>3 DEF Shape, Building
<1>12. Unfinished' = (Pending \ {cur}) \cup {L + 1, L + 2}
  <2>1. Unfinished' = ({L + 1} \cup Joins(open')) \ {0}
    BY <1>1 DEF Unfinished, Pending, Building, Joins
  <2>2. QED
    BY <1>2, <1>8, <1>9, <2>1
<1>13. Executing'
  BY <1>1 DEF SInv, Executing
<1>14. QED
  BY <1>7, <1>10, <1>11, <1>12, <1>13 DEF SInv

LEMMA WhileHeadStep == ASSUME Src!SourceAssumption, SInv, WhileHead PROVE SInv'
<1> DEFINE L == Len(code)
           o == [t |-> "while", cond |-> L + 1, join |-> 0]
           x == [op |-> "br", to |-> L + 1, loc |-> Len(prog) + 1]
<1>1. /\ phase = "parse" /\ phase' = "head" /\ prog' = prog
      /\ UNCHANGED <<tool, map, bc, at, mem, slots, result>>
      /\ cur' = L + 1 /\ open' = Append(open, o) /\ code' = Emitted(<<x>>, 1)
  BY DEF WhileHead, machine
<1>2. /\ Unfinished = Pending /\ cur \in Pending /\ Pending \subseteq DOMAIN code
      /\ L \in Nat /\ DOMAIN code = 1..L /\ cur \in 1..L
  BY <1>1, ParseFacts
<1>3. prog' \in Seq(Tokens) /\ Len(prog) \in Nat
  BY <1>1 DEF SInv, TypeOK
<1>4. x \in InstrType /\ Terminator(x) /\ Targets(x) = {L + 1}
  BY <1>2, <1>3 DEF InstrType, Terminator, Targets
<1>5. o \in Opened /\ o.join = 0 /\ o.t = "while" /\ o.cond = L + 1
  BY <1>2 DEF Opened
<1> HIDE DEF x, o
<1>6. (L + 1)..(L + 1) = {L + 1} /\ {L + 1} \subseteq 1..(L + 1)
  BY <1>2
<1>7. /\ code' \in Seq(Seq(InstrType)) /\ Len(code') = L + 1 /\ DOMAIN code' = 1..(L + 1)
      /\ Regular(code', (Pending \ {cur}) \cup {L + 1}) /\ Linked(code')
  BY <1>1, <1>4, <1>6, EndEmitted
<1>8. /\ Pending \ {cur} = Joins(open) /\ open \in Seq(Opened)
      /\ Joins(open) \subseteq 1..L /\ cur \notin Joins(open)
  BY <1>1, <1>2, PendingIs
<1>9. /\ open' \in Seq(Opened) /\ Len(open) \in Nat /\ Len(open') = Len(open) + 1
      /\ DOMAIN open = 1..Len(open) /\ DOMAIN open' = 1..(Len(open) + 1)
      /\ \A k \in 1..Len(open) : open'[k] = open[k]
      /\ open'[Len(open) + 1] = o
      /\ Joins(open') = Joins(open) \cup {0}
  BY <1>1, <1>5, <1>8, AppendIs
<1>10. TypeOK'
  <2>1. cur' \in 1..Len(code')
    BY <1>1, <1>2, <1>7
  <2>2. QED
    BY <1>1, <1>3, <1>7, <1>9, <2>1, TypeKept DEF SInv
<1>11. Shape'
  <2>1. \A k \in 1..Len(open) :
           /\ open[k].join \in 1..L
           /\ open[k].t = "while" => open[k].cond \in 1..L
           /\ \A j \in 1..Len(open) : open[j].join = open[k].join => j = k
    BY <1>2, <1>8, <1>9 DEF SInv, Shape, Joins
  <2>2. ASSUME NEW k \in DOMAIN open'
        PROVE  /\ open'[k].join \in (DOMAIN code' \ {cur'}) \cup {0}
               /\ open'[k].join = 0 => k = Len(open')
               /\ open'[k].t = "while" => open'[k].cond \in DOMAIN code'
               /\ \A j \in DOMAIN open' : open'[j].join = open'[k].join => j = k
    <3>1. CASE k = Len(open) + 1
      <4>1. open'[k].join = 0 /\ open'[k].cond = L + 1
        BY <1>5, <1>9, <3>1
      <4>2. \A j \in 1..Len(open) : open'[j].join # 0
        BY <1>2, <1>9, <2>1
      <4>3. L + 1 \in DOMAIN code'
        BY <1>2, <1>7
      <4>4. QED
        BY <1>9, <3>1, <4>1, <4>2, <4>3
    <3>2. CASE k \in 1..Len(open)
      <4>1. open'[k] = open[k] /\ open[k].join \in 1..L
        BY <1>9, <2>1, <3>2
      <4>2. open'[Len(open) + 1].join = 0 /\ 0 \notin 1..L
        BY <1>5, <1>9
      <4>3. \A j \in DOMAIN open' : open'[j].join = open'[k].join => j = k
        BY <1>2, <1>9, <2>1, <3>2, <4>1, <4>2
      <4>4. 1..L \subseteq DOMAIN code' \ {cur'}
        BY <1>1, <1>2, <1>7
      <4>5. QED
        BY <2>1, <3>2, <4>1, <4>2, <4>3, <4>4
    <3>3. QED
      BY <1>9, <3>1, <3>2
  <2>3. open' # <<>> /\ Top'.t = "while" /\ Top'.join = 0
    BY <1>5, <1>9 DEF Top
  <2>4. QED
    BY <1>1, <2>2, <2>3 DEF Shape, Building
<1>12. Unfinished' = (Pending \ {cur}) \cup {L + 1}
  <2>1. Unfinished' = ({L + 1} \cup Joins(open')) \ {0}
    BY <1>1 DEF Unfinished, Pending, Building, Joins
  <2>2. QED
    BY <1>2, <1>8, <1>9, <2>1
<1>13. Executing'
  BY <1>1 DEF SInv, Executing
<1>14. QED
  BY <1>7, <1>10, <1>11, <1>12, <1>13 DEF SInv

LEMMA WhileBodyStep ==
    ASSUME Src!SourceAssumption, SInv, NEW tok \in Tokens, WhileBody(tok)
    PROVE  SInv'
<1> DEFINE L == Len(code)
           m == Len(open)
           x == [op |-> "condbr", val |-> Gen(tok.val), then |-> L + 1, else |-> L + 2,
                 loc |-> Len(prog')]
<1>1. /\ phase = "head" /\ phase' = "parse" /\ tok.t = "while" /\ prog' = Append(prog, tok)
      /\ UNCHANGED <<tool, map, bc, at, mem, slots, result>>
      /\ cur' = L + 1 /\ open' = [open EXCEPT ![m].join = L + 2] /\ code' = Emitted(<<x>>, 2)
  BY DEF WhileBody, Reduce, machine, Branches, Remember
<1>2. /\ Unfinished = Pending /\ cur \in Pending /\ Pending \subseteq DOMAIN code
      /\ L \in Nat /\ DOMAIN code = 1..L /\ cur \in 1..L
  BY <1>1, ParseFacts
<1>3. prog' \in Seq(Tokens) /\ Len(prog') \in Nat
  BY <1>1 DEF SInv, TypeOK
<1>4. x \in InstrType /\ Terminator(x) /\ Targets(x) = {L + 1, L + 2}
  <2>1. Gen(tok.val) \in Src!Exprs
    BY <1>1, TokenIs, GenTyped
  <2>2. QED
    BY <1>2, <1>3, <2>1 DEF InstrType, Terminator, Targets
<1> HIDE DEF x
<1>5. (L + 1)..(L + 2) = {L + 1, L + 2} /\ {L + 1, L + 2} \subseteq 1..(L + 2)
  BY <1>2
<1>6. /\ code' \in Seq(Seq(InstrType)) /\ Len(code') = L + 2 /\ DOMAIN code' = 1..(L + 2)
      /\ Regular(code', (Pending \ {cur}) \cup {L + 1, L + 2}) /\ Linked(code')
  BY <1>1, <1>4, <1>5, EndEmitted
<1>7. /\ Pending \ {cur} = Joins(open) \ {0} /\ open \in Seq(Opened)
      /\ Joins(open) \subseteq 0..L /\ cur \notin Joins(open)
  BY <1>1, PendingIs
<1>8. m \in Nat /\ m # 0 /\ DOMAIN open = 1..m /\ open[m].join = 0
  BY <1>1, <1>7 DEF SInv, Shape, Top
<1>9. /\ open' \in Seq(Opened) /\ DOMAIN open' = 1..m
      /\ \A k \in 1..m : k # m => open'[k] = open[k]
      /\ open'[m].join = L + 2 /\ open'[m].t = open[m].t /\ open'[m].cond = open[m].cond
  <2> DEFINE r == [open[m] EXCEPT !.join = L + 2]
  <2>1. open[m] \in Opened /\ L + 2 \in Nat
    BY <1>2, <1>7, <1>8
  <2>2. r \in Opened /\ r.join = L + 2 /\ r.t = open[m].t /\ r.cond = open[m].cond
    BY <2>1 DEF Opened
  <2>3. open' = [open EXCEPT ![m] = r]
    BY <1>1
  <2> HIDE DEF r
  <2>4. open \in Seq(Opened) /\ m \in DOMAIN open /\ DOMAIN open = 1..m
    BY <1>7, <1>8
  <2>5. /\ open' \in Seq(Opened) /\ DOMAIN open' = DOMAIN open /\ open'[m] = r
        /\ \A k \in DOMAIN open : k # m => open'[k] = open[k]
    BY <2>2, <2>3, <2>4
  <2>6. QED
    BY <2>2, <2>4, <2>5
<1>10. TypeOK'
  <2>1. cur' \in 1..Len(code')
    BY <1>1, <1>2, <1>6, SMTT(60)
  <2>2. QED
    BY <1>1, <1>3, <1>6, <1>9, <2>1, TypeKept DEF SInv
<1>11. \A k \in 1..m :
           /\ k # m => open[k].join \in 1..L
           /\ open[k].t = "while" => open[k].cond \in 1..L
           /\ \A j \in 1..m : open[j].join = open[k].join => j = k
  BY <1>2, <1>7, <1>8 DEF SInv, Shape, Joins
<1>12. Shape'
  <2>1. ASSUME NEW k \in DOMAIN open'
        PROVE  /\ open'[k].join \in 1..(L + 2) /\ open'[k].join # L + 1
               /\ open'[k].t = "while" => open'[k].cond \in 1..(L + 2)
               /\ \A j \in DOMAIN open' : open'[j].join = open'[k].join => j = k
    <3>1. CASE k = m
      <4>1. \A j \in 1..m : j # m => open'[j].join \in 1..L
        BY <1>9, <1>11
      <4>2. QED
        BY <1>2, <1>9, <1>11, <3>1, <4>1
    <3>2. CASE k # m
      <4>1. k \in 1..m /\ open'[k] = open[k] /\ open[k].join \in 1..L
        BY <1>9, <1>11, <3>2
      <4>2. open'[m].join # open'[k].join
        BY <1>2, <1>9, <4>1
      <4>3. QED
        BY <1>2, <1>9, <1>11, <3>2, <4>1, <4>2, SMTT(60)
    <3>3. QED
      BY <3>1, <3>2
  <2>2. ASSUME NEW k \in DOMAIN open'
        PROVE  /\ open'[k].join \in (DOMAIN code' \ {cur'}) \cup {0} /\ open'[k].join # 0
               /\ open'[k].t = "while" => open'[k].cond \in DOMAIN code'
    BY <1>1, <1>2, <1>6, <2>1, SMTT(60)
  <2>3. QED
    BY <1>1, <2>1, <2>2 DEF Shape, Building
<1>13. Unfinished' = (Pending \ {cur}) \cup {L + 1, L + 2}
  <2>1. Unfinished' = ({L + 1} \cup Joins(open')) \ {0}
    BY <1>1 DEF Unfinished, Pending, Building, Joins
  <2>2. Joins(open') = (Joins(open) \ {0}) \cup {L + 2}
    <3>1. \A k \in 1..m : k # m => open'[k].join = open[k].join /\ open[k].join # 0
      BY <1>9, <1>11
    <3>2. Joins(open) \ {0} = {open[k].join : k \in 1..m \ {m}}
      BY <1>8, <3>1 DEF Joins
    <3>3. {open[k].join : k \in 1..m \ {m}} = {open'[k].join : k \in 1..m \ {m}}
      BY <3>1
    <3>4. 1..m = (1..m \ {m}) \cup {m}
      BY <1>8
    <3>5. Joins(open') = {open'[k].join : k \in 1..m \ {m}} \cup {L + 2}
      BY <1>9, <3>4 DEF Joins
    <3>6. QED
      BY <3>2, <3>3, <3>5
  <2>3. L + 1 # 0 /\ L + 2 # 0
    BY <1>2
  <2>4. QED
    BY <1>7, <2>1, <2>2, <2>3
<1>14. Executing'
  BY <1>1 DEF SInv, Executing
<1>15. QED
  BY <1>6, <1>10, <1>12, <1>13, <1>14 DEF SInv

LEMMA EndStep ==
    ASSUME Src!SourceAssumption, SInv, NEW tok \in Tokens, End(tok)
    PROVE  SInv'
<1> DEFINE L == Len(code)
           m == Len(open)
           b == IF Top.t = "if" THEN Top.join ELSE BackTo(Top)
           x == [op |-> "br", to |-> b, loc |-> Len(prog')]
<1>1. /\ phase = "parse" /\ phase' = "parse" /\ prog' = Append(prog, tok) /\ open # <<>>
      /\ UNCHANGED <<tool, map, bc, at, mem, slots, result>>
      /\ cur' = Top.join /\ open' = SubSeq(open, 1, m - 1) /\ code' = Emitted(<<x>>, 0)
  BY DEF End, Reduce, machine, EndBranch, Pop
<1>2. /\ Unfinished = Pending /\ cur \in Pending /\ Pending \subseteq DOMAIN code
      /\ L \in Nat /\ DOMAIN code = 1..L /\ cur \in 1..L
  BY <1>1, ParseFacts
<1>3. prog' \in Seq(Tokens) /\ Len(prog') \in Nat
  BY <1>1 DEF SInv, TypeOK
<1>4. /\ Pending \ {cur} = Joins(open) /\ open \in Seq(Opened)
      /\ Joins(open) \subseteq 1..L /\ cur \notin Joins(open)
  BY <1>1, <1>2, PendingIs
<1>5. m \in Nat /\ m # 0 /\ DOMAIN open = 1..m /\ open[m] = Top /\ Top.t \in {"if", "while"}
  <2>1. m \in Nat /\ m # 0 /\ DOMAIN open = 1..m
    BY <1>1, <1>4
  <2>2. open[m] \in Opened
    BY <1>4, <2>1
  <2>3. QED
    BY <2>1, <2>2 DEF Top, Opened
<1>6. \A k \in 1..m :
           /\ open[k].join \in 1..L
           /\ open[k].t = "while" => open[k].cond \in 1..L
           /\ \A j \in 1..m : open[j].join = open[k].join => j = k
  BY <1>2, <1>4, <1>5 DEF SInv, Shape, Joins
<1>7. b \in 1..L /\ Top.join \in 1..L
  <2>1. m \in 1..m
    BY <1>5
  <2>2. QED
    BY <1>5, <1>6, <2>1 DEF BackTo
<1>8. x \in InstrType /\ Terminator(x) /\ Targets(x) = {b}
  <2>1. b \in Nat
    BY <1>2, <1>7
  <2>2. QED
    BY <1>3, <2>1 DEF InstrType, Terminator, Targets
<1> HIDE DEF x, b
<1>9. (L + 1)..(L + 0) = {} /\ {b} \subseteq 1..(L + 0) /\ L + 0 = L
  BY <1>2, <1>7
<1>10. /\ code' \in Seq(Seq(InstrType)) /\ Len(code') = L /\ DOMAIN code' = 1..L
       /\ Regular(code', Pending \ {cur}) /\ Linked(code')
  <2>1. /\ code' \in Seq(Seq(InstrType)) /\ Len(code') = L + 0 /\ DOMAIN code' = 1..(L + 0)
        /\ Regular(code', (Pending \ {cur}) \cup (L + 1)..(L + 0)) /\ Linked(code')
    BY <1>1, <1>8, <1>9, EndEmitted
  <2>2. (Pending \ {cur}) \cup (L + 1)..(L + 0) = Pending \ {cur}
    BY <1>9
  <2>3. QED
    BY <1>9, <2>1, <2>2
<1>11. /\ open' \in Seq(Opened) /\ DOMAIN open' = 1..(m - 1) /\ Len(open') = m - 1
       /\ \A k \in 1..(m - 1) : open'[k] = open[k]
  BY <1>1, <1>4, <1>5
<1>12. TypeOK'
  BY <1>1, <1>3, <1>7, <1>10, <1>11, TypeKept DEF SInv
<1>13. Shape'
  <2>1. 1..(m - 1) \subseteq 1..m /\ m \notin 1..(m - 1) /\ m \in 1..m
    BY <1>5
  <2>2. ASSUME NEW k \in DOMAIN open'
        PROVE  /\ open'[k].join \in 1..L /\ open'[k].join # cur'
               /\ open'[k].t = "while" => open'[k].cond \in 1..L
               /\ \A j \in DOMAIN open' : open'[j].join = open'[k].join => j = k
    BY <1>1, <1>5, <1>6, <1>11, <2>1
  <2>3. ASSUME NEW k \in DOMAIN open'
        PROVE  /\ open'[k].join \in (DOMAIN code' \ {cur'}) \cup {0} /\ open'[k].join # 0
               /\ open'[k].t = "while" => open'[k].cond \in DOMAIN code'
    BY <1>10, <2>2
  <2>4. QED
    BY <1>1, <2>2, <2>3 DEF Shape, Building
<1>14. Unfinished' = Pending \ {cur}
  <2>1. Unfinished' = ({Top.join} \cup Joins(open')) \ {0}
    BY <1>1 DEF Unfinished, Pending, Building, Joins
  <2>2. Joins(open) = Joins(open') \cup {Top.join}
    <3>1. 1..m = 1..(m - 1) \cup {m}
      BY <1>5
    <3>2. QED
      BY <1>5, <1>11, <3>1 DEF Joins
  <2>3. 0 \notin Joins(open)
    BY <1>4
  <2>4. QED
    BY <1>4, <2>1, <2>2, <2>3
<1>15. Executing'
  BY <1>1 DEF SInv, Executing
<1>16. QED
  BY <1>10, <1>12, <1>13, <1>14, <1>15 DEF SInv

LEMMA ReturnStep ==
    ASSUME Src!SourceAssumption, SInv, NEW tok \in Tokens, Return(tok)
    PROVE  SInv'
<1> DEFINE L == Len(code)
           x == [op |-> "ret", val |-> Gen(tok.val), loc |-> Len(prog')]
<1>1. /\ phase = "parse" /\ phase' = "built" /\ tok.t = "return" /\ prog' = Append(prog, tok)
      /\ open = <<>> /\ UNCHANGED <<tool, open, cur, map, bc, at, mem, slots, result>>
      /\ code' = Emitted(<<x>>, 0)
  BY DEF Return, Reduce, machine
<1>2. L \in Nat /\ DOMAIN code = 1..L /\ cur \in 1..L /\ open \in Seq(Opened)
  BY <1>1, ParseFacts DEF Opened
<1>3. prog' \in Seq(Tokens) /\ Len(prog') \in Nat
  BY <1>1 DEF SInv, TypeOK
<1>4. x \in InstrType /\ Terminator(x) /\ Targets(x) = {}
  <2>1. Gen(tok.val) \in Src!Exprs
    BY <1>1, TokenIs, GenTyped
  <2>2. QED
    BY <1>3, <2>1 DEF InstrType, Terminator, Targets
<1> HIDE DEF x
<1>5. (L + 1)..(L + 0) = {} /\ L + 0 = L
  BY <1>2
<1>6. Pending \ {cur} = {}
  BY <1>1 DEF Pending
<1>7. code' \in Seq(Seq(InstrType)) /\ Len(code') = L /\ Regular(code', {}) /\ Linked(code')
  <2>1. /\ code' \in Seq(Seq(InstrType)) /\ Len(code') = L + 0
        /\ Regular(code', (Pending \ {cur}) \cup (L + 1)..(L + 0)) /\ Linked(code')
    BY <1>1, <1>4, <1>5, EndEmitted
  <2>2. (Pending \ {cur}) \cup (L + 1)..(L + 0) = {}
    BY <1>5, <1>6
  <2>3. QED
    BY <1>5, <2>1, <2>2
<1>8. TypeOK'
  BY <1>1, <1>2, <1>3, <1>7, TypeKept DEF SInv
<1>9. Shape'
  <2>1. DOMAIN open' = {} /\ phase' = "built" /\ open' = <<>>
    BY <1>1
  <2>2. QED
    BY <2>1 DEF Shape, Building
<1>10. Unfinished' = {}
  BY <1>1 DEF Unfinished, Building
<1>11. Executing'
  BY <1>1 DEF SInv, Executing
<1>12. QED
  BY <1>7, <1>8, <1>9, <1>10, <1>11 DEF SInv

-----------------------------------------------------------------------------
\* The program, running.

\* Every block ends, so there is an instruction wherever it comes to.
LEMMA WholeBlocks ==
    ASSUME SInv, ~Building
    PROVE  /\ Regular(code, {}) /\ Len(code) \in Nat /\ DOMAIN code = 1..Len(code) /\ 1 \in DOMAIN code
           /\ \A b \in DOMAIN code :
                 /\ code[b] \in Seq(InstrType) /\ Len(code[b]) \in Nat
                 /\ DOMAIN code[b] = 1..Len(code[b]) /\ 1 \in DOMAIN code[b]
                 /\ Len(code[b]) \in DOMAIN code[b] /\ Terminator(code[b][Len(code[b])])
<1>1. Regular(code, {}) /\ code \in Seq(Seq(InstrType)) /\ cur \in 1..Len(code)
  BY DEF SInv, Unfinished, TypeOK
<1>2. Len(code) \in Nat /\ DOMAIN code = 1..Len(code) /\ 1 \in DOMAIN code
  BY <1>1
<1>3. ASSUME NEW b \in DOMAIN code
      PROVE  /\ code[b] \in Seq(InstrType) /\ Len(code[b]) \in Nat
             /\ DOMAIN code[b] = 1..Len(code[b]) /\ 1 \in DOMAIN code[b]
             /\ Len(code[b]) \in DOMAIN code[b] /\ Terminator(code[b][Len(code[b])])
  <2>1. code[b] \in Seq(InstrType)
    BY <1>1
  <2>2. code[b] # <<>> /\ Terminator(code[b][Len(code[b])])
    BY <1>1 DEF Regular, EndsAt
  <2>3. QED
    BY <2>1, <2>2
<1>4. QED
  BY <1>1, <1>2, <1>3

LEMMA RunFacts ==
    ASSUME SInv, phase = "run"
    PROVE  /\ Instr \in InstrType /\ at \in Nat \X Nat
           /\ at[1] \in DOMAIN code /\ at[2] \in DOMAIN code[at[1]]
           /\ ~Terminator(Instr) => at[2] + 1 \in DOMAIN code[at[1]]
           /\ Targets(Instr) \subseteq DOMAIN code
           /\ mem \in Memory /\ slots \subseteq Vars
<1>1. at[1] \in DOMAIN code /\ at[2] \in DOMAIN code[at[1]]
  BY DEF SInv, Executing
<1>2. ~Building
  BY DEF Building
<1>3. /\ code[at[1]] \in Seq(InstrType) /\ Len(code[at[1]]) \in Nat
      /\ DOMAIN code[at[1]] = 1..Len(code[at[1]]) /\ Terminator(code[at[1]][Len(code[at[1]])])
      /\ Regular(code, {})
  BY <1>1, <1>2, WholeBlocks
<1>4. Instr \in InstrType
  BY <1>1, <1>3 DEF Instr
<1>5. ASSUME ~Terminator(Instr) PROVE at[2] + 1 \in DOMAIN code[at[1]]
  <2>1. at[2] # Len(code[at[1]])
    BY <1>3, <1>5 DEF Instr
  <2>2. QED
    BY <1>1, <1>3, <2>1
<1>6. Targets(Instr) \subseteq DOMAIN code
  BY <1>1, <1>3 DEF Regular, Instr
<1>7. mem \in Memory /\ slots \subseteq Vars /\ at \in Nat \X Nat
  BY DEF SInv, TypeOK, Memory
<1>8. QED
  BY <1>1, <1>4, <1>5, <1>6, <1>7

\* A step that leaves the function alone.
LEMMA BuiltKept ==
    ASSUME SInv, ~Building, phase' \in {"run", "returned", "undefined"}, bc' = "written",
           UNCHANGED <<tool, code, cur, map, open, prog>>,
           phase' = "run" => at'[1] \in DOMAIN code /\ at'[2] \in DOMAIN code[at'[1]],
           at' \in Nat \X Nat, mem' \in Memory, slots' \subseteq Vars,
           result' \in Src!Values \cup {-1}
    PROVE  SInv'
<1>1. TypeOK'
  BY DEF SInv, TypeOK, Memory
<1>2. open = <<>>
  BY DEF SInv, Shape
<1>3. Shape'
  <2>1. DOMAIN open' = {} /\ phase' # "head" /\ open' = <<>>
    BY <1>2
  <2>2. QED
    BY <2>1 DEF Shape
<1>4. Unfinished = {} /\ Unfinished' = {}
  BY DEF Unfinished, Building
<1>5. Executing'
  BY DEF Executing
<1>6. QED
  BY <1>1, <1>3, <1>4, <1>5 DEF SInv

LEMMA WriteModuleStep == ASSUME SInv, WriteModule PROVE SInv'
<1>1. ~Building /\ phase' = "run" /\ bc' = "written" /\ at' = <<1, 1>>
      /\ UNCHANGED <<tool, code, cur, map, open, prog, mem, slots, result>>
  BY DEF WriteModule, built, Building
<1>2. 1 \in DOMAIN code /\ 1 \in DOMAIN code[1]
  BY <1>1, WholeBlocks
<1>3. at' \in Nat \X Nat /\ at'[1] = 1 /\ at'[2] = 1
  BY <1>1
<1>4. mem' \in Memory /\ slots' \subseteq Vars /\ result' \in Src!Values \cup {-1}
  BY <1>1 DEF SInv, TypeOK, Memory
<1>5. QED
  BY <1>1, <1>2, <1>3, <1>4, BuiltKept

LEMMA ExecuteStep == ASSUME Src!SourceAssumption, SInv, Execute PROVE SInv'
<1>1. phase = "run" /\ ~Building /\ bc' = "written"
      /\ UNCHANGED <<tool, code, cur, map, open, prog>>
  BY DEF Execute, Alloca, Store, Branch, CondBranch, Ret, Stray, Running, built, Building,
         SInv, Executing
<1>2. /\ Instr \in InstrType /\ at \in Nat \X Nat
      /\ at[1] \in DOMAIN code /\ at[2] \in DOMAIN code[at[1]]
      /\ ~Terminator(Instr) => at[2] + 1 \in DOMAIN code[at[1]]
      /\ Targets(Instr) \subseteq DOMAIN code
      /\ mem \in Memory /\ slots \subseteq Vars /\ result \in Src!Values \cup {-1}
  BY <1>1, RunFacts DEF SInv, TypeOK
<1>3. ASSUME Forward, ~Terminator(Instr)
      PROVE  /\ at' \in Nat \X Nat /\ at'[1] \in DOMAIN code /\ at'[2] \in DOMAIN code[at'[1]]
  BY <1>2, <1>3 DEF Forward
<1>4. ASSUME NEW b \in DOMAIN code, Jump(b)
      PROVE  /\ at' \in Nat \X Nat /\ at'[1] \in DOMAIN code /\ at'[2] \in DOMAIN code[at'[1]]
  <2>1. 1 \in DOMAIN code[b] /\ b \in Nat
    BY <1>1, WholeBlocks
  <2>2. QED
    BY <1>4, <2>1 DEF Jump
<1>5. CASE Alloca
  <2>1. Instr.var \in Vars /\ ~Terminator(Instr)
    BY <1>2, <1>5, InstrIs DEF Alloca, Running, Terminator
  <2>2. mem' \in Memory /\ slots' \subseteq Vars
    BY <1>2, <1>5, <2>1 DEF Alloca, Memory
  <2>3. QED
    BY <1>1, <1>2, <1>3, <1>5, <2>1, <2>2, BuiltKept DEF Alloca
<1>6. CASE Store
  <2>1. Instr.var \in Vars /\ ~Terminator(Instr) /\ Src!Eval(Instr.val, mem) \in Src!Values \cup {-1}
    BY <1>2, <1>6, InstrIs, EvalTyped DEF Store, Running, Terminator
  <2>2. mem' \in Memory /\ slots' = slots
    BY <1>2, <1>6, <2>1 DEF Store, Memory
  <2>3. QED
    BY <1>1, <1>2, <1>3, <1>6, <2>1, <2>2, BuiltKept DEF Store
<1>7. CASE Branch
  <2>1. Instr.to \in DOMAIN code
    BY <1>2, <1>7 DEF Branch, Running, Targets
  <2>2. QED
    BY <1>1, <1>2, <1>4, <1>7, <2>1, BuiltKept DEF Branch
<1>8. CASE CondBranch
  <2>1. Instr.then \in DOMAIN code /\ Instr.else \in DOMAIN code
    BY <1>2, <1>8 DEF CondBranch, Running, Targets
  <2>2. \E b \in DOMAIN code : Jump(b)
    BY <1>8, <2>1 DEF CondBranch
  <2>3. QED
    BY <1>1, <1>2, <1>4, <1>8, <2>2, BuiltKept DEF CondBranch
<1>9. CASE Ret
  <2>1. Src!Eval(Instr.val, mem) \in Src!Values \cup {-1}
    BY <1>2, <1>9, InstrIs, EvalTyped DEF Ret, Running
  <2>2. QED
    BY <1>1, <1>2, <1>9, <2>1, BuiltKept DEF Ret
<1>10. CASE Stray
  BY <1>1, <1>2, <1>10, BuiltKept DEF Stray, machine
<1>11. QED
  BY <1>5, <1>6, <1>7, <1>8, <1>9, <1>10 DEF Execute

-----------------------------------------------------------------------------
\* The function.

LEMMA NextS == ASSUME Src!SourceAssumption, SInv, [Next]_vars PROVE SInv'
<1>1. CASE UNCHANGED vars
  <2>1. UNCHANGED <<tool, prog, phase, open, code, cur, map, bc, at, mem, slots, result>>
    BY <1>1 DEF vars
  <2>2. TypeOK' /\ Shape' /\ Executing'
    BY <2>1 DEF SInv, TypeOK, Shape, Building, Top, Executing
  <2>3. Unfinished' = Unfinished
    BY <2>1 DEF Unfinished, Pending, Building
  <2>4. QED
    BY <2>1, <2>2, <2>3 DEF SInv
<1>2. CASE Parse
  BY <1>2, AssignStep, NullStep, IfStep, WhileBodyStep, EndStep, ReturnStep, WhileHeadStep,
     CrashStep, SyntaxErrorStep, WriteModuleStep DEF Parse
<1>3. CASE Execute
  BY <1>3, ExecuteStep
<1>4. QED
  BY <1>1, <1>2, <1>3 DEF Next

LEMMA SInvSound == ASSUME Src!SourceAssumption, SInv PROVE FunctionSound
<1>1. \A b \in DOMAIN code : Ended(b) <=> EndsAt(code, b)
  BY DEF Ended, EndsAt
<1>2. BlocksEnd
  <2>1. CASE Building
    <3>1. Unfinished = Pending
      BY <2>1 DEF Unfinished
    <3>2. QED
      BY <1>1, <2>1, <3>1 DEF SInv, Regular, BlocksEnd, Building
  <2>2. CASE ~Building
    <3>1. Unfinished = {}
      BY <2>2 DEF Unfinished
    <3>2. QED
      BY <1>1, <2>2, <3>1 DEF SInv, Regular, BlocksEnd, Building
  <2>3. QED
    BY <2>1, <2>2
<1>3. ASSUME bc = "written" PROVE open = <<>> /\ Reached[Len(code)] = DOMAIN code
  <2>1. ~Building
    BY <1>3 DEF SInv, Executing, Building
  <2>2. open = <<>> /\ Unfinished = {}
    BY <2>1 DEF SInv, Shape, Unfinished
  <2>3. code \in Seq(Seq(InstrType)) /\ code # <<>>
    BY DEF SInv, TypeOK
  <2>4. QED
    BY <2>2, <2>3, ReachedAll DEF SInv
<1>4. QED
  BY <1>2, <1>3 DEF FunctionSound, WholeFunction, SInv

\* Whatever program is read, of any length and nesting: every block that is
\* begun is ended once, by its last instruction, before main.bc is written; no
\* branch leaves the function and every block of it can be reached.
THEOREM FunctionThm == Src!SourceAssumption => (Spec => []FunctionSound)
<1> SUFFICES ASSUME Src!SourceAssumption PROVE Spec => []FunctionSound
  OBVIOUS
<1>1. Init => SInv
  BY InitS
<1>2. SInv /\ [Next]_vars => SInv'
  BY NextS
<1>3. SInv => FunctionSound
  BY SInvSound
<1>4. QED
  BY <1>1, <1>2, <1>3, PTL DEF Spec

-----------------------------------------------------------------------------
\* Words, and what arithmetic makes of them.

LEMMA Divided ==
    ASSUME NEW B \in Nat \ {0}
    PROVE  /\ \A n \in Int : n % B \in 0..(B - 1)
           /\ \A n \in 0..(B - 1) : n % B = n
           /\ B % B = 0
           /\ \A n \in 1..B : (-n) % B = B - n
<1>1. ASSUME NEW n \in Int PROVE n % B \in 0..(B - 1)
  OBVIOUS
<1>2. ASSUME NEW n \in 0..(B - 1) PROVE n % B = n
  OBVIOUS
<1>3. B % B = 0
  OBVIOUS
<1>4. ASSUME NEW n \in 1..B PROVE (-n) % B = B - n
  OBVIOUS
<1>5. QED
  BY <1>1, <1>2, <1>3, <1>4

LEMMA Wrapped ==
    ASSUME Expr!RegExprAssumption
    PROVE  /\ \A n \in Int : Expr!Wrap(n) \in Expr!Words
           /\ \A n \in Expr!Words : n \in Nat /\ Expr!Wrap(n) = n
           /\ \A n \in Expr!Words : Expr!Memory(n) \in Expr!Words
           /\ \A n \in Expr!Words : Expr!Wrap(Expr!Wrap(-n - 1) + 1) = Expr!Wrap(-n)
           /\ 0 \in Expr!Words /\ 1 \in Expr!Words
<1> DEFINE B == WordValues
<1>1. B \in Nat \ {0} /\ B > 1 /\ Expr!Words = 0..(B - 1)
  BY DEF Expr!RegExprAssumption, Expr!Words
<1>2. \A n : Expr!Wrap(n) = n % B
  BY DEF Expr!Wrap
<1> HIDE DEF B
<1>3. /\ \A n \in Int : n % B \in 0..(B - 1)
      /\ \A n \in 0..(B - 1) : n % B = n
      /\ B % B = 0
      /\ \A n \in 1..B : (-n) % B = B - n
  BY <1>1, Divided
<1>4. \A n \in Int : Expr!Wrap(n) \in Expr!Words
  BY <1>1, <1>2, <1>3
<1>5. ASSUME NEW n \in Expr!Words PROVE n \in Nat /\ Expr!Wrap(n) = n
  <2>1. n \in 0..(B - 1)
    BY <1>1
  <2>2. n % B = n
    BY <1>3, <2>1, Zenon
  <2>3. n \in Nat
    BY <1>1, <2>1
  <2>4. QED
    BY <1>2, <2>2, <2>3
<1>6. \A n \in Expr!Words : Expr!Memory(n) \in Expr!Words
  <2>1. \A n \in Expr!Words : 3 * n + 1 \in Int
    BY <1>5
  <2>2. QED
    BY <1>4, <2>1 DEF Expr!Memory
<1>7. ASSUME NEW n \in Expr!Words PROVE Expr!Wrap(Expr!Wrap(-n - 1) + 1) = Expr!Wrap(-n)
  <2>1. n \in Nat /\ n < B /\ -n - 1 = -(n + 1) /\ n + 1 \in 1..B
    BY <1>1
  <2>2. (-n - 1) % B = B - (n + 1)
    BY <1>3, <2>1
  <2>3. (B - (n + 1)) + 1 = B - n
    BY <1>1, <2>1
  <2>4. CASE n = 0
    <3>1. B - n = B /\ n \in 0..(B - 1)
      BY <1>1, <2>4
    <3>2. -n = n /\ n % B = n
      <4>1. n % B = n
        BY <1>3, <3>1, Zenon
      <4>2. -n = n
        <5>1. \A k \in Int : k <= 0 /\ k >= 0 => -k = k
          OBVIOUS
        <5>2. n \in Int /\ n <= 0 /\ n >= 0
          BY <2>4
        <5>3. QED
          BY <5>1, <5>2, Zenon
      <4>3. QED
        BY <4>1, <4>2
    <3>3. QED
      BY <1>2, <1>3, <2>2, <2>3, <3>1, <3>2
  <2>5. CASE n # 0
    <3>1. B - n \in 0..(B - 1) /\ n \in 1..B
      BY <1>1, <2>1, <2>5
    <3>2. QED
      BY <1>2, <1>3, <2>2, <2>3, <3>1
  <2>6. QED
    BY <2>4, <2>5
<1>8. 0 \in Expr!Words /\ 1 \in Expr!Words
  BY <1>1
<1>9. QED
  BY <1>4, <1>5, <1>6, <1>7, <1>8

\* The two halves of a statement about a sequence and what is appended to it.
LEMMA Appended ==
    ASSUME NEW S, NEW s \in Seq(S), NEW x \in S
    PROVE  /\ Append(s, x) \in Seq(S) /\ Len(s) \in Nat
           /\ Len(Append(s, x)) = Len(s) + 1
           /\ DOMAIN s = 1..Len(s) /\ DOMAIN Append(s, x) = 1..(Len(s) + 1)
           /\ Append(s, x)[Len(s) + 1] = x
           /\ \A k \in 1..Len(s) : Append(s, x)[k] = s[k]
           /\ \A k \in 1..Len(s) : s[k] \in S
  OBVIOUS

-----------------------------------------------------------------------------
\* Iterating over code: h is the effect of an instruction on what is computed.
\* F goes through c from a; a longer c leaves the first part as it is.
Along(F, c, a, h) ==
    /\ DOMAIN F = 0..Len(c) /\ F[0] = a
    /\ \A k \in 1..Len(c) : F[k] = h[c[k]][F[k - 1]]

LEMMA AlongStays ==
    ASSUME NEW I, NEW S, NEW a \in S, NEW h \in [I -> [S -> S]], NEW c \in Seq(I), NEW i \in I,
           NEW F, Along(F, c, a, h), NEW G, Along(G, Append(c, i), a, h)
    PROVE  /\ F[Len(c)] \in S
           /\ G[Len(Append(c, i))] = h[i][F[Len(c)]]
<1> DEFINE n == Len(c)
           d == Append(c, i)
           T == {k \in Nat : k <= n => F[k] \in S /\ G[k] = F[k]}
<1>1. /\ n \in Nat /\ Len(d) = n + 1 /\ d[n + 1] = i
      /\ \A k \in 1..n : d[k] = c[k] /\ c[k] \in I
  BY Appended
<1> HIDE DEF n, d
<1>2. /\ \A k \in 1..n : F[k] = h[c[k]][F[k - 1]]
      /\ \A k \in 1..(n + 1) : G[k] = h[d[k]][G[k - 1]]
      /\ F[0] = a /\ G[0] = a
  BY <1>1 DEF Along, n, d
<1>3. 0 \in T
  BY <1>2
<1>4. ASSUME NEW k \in Nat, k \in T PROVE k + 1 \in T
  <2> SUFFICES ASSUME k + 1 <= n PROVE F[k + 1] \in S /\ G[k + 1] = F[k + 1]
    OBVIOUS
  <2>1. k + 1 \in 1..n /\ k + 1 \in 1..(n + 1) /\ (k + 1) - 1 = k /\ k <= n
    BY <1>1
  <2>2. F[k] \in S /\ G[k] = F[k]
    BY <1>4, <2>1
  <2>3. F[k + 1] = h[c[k + 1]][F[k]] /\ G[k + 1] = h[c[k + 1]][F[k]]
    BY <1>1, <1>2, <2>1, <2>2
  <2>4. h[c[k + 1]] \in [S -> S]
    BY <1>1, <2>1
  <2>5. QED
    BY <2>2, <2>3, <2>4
<1>5. n \in T
  BY <1>1, <1>3, <1>4, Induction
<1>6. F[n] \in S /\ G[n] = F[n]
  BY <1>1, <1>5
<1>7. G[n + 1] = h[i][F[n]]
  <2>1. n + 1 \in 1..(n + 1) /\ (n + 1) - 1 = n
    BY <1>1
  <2>2. QED
    BY <1>1, <1>2, <1>6, <2>1
<1>8. QED
  BY <1>1, <1>6, <1>7 DEF n, d

LEMMA AlongIs ==
    ASSUME NEW I, NEW S, NEW a \in S, NEW h \in [I -> [S -> S]], NEW c \in Seq(I)
    PROVE  \E F \in [0..Len(c) -> S] : Along(F, c, a, h)
<1> DEFINE n == Len(c)
           g == [k \in 1..n |-> h[c[k]]]
<1>1. n \in Nat /\ \A k \in 1..n : c[k] \in I
  OBVIOUS
<1>2. g \in [1..n -> [S -> S]] /\ \A k \in 1..n : g[k] = h[c[k]]
  BY <1>1
<1> HIDE DEF n, g
<1>3. PICK F \in [0..n -> S] : Recursive(F, n, a, g)
  BY <1>1, <1>2, Recursion
<1>4. F[0] = a
  BY <1>1, <1>3 DEF Recursive
<1>5. \A k \in 1..n : F[k] = g[k][F[k - 1]]
  <2>1. \A k \in 1..n : k \in 0..n /\ k # 0
    BY <1>1
  <2>2. QED
    BY <1>3, <2>1 DEF Recursive
<1>6. QED
  BY <1>2, <1>3, <1>4, <1>5 DEF Along, n

-----------------------------------------------------------------------------
\* The register machine.

Registers == 0..(7 + MaxActions)
Memories == [Registers -> Expr!Words]

Printed ==
    {i \in [op : {"ADD", "SUB", "ADDI", "ANDI", "NOT", "LDR"},
            d : Registers, a : Registers, b : Nat] :
        i.op \in {"ADD", "SUB"} => i.b \in Registers}

Obeyed(m, i) ==
    [m EXCEPT ![i.d] =
        CASE i.op = "ADD" -> Expr!Wrap(m[i.a] + m[i.b])
          [] i.op = "SUB" -> Expr!Wrap(m[i.a] - m[i.b])
          [] i.op = "ADDI" -> Expr!Wrap(m[i.a] + i.b)
          [] i.op = "ANDI" -> 0
          [] i.op = "NOT" -> Expr!Wrap(-m[i.a] - 1)
          [] i.op = "LDR" -> Expr!Memory(m[i.a])]

AtFirst == [r \in Registers |-> IF r \in Regs THEN first[r] ELSE 1]

MemoriesOf(c) ==
    CHOOSE f : f = [k \in 0..Len(c) |-> IF k = 0 THEN AtFirst ELSE Obeyed(f[k - 1], c[k])]

\* What is in the registers when c has been run.
MemoryAfter(c) == MemoriesOf(c)[Len(c)]

Obeying == [i \in Printed |-> [m \in Memories |-> Obeyed(m, i)]]

LEMMA MachineIs == Expr!Machine = MemoryAfter(emitted)
  BY DEF Expr!Machine, MemoryAfter, MemoriesOf, AtFirst, Obeyed, Registers

LEMMA ObeyedIs ==
    ASSUME Expr!RegExprAssumption, NEW m \in Memories, NEW i \in Printed
    PROVE  Obeyed(m, i) \in Memories
<1> DEFINE w == CASE i.op = "ADD" -> Expr!Wrap(m[i.a] + m[i.b])
                  [] i.op = "SUB" -> Expr!Wrap(m[i.a] - m[i.b])
                  [] i.op = "ADDI" -> Expr!Wrap(m[i.a] + i.b)
                  [] i.op = "ANDI" -> 0
                  [] i.op = "NOT" -> Expr!Wrap(-m[i.a] - 1)
                  [] i.op = "LDR" -> Expr!Memory(m[i.a])
<1>1. /\ i.op \in {"ADD", "SUB", "ADDI", "ANDI", "NOT", "LDR"}
      /\ i.d \in Registers /\ i.a \in Registers /\ i.b \in Nat
      /\ i.op \in {"ADD", "SUB"} => i.b \in Registers
  BY DEF Printed
<1>2. m[i.a] \in Expr!Words /\ (i.b \in Registers => m[i.b] \in Expr!Words)
  BY <1>1 DEF Memories
<1>3. /\ \A n \in Int : Expr!Wrap(n) \in Expr!Words
      /\ \A n \in Expr!Words : n \in Nat /\ Expr!Memory(n) \in Expr!Words
      /\ 0 \in Expr!Words
  BY Wrapped
<1>0. m[i.a] \in Nat /\ (i.op \in {"ADD", "SUB"} => m[i.b] \in Nat)
  BY <1>1, <1>2, <1>3, Zenon
<1>4. w \in Expr!Words
  <2>1. CASE i.op = "ADD"
    <3>1. m[i.a] + m[i.b] \in Int
      BY <1>0, <2>1
    <3>2. QED
      BY <1>3, <2>1, <3>1
  <2>2. CASE i.op = "SUB"
    <3>1. m[i.a] - m[i.b] \in Int
      BY <1>0, <2>2
    <3>2. QED
      BY <1>3, <2>2, <3>1
  <2>3. CASE i.op = "ADDI"
    <3>1. m[i.a] + i.b \in Int
      BY <1>0, <1>1
    <3>2. QED
      BY <1>3, <2>3, <3>1
  <2>4. CASE i.op = "ANDI"
    BY <1>3, <2>4
  <2>5. CASE i.op = "NOT"
    <3>1. -m[i.a] - 1 \in Int
      BY <1>0
    <3>2. QED
      BY <1>3, <2>5, <3>1
  <2>6. CASE i.op = "LDR"
    BY <1>2, <1>3, <2>6
  <2>7. QED
    BY <1>1, <2>1, <2>2, <2>3, <2>4, <2>5, <2>6
<1> HIDE DEF w
<1>5. [m EXCEPT ![i.d] = w] \in Memories
  BY <1>1, <1>4 DEF Memories
<1>6. QED
  BY <1>5 DEF Obeyed, w

LEMMA MachineAlong ==
    ASSUME Expr!RegExprAssumption, first \in [Regs -> Expr!Words], NEW c \in Seq(Printed)
    PROVE  /\ AtFirst \in Memories /\ Obeying \in [Printed -> [Memories -> Memories]]
           /\ Along(MemoriesOf(c), c, AtFirst, Obeying)
<1> DEFINE n == Len(c)
           Def(f) == [k \in 0..n |-> IF k = 0 THEN AtFirst ELSE Obeyed(f[k - 1], c[k])]
           F == CHOOSE f : f = Def(f)
<1>1. AtFirst \in Memories
  <2>1. 1 \in Expr!Words
    BY Wrapped
  <2>2. QED
    BY <2>1 DEF AtFirst, Memories
<1>2. Obeying \in [Printed -> [Memories -> Memories]]
  BY ObeyedIs DEF Obeying
<1>3. n \in Nat /\ \A k \in 1..n : c[k] \in Printed
  OBVIOUS
<1>4. PICK f \in [0..n -> Memories] : Along(f, c, AtFirst, Obeying)
  BY <1>1, <1>2, AlongIs
<1>5. \A k \in 0..n : k # 0 => k \in 1..n /\ k - 1 \in 0..n
  BY <1>3
<1>6. \A k \in 1..n : \A m \in Memories : Obeying[c[k]][m] = Obeyed(m, c[k])
  BY <1>3 DEF Obeying
<1> HIDE DEF n
<1>7. f = Def(f)
  <2>1. \A k \in 0..n : k # 0 => f[k] = Obeyed(f[k - 1], c[k])
    BY <1>4, <1>5, <1>6 DEF Along, n
  <2>2. f[0] = AtFirst
    BY <1>4 DEF Along
  <2>3. QED
    BY <1>4, <2>1, <2>2
<1>8. F = Def(F)
  BY <1>7
<1>9. MemoriesOf(c) = F
  BY DEF MemoriesOf, n
<1> HIDE DEF F
<1>10. DOMAIN F = 0..n /\ F[0] = AtFirst /\ \A k \in 1..n : F[k] = Obeyed(F[k - 1], c[k])
  <2>1. \A k \in 1..n : k \in 0..n /\ k # 0
    BY <1>3
  <2>2. 0 \in 0..n
    BY <1>3
  <2>3. QED
    BY <1>8, <2>1, <2>2
<1>11. n \in {k \in Nat : k <= n => \A j \in 0..k : F[j] \in Memories}
  <2> DEFINE T == {k \in Nat : k <= n => \A j \in 0..k : F[j] \in Memories}
  <2>1. 0 \in T
    BY <1>1, <1>10
  <2>2. ASSUME NEW k \in Nat, k \in T PROVE k + 1 \in T
    <3> SUFFICES ASSUME k + 1 <= n PROVE \A j \in 0..(k + 1) : F[j] \in Memories
      OBVIOUS
    <3>1. k <= n /\ k \in 0..k /\ k + 1 \in 1..n /\ (k + 1) - 1 = k
      BY <1>3
    <3>2. \A j \in 0..k : F[j] \in Memories
      BY <2>2, <3>1
    <3>3. F[k + 1] = Obeyed(F[k], c[k + 1])
      BY <1>10, <3>1
    <3>4. F[k + 1] \in Memories
      BY <1>3, <3>1, <3>2, <3>3, ObeyedIs
    <3>5. \A j \in 0..(k + 1) : j \in 0..k \/ j = k + 1
      OBVIOUS
    <3>6. QED
      BY <3>2, <3>4, <3>5
  <2>3. QED
    BY <1>3, <2>1, <2>2, Induction
<1>12. \A k \in 1..n : F[k] = Obeying[c[k]][F[k - 1]]
  <2>1. \A k \in 1..n : k - 1 \in 0..n
    BY <1>3
  <2>2. \A k \in 1..n : F[k - 1] \in Memories
    BY <1>3, <1>11, <2>1
  <2>3. QED
    BY <1>6, <1>10, <2>2
<1>13. Along(F, c, AtFirst, Obeying)
  BY <1>10, <1>12 DEF Along, n
<1>14. QED
  BY <1>1, <1>2, <1>9, <1>13

\* One more instruction.
LEMMA Prints ==
    ASSUME Expr!RegExprAssumption, first \in [Regs -> Expr!Words],
           NEW c \in Seq(Printed), NEW i \in Printed
    PROVE  /\ Append(c, i) \in Seq(Printed)
           /\ MemoryAfter(c) \in Memories /\ MemoryAfter(Append(c, i)) \in Memories
           /\ MemoryAfter(Append(c, i)) = Obeyed(MemoryAfter(c), i)
<1>1. Append(c, i) \in Seq(Printed)
  OBVIOUS
<1>2. Along(MemoriesOf(Append(c, i)), Append(c, i), AtFirst, Obeying)
  BY <1>1, MachineAlong
<1>3. /\ AtFirst \in Memories /\ Obeying \in [Printed -> [Memories -> Memories]]
      /\ Along(MemoriesOf(c), c, AtFirst, Obeying)
  BY MachineAlong
<1>4. /\ MemoryAfter(c) \in Memories /\ MemoryAfter(Append(c, i)) = Obeying[i][MemoryAfter(c)]
  BY <1>2, <1>3, AlongStays DEF MemoryAfter
<1>5. Obeying[i][MemoryAfter(c)] = Obeyed(MemoryAfter(c), i)
  BY <1>4 DEF Obeying
<1>6. QED
  BY <1>1, <1>4, <1>5, ObeyedIs

LEMMA NothingPrinted ==
    ASSUME Expr!RegExprAssumption, first \in [Regs -> Expr!Words]
    PROVE  << >> \in Seq(Printed) /\ MemoryAfter(<< >>) = AtFirst /\ AtFirst \in Memories
<1>1. << >> \in Seq(Printed) /\ Len(<< >>) = 0
  OBVIOUS
<1>2. AtFirst \in Memories /\ Along(MemoriesOf(<< >>), << >>, AtFirst, Obeying)
  BY <1>1, MachineAlong
<1>3. QED
  BY <1>1, <1>2 DEF Along, MemoryAfter

-----------------------------------------------------------------------------
\* Instructions that are built.

Instructions ==
    [op : {"slot", "load", "neg"}, args : [1..1 -> Expr!Operand]]
    \cup [op : {"add", "sub"}, args : [1..2 -> Expr!Operand]]

\* An operand stands for a word where n instructions are before it.
Usable(o, n) == IF o.kind = "const" THEN o.n \in Expr!Words ELSE o.n \in 1..n
Fits(i, n) == \A a \in DOMAIN i.args : Usable(i.args[a], n)

Laid(c) == c \in Seq(Instructions) /\ \A k \in 1..Len(c) : Fits(c[k], k - 1)

ValuesOf(c) ==
    CHOOSE f : f = [k \in 0..Len(c) |->
        IF k = 0 THEN << >> ELSE Append(f[k - 1], Expr!Result(f[k - 1], c[k]))]

\* The results of c.
ResultsOf(c) == ValuesOf(c)[Len(c)]

Calculating ==
    [i \in Instructions |-> [v \in Seq(Expr!Words) |->
        IF Fits(i, Len(v)) THEN Append(v, Expr!Result(v, i)) ELSE v]]

LEMMA RunIs == ASSUME NEW c, NEW o PROVE Expr!Run(c, o) = Expr!Value(ResultsOf(c), o)
  BY DEF Expr!Run, ResultsOf, ValuesOf

LEMMA ValueIs ==
    ASSUME NEW v \in Seq(Expr!Words), NEW o \in Expr!Operand, Usable(o, Len(v))
    PROVE  Expr!Value(v, o) \in Expr!Words
  BY DEF Expr!Value, Usable

LEMMA ResultIs ==
    ASSUME Expr!RegExprAssumption, NEW v \in Seq(Expr!Words), NEW i \in Instructions,
           Fits(i, Len(v))
    PROVE  Expr!Result(v, i) \in Expr!Words
<1> DEFINE a == Expr!Value(v, i.args[1])
           b == Expr!Value(v, i.args[2])
<1>1. /\ i.op \in {"slot", "load", "neg", "add", "sub"}
      /\ 1 \in DOMAIN i.args /\ i.args[1] \in Expr!Operand
      /\ i.op \in {"add", "sub"} => 2 \in DOMAIN i.args /\ i.args[2] \in Expr!Operand
  BY DEF Instructions
<1>2. a \in Expr!Words /\ (i.op \in {"add", "sub"} => b \in Expr!Words)
  BY <1>1, ValueIs DEF Fits
<1>3. /\ \A n \in Int : Expr!Wrap(n) \in Expr!Words
      /\ \A n \in Expr!Words : n \in Nat /\ Expr!Memory(n) \in Expr!Words
  BY Wrapped
<1> HIDE DEF a, b
<1>4. a \in Nat /\ (i.op \in {"add", "sub"} => b \in Nat)
  BY <1>2, <1>3, Zenon
<1>5. -a \in Int /\ (i.op \in {"add", "sub"} => a + b \in Int /\ a - b \in Int)
  BY <1>4
<1>6. /\ i.op = "slot" => Expr!Result(v, i) = a
      /\ i.op = "load" => Expr!Result(v, i) = Expr!Memory(a)
      /\ i.op = "neg" => Expr!Result(v, i) = Expr!Wrap(-a)
      /\ i.op = "add" => Expr!Result(v, i) = Expr!Wrap(a + b)
      /\ i.op = "sub" => Expr!Result(v, i) = Expr!Wrap(a - b)
  BY DEF Expr!Result, a, b
<1>7. QED
  BY <1>1, <1>2, <1>3, <1>5, <1>6, Zenon

LEMMA Counting ==
    ASSUME NEW S, NEW n \in Nat, NEW F, F[0] = << >>,
           \A k \in 1..n : F[k - 1] \in Seq(S) /\ Len(F[k - 1]) = k - 1 =>
                               F[k] \in Seq(S) /\ Len(F[k]) = k
    PROVE  \A k \in 0..n : F[k] \in Seq(S) /\ Len(F[k]) = k
<1> DEFINE Right(k) == F[k] \in Seq(S) /\ Len(F[k]) = k
           T == {k \in Nat : k <= n => \A j \in 0..k : Right(j)}
<1>1. 0 \in T
  <2>1. << >> \in Seq(S) /\ Len(<< >>) = 0
    OBVIOUS
  <2>2. \A j \in 0..0 : j = 0
    OBVIOUS
  <2>3. QED
    BY <2>1, <2>2
<1>2. ASSUME NEW k \in Nat, k \in T PROVE k + 1 \in T
  <2> SUFFICES ASSUME k + 1 <= n PROVE \A j \in 0..(k + 1) : Right(j)
    OBVIOUS
  <2>1. k <= n /\ k \in 0..k /\ k + 1 \in 1..n /\ (k + 1) - 1 = k
    OBVIOUS
  <2>2. \A j \in 0..k : Right(j)
    BY <1>2, <2>1
  <2>3. Right(k + 1)
    BY <2>1, <2>2
  <2>4. \A j \in 0..(k + 1) : j \in 0..k \/ j = k + 1
    OBVIOUS
  <2>5. QED
    BY <2>2, <2>3, <2>4
<1>3. n \in T
  BY <1>1, <1>2, Induction
<1>4. QED
  BY <1>3

LEMMA BuiltAlong ==
    ASSUME Expr!RegExprAssumption, NEW c, Laid(c)
    PROVE  /\ << >> \in Seq(Expr!Words)
           /\ Calculating \in [Instructions -> [Seq(Expr!Words) -> Seq(Expr!Words)]]
           /\ Along(ValuesOf(c), c, << >>, Calculating)
           /\ ResultsOf(c) \in Seq(Expr!Words) /\ Len(ResultsOf(c)) = Len(c)
<1> DEFINE n == Len(c)
           W == Seq(Expr!Words)
           Go(v, i) == Append(v, Expr!Result(v, i))
           Def(f) == [k \in 0..n |-> IF k = 0 THEN << >> ELSE Go(f[k - 1], c[k])]
           F == CHOOSE f : f = Def(f)
<1>1. n \in Nat /\ c \in Seq(Instructions) /\ \A k \in 1..n : c[k] \in Instructions /\ Fits(c[k], k - 1)
  BY DEF Laid
<1>2. << >> \in W
  OBVIOUS
<1>3. ASSUME NEW i \in Instructions, NEW v \in W, Fits(i, Len(v))
      PROVE  Go(v, i) \in W /\ Len(Go(v, i)) = Len(v) + 1
  BY <1>3, ResultIs
<1> HIDE DEF W, Go
<1>4. Calculating \in [Instructions -> [W -> W]]
      /\ \A i \in Instructions : \A v \in W : Fits(i, Len(v)) => Calculating[i][v] = Go(v, i)
  BY <1>3 DEF Calculating, Go, W
<1>5. ASSUME NEW k \in 1..n, NEW v \in W, Len(v) = k - 1
      PROVE  Calculating[c[k]][v] = Go(v, c[k]) /\ Go(v, c[k]) \in W /\ Len(Go(v, c[k])) = k
  <2>1. c[k] \in Instructions /\ Fits(c[k], Len(v)) /\ (k - 1) + 1 = k
    BY <1>1, <1>5
  <2>2. QED
    BY <1>3, <1>4, <1>5, <2>1
<1>6. PICK f \in [0..n -> W] : Along(f, c, << >>, Calculating)
  BY <1>1, <1>2, <1>4, AlongIs
<1>7. f[0] = << >> /\ \A k \in 1..n : f[k] = Calculating[c[k]][f[k - 1]]
  BY <1>6 DEF Along
<1> HIDE DEF n
<1>8. \A k \in 0..n : f[k] \in W /\ Len(f[k]) = k
  <2>1. \A k \in 1..n : f[k - 1] \in W /\ Len(f[k - 1]) = k - 1 => f[k] \in W /\ Len(f[k]) = k
    BY <1>5, <1>7
  <2>2. \A S, G : /\ G[0] = << >>
                  /\ \A k \in 1..n : G[k - 1] \in Seq(S) /\ Len(G[k - 1]) = k - 1 =>
                                         G[k] \in Seq(S) /\ Len(G[k]) = k
                  => \A k \in 0..n : G[k] \in Seq(S) /\ Len(G[k]) = k
    BY <1>1, Counting, ZenonT(60)
  <2>3. QED
    BY <1>7, <2>1, <2>2, Zenon DEF W
<1>9. \A k \in 0..n : k # 0 => k \in 1..n /\ k - 1 \in 0..n
  BY <1>1
<1>10. f = Def(f)
  <2>1. \A k \in 0..n : k # 0 => f[k] = Go(f[k - 1], c[k])
    BY <1>5, <1>7, <1>8, <1>9
  <2>2. QED
    BY <1>6, <1>7, <2>1
<1>11. F = Def(F)
  BY <1>10
<1>12. ValuesOf(c) = F
  BY DEF ValuesOf, n, Go
<1> HIDE DEF F
<1>13. DOMAIN F = 0..n /\ F[0] = << >> /\ \A k \in 1..n : F[k] = Go(F[k - 1], c[k])
  <2>1. \A k \in 1..n : k \in 0..n /\ k # 0
    BY <1>1
  <2>2. 0 \in 0..n
    BY <1>1
  <2>3. QED
    BY <1>11, <2>1, <2>2
<1>14. \A k \in 0..n : F[k] \in W /\ Len(F[k]) = k
  <2>1. \A k \in 1..n : F[k - 1] \in W /\ Len(F[k - 1]) = k - 1 => F[k] \in W /\ Len(F[k]) = k
    BY <1>5, <1>13
  <2>2. QED
    BY <1>1, <1>13, <2>1, Counting, ZenonT(60) DEF W
<1>15. \A k \in 1..n : F[k] = Calculating[c[k]][F[k - 1]]
  <2>1. \A k \in 1..n : k - 1 \in 0..n
    BY <1>1
  <2>2. QED
    BY <1>5, <1>13, <1>14, <2>1
<1>16. n \in 0..n
  BY <1>1
<1>17. QED
  BY <1>2, <1>4, <1>12, <1>13, <1>14, <1>15, <1>16 DEF Along, ResultsOf, W, n

\* One more instruction: the results before it stay.
LEMMA Builds ==
    ASSUME Expr!RegExprAssumption, NEW c, Laid(c), NEW i \in Instructions, Fits(i, Len(c))
    PROVE  /\ Laid(Append(c, i)) /\ Len(Append(c, i)) = Len(c) + 1 /\ Len(c) \in Nat
           /\ ResultsOf(Append(c, i)) = Append(ResultsOf(c), Expr!Result(ResultsOf(c), i))
<1> DEFINE d == Append(c, i)
           n == Len(c)
<1>1. c \in Seq(Instructions) /\ n \in Nat /\ \A k \in 1..n : Fits(c[k], k - 1)
  BY DEF Laid
<1>2. /\ d \in Seq(Instructions) /\ Len(d) = n + 1 /\ d[n + 1] = i
      /\ \A k \in 1..n : d[k] = c[k]
  BY <1>1
<1> HIDE DEF d, n
<1>3. ASSUME NEW k \in 1..(n + 1) PROVE Fits(d[k], k - 1)
  <2>1. CASE k = n + 1
    <3>1. k - 1 = n
      BY <1>1, <2>1
    <3>2. QED
      BY <1>2, <2>1, <3>1 DEF n
  <2>2. CASE k # n + 1
    <3>1. k \in 1..n
      BY <1>1, <2>2
    <3>2. QED
      BY <1>1, <1>2, <3>1
  <2>3. QED
    BY <2>1, <2>2
<1>4. Laid(d)
  BY <1>2, <1>3 DEF Laid
<1>5. /\ << >> \in Seq(Expr!Words)
      /\ Calculating \in [Instructions -> [Seq(Expr!Words) -> Seq(Expr!Words)]]
      /\ Along(ValuesOf(c), c, << >>, Calculating)
      /\ ResultsOf(c) \in Seq(Expr!Words) /\ Len(ResultsOf(c)) = n
  BY BuiltAlong DEF n
<1>6. Along(ValuesOf(d), d, << >>, Calculating)
  BY <1>4, BuiltAlong
<1>7. ResultsOf(d) = Calculating[i][ResultsOf(c)]
  <2> DEFINE W == Seq(Expr!Words)
             e == << >>
             F == ValuesOf(c)
             G == ValuesOf(d)
  <2>1. e \in W /\ Calculating \in [Instructions -> [W -> W]] /\ ResultsOf(d) = G[Len(d)]
        /\ ResultsOf(c) = F[Len(c)] /\ Along(F, c, e, Calculating) /\ Along(G, d, e, Calculating)
    BY <1>5, <1>6 DEF ResultsOf
  <2> HIDE DEF W, e, F, G
  <2>2. G[Len(d)] = Calculating[i][F[Len(c)]]
    BY <1>1, <2>1, AlongStays DEF d
  <2>3. QED
    BY <2>1, <2>2
<1>8. Calculating[i][ResultsOf(c)] = Append(ResultsOf(c), Expr!Result(ResultsOf(c), i))
  BY <1>5 DEF Calculating, n
<1>9. QED
  BY <1>1, <1>2, <1>4, <1>7, <1>8 DEF d, n

-----------------------------------------------------------------------------
\* The invariant of the translators.

\* A value of the tools that build means w where c has been built.
Denotes(c, o, w) ==
    IF o = Unset THEN w = Unset
    ELSE /\ o \in Expr!Operand /\ Usable(o, Len(c))
         /\ w \in Expr!Words /\ Expr!Value(ResultsOf(c), o) = w

Counted ==
    /\ translator \in Translators
    /\ actions \in 0..MaxActions /\ regCnt \in 8..(8 + actions)
    /\ pc \in {"parse", "accepted", "rejected", "crashed"}
    /\ pc = "parse" => file = Expr!NoFile

\* In use: the registers of the input and those that have been taken.
InUse(n) == Regs \cup 8..(n - 1)

Printing ==
    /\ first \in [Regs -> Expr!Words] /\ held \in [Regs -> Expr!Words]
    /\ emitted \in Seq(Printed)
    /\ sem \in Seq(InUse(regCnt)) /\ mean \in Seq(Expr!Words) /\ Len(sem) = Len(mean)
    /\ \A i \in 1..Len(sem) : MemoryAfter(emitted)[sem[i]] = mean[i]
    /\ \A r \in Regs : MemoryAfter(emitted)[r] = held[r]
    /\ file = Expr!NoFile

Composing ==
    /\ Laid(emitted)
    /\ sem \in Seq(Expr!Operand \cup {Unset}) /\ mean \in Seq(Expr!Words \cup {Unset})
    /\ Len(sem) = Len(mean)
    /\ \A i \in 1..Len(sem) : Denotes(emitted, sem[i], mean[i])
    /\ DOMAIN regs = Regs /\ DOMAIN held = Regs
    /\ \A r \in Regs : Denotes(emitted, regs[r], held[r])
    /\ answer # None =>
          /\ Denotes(emitted, program, answer)
          /\ translator = "t2cpp" => lastReg \in Regs /\ regs[lastReg] = program
    /\ FileAnswers

EInv == Counted /\ IF translator = "t1" THEN Printing ELSE Composing

LEMMA Replaced ==
    ASSUME NEW S, NEW s \in Seq(S), NEW n \in 0..Len(s), NEW x \in S
    PROVE  LET t == Append(Expr!DropLast(s, n), x) IN
           /\ t \in Seq(S) /\ Len(t) = Len(s) - n + 1
           /\ t[Len(s) - n + 1] = x
           /\ \A i \in 1..(Len(s) - n) : t[i] = s[i] /\ i \in 1..Len(s)
<1> DEFINE d == Expr!DropLast(s, n)
<1>1. d \in Seq(S) /\ Len(d) = Len(s) - n /\ \A i \in 1..(Len(s) - n) : d[i] = s[i] /\ i \in 1..Len(s)
  BY DEF Expr!DropLast
<1> HIDE DEF d
<1>2. Len(s) - n \in Nat
  OBVIOUS
<1>3. QED
  BY <1>1, <1>2 DEF d

LEMMA InUseIs ==
    ASSUME Expr!RegExprAssumption, Counted
    PROVE  /\ InUse(regCnt) \subseteq Registers /\ Regs \subseteq InUse(regCnt)
           /\ regCnt \notin InUse(regCnt) /\ regCnt \in InUse(regCnt + 1)
           /\ InUse(regCnt) \subseteq InUse(regCnt + 1)
           /\ actions < MaxActions => regCnt \in Registers
<1>1. /\ regCnt \in Nat /\ actions \in Nat /\ MaxActions \in Nat
      /\ 8 <= regCnt /\ regCnt <= 8 + actions /\ actions <= MaxActions
  BY DEF Expr!RegExprAssumption, Counted
<1>2. Regs \subseteq 0..7
  BY DEF Expr!RegExprAssumption
<1>3. 0..7 \subseteq Registers /\ 8..(regCnt - 1) \subseteq Registers
  BY <1>1 DEF Registers
<1>4. regCnt \notin 0..7 /\ regCnt \notin 8..(regCnt - 1)
  BY <1>1
<1>5. regCnt \in 8..((regCnt + 1) - 1) /\ 8..(regCnt - 1) \subseteq 8..((regCnt + 1) - 1)
  BY <1>1
<1>6. actions < MaxActions => regCnt \in Registers
  BY <1>1 DEF Registers
<1>7. QED
  BY <1>2, <1>3, <1>4, <1>5, <1>6 DEF InUse

LEMMA Counts ==
    ASSUME Expr!RegExprAssumption, Counted, Expr!Act, regCnt' \in {regCnt, regCnt + 1}
    PROVE  actions' \in 0..MaxActions /\ regCnt' \in 8..(8 + actions')
<1>1. /\ actions \in Nat /\ MaxActions \in Nat /\ actions < MaxActions /\ actions' = actions + 1
      /\ regCnt \in 8..(8 + actions)
  BY DEF Expr!Act, Counted, Expr!RegExprAssumption
<1>2. QED
  BY <1>1

\* An expression takes the place of n others.
LEMMA PushedPrinting ==
    ASSUME Expr!RegExprAssumption, EInv, translator = "t1", Expr!Act,
           NEW n \in 0..Len(sem), NEW x, NEW w \in Expr!Words,
           emitted' \in Seq(Printed),
           \A r \in InUse(regCnt) : MemoryAfter(emitted')[r] = MemoryAfter(emitted)[r],
           regCnt' \in {regCnt, regCnt + 1}, x \in InUse(regCnt'),
           MemoryAfter(emitted')[x] = w,
           sem' = Append(Expr!DropLast(sem, n), x),
           mean' = Append(Expr!DropLast(mean, n), w),
           UNCHANGED <<held, file, pc>>
    PROVE  EInv'
<1>1. Counted /\ Printing
  BY DEF EInv
<1>2. Counted' /\ translator' = translator /\ first' = first
  <2>1. actions' \in 0..MaxActions /\ regCnt' \in 8..(8 + actions')
    BY <1>1, Counts
  <2>2. QED
    BY <1>1, <2>1 DEF Expr!Act, Counted, Expr!NoFile
<1>3. InUse(regCnt) \subseteq InUse(regCnt') /\ Regs \subseteq InUse(regCnt)
  BY <1>1, InUseIs
<1> DEFINE U == InUse(regCnt')
           k == Len(sem) - n
<1>4. sem \in Seq(U) /\ mean \in Seq(Expr!Words) /\ Len(mean) = Len(sem) /\ Len(sem) \in Nat
  BY <1>1, <1>3 DEF Printing
<1>11. x \in U
  OBVIOUS
<1> HIDE DEF U
<1>5. /\ sem' \in Seq(U) /\ Len(sem') = k + 1 /\ sem'[k + 1] = x
      /\ \A i \in 1..k : sem'[i] = sem[i] /\ i \in 1..Len(sem)
  BY <1>4, <1>11, Replaced
<1>6. /\ mean' \in Seq(Expr!Words) /\ Len(mean') = k + 1 /\ mean'[k + 1] = w
      /\ \A i \in 1..k : mean'[i] = mean[i]
  BY <1>4, Replaced
<1>0. k \in Nat
  BY <1>4
<1> HIDE DEF k
<1>7. ASSUME NEW i \in 1..Len(sem') PROVE MemoryAfter(emitted')[sem'[i]] = mean'[i]
  <2>1. k \in Nat
    BY <1>0
  <2>2. CASE i = k + 1
    BY <1>5, <1>6, <2>2
  <2>3. CASE i # k + 1
    <3>1. i \in 1..k
      <4>1. i \in 1..(k + 1)
        BY <1>5
      <4>2. QED
        BY <2>1, <2>3, <4>1
    <3>5. i \in 1..Len(sem)
      BY <1>5, <3>1
    <3>2. sem[i] \in InUse(regCnt)
      BY <1>1, <3>5 DEF Printing
    <3>3. MemoryAfter(emitted)[sem[i]] = mean[i]
      BY <1>1, <3>5 DEF Printing
    <3>4. QED
      BY <1>5, <1>6, <3>1, <3>2, <3>3
  <2>4. QED
    BY <2>2, <2>3
<1>8. \A r \in Regs : MemoryAfter(emitted')[r] = held[r]
  BY <1>1, <1>3 DEF Printing
<1>9. Printing'
  <2>1. /\ first' \in [Regs -> Expr!Words] /\ held' \in [Regs -> Expr!Words]
        /\ file' = Expr!NoFile' /\ Len(sem') = Len(mean')
        /\ \A r \in Regs : MemoryAfter(emitted')[r] = held'[r]
    BY <1>1, <1>2, <1>5, <1>6, <1>8 DEF Printing, Expr!NoFile
  <2>2. emitted' \in Seq(Printed) /\ sem' \in Seq(InUse(regCnt)')
        /\ mean' \in Seq(Expr!Words)'
    BY <1>5, <1>6 DEF U, InUse
  <2>3. \A i \in 1..Len(sem') : MemoryAfter(emitted')[sem'[i]] = mean'[i]
    BY <1>7
  <2>4. MemoryAfter(emitted)' = MemoryAfter(emitted')
    BY <1>2 DEF MemoryAfter, MemoriesOf, AtFirst
  <2>5. /\ \A i \in 1..Len(sem') : MemoryAfter(emitted)'[sem'[i]] = mean'[i]
        /\ \A r \in Regs : MemoryAfter(emitted)'[r] = held'[r]
    BY <2>1, <2>3, <2>4
  <2>6. QED
    BY <2>1, <2>2, <2>5 DEF Printing, InUse
<1>10. QED
  BY <1>2, <1>9 DEF EInv

LEMMA PushedBuilding ==
    ASSUME Expr!RegExprAssumption, EInv, translator # "t1", Expr!Act,
           NEW n \in 0..Len(sem), NEW x \in Expr!Operand \cup {Unset},
           NEW w \in Expr!Words \cup {Unset},
           Laid(emitted'), \A o, v : Denotes(emitted, o, v) => Denotes(emitted', o, v),
           Denotes(emitted', x, w),
           sem' = Append(Expr!DropLast(sem, n), x),
           mean' = Append(Expr!DropLast(mean, n), w),
           UNCHANGED <<regCnt, regs, lastReg, program, file, pc, held, answer>>
    PROVE  EInv'
<1>1. Counted /\ Composing
  BY DEF EInv
<1>2. Counted' /\ translator' = translator
  <2>1. actions' \in 0..MaxActions /\ regCnt' \in 8..(8 + actions')
    BY <1>1, Counts
  <2>2. QED
    BY <1>1, <2>1 DEF Expr!Act, Counted, Expr!NoFile
<1> DEFINE U == Expr!Operand \cup {Unset}
           M == Expr!Words \cup {Unset}
           k == Len(sem) - n
<1>4. sem \in Seq(U) /\ mean \in Seq(M) /\ Len(mean) = Len(sem) /\ Len(sem) \in Nat
  BY <1>1 DEF Composing
<1>0. x \in U /\ w \in M
  OBVIOUS
<1> HIDE DEF U, M
<1>5. /\ sem' \in Seq(U) /\ Len(sem') = k + 1 /\ sem'[k + 1] = x
      /\ \A i \in 1..k : sem'[i] = sem[i] /\ i \in 1..Len(sem)
  BY <1>0, <1>4, Replaced
<1>6. /\ mean' \in Seq(M) /\ Len(mean') = k + 1 /\ mean'[k + 1] = w
      /\ \A i \in 1..k : mean'[i] = mean[i]
  BY <1>0, <1>4, Replaced
<1>7. ASSUME NEW i \in 1..Len(sem') PROVE Denotes(emitted', sem'[i], mean'[i])
  <2>1. k \in Nat
    BY <1>4
  <2>2. CASE i = k + 1
    BY <1>5, <1>6, <2>2
  <2>3. CASE i # k + 1
    <3>1. i \in 1..k
      <4>1. i \in 1..(k + 1)
        BY <1>5
      <4>2. QED
        BY <2>1, <2>3, <4>1
    <3>4. i \in 1..Len(sem)
      BY <1>5, <3>1
    <3>2. Denotes(emitted, sem[i], mean[i])
      BY <1>1, <3>4 DEF Composing
    <3>3. QED
      BY <1>5, <1>6, <3>1, <3>2
  <2>4. QED
    BY <2>2, <2>3
<1>8. \A r \in Regs : Denotes(emitted', regs[r], held[r])
  BY <1>1 DEF Composing
<1>9. answer # None => Denotes(emitted', program, answer)
  BY <1>1 DEF Composing
<1>10. FileAnswers'
  BY <1>1 DEF Composing, FileAnswers, Expr!FileAnswers, Expr!Act, Counted, Expr!NoFile
<1>11. Composing'
  BY <1>1, <1>2, <1>5, <1>6, <1>7, <1>8, <1>9, <1>10 DEF Composing, U, M
<1>12. QED
  BY <1>2, <1>11 DEF EInv

-----------------------------------------------------------------------------
\* What an action finds, and what its instructions do.

LEMMA ArgsPrinting ==
    ASSUME Expr!RegExprAssumption, EInv, translator = "t1", NEW n \in 1..Len(sem)
    PROVE  /\ Expr!Arg(n) \in InUse(regCnt) /\ Expr!Arg(n) \in Registers
           /\ Expr!Meant(n) \in Expr!Words
           /\ MemoryAfter(emitted)[Expr!Arg(n)] = Expr!Meant(n)
<1>1. Counted /\ Printing
  BY DEF EInv
<1>2. /\ sem \in Seq(InUse(regCnt)) /\ mean \in Seq(Expr!Words) /\ Len(sem) = Len(mean)
      /\ \A i \in 1..Len(sem) : MemoryAfter(emitted)[sem[i]] = mean[i]
  BY <1>1 DEF Printing
<1>3. Len(sem) - n + 1 \in 1..Len(sem)
  BY <1>2
<1>4. InUse(regCnt) \subseteq Registers
  BY <1>1, InUseIs
<1>5. QED
  BY <1>2, <1>3, <1>4 DEF Expr!Arg, Expr!Meant

LEMMA ArgsBuilding ==
    ASSUME EInv, translator # "t1", NEW n \in 1..Len(sem)
    PROVE  /\ Expr!Arg(n) \in Expr!Operand \cup {Unset}
           /\ Expr!Meant(n) \in Expr!Words \cup {Unset}
           /\ Denotes(emitted, Expr!Arg(n), Expr!Meant(n))
<1>1. /\ sem \in Seq(Expr!Operand \cup {Unset}) /\ mean \in Seq(Expr!Words \cup {Unset})
      /\ Len(sem) = Len(mean) /\ \A i \in 1..Len(sem) : Denotes(emitted, sem[i], mean[i])
  BY DEF EInv, Composing
<1>2. Len(sem) - n + 1 \in 1..Len(sem)
  BY <1>1
<1>3. QED
  BY <1>1, <1>2 DEF Expr!Arg, Expr!Meant

LEMMA ObeyedSets ==
    ASSUME NEW m \in Memories, NEW i \in Printed
    PROVE  /\ \A r \in Registers \ {i.d} : Obeyed(m, i)[r] = m[r]
           /\ i.op = "ADD" => Obeyed(m, i)[i.d] = Expr!Wrap(m[i.a] + m[i.b])
           /\ i.op = "SUB" => Obeyed(m, i)[i.d] = Expr!Wrap(m[i.a] - m[i.b])
           /\ i.op = "ADDI" => Obeyed(m, i)[i.d] = Expr!Wrap(m[i.a] + i.b)
           /\ i.op = "ANDI" => Obeyed(m, i)[i.d] = 0
           /\ i.op = "NOT" => Obeyed(m, i)[i.d] = Expr!Wrap(-m[i.a] - 1)
           /\ i.op = "LDR" => Obeyed(m, i)[i.d] = Expr!Memory(m[i.a])
<1>1. i.d \in Registers /\ DOMAIN m = Registers
  BY DEF Printed, Memories
<1>2. QED
  BY <1>1 DEF Obeyed

LEMMA OnePrinted ==
    ASSUME Expr!RegExprAssumption, first \in [Regs -> Expr!Words],
           NEW c \in Seq(Printed), NEW i \in Printed
    PROVE  /\ c \o <<i>> \in Seq(Printed)
           /\ MemoryAfter(c) \in Memories
           /\ MemoryAfter(c \o <<i>>) = Obeyed(MemoryAfter(c), i)
<1>1. c \o <<i>> = Append(c, i)
  OBVIOUS
<1>2. QED
  BY <1>1, Prints

LEMMA TwoPrinted ==
    ASSUME Expr!RegExprAssumption, first \in [Regs -> Expr!Words],
           NEW c \in Seq(Printed), NEW i \in Printed, NEW j \in Printed
    PROVE  /\ c \o <<i, j>> \in Seq(Printed)
           /\ MemoryAfter(c) \in Memories /\ Obeyed(MemoryAfter(c), i) \in Memories
           /\ MemoryAfter(c \o <<i, j>>) = Obeyed(Obeyed(MemoryAfter(c), i), j)
<1>1. c \o <<i, j>> = Append(Append(c, i), j)
  OBVIOUS
<1>2. QED
  BY <1>1, Prints

LEMMA BuiltOne ==
    ASSUME Expr!RegExprAssumption, NEW c, Laid(c), NEW i \in Instructions, Fits(i, Len(c)),
           NEW d, d = Append(c, i), NEW x, x = [kind |-> "instr", n |-> Len(d)]
    PROVE  /\ Laid(d) /\ \A o, w : Denotes(c, o, w) => Denotes(d, o, w)
           /\ x \in Expr!Operand /\ Expr!Result(ResultsOf(c), i) \in Expr!Words
           /\ Denotes(d, x, Expr!Result(ResultsOf(c), i))
<1> DEFINE V == ResultsOf(c)
           w == Expr!Result(V, i)
<1>1. /\ Laid(d) /\ Len(d) = Len(c) + 1 /\ Len(c) \in Nat /\ ResultsOf(d) = Append(V, w)
  BY Builds
<1>2. V \in Seq(Expr!Words) /\ Len(V) = Len(c)
  BY BuiltAlong
<1>3. w \in Expr!Words
  BY <1>2, ResultIs
<1> HIDE DEF V, w
<1>4. /\ \A k \in 1..Len(c) : Append(V, w)[k] = V[k]
      /\ Append(V, w)[Len(c) + 1] = w
  BY <1>2, <1>3
<1>5. ASSUME NEW o, NEW u, Denotes(c, o, u) PROVE Denotes(d, o, u)
  <2>1. CASE o = Unset
    BY <1>5, <2>1 DEF Denotes
  <2>2. CASE o # Unset
    <3>1. o \in Expr!Operand /\ Usable(o, Len(c)) /\ u \in Expr!Words /\ Expr!Value(V, o) = u
      BY <1>5, <2>2 DEF Denotes, V
    <3>2. Usable(o, Len(d))
      BY <1>1, <3>1 DEF Usable
    <3>3. Expr!Value(Append(V, w), o) = Expr!Value(V, o)
      BY <1>4, <3>1 DEF Expr!Value, Usable
    <3>4. QED
      BY <1>1, <2>2, <3>1, <3>2, <3>3 DEF Denotes
  <2>3. QED
    BY <2>1, <2>2
<1>6. x \in Expr!Operand /\ x # Unset /\ x.kind = "instr" /\ x.n = Len(d)
  <2>1. Len(d) \in Nat
    BY <1>1
  <2>2. x \in Expr!Operand
    BY <2>1 DEF Expr!Operand
  <2>3. QED
    BY <2>2 DEF Expr!RegExprAssumption
<1>7. Denotes(d, x, w)
  <2>1. Usable(x, Len(d))
    BY <1>1, <1>6 DEF Usable
  <2>2. Expr!Value(ResultsOf(d), x) = w
    BY <1>1, <1>4, <1>6 DEF Expr!Value
  <2>3. QED
    BY <1>3, <1>6, <2>1, <2>2 DEF Denotes
<1>8. QED
  BY <1>1, <1>3, <1>5, <1>6, <1>7 DEF V, w

LEMMA ConstantIs ==
    ASSUME Expr!RegExprAssumption, NEW c, NEW n \in Expr!Words
    PROVE  Expr!Const(n) \in Expr!Operand /\ Denotes(c, Expr!Const(n), n)
<1>1. n \in Nat
  BY Wrapped
<1>2. Expr!Const(n) \in Expr!Operand /\ Expr!Const(n).kind = "const" /\ Expr!Const(n).n = n
  BY <1>1 DEF Expr!Const, Expr!Operand
<1>3. Expr!Const(n) # Unset
  BY <1>2 DEF Expr!RegExprAssumption
<1>4. QED
  BY <1>2, <1>3 DEF Denotes, Usable, Expr!Value

-----------------------------------------------------------------------------
\* The actions that print.

LEMMA FreshPrinting ==
    ASSUME Expr!RegExprAssumption, EInv, translator = "t1", Expr!Act
    PROVE  /\ first \in [Regs -> Expr!Words] /\ emitted \in Seq(Printed)
           /\ MemoryAfter(emitted) \in Memories
           /\ regCnt \in Registers /\ InUse(regCnt) \subseteq Registers \ {regCnt}
           /\ regCnt \in InUse(regCnt + 1) /\ Regs \subseteq InUse(regCnt)
           /\ Len(sem) \in Nat
<1>1. Counted /\ Printing
  BY DEF EInv
<1>2. first \in [Regs -> Expr!Words] /\ emitted \in Seq(Printed) /\ Len(sem) \in Nat
  BY <1>1 DEF Printing
<1>3. MemoryAfter(emitted) \in Memories
  <2>1. PICK i : i \in Printed
    <3>1. [op |-> "NOT", d |-> 0, a |-> 0, b |-> 0] \in Printed
      BY DEF Expr!RegExprAssumption, Printed, Registers
    <3>2. QED
      BY <3>1
  <2>2. QED
    BY <1>2, <2>1, Prints
<1>4. QED
  BY <1>1, <1>2, <1>3, InUseIs DEF Expr!Act

\* A result in the next register.
LEMMA NewRegPrinting ==
    ASSUME Expr!RegExprAssumption, EInv, translator = "t1", Expr!Act,
           NEW n \in 0..Len(sem), NEW w \in Expr!Words,
           emitted' \in Seq(Printed),
           \A r \in Registers \ {regCnt} : MemoryAfter(emitted')[r] = MemoryAfter(emitted)[r],
           MemoryAfter(emitted')[regCnt] = w,
           Expr!NewReg(n), Expr!Means(n, w), UNCHANGED <<held, file, pc>>
    PROVE  EInv'
<1>1. InUse(regCnt) \subseteq Registers \ {regCnt} /\ regCnt \in InUse(regCnt + 1)
  BY FreshPrinting
<1>2. regCnt' = regCnt + 1 /\ sem' = Append(Expr!DropLast(sem, n), regCnt)
      /\ mean' = Append(Expr!DropLast(mean, n), w)
  BY DEF Expr!NewReg, Expr!Means, Expr!Reduce
<1>3. QED
  BY <1>1, <1>2, PushedPrinting

LEMMA ImmediatePrints ==
    ASSUME Expr!RegExprAssumption, EInv, translator = "t1", Expr!Immediate
    PROVE  EInv'
<1>1. Expr!Act /\ UNCHANGED <<held, file, pc>>
  BY DEF Expr!Immediate
<1>2. PICK n \in Numbers :
          /\ Expr!Means(0, n) /\ Expr!NewReg(0)
          /\ emitted' = emitted \o Expr!Load_immediate(regCnt, n)
  BY DEF Expr!Immediate, Expr!Prints, Expr!Emit
<1> DEFINE i == Expr!Instr("ANDI", regCnt, regCnt, 0)
           j == Expr!Instr("ADDI", regCnt, regCnt, n)
           M == MemoryAfter(emitted)
<1>3. /\ first \in [Regs -> Expr!Words] /\ emitted \in Seq(Printed) /\ M \in Memories
      /\ regCnt \in Registers /\ 0 \in 0..Len(sem)
  BY <1>1, FreshPrinting
<1>4. n \in Expr!Words /\ n \in Nat /\ 0 + n = n /\ Expr!Wrap(n) = n
  <2>1. n \in Expr!Words
    BY DEF Expr!RegExprAssumption
  <2>2. n \in Nat
    BY <2>1, Wrapped
  <2>3. QED
    BY <2>1, <2>2, Wrapped
<1>5. i \in Printed /\ j \in Printed /\ emitted' = emitted \o <<i, j>>
  BY <1>2, <1>3, <1>4 DEF Expr!Instr, Printed, Expr!Load_immediate
<1>6. /\ i.op = "ANDI" /\ i.d = regCnt
      /\ j.op = "ADDI" /\ j.d = regCnt /\ j.a = regCnt /\ j.b = n
  BY DEF Expr!Instr
<1> HIDE DEF i, j, M
<1>7. /\ emitted' \in Seq(Printed) /\ Obeyed(M, i) \in Memories
      /\ MemoryAfter(emitted') = Obeyed(Obeyed(M, i), j)
  BY <1>3, <1>5, TwoPrinted DEF M
<1>8. /\ Obeyed(M, i)[regCnt] = 0
      /\ \A r \in Registers \ {regCnt} : Obeyed(M, i)[r] = M[r]
  BY <1>3, <1>5, <1>6, ObeyedSets
<1>9. /\ MemoryAfter(emitted')[regCnt] = Expr!Wrap(0 + n)
      /\ \A r \in Registers \ {regCnt} : MemoryAfter(emitted')[r] = M[r]
  <2> DEFINE N == Obeyed(M, i)
  <2>1. /\ N \in Memories /\ N[regCnt] = 0
        /\ \A r \in Registers \ {regCnt} : N[r] = M[r]
        /\ MemoryAfter(emitted') = Obeyed(N, j)
    BY <1>7, <1>8
  <2> HIDE DEF N
  <2>2. /\ \A r \in Registers \ {j.d} : Obeyed(N, j)[r] = N[r]
        /\ Obeyed(N, j)[j.d] = Expr!Wrap(N[j.a] + j.b)
    BY <1>5, <1>6, <2>1, ObeyedSets
  <2>3. QED
    BY <1>6, <2>1, <2>2
<1>10. QED
  BY <1>1, <1>2, <1>3, <1>4, <1>7, <1>9, NewRegPrinting DEF M

LEMMA RegisterPrints ==
    ASSUME Expr!RegExprAssumption, EInv, translator = "t1", Expr!Register
    PROVE  EInv'
<1>1. Expr!Act /\ UNCHANGED <<held, file, pc, emitted, regCnt>>
  BY DEF Expr!Register
<1>2. PICK r \in Regs : sem' = Append(Expr!DropLast(sem, 0), r)
                        /\ mean' = Append(Expr!DropLast(mean, 0), held[r])
  BY DEF Expr!Register, Expr!Prints, Expr!Reduce, Expr!Means
<1>3. /\ held[r] \in Expr!Words /\ MemoryAfter(emitted)[r] = held[r]
  BY DEF EInv, Printing
<1>4. r \in InUse(regCnt) /\ 0 \in 0..Len(sem) /\ emitted \in Seq(Printed)
  BY <1>1, FreshPrinting
<1>5. QED
  BY <1>1, <1>2, <1>3, <1>4, PushedPrinting

LEMMA OnePrints ==
    ASSUME Expr!RegExprAssumption, EInv, translator = "t1", Expr!Act,
           NEW i \in Printed, i.d = regCnt, emitted' = emitted \o <<i>>
    PROVE  /\ emitted' \in Seq(Printed) /\ MemoryAfter(emitted) \in Memories
           /\ MemoryAfter(emitted')[regCnt] = Obeyed(MemoryAfter(emitted), i)[i.d]
           /\ \A r \in Registers \ {regCnt} : MemoryAfter(emitted')[r] = MemoryAfter(emitted)[r]
<1>1. /\ first \in [Regs -> Expr!Words] /\ emitted \in Seq(Printed)
      /\ MemoryAfter(emitted) \in Memories
  BY FreshPrinting
<1>2. emitted' \in Seq(Printed) /\ MemoryAfter(emitted') = Obeyed(MemoryAfter(emitted), i)
  BY <1>1, OnePrinted
<1>3. QED
  BY <1>1, <1>2, ObeyedSets

LEMMA BinaryPrints ==
    ASSUME Expr!RegExprAssumption, EInv, translator = "t1", Expr!Binary
    PROVE  EInv'
<1>1. Expr!Act /\ UNCHANGED <<held, file, pc>> /\ Len(sem) >= 2
  BY DEF Expr!Binary
<1> DEFINE w(op) == Expr!Wrap(IF op = "add" THEN Expr!Meant(2) + Expr!Meant(1)
                              ELSE Expr!Meant(2) - Expr!Meant(1))
<1>2. PICK op \in {"add", "sub"} :
          /\ Expr!Means(2, w(op)) /\ Expr!NewReg(2)
          /\ emitted' = emitted \o Expr!Arith(op, regCnt, Expr!Arg(2), Expr!Arg(1))
  BY DEF Expr!Binary, Expr!Prints, Expr!Emit, Expr!Operands
<1>3. regCnt \in Registers /\ Len(sem) \in Nat /\ MemoryAfter(emitted) \in Memories
  BY <1>1, FreshPrinting
<1>4. 1 \in 1..Len(sem) /\ 2 \in 1..Len(sem) /\ 2 \in 0..Len(sem)
  BY <1>1, <1>3
<1>5. /\ Expr!Arg(1) \in Registers /\ MemoryAfter(emitted)[Expr!Arg(1)] = Expr!Meant(1)
      /\ Expr!Arg(2) \in Registers /\ MemoryAfter(emitted)[Expr!Arg(2)] = Expr!Meant(2)
      /\ Expr!Meant(1) \in Expr!Words /\ Expr!Meant(2) \in Expr!Words
  BY <1>4, ArgsPrinting
<1> DEFINE i == Expr!Instr(IF op = "add" THEN "ADD" ELSE "SUB", regCnt, Expr!Arg(2), Expr!Arg(1))
<1>6. i \in Printed /\ emitted' = emitted \o <<i>>
  <2>1. Expr!Arg(1) \in Nat
    BY <1>5 DEF Registers
  <2>2. QED
    BY <1>2, <1>3, <1>5, <2>1 DEF Expr!Instr, Printed, Expr!Arith
<1>7. i.op = (IF op = "add" THEN "ADD" ELSE "SUB") /\ i.d = regCnt
      /\ i.a = Expr!Arg(2) /\ i.b = Expr!Arg(1)
  BY DEF Expr!Instr
<1> HIDE DEF i
<1>8. /\ emitted' \in Seq(Printed)
      /\ MemoryAfter(emitted')[regCnt] = Obeyed(MemoryAfter(emitted), i)[i.d]
      /\ \A r \in Registers \ {regCnt} : MemoryAfter(emitted')[r] = MemoryAfter(emitted)[r]
  BY <1>1, <1>6, <1>7, OnePrints
<1>9. Obeyed(MemoryAfter(emitted), i)[i.d] = w(op)
  BY <1>3, <1>5, <1>6, <1>7, ObeyedSets
<1>10. w(op) \in Expr!Words
  <2>1. Expr!Meant(1) \in Nat /\ Expr!Meant(2) \in Nat
    BY <1>5, Wrapped
  <2>2. Expr!Meant(2) + Expr!Meant(1) \in Int /\ Expr!Meant(2) - Expr!Meant(1) \in Int
    BY <2>1
  <2>3. QED
    BY <2>2, Wrapped
<1>11. QED
  BY <1>1, <1>2, <1>4, <1>8, <1>9, <1>10, NewRegPrinting

LEMMA NegatePrints ==
    ASSUME Expr!RegExprAssumption, EInv, translator = "t1", Expr!Negate
    PROVE  EInv'
<1> DEFINE a == Expr!Arg(1)
           w == Expr!Meant(1)
           M == MemoryAfter(emitted)
           i == Expr!Instr("NOT", regCnt, a, 0)
           j == Expr!Instr("ADDI", regCnt, regCnt, 1)
<1>1. Expr!Act /\ UNCHANGED <<held, file, pc>> /\ Len(sem) >= 1
  BY DEF Expr!Negate
<1>2. /\ Expr!Means(1, Expr!Wrap(-w)) /\ Expr!NewReg(1)
      /\ emitted' = emitted \o <<i, j>>
  BY DEF Expr!Negate, Expr!Prints, Expr!Emit, Expr!Negative
<1>3. /\ first \in [Regs -> Expr!Words] /\ emitted \in Seq(Printed) /\ M \in Memories
      /\ regCnt \in Registers /\ Len(sem) \in Nat
  BY <1>1, FreshPrinting
<1>4. 1 \in 1..Len(sem) /\ 1 \in 0..Len(sem)
  BY <1>1, <1>3
<1>5. a \in Registers /\ M[a] = w /\ w \in Expr!Words
  BY <1>4, ArgsPrinting
<1>6. i \in Printed /\ j \in Printed
  BY <1>3, <1>5 DEF Expr!Instr, Printed
<1>7. /\ i.op = "NOT" /\ i.d = regCnt /\ i.a = a
      /\ j.op = "ADDI" /\ j.d = regCnt /\ j.a = regCnt /\ j.b = 1
  BY DEF Expr!Instr
<1> HIDE DEF i, j, M, a, w
<1>8. /\ emitted' \in Seq(Printed) /\ Obeyed(M, i) \in Memories
      /\ MemoryAfter(emitted') = Obeyed(Obeyed(M, i), j)
  BY <1>2, <1>3, <1>6, TwoPrinted DEF M
<1>9. /\ Obeyed(M, i)[regCnt] = Expr!Wrap(-w - 1)
      /\ \A r \in Registers \ {regCnt} : Obeyed(M, i)[r] = M[r]
  BY <1>3, <1>5, <1>6, <1>7, ObeyedSets
<1>10. /\ MemoryAfter(emitted')[regCnt] = Expr!Wrap(Expr!Wrap(-w - 1) + 1)
       /\ \A r \in Registers \ {regCnt} : MemoryAfter(emitted')[r] = M[r]
  BY <1>6, <1>7, <1>8, <1>9, ObeyedSets
<1>11. Expr!Wrap(Expr!Wrap(-w - 1) + 1) = Expr!Wrap(-w) /\ Expr!Wrap(-w) \in Expr!Words
  <2>1. w \in Nat
    BY <1>5, Wrapped
  <2>2. -w \in Int
    BY <2>1
  <2>3. QED
    BY <1>5, <2>2, Wrapped
<1>12. QED
  BY <1>1, <1>2, <1>4, <1>8, <1>10, <1>11, NewRegPrinting DEF M

LEMMA LoadPrints ==
    ASSUME Expr!RegExprAssumption, EInv, translator = "t1", Expr!Load
    PROVE  EInv'
<1> DEFINE a == Expr!Arg(1)
           w == Expr!Meant(1)
           i == Expr!Instr("LDR", regCnt, a, 0)
<1>1. Expr!Act /\ UNCHANGED <<held, file, pc>> /\ Len(sem) >= 1
  BY DEF Expr!Load
<1>2. Expr!Means(1, Expr!Memory(w)) /\ Expr!NewReg(1) /\ emitted' = emitted \o <<i>>
  BY DEF Expr!Load, Expr!Prints, Expr!Emit, Expr!Fetch
<1>3. regCnt \in Registers /\ Len(sem) \in Nat /\ MemoryAfter(emitted) \in Memories
  BY <1>1, FreshPrinting
<1>4. 1 \in 1..Len(sem) /\ 1 \in 0..Len(sem)
  BY <1>1, <1>3
<1>5. a \in Registers /\ MemoryAfter(emitted)[a] = w /\ w \in Expr!Words
  BY <1>4, ArgsPrinting
<1>6. i \in Printed /\ i.op = "LDR" /\ i.d = regCnt /\ i.a = a
  BY <1>3, <1>5 DEF Expr!Instr, Printed
<1> HIDE DEF i, a, w
<1>7. /\ emitted' \in Seq(Printed)
      /\ MemoryAfter(emitted')[regCnt] = Obeyed(MemoryAfter(emitted), i)[i.d]
      /\ \A r \in Registers \ {regCnt} : MemoryAfter(emitted')[r] = MemoryAfter(emitted)[r]
  BY <1>1, <1>2, <1>6, OnePrints
<1>8. Obeyed(MemoryAfter(emitted), i)[i.d] = Expr!Memory(w)
  BY <1>3, <1>5, <1>6, ObeyedSets
<1>9. Expr!Memory(w) \in Expr!Words
  BY <1>5, Wrapped
<1>10. QED
  BY <1>1, <1>2, <1>4, <1>7, <1>8, <1>9, NewRegPrinting

LEMMA AssignPrints ==
    ASSUME Expr!RegExprAssumption, EInv, translator = "t1", Expr!Assign
    PROVE  EInv'
<1> DEFINE a == Expr!Arg(1)
           w == Expr!Meant(1)
           M == MemoryAfter(emitted)
<1>1. Expr!Act /\ UNCHANGED <<regCnt, file, pc>> /\ Len(sem) = 1 /\ sem' = << >> /\ mean' = << >>
  BY DEF Expr!Assign
<1>2. PICK r \in Regs : held' = [held EXCEPT ![r] = w]
                        /\ emitted' = emitted \o <<Expr!Instr("ADDI", r, a, 0)>>
  BY DEF Expr!Assign, Expr!Prints, Expr!Emit, Expr!Move
<1> DEFINE i == Expr!Instr("ADDI", r, a, 0)
<1>3. /\ first \in [Regs -> Expr!Words] /\ emitted \in Seq(Printed) /\ M \in Memories
      /\ Regs \subseteq Registers
  BY <1>1, FreshPrinting
<1>4. a \in Registers /\ M[a] = w /\ w \in Expr!Words
  BY <1>1, ArgsPrinting
<1>5. i \in Printed /\ i.op = "ADDI" /\ i.d = r /\ i.a = a /\ i.b = 0
  BY <1>3, <1>4 DEF Expr!Instr, Printed
<1>6. Expr!Wrap(w + 0) = w
  <2>1. w \in Nat /\ Expr!Wrap(w) = w
    BY <1>4, Wrapped
  <2>2. w + 0 = w
    BY <2>1
  <2>3. QED
    BY <2>1, <2>2
<1> HIDE DEF i, a, w, M
<1>7. emitted' \in Seq(Printed) /\ MemoryAfter(emitted') = Obeyed(M, i)
  BY <1>2, <1>3, <1>5, OnePrinted DEF M, i
<1>8. MemoryAfter(emitted')[r] = w /\ \A s \in Regs \ {r} : MemoryAfter(emitted')[s] = M[s]
  BY <1>3, <1>4, <1>5, <1>6, <1>7, ObeyedSets
<1>9. Counted /\ Printing
  BY DEF EInv
<1>10. Counted' /\ translator' = translator /\ first' = first
  <2>1. actions' \in 0..MaxActions /\ regCnt' \in 8..(8 + actions')
    BY <1>1, <1>9, Counts
  <2>2. QED
    BY <1>1, <1>9, <2>1 DEF Expr!Act, Counted, Expr!NoFile
<1>11. held' \in [Regs -> Expr!Words] /\ \A s \in Regs : MemoryAfter(emitted')[s] = held'[s]
  BY <1>2, <1>4, <1>8, <1>9 DEF Printing, M
<1>12. MemoryAfter(emitted)' = MemoryAfter(emitted')
  BY <1>10 DEF MemoryAfter, MemoriesOf, AtFirst
<1>13. sem' \in Seq(InUse(regCnt)') /\ mean' \in Seq(Expr!Words) /\ Len(sem') = 0 /\ Len(mean') = 0
  BY <1>1
<1>14. Printing'
  <2>1. first' \in [Regs -> Expr!Words] /\ file' = Expr!NoFile
    BY <1>1, <1>3, <1>9, <1>10 DEF Printing
  <2>2. \A k \in 1..Len(sem') : MemoryAfter(emitted)'[sem'[k]] = mean'[k]
    BY <1>13
  <2>3. QED
    BY <1>7, <1>11, <1>12, <1>13, <2>1, <2>2 DEF Printing, InUse, Expr!NoFile
<1>15. QED
  BY <1>9, <1>10, <1>14 DEF EInv

-----------------------------------------------------------------------------
\* The actions that build.

\* The code stays as it is.
LEMMA PushedOnly ==
    ASSUME Expr!RegExprAssumption, EInv, translator # "t1", Expr!Act,
           NEW n \in 0..Len(sem), NEW x \in Expr!Operand \cup {Unset},
           NEW w \in Expr!Words \cup {Unset},
           Denotes(emitted, x, w), Expr!Reduce(n, x), Expr!Means(n, w),
           UNCHANGED <<emitted, regCnt, regs, lastReg, program, file, pc, held, answer>>
    PROVE  EInv'
<1>1. Laid(emitted)
  BY DEF EInv, Composing
<1>2. /\ sem' = Append(Expr!DropLast(sem, n), x) /\ mean' = Append(Expr!DropLast(mean, n), w)
      /\ emitted' = emitted
  BY DEF Expr!Reduce, Expr!Means
<1>3. QED
  BY <1>1, <1>2, PushedBuilding

\* An instruction is built, and its result is the value.
LEMMA PushedResult ==
    ASSUME Expr!RegExprAssumption, EInv, translator # "t1", Expr!Act,
           NEW n \in 0..Len(sem), NEW i \in Instructions, Fits(i, Len(emitted)),
           emitted' = Append(emitted, i), Expr!Reduce(n, Expr!Built),
           Expr!Means(n, Expr!Result(ResultsOf(emitted), i)),
           UNCHANGED <<regCnt, regs, lastReg, program, file, pc, held, answer>>
    PROVE  EInv'
<1> DEFINE x == [kind |-> "instr", n |-> Len(emitted')]
           w == Expr!Result(ResultsOf(emitted), i)
<1>1. Laid(emitted)
  BY DEF EInv, Composing
<1>2. sem' = Append(Expr!DropLast(sem, n), x) /\ mean' = Append(Expr!DropLast(mean, n), w)
  BY DEF Expr!Reduce, Expr!Means, Expr!Built
<1>3. /\ Laid(emitted') /\ \A o, v : Denotes(emitted, o, v) => Denotes(emitted', o, v)
      /\ x \in Expr!Operand /\ w \in Expr!Words /\ Denotes(emitted', x, w)
  BY <1>1, BuiltOne
<1> HIDE DEF x, w
<1>4. QED
  BY <1>2, <1>3, PushedBuilding

LEMMA DenotesOperand ==
    ASSUME NEW c, NEW o, NEW w, Denotes(c, o, w), o # Unset
    PROVE  /\ o \in Expr!Operand /\ Usable(o, Len(c)) /\ w \in Expr!Words
           /\ Expr!Value(ResultsOf(c), o) = w
           /\ o.kind = "const" => o.n = w
  BY DEF Denotes, Expr!Value

LEMMA OneArg ==
    ASSUME Laid(emitted), NEW op \in {"slot", "load", "neg"}, NEW o, NEW w,
           Denotes(emitted, o, w), o # Unset
    PROVE  LET i == [op |-> op, args |-> <<o>>] IN
           /\ i \in Instructions /\ Fits(i, Len(emitted))
           /\ op = "slot" => Expr!Result(ResultsOf(emitted), i) = w
           /\ op = "load" => Expr!Result(ResultsOf(emitted), i) = Expr!Memory(w)
           /\ op = "neg" => Expr!Result(ResultsOf(emitted), i) = Expr!Wrap(-w)
<1> DEFINE i == [op |-> op, args |-> <<o>>]
<1>1. /\ o \in Expr!Operand /\ Usable(o, Len(emitted)) /\ w \in Expr!Words
      /\ Expr!Value(ResultsOf(emitted), o) = w
  BY DenotesOperand
<1>2. <<o>> \in [1..1 -> Expr!Operand] /\ DOMAIN <<o>> = 1..1 /\ <<o>>[1] = o
  BY <1>1
<1>3. i.op = op /\ i.args = <<o>> /\ i.args[1] = o
  BY <1>2
<1>4. i \in Instructions
  BY <1>2 DEF Instructions
<1>5. Fits(i, Len(emitted))
  BY <1>1, <1>2, <1>3 DEF Fits
<1> HIDE DEF i
<1>6. /\ op = "slot" => Expr!Result(ResultsOf(emitted), i) = w
      /\ op = "load" => Expr!Result(ResultsOf(emitted), i) = Expr!Memory(w)
      /\ op = "neg" => Expr!Result(ResultsOf(emitted), i) = Expr!Wrap(-w)
  BY <1>1, <1>3 DEF Expr!Result
<1>7. QED
  BY <1>4, <1>5, <1>6 DEF i

LEMMA TwoArgs ==
    ASSUME Laid(emitted), NEW op \in {"add", "sub"}, NEW o, NEW w, NEW p, NEW u,
           Denotes(emitted, o, w), o # Unset, Denotes(emitted, p, u), p # Unset
    PROVE  LET i == [op |-> op, args |-> <<o, p>>] IN
           /\ i \in Instructions /\ Fits(i, Len(emitted))
           /\ Expr!Result(ResultsOf(emitted), i) = Expr!Wrap(IF op = "add" THEN w + u ELSE w - u)
<1> DEFINE i == [op |-> op, args |-> <<o, p>>]
<1>1. /\ o \in Expr!Operand /\ Usable(o, Len(emitted)) /\ Expr!Value(ResultsOf(emitted), o) = w
      /\ p \in Expr!Operand /\ Usable(p, Len(emitted)) /\ Expr!Value(ResultsOf(emitted), p) = u
  BY DenotesOperand
<1>2. /\ <<o, p>> \in [1..2 -> Expr!Operand] /\ DOMAIN <<o, p>> = 1..2
      /\ <<o, p>>[1] = o /\ <<o, p>>[2] = p
  BY <1>1
<1>3. i.op = op /\ i.args = <<o, p>> /\ i.args[1] = o /\ i.args[2] = p
  BY <1>2
<1>4. i \in Instructions
  BY <1>2 DEF Instructions
<1>5. Fits(i, Len(emitted))
  <2>1. \A a \in 1..2 : a = 1 \/ a = 2
    OBVIOUS
  <2>2. QED
    BY <1>1, <1>2, <1>3, <2>1 DEF Fits
<1> HIDE DEF i
<1>6. Expr!Result(ResultsOf(emitted), i) = Expr!Wrap(IF op = "add" THEN w + u ELSE w - u)
  BY <1>1, <1>3 DEF Expr!Result
<1>7. QED
  BY <1>4, <1>5, <1>6 DEF i


LEMMA ImmediateBuilds ==
    ASSUME Expr!RegExprAssumption, EInv, translator # "t1", Expr!Immediate
    PROVE  EInv'
<1>1. Expr!Act /\ UNCHANGED <<regs, lastReg, program, file, pc, held, answer>>
  BY DEF Expr!Immediate
<1>2. PICK n \in Numbers : /\ Expr!Means(0, n) /\ UNCHANGED regCnt
                           /\ IF translator = "calc2"
                              THEN Expr!Build("slot", <<Expr!Const(n)>>) /\ Expr!Reduce(0, Expr!Built)
                              ELSE Expr!Reduce(0, Expr!Const(n)) /\ UNCHANGED emitted
  BY DEF Expr!Immediate, Expr!Prints
<1>3. n \in Expr!Words /\ 0 \in 0..Len(sem) /\ Laid(emitted)
  <2>1. sem \in Seq(Expr!Operand \cup {Unset}) /\ Laid(emitted)
    BY DEF EInv, Composing
  <2>2. QED
    BY <2>1 DEF Expr!RegExprAssumption
<1>4. Expr!Const(n) \in Expr!Operand /\ Denotes(emitted, Expr!Const(n), n) /\ Expr!Const(n) # Unset
  <2>1. Expr!Const(n) \in Expr!Operand /\ Denotes(emitted, Expr!Const(n), n)
    BY <1>3, ConstantIs
  <2>2. QED
    BY <2>1 DEF Expr!RegExprAssumption
<1>5. CASE translator = "calc2"
  <2> DEFINE i == [op |-> "slot", args |-> <<Expr!Const(n)>>]
  <2>1. i \in Instructions /\ Fits(i, Len(emitted)) /\ Expr!Result(ResultsOf(emitted), i) = n
    BY <1>3, <1>4, OneArg
  <2>2. emitted' = Append(emitted, i) /\ Expr!Reduce(0, Expr!Built)
    BY <1>2, <1>5 DEF Expr!Build
  <2> HIDE DEF i
  <2>3. QED
    BY <1>1, <1>2, <1>3, <2>1, <2>2, PushedResult
<1>6. CASE translator # "calc2"
  BY <1>1, <1>2, <1>3, <1>4, <1>6, PushedOnly
<1>7. QED
  BY <1>5, <1>6

LEMMA RegisterBuilds ==
    ASSUME Expr!RegExprAssumption, EInv, translator # "t1", Expr!Register
    PROVE  EInv'
<1>1. Expr!Act /\ UNCHANGED <<emitted, regCnt, regs, lastReg, program, file, pc, held, answer>>
  BY DEF Expr!Register
<1>2. PICK r \in Regs : Expr!Reduce(0, regs[r]) /\ Expr!Means(0, held[r])
  BY DEF Expr!Register, Expr!Prints
<1>3. Denotes(emitted, regs[r], held[r]) /\ 0 \in 0..Len(sem)
  BY DEF EInv, Composing
<1>4. regs[r] \in Expr!Operand \cup {Unset} /\ held[r] \in Expr!Words \cup {Unset}
  BY <1>3 DEF Denotes
<1>5. QED
  BY <1>1, <1>2, <1>3, <1>4, PushedOnly

LEMMA BinaryBuilds ==
    ASSUME Expr!RegExprAssumption, EInv, translator # "t1", Expr!Binary
    PROVE  EInv'
<1> DEFINE o == Expr!Arg(2)
           p == Expr!Arg(1)
           w == Expr!Meant(2)
           u == Expr!Meant(1)
<1>1. /\ Expr!Act /\ UNCHANGED <<regs, lastReg, program, file, pc, held, answer>>
      /\ Len(sem) >= 2 /\ o # Unset /\ p # Unset
  BY DEF Expr!Binary, Expr!Prints
<1>2. PICK op \in {"add", "sub"} :
          /\ Expr!Means(2, Expr!Wrap(IF op = "add" THEN w + u ELSE w - u))
          /\ Expr!Arithmetic(op, <<o, p>>) /\ UNCHANGED regCnt
  BY DEF Expr!Binary, Expr!Prints, Expr!Operands
<1>3. Laid(emitted) /\ Len(sem) \in Nat
  BY DEF EInv, Composing
<1>4. 1 \in 1..Len(sem) /\ 2 \in 1..Len(sem) /\ 2 \in 0..Len(sem)
  BY <1>1, <1>3
<1>5. Denotes(emitted, o, w) /\ Denotes(emitted, p, u)
  BY <1>4, ArgsBuilding
<1> HIDE DEF o, p, w, u
<1>6. /\ w \in Expr!Words /\ u \in Expr!Words
      /\ o.kind = "const" => o.n = w
      /\ p.kind = "const" => p.n = u
  BY <1>1, <1>5, DenotesOperand
<1> DEFINE s == IF op = "add" THEN w + u ELSE w - u
           z == Expr!Wrap(s)
<1>7. z \in Expr!Words
  <2>1. w \in Nat /\ u \in Nat
    BY <1>6, Wrapped
  <2>2. s \in Int
    BY <2>1
  <2>3. QED
    BY <2>2, Wrapped
<1>8. Len(<<o, p>>) = 2 /\ DOMAIN <<o, p>> = {1, 2} /\ <<o, p>>[1] = o /\ <<o, p>>[2] = p
  OBVIOUS
<1>9. CASE o.kind = "const" /\ p.kind = "const"
  <2>1. Expr!Folded(op, <<o, p>>) = z
    BY <1>6, <1>8, <1>9 DEF Expr!Folded
  <2>2. Expr!Reduce(2, Expr!Const(z)) /\ UNCHANGED emitted
    <3>1. \A i \in DOMAIN <<o, p>> : <<o, p>>[i].kind = "const"
      BY <1>8, <1>9
    <3>2. Expr!Reduce(Len(<<o, p>>), Expr!Const(Expr!Folded(op, <<o, p>>))) /\ UNCHANGED emitted
      BY <1>2, <3>1 DEF Expr!Arithmetic
    <3>3. QED
      BY <1>8, <2>1, <3>2
  <2>3. Expr!Const(z) \in Expr!Operand /\ Denotes(emitted, Expr!Const(z), z)
    BY <1>7, ConstantIs
  <2> HIDE DEF z
  <2>4. Expr!Means(2, z)
    BY <1>2 DEF z
  <2>5. QED
    BY <1>1, <1>2, <1>4, <1>7, <2>2, <2>3, <2>4, PushedOnly
<1>10. CASE ~(o.kind = "const" /\ p.kind = "const")
  <2> DEFINE i == [op |-> op, args |-> <<o, p>>]
  <2>1. i \in Instructions /\ Fits(i, Len(emitted)) /\ Expr!Result(ResultsOf(emitted), i) = z
    BY <1>1, <1>3, <1>5, TwoArgs
  <2>2. emitted' = Append(emitted, i) /\ Expr!Reduce(2, Expr!Built)
    <3>1. ~(\A k \in DOMAIN <<o, p>> : <<o, p>>[k].kind = "const")
      BY <1>8, <1>10
    <3>2. Expr!Build(op, <<o, p>>) /\ Expr!Reduce(Len(<<o, p>>), Expr!Built)
      BY <1>2, <3>1 DEF Expr!Arithmetic
    <3>3. QED
      BY <1>8, <3>2 DEF Expr!Build
  <2> HIDE DEF i, z
  <2>3. Expr!Means(2, Expr!Result(ResultsOf(emitted), i))
    BY <1>2, <2>1 DEF z
  <2>4. QED
    BY <1>1, <1>2, <1>4, <2>1, <2>2, <2>3, PushedResult
<1>11. QED
  BY <1>9, <1>10

LEMMA NegateBuilds ==
    ASSUME Expr!RegExprAssumption, EInv, translator # "t1", Expr!Negate
    PROVE  EInv'
<1> DEFINE o == Expr!Arg(1)
           w == Expr!Meant(1)
           z == Expr!Wrap(-w)
<1>1. /\ Expr!Act /\ UNCHANGED <<regCnt, regs, lastReg, program, file, pc, held, answer>>
      /\ Len(sem) >= 1 /\ o # Unset
      /\ Expr!Means(1, z) /\ Expr!Arithmetic("neg", <<o>>)
  BY DEF Expr!Negate, Expr!Prints
<1>2. Laid(emitted) /\ Len(sem) \in Nat
  BY DEF EInv, Composing
<1>3. 1 \in 1..Len(sem) /\ 1 \in 0..Len(sem)
  BY <1>1, <1>2
<1>4. Denotes(emitted, o, w)
  BY <1>3, ArgsBuilding
<1> HIDE DEF o, w
<1>5. w \in Expr!Words /\ (o.kind = "const" => o.n = w)
  BY <1>1, <1>4, DenotesOperand
<1>6. z \in Expr!Words
  <2>1. w \in Nat
    BY <1>5, Wrapped
  <2>2. -w \in Int
    BY <2>1
  <2>3. QED
    BY <2>2, Wrapped
<1>7. Len(<<o>>) = 1 /\ DOMAIN <<o>> = {1} /\ <<o>>[1] = o
  OBVIOUS
<1>8. CASE o.kind = "const"
  <2>1. Expr!Folded("neg", <<o>>) = z
    BY <1>5, <1>7, <1>8 DEF Expr!Folded
  <2>2. Expr!Reduce(1, Expr!Const(z)) /\ UNCHANGED emitted
    <3>1. \A i \in DOMAIN <<o>> : <<o>>[i].kind = "const"
      BY <1>7, <1>8
    <3>2. Expr!Reduce(Len(<<o>>), Expr!Const(Expr!Folded("neg", <<o>>))) /\ UNCHANGED emitted
      BY <1>1, <3>1 DEF Expr!Arithmetic
    <3>3. QED
      BY <1>7, <2>1, <3>2
  <2>3. Expr!Const(z) \in Expr!Operand /\ Denotes(emitted, Expr!Const(z), z)
    BY <1>6, ConstantIs
  <2> HIDE DEF z
  <2>4. QED
    BY <1>1, <1>3, <1>6, <2>2, <2>3, PushedOnly
<1>9. CASE o.kind # "const"
  <2> DEFINE i == [op |-> "neg", args |-> <<o>>]
  <2>1. i \in Instructions /\ Fits(i, Len(emitted)) /\ Expr!Result(ResultsOf(emitted), i) = z
    BY <1>1, <1>2, <1>4, OneArg
  <2>2. emitted' = Append(emitted, i) /\ Expr!Reduce(1, Expr!Built)
    <3>1. ~(\A k \in DOMAIN <<o>> : <<o>>[k].kind = "const")
      BY <1>7, <1>9
    <3>2. Expr!Build("neg", <<o>>) /\ Expr!Reduce(Len(<<o>>), Expr!Built)
      BY <1>1, <3>1 DEF Expr!Arithmetic
    <3>3. QED
      BY <1>7, <3>2 DEF Expr!Build
  <2> HIDE DEF i, z
  <2>3. Expr!Means(1, Expr!Result(ResultsOf(emitted), i))
    BY <1>1, <2>1
  <2>4. QED
    BY <1>1, <1>3, <2>1, <2>2, <2>3, PushedResult
<1>10. QED
  BY <1>8, <1>9

LEMMA LoadBuilds ==
    ASSUME Expr!RegExprAssumption, EInv, translator # "t1", Expr!Load
    PROVE  EInv'
<1> DEFINE o == Expr!Arg(1)
           w == Expr!Meant(1)
           i == [op |-> "load", args |-> <<o>>]
<1>1. /\ Expr!Act /\ UNCHANGED <<regCnt, regs, lastReg, program, file, pc, held, answer>>
      /\ Len(sem) >= 1 /\ o # Unset /\ Expr!Means(1, Expr!Memory(w))
      /\ emitted' = Append(emitted, i) /\ Expr!Reduce(1, Expr!Built)
  BY DEF Expr!Load, Expr!Prints, Expr!Build
<1>2. Laid(emitted) /\ Len(sem) \in Nat
  BY DEF EInv, Composing
<1>3. 1 \in 1..Len(sem) /\ 1 \in 0..Len(sem)
  BY <1>1, <1>2
<1>4. Denotes(emitted, o, w)
  BY <1>3, ArgsBuilding
<1>5. /\ i \in Instructions /\ Fits(i, Len(emitted))
      /\ Expr!Result(ResultsOf(emitted), i) = Expr!Memory(w)
  BY <1>1, <1>2, <1>4, OneArg
<1> HIDE DEF o, w, i
<1>6. Expr!Means(1, Expr!Result(ResultsOf(emitted), i))
  BY <1>1, <1>5
<1>7. QED
  BY <1>1, <1>3, <1>5, <1>6, PushedResult

-----------------------------------------------------------------------------
\* Statements, and the end.

LEMMA AssignBuilds ==
    ASSUME Expr!RegExprAssumption, EInv, translator # "t1", Expr!Assign
    PROVE  EInv'
<1> DEFINE o == Expr!Arg(1)
           w == Expr!Meant(1)
<1>1. /\ Expr!Act /\ UNCHANGED <<regCnt, file, pc, emitted>>
      /\ Len(sem) = 1 /\ sem' = << >> /\ mean' = << >>
      /\ program' = o /\ answer' = w
  BY DEF Expr!Assign, Expr!Prints
<1>2. PICK r \in Regs : /\ held' = [held EXCEPT ![r] = w] /\ regs' = [regs EXCEPT ![r] = o]
                        /\ lastReg' = IF translator = "t2cpp" THEN r ELSE lastReg
  BY DEF Expr!Assign, Expr!Prints
<1>3. Denotes(emitted, o, w)
  BY <1>1, ArgsBuilding
<1> HIDE DEF o, w
<1>4. Counted /\ Composing
  BY DEF EInv
<1>5. Counted' /\ translator' = translator
  BY <1>1, <1>4, Counts DEF Counted, Expr!Act, Expr!NoFile
<1>6. DOMAIN regs' = Regs /\ DOMAIN held' = Regs /\ regs'[r] = o
      /\ \A s \in Regs : Denotes(emitted, regs'[s], held'[s])
  BY <1>2, <1>3, <1>4 DEF Composing
<1>7. FileAnswers'
  BY <1>1, <1>4 DEF FileAnswers, Expr!FileAnswers, Expr!Act, Counted, Expr!NoFile
<1>8. /\ sem' \in Seq(Expr!Operand \cup {Unset}) /\ mean' \in Seq(Expr!Words \cup {Unset})
      /\ Len(sem') = Len(mean') /\ 1..Len(sem') = {}
  BY <1>1
<1>9. Composing'
  <2>1. \A i \in 1..Len(sem') : Denotes(emitted', sem'[i], mean'[i])
    BY <1>8
  <2>2. /\ Denotes(emitted', program', answer')
        /\ translator' = "t2cpp" => lastReg' \in Regs /\ regs'[lastReg'] = program'
    BY <1>1, <1>2, <1>3, <1>5, <1>6
  <2>3. Laid(emitted') /\ \A s \in Regs : Denotes(emitted', regs'[s], held'[s])
    BY <1>1, <1>4, <1>6 DEF Composing
  <2>4. QED
    BY <1>6, <1>7, <1>8, <2>1, <2>2, <2>3 DEF Composing
<1>10. QED
  BY <1>5, <1>9 DEF EInv

LEMMA LineBuilds ==
    ASSUME Expr!RegExprAssumption, EInv, Expr!Line
    PROVE  EInv'
<1> DEFINE o == Expr!Arg(1)
           w == Expr!Meant(1)
<1>1. /\ Expr!Act /\ UNCHANGED <<emitted, regCnt, regs, lastReg, file, pc, held>>
      /\ Len(sem) = 1 /\ sem' = << >> /\ mean' = << >>
      /\ program' = o /\ answer' = w /\ translator # "t1" /\ translator # "t2cpp"
  BY DEF Expr!Line, Expr!HasRegs
<1>2. Denotes(emitted, o, w)
  BY <1>1, ArgsBuilding
<1> HIDE DEF o, w
<1>3. Counted /\ Composing
  BY <1>1 DEF EInv
<1>4. Counted' /\ translator' = translator
  BY <1>1, <1>3, Counts DEF Counted, Expr!Act, Expr!NoFile
<1>5. FileAnswers'
  BY <1>1, <1>3 DEF FileAnswers, Expr!FileAnswers, Expr!Act, Counted, Expr!NoFile
<1>6. /\ sem' \in Seq(Expr!Operand \cup {Unset}) /\ mean' \in Seq(Expr!Words \cup {Unset})
      /\ Len(sem') = Len(mean') /\ 1..Len(sem') = {}
  BY <1>1
<1>7. Composing'
  <2>1. \A i \in 1..Len(sem') : Denotes(emitted', sem'[i], mean'[i])
    BY <1>6
  <2>2. /\ Denotes(emitted', program', answer') /\ translator' # "t2cpp"
    BY <1>1, <1>2, <1>4
  <2>3. /\ Laid(emitted') /\ DOMAIN regs' = Regs /\ DOMAIN held' = Regs
        /\ \A s \in Regs : Denotes(emitted', regs'[s], held'[s])
    BY <1>1, <1>3 DEF Composing
  <2>4. QED
    BY <1>5, <1>6, <2>1, <2>2, <2>3 DEF Composing
<1>8. QED
  BY <1>1, <1>4, <1>7 DEF EInv

\* The parser has ended, one way or another.
LEMMA InputEnded ==
    ASSUME EInv, actions' \in 0..MaxActions, regCnt' \in 8..(8 + actions'),
           UNCHANGED <<translator, emitted, regs, lastReg, sem, program, mean, held, answer, first>>,
           UNCHANGED regCnt,
           pc' \in {"accepted", "rejected", "crashed"},
           translator = "t1" => file' = Expr!NoFile, translator # "t1" => FileAnswers'
    PROVE  EInv'
<1>1. Counted'
  BY DEF EInv, Counted
<1>2. CASE translator = "t1"
  <2>1. MemoryAfter(emitted)' = MemoryAfter(emitted)
    BY DEF MemoryAfter, MemoriesOf, AtFirst
  <2>2. Printing
    BY <1>2 DEF EInv
  <2>3. /\ first' \in [Regs -> Expr!Words] /\ held' \in [Regs -> Expr!Words]
        /\ emitted' \in Seq(Printed)
        /\ sem' \in Seq(InUse(regCnt)') /\ mean' \in Seq(Expr!Words) /\ Len(sem') = Len(mean')
        /\ file' = Expr!NoFile
    BY <1>2, <2>2 DEF Printing, InUse
  <2>4. /\ \A i \in 1..Len(sem') : MemoryAfter(emitted)'[sem'[i]] = mean'[i]
        /\ \A r \in Regs : MemoryAfter(emitted)'[r] = held'[r]
    BY <2>1, <2>2 DEF Printing
  <2>5. Printing'
    BY <2>3, <2>4 DEF Printing, InUse, Expr!NoFile
  <2>6. QED
    BY <1>1, <1>2, <2>5 DEF EInv
<1>3. CASE translator # "t1"
  <2>1. Composing /\ FileAnswers'
    BY <1>3 DEF EInv
  <2>2. Composing'
    BY <2>1 DEF Composing
  <2>3. QED
    BY <1>1, <1>3, <2>2 DEF EInv
<1>4. QED
  BY <1>2, <1>3

LEMMA CrashEnds ==
    ASSUME Expr!RegExprAssumption, EInv, Expr!Crash
    PROVE  EInv'
<1>1. /\ Expr!Act /\ pc' = "crashed" /\ translator # "t1" /\ pc = "parse"
      /\ UNCHANGED <<emitted, regCnt, regs, lastReg, sem, program, file, mean, held, answer>>
  BY DEF Expr!Crash, Expr!Prints, Expr!Act
<1>2. Counted /\ file = Expr!NoFile
  BY <1>1 DEF EInv, Counted
<1>3. actions' \in 0..MaxActions /\ regCnt' \in 8..(8 + actions')
  BY <1>1, <1>2, Counts
<1>4. FileAnswers'
  BY <1>1, <1>2 DEF FileAnswers, Expr!FileAnswers, Expr!NoFile
<1>5. QED
  BY <1>1, <1>3, <1>4, InputEnded DEF Expr!Act

LEMMA FinishEnds ==
    ASSUME Expr!RegExprAssumption, EInv, Expr!Finish
    PROVE  EInv'
<1>1. /\ Expr!Act /\ pc' = "accepted" /\ answer # None
      /\ file' = (IF translator = "t1" THEN Expr!NoFile
                  ELSE [ret |-> Expr!Returned, code |-> emitted])
      /\ UNCHANGED <<emitted, regCnt, regs, lastReg, sem, program, mean, held, answer>>
  BY DEF Expr!Finish, Expr!Prints
<1>2. Counted
  BY DEF EInv
<1>3. actions' \in 0..MaxActions /\ regCnt' \in 8..(8 + actions')
  BY <1>1, <1>2, Counts
<1>4. ASSUME translator # "t1" PROVE FileAnswers'
  <2>1. /\ Denotes(emitted, program, answer)
        /\ translator = "t2cpp" => regs[lastReg] = program
    BY <1>1, <1>4 DEF EInv, Composing
  <2>2. file'.ret = program /\ file'.code = emitted
    BY <1>1, <1>4, <2>1 DEF Expr!Returned
  <2>3. IF answer = Unset THEN program = Unset
        ELSE program # Unset /\ Expr!Run(emitted, program) = answer
    BY <2>1, RunIs DEF Denotes, Expr!RegExprAssumption
  <2>4. Expr!Run(file'.code, file'.ret) = Expr!Run(emitted, program)
    BY <2>2
  <2>5. FileAnswers' = (file' # Expr!NoFile =>
           \/ pc' = "rejected" /\ ~Expr!HasRegs' /\ file'.ret = None
           \/ /\ pc' = "accepted"
              /\ IF answer' = Unset THEN file'.ret = Unset
                 ELSE file'.ret # Unset /\ Expr!Run(file'.code, file'.ret) = answer')
    BY DEF FileAnswers, Expr!FileAnswers, Expr!NoFile, Expr!Run, Expr!Value, Expr!Result,
           Expr!Wrap, Expr!Memory
  <2>6. QED
    BY <1>1, <2>2, <2>3, <2>4, <2>5
<1>5. QED
  BY <1>1, <1>3, <1>4, InputEnded DEF Expr!Act

LEMMA SyntaxErrorEnds ==
    ASSUME Expr!RegExprAssumption, EInv, Expr!SyntaxError
    PROVE  EInv'
<1>1. /\ pc' = "rejected"
      /\ file' = (IF translator \in {"calc", "calc2"} THEN [ret |-> None, code |-> emitted]
                  ELSE Expr!NoFile)
      /\ UNCHANGED <<translator, emitted, regCnt, regs, lastReg, sem, program, actions,
                     mean, held, answer, first>>
  BY DEF Expr!SyntaxError, Expr!WritesOnError, Expr!source
<1>2. actions' \in 0..MaxActions /\ regCnt' \in 8..(8 + actions')
  BY <1>1 DEF EInv, Counted
<1>3. FileAnswers'
  BY <1>1 DEF FileAnswers, Expr!FileAnswers, Expr!NoFile, Expr!HasRegs
<1>4. QED
  BY <1>1, <1>2, <1>3, InputEnded

LEMMA InitE ==
    ASSUME Expr!RegExprAssumption, Expr!Init
    PROVE  EInv
<1>1. /\ translator \in Translators /\ held = first
      /\ emitted = << >> /\ regCnt = 8 /\ regs = [r \in Regs |-> Unset]
      /\ sem = << >> /\ mean = << >> /\ answer = None
      /\ file = Expr!NoFile /\ pc = "parse" /\ actions = 0
  BY DEF Expr!Init
<1>2. Counted
  BY <1>1 DEF Counted, Expr!RegExprAssumption
<1>3. CASE translator = "t1"
  <2>1. first \in [Regs -> Expr!Words]
    BY <1>3 DEF Expr!Init, Expr!Prints, Expr!RegExprAssumption
  <2>2. emitted \in Seq(Printed) /\ MemoryAfter(emitted) = AtFirst
    BY <1>1, <2>1, NothingPrinted
  <2>3. \A r \in Regs : MemoryAfter(emitted)[r] = held[r]
    <3>1. Regs \subseteq Registers
      BY <1>2, InUseIs
    <3>2. QED
      BY <1>1, <2>2, <3>1 DEF AtFirst
  <2>4. /\ sem \in Seq(InUse(regCnt)) /\ mean \in Seq(Expr!Words) /\ Len(sem) = Len(mean)
        /\ 1..Len(sem) = {}
    BY <1>1
  <2>5. QED
    BY <1>1, <1>2, <1>3, <2>1, <2>2, <2>3, <2>4 DEF EInv, Printing
<1>4. CASE translator # "t1"
  <2>1. held = [r \in Regs |-> Unset]
    BY <1>1, <1>4 DEF Expr!Init, Expr!Prints
  <2>2. Laid(emitted)
    BY <1>1 DEF Laid
  <2>3. \A r \in Regs : Denotes(emitted, regs[r], held[r])
    BY <1>1, <2>1 DEF Denotes
  <2>4. FileAnswers
    BY <1>1 DEF FileAnswers, Expr!FileAnswers
  <2>5. /\ sem \in Seq(Expr!Operand \cup {Unset}) /\ mean \in Seq(Expr!Words \cup {Unset})
        /\ Len(sem) = Len(mean) /\ 1..Len(sem) = {}
    BY <1>1
  <2>6. QED
    BY <1>1, <1>2, <1>4, <2>1, <2>2, <2>3, <2>4, <2>5 DEF EInv, Composing
<1>5. QED
  BY <1>3, <1>4

LEMMA StutterE ==
    ASSUME EInv, UNCHANGED Expr!vars
    PROVE  EInv'
<1>1. UNCHANGED <<translator, emitted, regCnt, regs, lastReg, sem, program, file, pc, actions,
                  mean, held, answer, first>>
  BY DEF Expr!vars, Expr!source
<1>2. MemoryAfter(emitted)' = MemoryAfter(emitted)
  BY <1>1 DEF MemoryAfter, MemoriesOf, AtFirst
<1>3. Counted' = Counted
  BY <1>1 DEF Counted, Expr!NoFile
<1>4. Printing' = Printing
  BY <1>1, <1>2 DEF Printing, InUse, Expr!NoFile
<1>5. FileAnswers' = FileAnswers
  BY <1>1 DEF FileAnswers, Expr!FileAnswers, Expr!NoFile, Expr!HasRegs, Expr!Run, Expr!Value,
              Expr!Result, Expr!Wrap, Expr!Memory
<1>6. Composing' = Composing
  BY <1>1, <1>5 DEF Composing
<1>7. QED
  BY <1>1, <1>3, <1>4, <1>6 DEF EInv

LEMMA NextE ==
    ASSUME Expr!RegExprAssumption, EInv, [Expr!Next]_(Expr!vars)
    PROVE  EInv'
<1>1. CASE translator = "t1"
  <2>1. ~Expr!Line
    BY <1>1 DEF Expr!Line, Expr!HasRegs
  <2>2. QED
    BY <1>1, <2>1, ImmediatePrints, RegisterPrints, BinaryPrints, NegatePrints, LoadPrints,
       AssignPrints, CrashEnds, FinishEnds, SyntaxErrorEnds, StutterE DEF Expr!Next
<1>2. CASE translator # "t1"
  BY <1>2, ImmediateBuilds, RegisterBuilds, BinaryBuilds, NegateBuilds, LoadBuilds,
     AssignBuilds, LineBuilds, CrashEnds, FinishEnds, SyntaxErrorEnds, StutterE DEF Expr!Next
<1>3. QED
  BY <1>1, <1>2

LEMMA ESound ==
    ASSUME Expr!RegExprAssumption, EInv
    PROVE  CodeSound /\ FileAnswers
<1>1. Counted
  BY DEF EInv
<1>2. regCnt \in 8..(8 + MaxActions)
  BY <1>1 DEF Counted, Expr!RegExprAssumption
<1>3. CASE translator = "t1"
  <2>1. Printing
    BY <1>3 DEF EInv
  <2>2. Len(sem) = Len(mean) /\ DOMAIN sem = 1..Len(sem) /\ \A i \in DOMAIN sem : sem[i] \in Regs \cup 8..(regCnt - 1)
    BY <2>1 DEF Printing, InUse
  <2>3. Expr!TypeOK
    BY <1>1, <1>2, <1>3, <2>2 DEF Expr!TypeOK, Expr!Prints, Counted
  <2>4. Expr!CodeMeans
    BY <1>3, <2>1, <2>2, MachineIs DEF Expr!CodeMeans, Expr!Stands, Expr!Prints, Expr!HasRegs, Printing
  <2>5. FileAnswers
    BY <2>1 DEF FileAnswers, Expr!FileAnswers, Printing
  <2>6. QED
    BY <2>3, <2>4, <2>5 DEF CodeSound, Expr!CodeSound
<1>4. CASE translator # "t1"
  <2>1. Composing
    BY <1>4 DEF EInv
  <2>2. Len(sem) = Len(mean) /\ DOMAIN sem = 1..Len(sem)
    BY <2>1 DEF Composing
  <2>3. \A i \in DOMAIN emitted : \A a \in DOMAIN emitted[i].args :
           emitted[i].args[a].kind = "instr" => emitted[i].args[a].n < i
    <3>1. DOMAIN emitted = 1..Len(emitted) /\ \A i \in 1..Len(emitted) : Fits(emitted[i], i - 1)
      BY <2>1 DEF Composing, Laid
    <3>2. \A i \in 1..Len(emitted) : \A n \in 1..(i - 1) : n < i
      OBVIOUS
    <3>3. QED
      BY <3>1, <3>2 DEF Fits, Usable
  <2>4. Expr!TypeOK
    BY <1>1, <1>2, <1>4, <2>2, <2>3 DEF Expr!TypeOK, Expr!Prints, Counted
  <2>5. ASSUME NEW o, NEW w, Denotes(emitted, o, w) PROVE Expr!Stands(o, w)
    BY <1>4, <2>5, RunIs DEF Expr!Stands, Expr!Prints, Denotes
  <2>6. Expr!CodeMeans
    BY <1>4, <2>1, <2>2, <2>5 DEF Expr!CodeMeans, Expr!Prints, Composing
  <2>7. QED
    BY <2>1, <2>4, <2>6 DEF CodeSound, Expr!CodeSound, Composing
<1>5. QED
  BY <1>3, <1>4

\* For inputs of every length, registers, constants and words of every width:
\* run so far, the code leaves what the input says.
THEOREM TranslationThm == Expr!RegExprAssumption => (Expr!Spec => []CodeSound)
<1> SUFFICES ASSUME Expr!RegExprAssumption PROVE Expr!Spec => []CodeSound
  OBVIOUS
<1>1. Expr!Init => EInv
  BY InitE
<1>2. EInv /\ [Expr!Next]_(Expr!vars) => EInv'
  BY NextE
<1>3. EInv => CodeSound
  BY ESound
<1>4. QED
  BY <1>1, <1>2, <1>3, PTL DEF Expr!Spec

\* Whatever is written: a program that ends well returns the last value of the
\* input, and nothing only for a register never assigned.
THEOREM AnswerThm == Expr!RegExprAssumption => (Expr!Spec => []FileAnswers)
<1> SUFFICES ASSUME Expr!RegExprAssumption PROVE Expr!Spec => []FileAnswers
  OBVIOUS
<1>1. Expr!Init => EInv
  BY InitE
<1>2. EInv /\ [Expr!Next]_(Expr!vars) => EInv'
  BY NextE
<1>3. EInv => FileAnswers
  BY ESound
<1>4. QED
  BY <1>1, <1>2, <1>3, PTL DEF Expr!Spec


-----------------------------------------------------------------------------
(***************************************************************************)
(* The automaton of the tables: the states that wait for an operand, those *)
(* that have one, those at the end of a line.                              *)
(***************************************************************************)
Reopening == {2, 3, 5, 14, 15, 17, 18}
Opening == {0, 6} \cup Reopening
Complete == {1, 7, 8, 9, 10, 13, 19, 21, 22, 23, 24}
LineEnds == {4, 12, 16, 20}
Unary == {2, 3, 5}

\* The states that may stand on one another.
Edge(s, u) ==
    \/ s \in Opening /\ u \in {1, 2, 3, 5}
    \/ s = 0 /\ u \in {4, 6, 7}
    \/ s = 6 /\ u \in {11, 12, 13}
    \/ s = 2 /\ u = 8
    \/ s = 3 /\ u = 9
    \/ s = 5 /\ u = 10
    \/ s = 14 /\ u = 21
    \/ s = 15 /\ u = 22
    \/ s = 17 /\ u = 23
    \/ s = 18 /\ u = 24
    \/ s = 7 /\ u = 16
    \/ s = 13 /\ u = 20
    \/ s = 9 /\ u = 19
    \/ s \in {7, 9, 10, 13} /\ u \in {14, 15}
    \/ s \in {7, 8, 9, 10, 13, 21, 22} /\ u \in {17, 18}

\* The tokens a state shifts.
Starters == {Yy!NUMBER, Yy!MINUS, Yy!LPAREN, Yy!DECREMENT}
Takes(s) ==
    CASE s = 0 -> Starters \cup {Yy!NEWLINE}
      [] s \in Reopening -> Starters
      [] s = 6 -> Starters \cup {Yy!NEWLINE, Yy!YYEOF}
      [] s \in {7, 13} -> Yy!Binary \cup {Yy!NEWLINE}
      [] s = 9 -> Yy!Binary \cup {Yy!RPAREN}
      [] s = 10 -> Yy!Binary
      [] s \in {8, 21, 22} -> {Yy!MULTIPLY, Yy!DIVIDE}
      [] OTHER -> {}

\* The states a token leads to.
Read(c) ==
    CASE c = Yy!NUMBER -> {1} [] c = Yy!PLUS -> {14} [] c = Yy!MINUS -> {2, 15}
      [] c = Yy!LPAREN -> {3}
      [] c = Yy!RPAREN -> {19} [] c = Yy!NEWLINE -> LineEnds [] c = Yy!MULTIPLY -> {17}
      [] c = Yy!DIVIDE -> {18} [] c = Yy!DECREMENT -> {5} [] OTHER -> {11}

\* Where an expression leads to.
After(s) ==
    CASE s = 0 -> 7 [] s = 2 -> 8 [] s = 3 -> 9 [] s = 5 -> 10 [] s = 6 -> 13
      [] s = 14 -> 21 [] s = 15 -> 22 [] s = 17 -> 23 [] OTHER -> 24

Chars == {Yy!YYEOF} \cup Yy!NUMBER..Yy!DECREMENT
Deciding == {1, 4, 11, 12, 16, 19, 20, 23, 24}
Tokenless == Opening \cup {7, 9, 13}

\* The tokens, as the tables count them.
LEMMA Symbols ==
    /\ Yy!YYTRANSLATE(Yy!YYEOF) = 0
    /\ \A c \in Yy!NUMBER..Yy!DECREMENT : Yy!YYTRANSLATE(c) = c - 255
  BY DEF Yy!YYTRANSLATE, Yy!YYEOF, Yy!NUMBER, Yy!DECREMENT

\* The states that decide without a token.
LEMMA ConsistentStates == \A s \in 0..24 : Yy!Consistent(s) <=> s \in Deciding
  BY DEF Yy!Consistent, Yy!yypact, Yy!Array, Yy!YYPACT_NINF, Deciding

\* The tables, entry by entry.
LEMMA Pact ==
    /\ Yy!yypact[0] = 18 /\ Yy!yypact[1] = -3 /\ Yy!yypact[2] = 25 /\ Yy!yypact[3] = 25
    /\ Yy!yypact[4] = -3 /\ Yy!yypact[5] = 25 /\ Yy!yypact[6] = 14 /\ Yy!yypact[7] = 1
    /\ Yy!yypact[8] = 39 /\ Yy!yypact[9] = 28 /\ Yy!yypact[10] = 37 /\ Yy!yypact[11] = -3
    /\ Yy!yypact[12] = -3 /\ Yy!yypact[13] = 35 /\ Yy!yypact[14] = 25 /\ Yy!yypact[15] = 25
    /\ Yy!yypact[16] = -3 /\ Yy!yypact[17] = 25 /\ Yy!yypact[18] = 25 /\ Yy!yypact[19] = -3
    /\ Yy!yypact[20] = -3 /\ Yy!yypact[21] = 39 /\ Yy!yypact[22] = 39 /\ Yy!yypact[23] = -3
    /\ Yy!yypact[24] = -3
  BY DEF Yy!yypact, Yy!Array

\* The entries of yycheck.
LEMMA Check ==
    /\ Yy!yycheck[0] = 2 /\ Yy!yycheck[1] = 3 /\ Yy!yycheck[2] = -1 /\ Yy!yycheck[3] = 5
    /\ Yy!yycheck[4] = 6 /\ Yy!yycheck[5] = 4 /\ Yy!yycheck[6] = 5 /\ Yy!yycheck[7] = -1
    /\ Yy!yycheck[8] = -1 /\ Yy!yycheck[9] = 8 /\ Yy!yycheck[10] = 9 /\ Yy!yycheck[11] = 10
    /\ Yy!yycheck[12] = 14 /\ Yy!yycheck[13] = 15 /\ Yy!yycheck[14] = 0 /\ Yy!yycheck[15] = 17
    /\ Yy!yycheck[16] = 18 /\ Yy!yycheck[17] = 3 /\ Yy!yycheck[18] = -1 /\ Yy!yycheck[19] = 5
    /\ Yy!yycheck[20] = 6 /\ Yy!yycheck[21] = 3 /\ Yy!yycheck[22] = 8 /\ Yy!yycheck[23] = 5
    /\ Yy!yycheck[24] = 6 /\ Yy!yycheck[25] = 11 /\ Yy!yycheck[26] = 8 /\ Yy!yycheck[27] = -1
    /\ Yy!yycheck[28] = 3 /\ Yy!yycheck[29] = 11 /\ Yy!yycheck[30] = 5 /\ Yy!yycheck[31] = 6
    /\ Yy!yycheck[32] = 4 /\ Yy!yycheck[33] = 5 /\ Yy!yycheck[34] = -1 /\ Yy!yycheck[35] = 7
    /\ Yy!yycheck[36] = 11 /\ Yy!yycheck[37] = 9 /\ Yy!yycheck[38] = 10 /\ Yy!yycheck[39] = 4
    /\ Yy!yycheck[40] = 5 /\ Yy!yycheck[41] = 4 /\ Yy!yycheck[42] = 5 /\ Yy!yycheck[43] = 8
    /\ Yy!yycheck[44] = 9 /\ Yy!yycheck[45] = 10 /\ Yy!yycheck[46] = 9 /\ Yy!yycheck[47] = 10
    /\ Yy!yycheck[48] = 9 /\ Yy!yycheck[49] = 10
  BY DEF Yy!yycheck, Yy!Array

\* The entries of yytable.
LEMMA Table ==
    /\ Yy!yytable[0] = 8 /\ Yy!yytable[1] = 9 /\ Yy!yytable[2] = 0 /\ Yy!yytable[3] = 10
    /\ Yy!yytable[4] = 13 /\ Yy!yytable[5] = 14 /\ Yy!yytable[6] = 15 /\ Yy!yytable[7] = 0
    /\ Yy!yytable[8] = 0 /\ Yy!yytable[9] = 16 /\ Yy!yytable[10] = 17 /\ Yy!yytable[11] = 18
    /\ Yy!yytable[12] = 21 /\ Yy!yytable[13] = 22 /\ Yy!yytable[14] = 11
    /\ Yy!yytable[15] = 23 /\ Yy!yytable[16] = 24 /\ Yy!yytable[17] = 1 /\ Yy!yytable[18] = 0
    /\ Yy!yytable[19] = 2 /\ Yy!yytable[20] = 3 /\ Yy!yytable[21] = 1 /\ Yy!yytable[22] = 12
    /\ Yy!yytable[23] = 2 /\ Yy!yytable[24] = 3 /\ Yy!yytable[25] = 5 /\ Yy!yytable[26] = 4
    /\ Yy!yytable[27] = 0 /\ Yy!yytable[28] = 1 /\ Yy!yytable[29] = 5 /\ Yy!yytable[30] = 2
    /\ Yy!yytable[31] = 3 /\ Yy!yytable[32] = 14 /\ Yy!yytable[33] = 15 /\ Yy!yytable[34] = 0
    /\ Yy!yytable[35] = 19 /\ Yy!yytable[36] = 5 /\ Yy!yytable[37] = 17 /\ Yy!yytable[38] = 18
    /\ Yy!yytable[39] = 14 /\ Yy!yytable[40] = 15 /\ Yy!yytable[41] = 14
    /\ Yy!yytable[42] = 15 /\ Yy!yytable[43] = 20 /\ Yy!yytable[44] = 17
    /\ Yy!yytable[45] = 18 /\ Yy!yytable[46] = 17 /\ Yy!yytable[47] = 18
    /\ Yy!yytable[48] = 17 /\ Yy!yytable[49] = 18
  BY DEF Yy!yytable, Yy!Array

\* What the model assumes of the tables is so.
LEMMA TablesHold == Yy!TablesAssumption
  BY Check, Table DEF Yy!TablesAssumption, Yy!YYLAST, Yy!YYTERROR

\* What the tables say of a token in a state that needs one.
LEMMA Rows ==
    ASSUME NEW s \in 0..24, s \notin Deciding, NEW c \in Chars
    PROVE  LET place == Yy!yypact[s] + Yy!YYTRANSLATE(c) IN
           /\ place \in 0..Yy!YYLAST /\ Yy!yycheck[place] = Yy!YYTRANSLATE(c) <=> c \in Takes(s)
           /\ c \in Takes(s) => Yy!yytable[place] \in Read(c) /\ Edge(s, Yy!yytable[place])
<1> DEFINE n == Yy!YYTRANSLATE(c)
<1>1. \/ c = 0 /\ n = 0
      \/ c = 258 /\ n = 3
      \/ c = 259 /\ n = 4
      \/ c = 260 /\ n = 5
      \/ c = 261 /\ n = 6
      \/ c = 262 /\ n = 7
      \/ c = 263 /\ n = 8
      \/ c = 264 /\ n = 9
      \/ c = 265 /\ n = 10
      \/ c = 266 /\ n = 11
  BY Symbols DEF Chars, Yy!YYEOF, Yy!NUMBER, Yy!DECREMENT
<1> HIDE DEF n
<1> USE Pact, Check, Table
<1> USE DEF Yy!YYEOF, Yy!NUMBER, Yy!PLUS, Yy!MINUS, Yy!LPAREN, Yy!RPAREN, Yy!NEWLINE,
            Yy!MULTIPLY, Yy!DIVIDE, Yy!DECREMENT,
            Yy!YYLAST, Takes, Starters, Yy!Binary, Read, LineEnds, Edge, Opening, Reopening
<1>a. CASE s = 0
  BY <1>1, <1>a DEF n
<1>b. CASE s = 6
  BY <1>1, <1>b DEF n
<1>c. CASE s \in Reopening
  BY <1>1, <1>c DEF n
<1>d. CASE s \in {7, 13}
  BY <1>1, <1>d DEF n
<1>e. CASE s = 9
  BY <1>1, <1>e DEF n
<1>f. CASE s = 10
  BY <1>1, <1>f DEF n
<1>g. CASE s \in {8, 21, 22}
  BY <1>1, <1>g DEF n
<1> QED
  BY <1>a, <1>b, <1>c, <1>d, <1>e, <1>f, <1>g, SMTT(60) DEF Deciding

\* The rule a state reduces by when no entry fits.
LEMMA Defaults ==
    /\ Yy!yydefact[0] = 0 /\ Yy!yydefact[1] = 11 /\ Yy!yydefact[2] = 0 /\ Yy!yydefact[3] = 0
    /\ Yy!yydefact[4] = 2 /\ Yy!yydefact[5] = 0 /\ Yy!yydefact[6] = 0 /\ Yy!yydefact[7] = 0
    /\ Yy!yydefact[8] = 12 /\ Yy!yydefact[9] = 0 /\ Yy!yydefact[10] = 13
    /\ Yy!yydefact[11] = 1 /\ Yy!yydefact[12] = 5 /\ Yy!yydefact[13] = 0
    /\ Yy!yydefact[14] = 0 /\ Yy!yydefact[15] = 0 /\ Yy!yydefact[16] = 3
    /\ Yy!yydefact[17] = 0 /\ Yy!yydefact[18] = 0 /\ Yy!yydefact[19] = 10
    /\ Yy!yydefact[20] = 4 /\ Yy!yydefact[21] = 6 /\ Yy!yydefact[22] = 7
    /\ Yy!yydefact[23] = 8 /\ Yy!yydefact[24] = 9
  BY DEF Yy!yydefact, Yy!Array

\* The states that have a default reduction.
Reducing == {1, 4, 8, 10, 11, 12, 16, 19, 20, 21, 22, 23, 24}

\* The states that reduce at all.
LEMMA ReducingStates == \A s \in 0..24 : Yy!yydefact[s] # 0 <=> s \in Reducing
  BY DEF Yy!yydefact, Yy!Array, Reducing

\* The lengths and left sides of the rules.
LEMMA Lengths ==
    /\ Yy!yyr1[0] = 0 /\ Yy!yyr1[1] = 12 /\ Yy!yyr1[2] = 13 /\ Yy!yyr1[3] = 13 /\ Yy!yyr1[4] = 13
    /\ Yy!yyr1[5] = 13 /\ Yy!yyr1[6] = 14 /\ Yy!yyr1[7] = 14 /\ Yy!yyr1[8] = 14
    /\ Yy!yyr1[9] = 14 /\ Yy!yyr1[10] = 14 /\ Yy!yyr1[11] = 14 /\ Yy!yyr1[12] = 14
    /\ Yy!yyr1[13] = 14
    /\ Yy!yyr2[0] = 0 /\ Yy!yyr2[1] = 2 /\ Yy!yyr2[2] = 1 /\ Yy!yyr2[3] = 2 /\ Yy!yyr2[4] = 3
    /\ Yy!yyr2[5] = 2 /\ Yy!yyr2[6] = 3 /\ Yy!yyr2[7] = 3 /\ Yy!yyr2[8] = 3 /\ Yy!yyr2[9] = 3
    /\ Yy!yyr2[10] = 3 /\ Yy!yyr2[11] = 1 /\ Yy!yyr2[12] = 2 /\ Yy!yyr2[13] = 2
  BY DEF Yy!yyr1, Yy!yyr2, Yy!Array

\* Where the table leads after a reduction.
LEMMA Gotos ==
    /\ \A s \in Opening : Yy!Goto(s, 14) = After(s)
    /\ Yy!Goto(0, 13) = 6
<1>1. Yy!yypgoto[1] = -3 /\ Yy!yypgoto[2] = -2 /\ Yy!yydefgoto[1] = 6 /\ Yy!yydefgoto[2] = 7
  BY DEF Yy!yypgoto, Yy!yydefgoto, Yy!Array
<1> QED
  BY <1>1, Check, Table DEF Yy!Goto, After, Opening, Reopening, Yy!YYNTOKENS, Yy!YYLAST

\* Edges lead from states to states, and never back to the first.
LEMMA EdgeStates ==
    \A s, u : Edge(s, u) => s \in 0..24 /\ u \in 1..24
  BY DEF Edge, Opening, Reopening

\* What follows a reduction of an expr may stand on what was below it.
LEMMA AfterEdge == \A s \in Opening : Edge(s, After(s)) /\ After(s) \in Complete \ {1, 19}
  BY DEF Edge, Opening, Reopening, After, Complete

-----------------------------------------------------------------------------
(***************************************************************************)
(* Stacks of states.  A stack is a path of the automaton; as long as it    *)
(* holds no parenthesis and no prefix operator its height is bounded by    *)
(* the state on top.                                                       *)
(***************************************************************************)
Path(s) ==
    /\ s \in Seq(0..24) /\ s # << >> /\ s[1] = 0
    /\ \A i \in 1..(Len(s) - 1) : Edge(s[i], s[i + 1])

Rank(s) ==
    CASE s = 0 -> 1 [] s \in {4, 6} -> 2 [] s \in {7, 11, 12, 13} -> 3
      [] s \in {14, 15, 16, 20} -> 4 [] s \in {21, 22} -> 5 [] s \in {17, 18} -> 6
      [] s \in {1, 19, 23, 24} -> 7 [] OTHER -> 0

IsFlat(s) == \A i \in DOMAIN s : s[i] \notin Unary
Low(s) ==
    \A i \in DOMAIN s : (\A j \in 1..i : s[j] \notin Unary) => i <= Rank(s[i])

\* The open parentheses.
Places(s) == {i \in DOMAIN s : s[i] = 3}

\* Pushing along an edge.
LEMMA PushPath ==
    ASSUME NEW s, Path(s), NEW u, Edge(Yy!Top(s), u)
    PROVE  Path(Append(s, u)) /\ Yy!Top(Append(s, u)) = u
<1>1. u \in 0..24
  BY EdgeStates
<1>2. Append(s, u) \in Seq(0..24) /\ Len(Append(s, u)) = Len(s) + 1 /\ Len(s) \in Nat \ {0}
      /\ \A i \in 1..Len(s) : Append(s, u)[i] = s[i]
      /\ Append(s, u)[Len(s) + 1] = u
  BY <1>1 DEF Path
<1>3. \A i \in 1..Len(s) : Edge(Append(s, u)[i], Append(s, u)[i + 1])
  <2> TAKE i \in 1..Len(s)
  <2>1. CASE i = Len(s)
    BY <1>2, <2>1 DEF Yy!Top
  <2>2. CASE i # Len(s)
    <3>1. i \in 1..(Len(s) - 1) /\ i + 1 \in 1..Len(s)
      BY <1>2, <2>2
    <3> QED
      BY <1>2, <3>1 DEF Path
  <2> QED
    BY <2>1, <2>2
<1>4. Append(s, u)[1] = 0 /\ Append(s, u) # << >> /\ Len(Append(s, u)) - 1 = Len(s)
  BY <1>2 DEF Path
<1> QED
  BY <1>2, <1>3, <1>4 DEF Path, Yy!Top

\* A sequence holds what its type says.
LEMMA Entries ==
    ASSUME NEW S, NEW s \in Seq(S)
    PROVE  /\ DOMAIN s = 1..Len(s)
           /\ \A i \in 1..Len(s) : s[i] \in S
  OBVIOUS

\* What is left of a sequence when its end is dropped.
LEMMA DropSeq ==
    ASSUME NEW S, NEW s \in Seq(S), NEW n \in 0..Len(s)
    PROVE  /\ Yy!DropLast(s, n) \in Seq(S) /\ Len(Yy!DropLast(s, n)) = Len(s) - n
           /\ DOMAIN Yy!DropLast(s, n) = 1..(Len(s) - n)
           /\ \A i \in 1..(Len(s) - n) : Yy!DropLast(s, n)[i] = s[i]
  BY DEF Yy!DropLast

\* Popping leaves a path.
LEMMA DropPath ==
    ASSUME NEW s, Path(s), NEW n \in 0..(Len(s) - 1)
    PROVE  Path(Yy!DropLast(s, n)) /\ Yy!Top(Yy!DropLast(s, n)) = s[Len(s) - n]
<1>1. s \in Seq(0..24) /\ n \in 0..Len(s) /\ Len(s) \in Nat
  BY DEF Path
<1>2. /\ Yy!DropLast(s, n) \in Seq(0..24) /\ Len(Yy!DropLast(s, n)) = Len(s) - n
      /\ \A i \in 1..(Len(s) - n) : Yy!DropLast(s, n)[i] = s[i]
  BY <1>1, DropSeq
<1>3. Len(s) - n >= 1 /\ Len(s) - n \in Nat
  BY <1>1
<1>4. Yy!DropLast(s, n)[1] = 0 /\ Yy!DropLast(s, n) # << >>
  BY <1>2, <1>3 DEF Path
<1>5. \A i \in 1..(Len(s) - n - 1) : Edge(Yy!DropLast(s, n)[i], Yy!DropLast(s, n)[i + 1])
  <2> TAKE i \in 1..(Len(s) - n - 1)
  <2>1. i \in 1..(Len(s) - 1) /\ i \in 1..(Len(s) - n) /\ i + 1 \in 1..(Len(s) - n)
    BY <1>1
  <2> QED
    BY <2>1, <1>2 DEF Path
<1> QED
  BY <1>2, <1>3, <1>4, <1>5 DEF Path, Yy!Top

\* Every edge without a parenthesis or prefix operator leads up.
LEMMA EdgeRank ==
    \A s, u : Edge(s, u) /\ s \notin Unary /\ u \notin Unary /\ Rank(s) >= 1
              => Rank(u) >= Rank(s) + 1 /\ Rank(s) \in 1..7
  BY DEF Edge, Opening, Reopening, Unary, Rank

\* Pushing along an edge keeps the bound.
LEMMA PushLow ==
    ASSUME NEW s, Path(s), Low(s), NEW u, Edge(Yy!Top(s), u)
    PROVE  Low(Append(s, u))
<1> SUFFICES ASSUME NEW i \in DOMAIN Append(s, u),
                    \A j \in 1..i : Append(s, u)[j] \notin Unary
             PROVE  i <= Rank(Append(s, u)[i])
  BY DEF Low
<1>1. Len(s) \in Nat \ {0} /\ DOMAIN s = 1..Len(s) /\ DOMAIN Append(s, u) = 1..(Len(s) + 1)
      /\ (\A j \in 1..Len(s) : Append(s, u)[j] = s[j]) /\ Append(s, u)[Len(s) + 1] = u
  BY DEF Path
<1>2. CASE i \in 1..Len(s)
  <2>1. \A j \in 1..i : s[j] \notin Unary
    BY <1>1, <1>2
  <2> QED
    BY <1>1, <1>2, <2>1 DEF Low
<1>3. CASE i = Len(s) + 1
  <2>1. (\A j \in 1..Len(s) : s[j] \notin Unary) /\ u \notin Unary
    BY <1>1, <1>3
  <2>2. Len(s) <= Rank(Yy!Top(s)) /\ Yy!Top(s) \notin Unary
    BY <1>1, <2>1 DEF Yy!Top, Low
  <2>3. Rank(Yy!Top(s)) \in Int /\ Rank(u) \in Int
    BY DEF Rank
  <2> QED
    BY <1>1, <1>3, <2>1, <2>2, <2>3, EdgeRank
<1> QED
  BY <1>1, <1>2, <1>3

\* Popping keeps the bound.
LEMMA DropLow ==
    ASSUME NEW s, Path(s), Low(s), NEW n \in 0..(Len(s) - 1)
    PROVE  Low(Yy!DropLast(s, n))
<1>1. s \in Seq(0..24) /\ n \in 0..Len(s) /\ Len(s) \in Nat
  BY DEF Path
<1>2. /\ DOMAIN Yy!DropLast(s, n) = 1..(Len(s) - n) /\ DOMAIN s = 1..Len(s)
      /\ \A i \in 1..(Len(s) - n) : Yy!DropLast(s, n)[i] = s[i]
  BY <1>1, DropSeq
<1> SUFFICES ASSUME NEW i \in 1..(Len(s) - n),
                    \A j \in 1..i : Yy!DropLast(s, n)[j] \notin Unary
             PROVE  i <= Rank(s[i])
  BY <1>2 DEF Low
<1>3. \A j \in 1..i : s[j] \notin Unary
  BY <1>1, <1>2
<1> QED
  BY <1>1, <1>2, <1>3 DEF Low

\* Seven states are as high as a stack of a line without them can be.
LEMMA FlatHeight == ASSUME NEW s, Path(s), Low(s), IsFlat(s) PROVE Len(s) <= 7
<1>1. Len(s) \in Nat \ {0} /\ DOMAIN s = 1..Len(s)
  BY DEF Path
<1>2. Len(s) <= Rank(s[Len(s)])
  BY <1>1 DEF Low, IsFlat
<1> QED
  BY <1>1, <1>2 DEF Rank

\* Pushing opens only what it pushes.
LEMMA FlatPush ==
    ASSUME NEW s, Path(s), NEW u \in 0..24
    PROVE  IsFlat(Append(s, u)) <=> IsFlat(s) /\ u \notin Unary
<1>1. Len(s) \in Nat \ {0} /\ DOMAIN s = 1..Len(s) /\ DOMAIN Append(s, u) = 1..(Len(s) + 1)
      /\ (\A j \in 1..Len(s) : Append(s, u)[j] = s[j]) /\ Append(s, u)[Len(s) + 1] = u
  BY DEF Path
<1> QED
  BY <1>1 DEF IsFlat

\* Popping opens nothing.
LEMMA FlatDrop ==
    ASSUME NEW s, Path(s), NEW n \in 0..(Len(s) - 1), IsFlat(s)
    PROVE  IsFlat(Yy!DropLast(s, n))
<1>1. s \in Seq(0..24) /\ n \in 0..Len(s) /\ Len(s) \in Nat
  BY DEF Path
<1>2. /\ DOMAIN Yy!DropLast(s, n) = 1..(Len(s) - n) /\ DOMAIN s = 1..Len(s)
      /\ \A i \in 1..(Len(s) - n) : Yy!DropLast(s, n)[i] = s[i]
  BY <1>1, DropSeq
<1> QED
  BY <1>1, <1>2 DEF IsFlat

\* Every state but the first stands on another.
LEMMA Under ==
    ASSUME NEW s, Path(s), NEW i \in 1..Len(s), i # 1
    PROVE  /\ i - 1 \in 1..Len(s) /\ Edge(s[i - 1], s[i])
           /\ s[i - 1] \in 0..24 /\ s[i] \in 0..24
<1>1. i - 1 \in 1..(Len(s) - 1) /\ (i - 1) + 1 = i /\ i - 1 \in 1..Len(s)
  BY DEF Path
<1>a. s \in Seq(0..24)
  BY DEF Path
<1>b. \A j \in 1..Len(s) : s[j] \in 0..24
  BY <1>a, SMTT(60)
<1>2. s[i - 1] \in 0..24 /\ s[i] \in 0..24
  BY <1>1, <1>b
<1>3. Edge(s[i - 1], s[(i - 1) + 1])
  BY <1>1 DEF Path
<1> QED
  BY <1>1, <1>2, <1>3

\* What a state may stand on.
LEMMA Beneath ==
    \A s, u : Edge(s, u) =>
        /\ u # 0
        /\ u \in {4, 6, 7} => s = 0
        /\ u \in {11, 12, 13} => s = 6
        /\ u = 16 => s = 7
        /\ u = 20 => s = 13
        /\ u \in {1, 2, 3, 5} => s \in Opening
        /\ u = 8 => s = 2
        /\ u = 9 => s = 3
        /\ u = 10 => s = 5
        /\ u = 19 => s = 9
        /\ u = 21 => s = 14
        /\ u = 22 => s = 15
        /\ u = 23 => s = 17
        /\ u = 24 => s = 18
        /\ u \in {14, 15} => s \in {7, 9, 10, 13}
        /\ u \in {17, 18} => s \in {7, 8, 9, 10, 13, 21, 22}
  BY DEF Edge, Opening, Reopening

\* What stands directly on the first state.
LEMMA AtBottom ==
    ASSUME NEW s, Path(s), NEW i \in 1..Len(s)
    PROVE  /\ s[i] = 0 <=> i = 1
           /\ s[i] \in {4, 6, 7} => i = 2
<1>1. s[1] = 0 /\ 1 \in 1..Len(s) /\ Len(s) \in Nat
  BY DEF Path
<1>2. \A j \in 1..Len(s) : j # 1 => s[j] # 0 /\ (s[j] \in {4, 6, 7} => s[j - 1] = 0)
  <2> TAKE j \in 1..Len(s)
  <2> HAVE j # 1
  <2>1. Edge(s[j - 1], s[j])
    BY Under
  <2> QED
    BY <2>1, Beneath
<1>3. i # 1 => i - 1 \in 1..Len(s) /\ (i - 1 # 1 => s[i - 1] # 0)
  BY <1>2, Under
<1> QED
  BY <1>1, <1>2, <1>3

\* What is under the states near the bottom.
LEMMA Bottom ==
    ASSUME NEW s, Path(s), NEW i \in 1..Len(s)
    PROVE  /\ s[i] = 0 <=> i = 1
           /\ s[i] \in {4, 6, 7} => i = 2
           /\ s[i] \in {11, 12, 13} => i = 3 /\ s[2] = 6
           /\ s[i] = 16 => i = 3 /\ s[2] = 7
           /\ s[i] = 20 => i = 4 /\ s[3] = 13 /\ s[2] = 6
<1>1. \A j \in 1..Len(s) :
        /\ s[j] = 0 <=> j = 1
        /\ s[j] \in {4, 6, 7} => j = 2
  BY AtBottom
<1>2. \A j \in 1..Len(s) : s[j] \in {11, 12, 13} => j = 3 /\ s[2] = 6
  <2> SUFFICES ASSUME NEW j \in 1..Len(s), s[j] \in {11, 12, 13}
               PROVE  j = 3 /\ s[2] = 6
    OBVIOUS
  <2>1. j # 1
    BY <1>1
  <2>2. j - 1 \in 1..Len(s) /\ Edge(s[j - 1], s[j])
    BY <2>1, Under
  <2>3. s[j - 1] = 6
    BY <2>2, Beneath
  <2> QED
    BY <1>1, <2>2, <2>3
<1>3. s[i] = 16 => i = 3 /\ s[2] = 7
  <2> HAVE s[i] = 16
  <2>1. i # 1
    BY <1>1
  <2>2. i - 1 \in 1..Len(s) /\ Edge(s[i - 1], s[i])
    BY <2>1, Under
  <2>3. s[i - 1] = 7
    BY <2>2, Beneath
  <2> QED
    BY <1>1, <2>2, <2>3
<1>4. s[i] = 20 => i = 4 /\ s[3] = 13 /\ s[2] = 6
  <2> HAVE s[i] = 20
  <2>1. i # 1
    BY <1>1
  <2>2. i - 1 \in 1..Len(s) /\ Edge(s[i - 1], s[i])
    BY <2>1, Under
  <2>3. s[i - 1] = 13
    BY <2>2, Beneath
  <2> QED
    BY <1>2, <2>2, <2>3
<1> QED
  BY <1>1, <1>2, <1>3, <1>4

\* The handle of a rule is on the stack: what is under it waits for an operand,
\* or is the bottom, and only a pair of parentheses takes a parenthesis along.
LEMMA Handle ==
    ASSUME NEW s, Path(s), NEW t, NEW L, t = Yy!Top(s), L = Len(s),
           NEW r, NEW k, r = Yy!yydefact[t], r # 0, k = Yy!yyr2[r], t # 11
    PROVE  /\ k \in 1..3 /\ k <= L - 1 /\ r \in 2..13
           /\ s[L - k] \in Opening
           /\ Yy!yyr1[r] = 14 \/ (Yy!yyr1[r] = 13 /\ s[L - k] = 0 /\ t \in LineEnds)
           /\ Yy!yyr1[r] = 14 => t \in Complete
           /\ \A i \in (L - k + 1)..L : s[i] = 3 <=> (t = 19 /\ i = L - 2)
           /\ t = 19 => k = 3 /\ s[L - 2] = 3
<1>1. t \in 0..24 /\ L \in Nat \ {0} /\ t = s[L]
  BY DEF Path, Yy!Top
<1>2. \A j \in 1..L : j # 1 => j - 1 \in 1..L /\ Edge(s[j - 1], s[j])
  BY Under
<1>3. \A j \in 1..L : s[j] = 0 <=> j = 1
  BY Bottom
<1>4. t \in {1, 4, 8, 10, 12, 16, 19, 20, 21, 22, 23, 24}
  BY <1>1, ReducingStates DEF Reducing
<1>5. L >= 2 /\ Edge(s[L - 1], t)
  BY <1>1, <1>2, <1>3, <1>4
<1>6. L > 2 => L - 2 \in 1..L /\ Edge(s[L - 2], s[L - 1])
  BY <1>1, <1>2, <1>5
<1>7. L > 3 => L - 3 \in 1..L /\ Edge(s[L - 3], s[L - 2])
  BY <1>1, <1>2
<1>8. (L = 2 => s[L - 1] = 0) /\ (L = 3 => s[L - 2] = 0) /\ (L = 4 => s[L - 3] = 0)
  BY <1>1, <1>3
<1>s. s[L - 1] # 0 => L > 2
  <2>1. L >= 2
    BY <1>5
  <2> QED
    BY <1>1, <1>8, <2>1
<1>p. k = 1 => (L - k + 1)..L = {L}
  BY <1>1
<1>q. k = 2 /\ L > 2 => (L - k + 1)..L = {L - 1, L}
  BY <1>1
<1>r. k = 3 /\ L > 3 => (L - k + 1)..L = {L - 2, L - 1, L}
  BY <1>1
<1>a. CASE t = 1
  <2>1. r = 11 /\ k = 1 /\ Yy!yyr1[r] = 14
    BY <1>a, Defaults, Lengths
  <2>2. s[L - 1] \in Opening /\ s[L] # 3
    BY <1>a, <1>1, <1>5, Beneath
  <2>3. \A i \in (L - k + 1)..L : s[i] # 3
    BY <1>p, <2>1, <2>2
  <2>4. t \in Complete /\ t # 19
    BY <1>a DEF Complete
  <2>5. L - k = L - 1 /\ k \in 1..3 /\ k <= L - 1 /\ r \in 2..13
    BY <1>1, <1>5, <2>1
  <2> QED
    BY <2>1, <2>2, <2>3, <2>4, <2>5
<1>b. CASE t = 4
  <2>1. r = 2 /\ k = 1 /\ Yy!yyr1[r] = 13
    BY <1>b, Defaults, Lengths
  <2>2. s[L - 1] = 0 /\ s[L] # 3
    BY <1>b, <1>1, <1>5, Beneath
  <2>3. \A i \in (L - k + 1)..L : s[i] # 3
    BY <1>p, <2>1, <2>2
  <2>4. t \in LineEnds /\ t # 19 /\ 0 \in Opening
    BY <1>b DEF LineEnds, Opening
  <2>5. L - k = L - 1 /\ k \in 1..3 /\ k <= L - 1 /\ r \in 2..13
    BY <1>1, <1>5, <2>1
  <2> QED
    BY <2>1, <2>2, <2>3, <2>4, <2>5
<1>c. CASE t \in {8, 10}
  <2>a. r = 12 \/ r = 13
    BY <1>c, Defaults
  <2>1. r \in {12, 13} /\ k = 2 /\ Yy!yyr1[r] = 14
    BY <2>a, Lengths
  <2>2. s[L - 1] \in {2, 5}
    BY <1>c, <1>5, Beneath
  <2>3. L > 2
    BY <1>1, <1>5, <1>8, <2>2
  <2>4. s[L - 2] \in Opening /\ s[L - 1] # 3 /\ s[L] # 3
    BY <1>c, <1>1, <1>6, <2>2, <2>3, Beneath
  <2>5. \A i \in (L - k + 1)..L : s[i] # 3
    BY <1>q, <2>1, <2>3, <2>4
  <2>6. t \in Complete /\ t # 19
    BY <1>c DEF Complete
  <2>7. L - k = L - 2 /\ k \in 1..3 /\ k <= L - 1 /\ r \in 2..13
    BY <1>1, <2>1, <2>3
  <2> QED
    BY <2>1, <2>4, <2>5, <2>6, <2>7
<1>d. CASE t \in {12, 16}
  <2>a. r = 3 \/ r = 5
    BY <1>d, Defaults
  <2>1. r \in {3, 5} /\ k = 2 /\ Yy!yyr1[r] = 13
    BY <2>a, Lengths
  <2>2. s[L - 1] \in {6, 7}
    BY <1>d, <1>5, Beneath
  <2>3. L > 2
    BY <1>1, <1>5, <1>8, <2>2
  <2>4. s[L - 2] = 0 /\ s[L - 1] # 3 /\ s[L] # 3
    BY <1>d, <1>1, <1>6, <2>2, <2>3, Beneath
  <2>5. \A i \in (L - k + 1)..L : s[i] # 3
    BY <1>q, <2>1, <2>3, <2>4
  <2>6. t \in LineEnds /\ t # 19 /\ 0 \in Opening
    BY <1>d DEF LineEnds, Opening
  <2>7. L - k = L - 2 /\ k \in 1..3 /\ k <= L - 1 /\ r \in 2..13
    BY <1>1, <2>1, <2>3
  <2> QED
    BY <2>1, <2>4, <2>5, <2>6, <2>7
<1>e. CASE t = 19
  <2>1. r = 10 /\ k = 3 /\ Yy!yyr1[r] = 14
    BY <1>e, Defaults, Lengths
  <2>2. s[L - 1] = 9
    BY <1>e, <1>5, Beneath
  <2>3. L > 2
    BY <1>1, <1>5, <1>8, <2>2
  <2>4. s[L - 2] = 3
    BY <1>6, <2>2, <2>3, Beneath
  <2>5. L > 3
    BY <1>1, <1>8, <2>3, <2>4
  <2>6. s[L - 3] \in Opening /\ s[L] = 19
    BY <1>e, <1>1, <1>7, <2>4, <2>5, Beneath
  <2>7. L - 2 # L - 1 /\ L - 2 # L
    BY <1>1
  <2>8. \A i \in (L - k + 1)..L : s[i] = 3 <=> (t = 19 /\ i = L - 2)
    <3> TAKE i \in (L - k + 1)..L
    <3>1. i = L - 2 \/ i = L - 1 \/ i = L
      BY <1>r, <2>1, <2>5
    <3>2. CASE i = L - 2
      BY <1>e, <2>4, <3>2
    <3>3. CASE i = L - 1
      BY <2>2, <2>7, <3>3
    <3>4. CASE i = L
      BY <2>6, <2>7, <3>4
    <3> QED
      BY <3>1, <3>2, <3>3, <3>4
  <2>9. t \in Complete
    BY <1>e DEF Complete
  <2>10. L - k = L - 3 /\ k \in 1..3 /\ k <= L - 1 /\ r \in 2..13
    BY <1>1, <2>1, <2>5
  <2> QED
    BY <2>1, <2>4, <2>6, <2>8, <2>9, <2>10
<1>f. CASE t = 20
  <2>1. r = 4 /\ k = 3 /\ Yy!yyr1[r] = 13
    BY <1>f, Defaults, Lengths
  <2>2. s[L - 1] = 13
    BY <1>f, <1>5, Beneath
  <2>3. L > 2
    BY <1>1, <1>5, <1>8, <2>2
  <2>4. s[L - 2] = 6
    BY <1>6, <2>2, <2>3, Beneath
  <2>5. L > 3
    BY <1>1, <1>8, <2>3, <2>4
  <2>6. s[L - 3] = 0 /\ s[L] = 20
    BY <1>f, <1>1, <1>7, <2>4, <2>5, Beneath
  <2>7. \A i \in (L - k + 1)..L : s[i] # 3
    BY <1>r, <2>1, <2>2, <2>4, <2>5, <2>6
  <2>8. t \in LineEnds /\ t # 19 /\ 0 \in Opening
    BY <1>f DEF LineEnds, Opening
  <2>9. L - k = L - 3 /\ k \in 1..3 /\ k <= L - 1 /\ r \in 2..13
    BY <1>1, <2>1, <2>5
  <2> QED
    BY <2>1, <2>6, <2>7, <2>8, <2>9
<1>g. CASE t \in {21, 22, 23, 24}
  <2>a. r = 6 \/ r = 7 \/ r = 8 \/ r = 9
    BY <1>g, Defaults
  <2>1. r \in {6, 7, 8, 9} /\ k = 3 /\ Yy!yyr1[r] = 14
    BY <2>a, Lengths
  <2>2. s[L - 1] \in {14, 15, 17, 18}
    BY <1>g, <1>5, Beneath
  <2>b. s[L - 1] # 0 /\ s[L - 1] # 3
    BY <2>2
  <2>3. L > 2
    BY <1>s, <2>b
  <2>4. s[L - 2] \in {7, 8, 9, 10, 13, 21, 22}
    BY <1>6, <2>2, <2>3, Beneath
  <2>5. L > 3
    BY <1>1, <1>8, <2>3, <2>4
  <2>c. Edge(s[L - 3], s[L - 2])
    BY <1>7, <2>5
  <2>6. s[L - 3] \in Opening
    BY <2>4, <2>c, Beneath DEF Opening, Reopening
  <2>d. s[L - 2] # 3
    BY <2>4
  <2>e. s[L] # 3
    BY <1>g, <1>1
  <2>7. s[L - 2] # 3 /\ s[L - 1] # 3 /\ s[L] # 3
    BY <2>b, <2>d, <2>e
  <2>8. \A i \in (L - k + 1)..L : s[i] # 3
    BY <1>r, <2>1, <2>5, <2>7
  <2>9. t \in Complete /\ t # 19
    BY <1>g DEF Complete
  <2>10. L - k = L - 3 /\ k \in 1..3 /\ k <= L - 1 /\ r \in 2..13
    BY <1>1, <2>1, <2>5
  <2> QED
    BY <2>1, <2>6, <2>8, <2>9, <2>10
<1> QED
  BY <1>4, <1>a, <1>b, <1>c, <1>d, <1>e, <1>f, <1>g

\* Nothing is open at the bottom, at the end of a line, or in front of one.
LEMMA NothingOpen ==
    ASSUME NEW s, Path(s), Yy!Top(s) \in {0, 6, 7, 11, 13} \cup LineEnds
    PROVE  Places(s) = {} /\ IsFlat(s)
<1>1. Len(s) \in Nat \ {0} /\ DOMAIN s = 1..Len(s) /\ Yy!Top(s) = s[Len(s)] /\ Len(s) \in 1..Len(s)
      /\ s[1] = 0
  BY DEF Path, Yy!Top
<1>2. \/ Len(s) = 1
      \/ Len(s) = 2 /\ s[2] \in {4, 6, 7}
      \/ Len(s) = 3 /\ s[2] \in {6, 7} /\ s[3] \in {11, 12, 13, 16}
      \/ Len(s) = 4 /\ s[2] = 6 /\ s[3] = 13 /\ s[4] = 20
  BY <1>1, Bottom, SMTT(60) DEF LineEnds
<1>3. \A i \in DOMAIN s : s[i] \notin Unary
  BY <1>1, <1>2 DEF Unary
<1> QED
  BY <1>3 DEF Places, IsFlat, Unary

\* Parentheses counted at a push.
LEMMA PushPlaces ==
    ASSUME NEW s, Path(s), NEW u \in 0..24
    PROVE  /\ IsFiniteSet(Places(s)) /\ IsFiniteSet(Places(Append(s, u)))
           /\ Cardinality(Places(s)) \in Nat
           /\ Cardinality(Places(Append(s, u)))
                = Cardinality(Places(s)) + (IF u = 3 THEN 1 ELSE 0)
<1>1. Len(s) \in Nat \ {0} /\ DOMAIN s = 1..Len(s) /\ DOMAIN Append(s, u) = 1..(Len(s) + 1)
      /\ (\A j \in 1..Len(s) : Append(s, u)[j] = s[j]) /\ Append(s, u)[Len(s) + 1] = u
  BY DEF Path
<1>2. Places(s) \subseteq 1..Len(s)
  BY <1>1 DEF Places
<1>a. IsFiniteSet(1..Len(s))
  BY <1>1, FS_Interval
<1>3. IsFiniteSet(Places(s)) /\ Cardinality(Places(s)) \in Nat
  BY <1>2, <1>a, FS_Subset, FS_CardinalityType
<1>4. CASE u = 3
  <2>1. Places(Append(s, u)) = Places(s) \cup {Len(s) + 1} /\ Len(s) + 1 \notin Places(s)
    BY <1>1, <1>4 DEF Places
  <2> QED
    BY <1>3, <1>4, <2>1, FS_AddElement
<1>5. CASE u # 3
  <2>1. Places(Append(s, u)) = Places(s)
    BY <1>1, <1>5 DEF Places
  <2> QED
    BY <1>3, <1>5, <2>1
<1> QED
  BY <1>4, <1>5

\* Whether what is popped holds an open parenthesis.
LEMMA DropPlaces ==
    ASSUME NEW s, Path(s), NEW k \in 0..(Len(s) - 1)
    PROVE  /\ Places(Yy!DropLast(s, k)) = {i \in Places(s) : i <= Len(s) - k}
           /\ Places(s) \subseteq 1..Len(s)
<1>1. s \in Seq(0..24) /\ Len(s) \in Nat \ {0} /\ DOMAIN s = 1..Len(s)
  BY DEF Path
<1>a. k \in 0..Len(s)
  BY <1>1
<1>2. /\ DOMAIN Yy!DropLast(s, k) = 1..(Len(s) - k)
      /\ \A i \in 1..(Len(s) - k) : Yy!DropLast(s, k)[i] = s[i]
  BY <1>1, <1>a, DropSeq, ZenonT(60)
<1>3. Places(Yy!DropLast(s, k)) = {i \in 1..(Len(s) - k) : s[i] = 3}
  BY <1>2 DEF Places
<1>4. Places(s) = {i \in 1..Len(s) : s[i] = 3}
  BY <1>1 DEF Places
<1>5. 1..(Len(s) - k) = {i \in 1..Len(s) : i <= Len(s) - k}
  BY <1>1, <1>a
<1> QED
  BY <1>3, <1>4, <1>5

\* Parentheses counted at the pop of a handle.
LEMMA PopPlaces ==
    ASSUME NEW s, Path(s), NEW k \in 0..(Len(s) - 1)
    PROVE  /\ (\A i \in (Len(s) - k + 1)..Len(s) : i \notin Places(s)) =>
                Cardinality(Places(Yy!DropLast(s, k))) = Cardinality(Places(s))
           /\ k = 3 /\ Len(s) - 2 \in Places(s)
                    /\ Len(s) - 1 \notin Places(s) /\ Len(s) \notin Places(s) =>
                Cardinality(Places(Yy!DropLast(s, k))) = Cardinality(Places(s)) - 1
<1>1. Len(s) \in Nat \ {0} /\ k \in Nat
  BY DEF Path
<1>2. IsFiniteSet(Places(s)) /\ Cardinality(Places(s)) \in Nat
  BY PushPlaces
<1>3. ASSUME \A i \in (Len(s) - k + 1)..Len(s) : i \notin Places(s)
      PROVE  Cardinality(Places(Yy!DropLast(s, k))) = Cardinality(Places(s))
  <2>1. \A i \in Places(s) : i <= Len(s) - k
    BY <1>1, <1>3, DropPlaces
  <2> QED
    BY <2>1, DropPlaces
<1>4. ASSUME k = 3, Len(s) - 2 \in Places(s), Len(s) - 1 \notin Places(s), Len(s) \notin Places(s)
      PROVE  Cardinality(Places(Yy!DropLast(s, k))) = Cardinality(Places(s)) - 1
  <2>1. \A i \in Places(s) : i <= Len(s) - k <=> i # Len(s) - 2
    BY <1>1, <1>4, DropPlaces
  <2>2. Places(Yy!DropLast(s, k)) = Places(s) \ {Len(s) - 2}
    BY <2>1, DropPlaces
  <2> QED
    BY <1>2, <1>4, <2>2, FS_RemoveElement
<1> QED
  BY <1>3, <1>4

-----------------------------------------------------------------------------
(***************************************************************************)
(* Lines of tokens.                                                        *)
(***************************************************************************)
Opens(i, t) == {k \in Yy!Line(i) : Yy!Tok(k) = t}

\* Token i stands in the line before token j and opens what an operand closes.
Opener(i, line) ==
    \/ Yy!Tok(i) \in {Yy!LPAREN, Yy!DECREMENT}
    \/ Yy!Tok(i) = Yy!MINUS /\ (i - 1 \notin line \/ Yy!Tok(i - 1) # Yy!NUMBER)

\* Calc counts as this module does.
LEMMA SameSize == \A S : Yy!Cardinality(S) = Cardinality(S)
  BY DEF Yy!Cardinality, Cardinality

\* The line, one token later.
LEMMA LineNext ==
    ASSUME NEW i \in Nat \ {0}
    PROVE  /\ Yy!Line(i) \subseteq 1..(i - 1)
           /\ Yy!Line(i + 1) = IF Yy!Tok(i) = Yy!NEWLINE THEN {} ELSE Yy!Line(i) \cup {i}
<1>1. (i + 1) - 1 = i
  OBVIOUS
<1>2. CASE Yy!Tok(i) = Yy!NEWLINE
  BY <1>1, <1>2 DEF Yy!Line
<1>3. CASE Yy!Tok(i) # Yy!NEWLINE
  <2>1. \A k \in 1..i : (\A j \in k..i : Yy!Tok(j) # Yy!NEWLINE) <=> (k = i \/ k \in Yy!Line(i))
    BY <1>3 DEF Yy!Line
  <2> QED
    BY <1>1, <1>3, <2>1 DEF Yy!Line
<1> QED
  BY <1>2, <1>3 DEF Yy!Line

\* How often a token stands in the line, one token later.
LEMMA OpensNext ==
    ASSUME NEW i \in Nat \ {0}, NEW t
    PROVE  /\ Cardinality(Opens(i, t)) \in Nat
           /\ Yy!Tok(i) = Yy!NEWLINE => Cardinality(Opens(i + 1, t)) = 0
           /\ Yy!Tok(i) # Yy!NEWLINE =>
                Cardinality(Opens(i + 1, t))
                    = Cardinality(Opens(i, t)) + (IF Yy!Tok(i) = t THEN 1 ELSE 0)
<1>1. Opens(i, t) \subseteq 1..(i - 1)
  BY LineNext DEF Opens
<1>a. IsFiniteSet(1..(i - 1))
  BY FS_Interval
<1>2. IsFiniteSet(Opens(i, t)) /\ Cardinality(Opens(i, t)) \in Nat
  BY <1>1, <1>a, FS_Subset, FS_CardinalityType
<1>3. CASE Yy!Tok(i) = Yy!NEWLINE
  <2>1. Opens(i + 1, t) = {}
    BY <1>3, LineNext DEF Opens
  <2> QED
    BY <1>2, <1>3, <2>1, FS_EmptySet
<1>4. CASE Yy!Tok(i) # Yy!NEWLINE /\ Yy!Tok(i) = t
  <2>1. Opens(i + 1, t) = Opens(i, t) \cup {i}
    BY <1>4, LineNext DEF Opens
  <2>2. i \notin Opens(i, t)
    BY <1>1
  <2> QED
    BY <1>2, <1>4, <2>1, <2>2, FS_AddElement
<1>5. CASE Yy!Tok(i) # Yy!NEWLINE /\ Yy!Tok(i) # t
  <2>1. Opens(i + 1, t) = Opens(i, t)
    BY <1>5, LineNext DEF Opens
  <2> QED
    BY <1>2, <1>5, <2>1
<1> QED
  BY <1>2, <1>3, <1>4, <1>5

\* What has been said of a line stays true when tokens follow.
LEMMA Said ==
    ASSUME NEW S, given \in Seq(S), NEW x, given' = Append(given, x), NEW n, n = Len(given) + 1
    PROVE  /\ Len(given') = n /\ Yy!Tok(n)' = x.tok
           /\ \A i \in 1..Len(given) : Yy!Tok(i)' = Yy!Tok(i)
           /\ \A i \in 1..(Len(given) + 1) :
                 /\ Yy!Line(i)' = Yy!Line(i)
                 /\ Yy!MayFollow(i)' = Yy!MayFollow(i)
                 /\ \A t : Opens(i, t)' = Opens(i, t)
<1>1. Len(given) \in Nat /\ Len(given') = Len(given) + 1 /\ given'[Len(given) + 1] = x
      /\ \A i \in 1..Len(given) : given'[i] = given[i]
  OBVIOUS
<1>2. \A i \in 1..Len(given) : Yy!Tok(i)' = Yy!Tok(i)
  BY <1>1 DEF Yy!Tok
<1>3. ASSUME NEW i \in 1..(Len(given) + 1)
      PROVE  /\ Yy!Line(i)' = Yy!Line(i)
             /\ Yy!MayFollow(i)' = Yy!MayFollow(i)
             /\ \A t : Opens(i, t)' = Opens(i, t)
  <2>1. \A k \in 1..(i - 1) : Yy!Tok(k)' = Yy!Tok(k) /\ \A j \in k..(i - 1) : Yy!Tok(j)' = Yy!Tok(j)
    BY <1>1, <1>2
  <2>2. Yy!Line(i)' = Yy!Line(i) /\ Yy!Line(i) \subseteq 1..(i - 1)
    BY <2>1 DEF Yy!Line
  <2>3. \A t : {k \in Yy!Line(i) : Yy!Tok(k) = t}' = {k \in Yy!Line(i) : Yy!Tok(k) = t}
    BY <2>1, <2>2
  <2>4. Yy!Line(i) # {} => Yy!Tok(i - 1)' = Yy!Tok(i - 1)
    BY <1>1, <2>1, <2>2
  <2>5. Yy!MayFollow(i)' = Yy!MayFollow(i)
    BY <2>2, <2>3, <2>4 DEF Yy!MayFollow
  <2> QED
    BY <2>2, <2>3, <2>5 DEF Opens
<1>4. Yy!Tok(n)' = x.tok
  BY <1>1 DEF Yy!Tok
<1> QED
  BY <1>1, <1>2, <1>3, <1>4

-----------------------------------------------------------------------------
(***************************************************************************)
(* Values.                                                                 *)
(***************************************************************************)
LEMMA WrapInt == ASSUME Yy!CalcAssumption, NEW n \in Int PROVE Yy!Wrap(n) \in Yy!IntMin..IntMax
<1> DEFINE d == n - Yy!IntMin
<1>1. IntMax \in Nat /\ Yy!IntValues \in Nat \ {0} /\ Yy!IntMin \in Int /\ d \in Int
  BY DEF Yy!CalcAssumption, Yy!IntValues, Yy!IntMin
<1>2. d % Yy!IntValues \in 0..(Yy!IntValues - 1)
  BY <1>1
<1> HIDE DEF d
<1>3. Yy!Wrap(n) = (d % Yy!IntValues) + Yy!IntMin
  BY DEF Yy!Wrap, d
<1> QED
  BY <1>1, <1>2, <1>3 DEF Yy!IntValues, Yy!IntMin

\* A quotient of naturals is no larger than what is divided.
LEMMA DivNat ==
    ASSUME NEW n \in Nat, NEW d \in Nat \ {0}
    PROVE  n \div d \in 0..n /\ (d >= 2 => 2 * (n \div d) <= n)
<1>1. n \div d \in Int
  OBVIOUS
<1>2. n \div d >= 0
  OBVIOUS
<1>3. n \div d <= n
  OBVIOUS
<1>4. d >= 2 => 2 * (n \div d) <= n
  OBVIOUS
<1> QED
  BY <1>1, <1>2, <1>3, <1>4

\* Only the least int by -1 leaves the range.
LEMMA QuotientInt ==
    ASSUME Yy!CalcAssumption, NEW a \in Yy!IntMin..IntMax, NEW b \in Yy!IntMin..IntMax,
           b # 0, ~(a = Yy!IntMin /\ b = -1)
    PROVE  Yy!Quotient(a, b) \in Yy!IntMin..IntMax
<1> DEFINE Abs(n) == IF n < 0 THEN -n ELSE n
           q == Abs(a) \div Abs(b)
<1>1. IntMax \in Nat /\ Yy!IntMin = -IntMax - 1 /\ a \in Int /\ b \in Int
  BY DEF Yy!CalcAssumption, Yy!IntMin
<1>2. Abs(a) \in Nat /\ Abs(b) \in Nat \ {0}
  BY <1>1
<1>3. q \in 0..Abs(a) /\ (Abs(b) >= 2 => 2 * q <= Abs(a))
  BY <1>2, DivNat
<1>4. Yy!Quotient(a, b) = IF (a < 0) = (b < 0) THEN q ELSE -q
  BY DEF Yy!Quotient
<1> HIDE DEF q
<1>5. CASE Abs(a) <= IntMax
  BY <1>1, <1>3, <1>4, <1>5
<1>6. CASE Abs(a) > IntMax
  <2>1. a = Yy!IntMin
    BY <1>1, <1>6
  <2>2. CASE b > 0
    BY <1>1, <1>3, <1>4, <2>1, <2>2
  <2>3. CASE b < 0
    <3>1. Abs(b) >= 2
      BY <1>1, <2>1, <2>3
    <3>2. 2 * q <= IntMax + 1 /\ IntMax >= 1
      BY <1>1, <1>3, <2>1, <2>3, <3>1
    <3> QED
      BY <1>1, <1>3, <1>4, <2>1, <3>2
  <2> QED
    BY <1>1, <2>2, <2>3
<1> QED
  BY <1>1, <1>2, <1>5, <1>6

-----------------------------------------------------------------------------
(***************************************************************************)
(* The invariant.  Stack is the stack with the state that is about to be   *)
(* pushed, Taken the number of tokens that have been shifted.              *)
(***************************************************************************)
Stack == IF label = "newstate" THEN Append(yyss, yystate) ELSE yyss
Taken == IF yychar = Yy!YYEMPTY THEN Len(given) ELSE Len(given) - 1
Failing == label \in {"errlab1", "aborted"}
Reading == label \in {"newstate", "backup", "default", "errlab1"}
Given == [tok : Chars, val : 0..IntMax]

Lookahead ==
    /\ given \in Seq(Given)
    /\ yylval \in 0..IntMax
    /\ yychar \in {Yy!YYEMPTY} \cup Chars
    /\ yychar # Yy!YYEMPTY => Len(given) > 0 /\ yychar = Yy!Tok(Len(given))

Sizes ==
    /\ yystacksize \in Nat /\ yymaxdepth \in Nat
    /\ 0 < yystacksize /\ yystacksize <= yymaxdepth
    /\ Len(yyss) <= yystacksize
    /\ Reading => Len(yyss) < yystacksize
    /\ label = "exhausted" => yymaxdepth <= Len(yyss)

Stacks ==
    /\ yyss \in Seq(0..24) /\ yystate \in 0..24
    /\ Path(Stack) /\ Low(Stack) /\ Yy!Top(Stack) = yystate
    /\ yyvs \in Seq(Yy!IntMin..IntMax) /\ Len(yyvs) = Len(Stack) - 1

Flags ==
    /\ Reading \/ Yy!Ended
    /\ yyerrstatus = IF Failing THEN 3 ELSE 0
    /\ label = "accepted" => yystate = 11
    /\ label \in {"backup", "default"} => yystate # 11
    /\ label = "default" => Yy!Consistent(yystate) \/ (yychar # Yy!YYEMPTY /\ ~Yy!Listed)

\* What the state on top says of the last token.
Place ==
    LET s == Yy!Top(Stack) IN
    /\ s = 0 => Taken = 0
    /\ s # 0 => Taken > 0
    /\ s \in {6} \cup LineEnds => Yy!Tok(Taken) = Yy!NEWLINE
    /\ s = 11 => Yy!Tok(Taken) = Yy!YYEOF /\ yychar = Yy!YYEMPTY
    /\ s \in Reopening => Yy!Tok(Taken) \in Yy!Binary \cup {Yy!LPAREN, Yy!DECREMENT}
    /\ s \in Complete => Yy!Tok(Taken) \in {Yy!NUMBER, Yy!RPAREN}

\* The open parentheses of the stack are those of the line.
Nesting ==
    Cardinality(Places(Stack)) =
        Cardinality(Opens(Taken + 1, Yy!LPAREN)) - Cardinality(Opens(Taken + 1, Yy!RPAREN))
        + (IF Yy!Top(Stack) = 19 THEN 1 ELSE 0)

\* What is open on the stack has been opened in the line.
Openers ==
    ~IsFlat(Stack) => \E i \in Yy!Line(Taken + 1) : Opener(i, Yy!Line(Taken + 1))

Followed == \A i \in 1..Taken : Yy!Tok(i) \in Yy!MayFollow(i)
Refused == Failing => /\ Len(given) > 0 /\ Taken = Len(given) - 1
                    /\ Yy!Tok(Len(given)) \notin Yy!MayFollow(Len(given))

CInv ==
    /\ Lookahead /\ Sizes /\ Stacks /\ Flags
    /\ ~Failing => Place /\ Nesting
    /\ Openers /\ Followed /\ Refused

\* At the start nothing is open and nothing is said.
LEMMA InitCInv == Yy!CalcAssumption /\ Yy!Init => CInv
<1> SUFFICES ASSUME Yy!CalcAssumption, Yy!Init PROVE CInv
  OBVIOUS
<1>1. /\ given = << >> /\ yychar = Yy!YYEMPTY /\ yylval = 0 /\ yyss = << >> /\ yyvs = << >>
      /\ yystate = 0 /\ yyerrstatus = 0 /\ label = "newstate" /\ Len(given) = 0
  BY DEF Yy!Init
<1>2. Stack = <<0>> /\ Taken = 0
  BY <1>1 DEF Stack, Taken
<1>3. Path(Stack) /\ Low(Stack) /\ Yy!Top(Stack) = 0 /\ IsFlat(Stack) /\ Places(Stack) = {}
  BY <1>2 DEF Path, Low, Yy!Top, Rank, IsFlat, Unary, Places
<1>4. Lookahead
  BY <1>1 DEF Lookahead, Yy!CalcAssumption, Yy!YYEMPTY
<1>5. Sizes
  BY <1>1 DEF Yy!Init, Sizes, Yy!CalcAssumption
<1>6. Stacks
  BY <1>1, <1>2, <1>3 DEF Stacks
<1>7. Flags /\ ~Failing
  BY <1>1 DEF Flags, Failing, Reading
<1>8. Opens(1, Yy!LPAREN) = {} /\ Opens(1, Yy!RPAREN) = {}
  <2>1. Yy!Line(1) = {}
    BY DEF Yy!Line
  <2> QED
    BY <2>1 DEF Opens
<1>9. Place /\ Nesting
  BY <1>2, <1>3, <1>8, FS_EmptySet DEF Place, Nesting, LineEnds, Reopening, Complete
<1>10. Openers /\ Followed /\ Refused
  BY <1>2, <1>3, <1>7 DEF Openers, Followed, Refused
<1> QED
  BY <1>4, <1>5, <1>6, <1>7, <1>9, <1>10 DEF CInv

\* A step that leaves tokens and stack as they are.
LEMMA Kept ==
    ASSUME given' = given, yychar' = yychar, Stack' = Stack
    PROVE  /\ Taken' = Taken /\ (Place' <=> Place) /\ (Nesting' <=> Nesting)
           /\ (Openers' <=> Openers) /\ (Followed' <=> Followed)
           /\ \A i : Yy!Tok(i)' = Yy!Tok(i) /\ Yy!MayFollow(i)' = Yy!MayFollow(i)
<1>1. Taken' = Taken
  BY DEF Taken
<1>2. \A i : Yy!Tok(i)' = Yy!Tok(i)
  BY DEF Yy!Tok
<1>3. \A i : Yy!Line(i)' = Yy!Line(i)
  BY <1>2 DEF Yy!Line
<1>4. \A i : Yy!MayFollow(i)' = Yy!MayFollow(i)
  BY <1>2, <1>3 DEF Yy!MayFollow
<1>5. \A i, t : Opens(i, t)' = Opens(i, t)
  BY <1>2, <1>3 DEF Opens
<1>6. Place' <=> Place
  BY <1>1, <1>2 DEF Place
<1>7. Nesting' <=> Nesting
  BY <1>1, <1>5 DEF Nesting
<1>8. Openers' <=> Openers
  BY <1>1, <1>2, <1>3 DEF Openers, Opener
<1>9. Followed' <=> Followed
  BY <1>1, <1>2, <1>4 DEF Followed
<1> QED
  BY <1>1, <1>2, <1>4, <1>6, <1>7, <1>8, <1>9

\* What a state shifts is what the line may go on with, where an error would be
\* noticed; and no more elsewhere.
LEMMA Follows ==
    ASSUME Lookahead, Stacks, Place, Nesting, NEW s, s = Yy!Top(Stack), s \notin Deciding,
           NEW n, n = Taken
    PROVE  /\ Takes(s) \subseteq Yy!MayFollow(n + 1)
           /\ s \in Tokenless => Yy!MayFollow(n + 1) \subseteq Takes(s)
<1>1. n \in Nat /\ s \in 0..24 /\ Path(Stack)
  BY DEF Lookahead, Stacks, Taken
<1> DEFINE line == Yy!Line(n + 1)
           lp == Cardinality(Opens(n + 1, Yy!LPAREN))
           rp == Cardinality(Opens(n + 1, Yy!RPAREN))
           unclosed == lp - rp
           operand == line = {} \/ Yy!Tok(n) \in Yy!Binary \cup {Yy!LPAREN, Yy!DECREMENT}
<1>2. Yy!MayFollow(n + 1) =
        IF operand
        THEN Starters \cup (IF line = {} THEN {Yy!NEWLINE} ELSE {})
                      \cup (IF line = {} /\ n + 1 > 1 THEN {Yy!YYEOF} ELSE {})
        ELSE Yy!Binary \cup (IF unclosed > 0 THEN {Yy!RPAREN} ELSE {Yy!NEWLINE})
  <2>1. (n + 1) - 1 = n
    BY <1>1
  <2>2. /\ lp = Cardinality({k \in line : Yy!Tok(k) = Yy!LPAREN})
        /\ rp = Cardinality({k \in line : Yy!Tok(k) = Yy!RPAREN})
    BY DEF Opens
  <2>3. Yy!MayFollow(n + 1) =
          IF line = {} \/ Yy!Tok((n + 1) - 1) \in Yy!Binary \cup {Yy!LPAREN, Yy!DECREMENT}
          THEN {Yy!NUMBER, Yy!MINUS, Yy!LPAREN, Yy!DECREMENT}
               \cup (IF line = {} THEN {Yy!NEWLINE} ELSE {})
               \cup (IF line = {} /\ n + 1 > 1 THEN {Yy!YYEOF} ELSE {})
          ELSE Yy!Binary \cup (IF Cardinality({k \in line : Yy!Tok(k) = Yy!LPAREN})
                                  - Cardinality({k \in line : Yy!Tok(k) = Yy!RPAREN}) > 0
                               THEN {Yy!RPAREN} ELSE {Yy!NEWLINE})
    BY SameSize DEF Yy!MayFollow
  <2> QED
    BY <2>1, <2>2, <2>3 DEF Starters
<1>3. lp \in Nat /\ rp \in Nat
  BY <1>1, OpensNext
<1>4. n > 0 => (line = {} <=> Yy!Tok(n) = Yy!NEWLINE)
  <2> HAVE n > 0
  <2>a. n \in Nat \ {0}
    BY <1>1
  <2>1. Yy!Line(n + 1) = IF Yy!Tok(n) = Yy!NEWLINE THEN {} ELSE Yy!Line(n) \cup {n}
    BY <2>a, LineNext
  <2> QED
    BY <2>1
<1>5. n = 0 => line = {}
  BY DEF Yy!Line
<1>6. Cardinality(Places(Stack)) = unclosed + (IF s = 19 THEN 1 ELSE 0)
  BY DEF Nesting
<1> HIDE DEF line, lp, rp
<1> USE DEF Yy!NUMBER, Yy!PLUS, Yy!MINUS, Yy!LPAREN, Yy!RPAREN, Yy!NEWLINE,
            Yy!MULTIPLY, Yy!DIVIDE, Yy!DECREMENT, Yy!YYEOF
<1>a. CASE s = 0
  <2>1. n = 0 /\ line = {}
    BY <1>a, <1>5 DEF Place
  <2>2. Yy!MayFollow(n + 1) = Starters \cup {Yy!NEWLINE}
    BY <1>2, <2>1
  <2> QED
    BY <1>a, <2>2 DEF Takes, Reopening
<1>b. CASE s = 6
  <2>1. n > 0 /\ line = {}
    BY <1>b, <1>1, <1>4 DEF Place
  <2>2. Yy!MayFollow(n + 1) = Starters \cup {Yy!NEWLINE, Yy!YYEOF}
    BY <1>1, <1>2, <2>1
  <2> QED
    BY <1>b, <2>2 DEF Takes, Reopening
<1>c. CASE s \in Reopening
  <2>1. n > 0 /\ Yy!Tok(n) \in Yy!Binary \cup {Yy!LPAREN, Yy!DECREMENT}
    BY <1>c, <1>1 DEF Place, Reopening
  <2>2. line # {} /\ operand
    BY <1>4, <2>1 DEF Yy!Binary
  <2>3. Yy!MayFollow(n + 1) = Starters
    BY <1>2, <2>2
  <2> QED
    BY <1>c, <2>3 DEF Takes, Reopening
<1>d. CASE s \in {7, 8, 9, 10, 13, 21, 22}
  <2>1. n > 0 /\ Yy!Tok(n) \in {Yy!NUMBER, Yy!RPAREN}
    BY <1>d, <1>1 DEF Place, Complete
  <2>2. line # {} /\ ~operand
    BY <1>4, <2>1 DEF Yy!Binary
  <2>3. Yy!MayFollow(n + 1) = Yy!Binary \cup (IF unclosed > 0 THEN {Yy!RPAREN} ELSE {Yy!NEWLINE})
    BY <1>2, <2>2
  <2>4. CASE s \in {7, 13}
    <3>1. Places(Stack) = {}
      BY <1>1, <2>4, NothingOpen
    <3>2. ~(unclosed > 0)
      BY <1>3, <1>6, <2>4, <3>1, FS_EmptySet
    <3> QED
      BY <2>3, <2>4, <3>2 DEF Takes, Reopening
  <2>5. CASE s = 9
    <3>1. Places(Stack) # {}
      <4>1. Len(Stack) \in 1..Len(Stack) /\ Stack[Len(Stack)] = 9 /\ Stack[1] = 0
        BY <1>1, <2>5 DEF Yy!Top, Path
      <4>2. Len(Stack) - 1 \in 1..Len(Stack) /\ Edge(Stack[Len(Stack) - 1], 9)
        BY <1>1, <4>1, Under
      <4>3. Stack[Len(Stack) - 1] = 3 /\ DOMAIN Stack = 1..Len(Stack)
        BY <1>1, <4>2, Beneath DEF Path
      <4> QED
        BY <4>2, <4>3 DEF Places
    <3>2. Cardinality(Places(Stack)) # 0
      BY <1>1, <3>1, PushPlaces, FS_EmptySet
    <3>3. unclosed > 0
      BY <1>1, <1>3, <1>6, <2>5, <3>2, PushPlaces
    <3> QED
      BY <2>3, <2>5, <3>3 DEF Takes, Reopening
  <2>6. CASE s \in {8, 10, 21, 22}
    BY <2>3, <2>6 DEF Takes, Reopening, Yy!Binary, Tokenless, Opening
  <2> QED
    BY <1>d, <2>4, <2>5, <2>6
<1> QED
  BY <1>1, <1>a, <1>b, <1>c, <1>d DEF Deciding, Reopening

-----------------------------------------------------------------------------
(***************************************************************************)
(* The steps.                                                              *)
(***************************************************************************)
LEMMA yynewstateKeeps == ASSUME CInv, Yy!yynewstate PROVE CInv'
<1> USE DEF CInv
<1>1. label = "newstate" /\ yyss' = Append(yyss, yystate) /\ Stack = Append(yyss, yystate)
  BY DEF Yy!yynewstate, Stack
<1>2. yyss' \in Seq(0..24) /\ Len(yyss') = Len(yyss) + 1 /\ Len(yyss) \in Nat
  BY <1>1 DEF Stacks
<1>3. /\ yystacksize' \in Nat /\ yystacksize' > Len(yyss') /\ yystacksize' <= yymaxdepth
      /\ yymaxdepth' = yymaxdepth
  <2>1. Len(yyss) < yystacksize
    BY <1>1 DEF Sizes, Reading
  <2>2. CASE Yy!Full(Len(yyss'))
    <3>1. yystacksize = Len(yyss') /\ yystacksize < yymaxdepth
      BY <1>2, <2>1, <2>2 DEF Yy!Full, Sizes, Yy!yynewstate
    <3>2. yystacksize' = Yy!Doubled
      BY <2>2 DEF Yy!yynewstate
    <3> QED
      BY <3>1, <3>2 DEF Yy!Doubled, Sizes, Yy!yynewstate, Yy!sizes
  <2>3. CASE ~Yy!Full(Len(yyss'))
    BY <1>2, <2>3 DEF Yy!Full, Sizes, Yy!yynewstate
  <2> QED
    BY <2>2, <2>3
<1>4. label' = IF yystate = Yy!YYFINAL THEN "accepted" ELSE "backup"
  BY <1>2, <1>3 DEF Yy!yynewstate
<1>5. Stack' = Stack /\ given' = given /\ yychar' = yychar /\ yylval' = yylval
  BY <1>1, <1>4 DEF Stack, Yy!yynewstate, Yy!lookahead
<1>6. Lookahead'
  BY <1>5 DEF Lookahead, Yy!Tok
<1>7. Sizes'
  BY <1>2, <1>3, <1>4 DEF Sizes
<1>8. Stacks'
  BY <1>2, <1>5 DEF Stacks, Yy!yynewstate
<1>9. Flags' /\ ~Failing' /\ ~Failing
  BY <1>1, <1>4 DEF Flags, Failing, Reading, Yy!Ended, Yy!YYFINAL, Yy!yynewstate
<1> QED
  BY <1>5, <1>6, <1>7, <1>8, <1>9, Kept DEF Refused

\* A full stack stays within its size.
LEMMA yyexhaustedlabKeeps == ASSUME CInv, Yy!yyexhaustedlab PROVE CInv'
<1> USE DEF CInv
<1>1. label = "newstate" /\ yyss' = Append(yyss, yystate) /\ Stack = Append(yyss, yystate)
      /\ label' = "exhausted"
  BY DEF Yy!yyexhaustedlab, Stack
<1>2. yyss' \in Seq(0..24) /\ Len(yyss') = Len(yyss) + 1 /\ Len(yyss) \in Nat
  BY <1>1 DEF Stacks
<1>3. Stack' = Stack /\ given' = given /\ yychar' = yychar /\ yylval' = yylval
  BY <1>1 DEF Stack, Yy!yyexhaustedlab, Yy!lookahead
<1>4. Lookahead'
  BY <1>3 DEF Lookahead, Yy!Tok
<1>a. yystacksize' = yystacksize /\ yymaxdepth' = yymaxdepth
  BY DEF Yy!yyexhaustedlab, Yy!sizes
<1>b. yystacksize = Len(yyss') /\ yymaxdepth <= yystacksize
  <2>1. Len(yyss) < yystacksize /\ yystacksize \in Nat
    BY <1>1 DEF Sizes, Reading
  <2>2. yystacksize <= Len(yyss') /\ yymaxdepth <= yystacksize
    BY DEF Yy!yyexhaustedlab, Yy!Full
  <2> QED
    BY <1>2, <2>1, <2>2
<1>5. Sizes'
  BY <1>1, <1>a, <1>b DEF Sizes, Reading
<1>6. Stacks'
  BY <1>2, <1>3 DEF Stacks, Yy!yyexhaustedlab
<1>7. Flags' /\ ~Failing' /\ ~Failing
  BY <1>1 DEF Flags, Failing, Reading, Yy!Ended, Yy!yyexhaustedlab
<1> QED
  BY <1>3, <1>4, <1>5, <1>6, <1>7, Kept DEF Refused

\* Reducing without, or for, a token: nothing moves yet.
LEMMA DefaultKeeps ==
    ASSUME CInv, Yy!DefaultWithoutToken \/ Yy!DefaultForToken
    PROVE  CInv'
<1> USE DEF CInv
<1>1. /\ label = "backup" /\ label' = "default"
      /\ yyss' = yyss /\ yyvs' = yyvs /\ yystate' = yystate
      /\ given' = given /\ yychar' = yychar /\ yylval' = yylval
      /\ yystacksize' = yystacksize /\ yymaxdepth' = yymaxdepth /\ yyerrstatus' = yyerrstatus
      /\ Yy!Consistent(yystate) \/ (yychar # Yy!YYEMPTY /\ ~Yy!Listed)
  BY DEF Yy!DefaultWithoutToken, Yy!DefaultForToken, Yy!lookahead, Yy!sizes
<1>2. Stack' = Stack
  BY <1>1 DEF Stack
<1>3. Lookahead' /\ Sizes' /\ Stacks'
  BY <1>1, <1>2 DEF Lookahead, Yy!Tok, Sizes, Reading, Stacks
<1>4. Flags' /\ ~Failing' /\ ~Failing
  BY <1>1 DEF Flags, Failing, Reading, Yy!Ended, Yy!Listed, Yy!Look
<1> QED
  BY <1>1, <1>2, <1>3, <1>4, Kept DEF Refused

\* A trap leaves everything where it was.
LEMMA TrapKeeps == ASSUME CInv, Yy!Trap PROVE CInv'
<1> USE DEF CInv
<1>1. /\ label = "default" /\ label' = "trapped"
      /\ yyss' = yyss /\ yyvs' = yyvs /\ yystate' = yystate
      /\ given' = given /\ yychar' = yychar /\ yylval' = yylval
      /\ yystacksize' = yystacksize /\ yymaxdepth' = yymaxdepth /\ yyerrstatus' = yyerrstatus
  BY DEF Yy!Trap, Yy!lookahead, Yy!sizes
<1>2. Stack' = Stack
  BY <1>1 DEF Stack
<1>3. Lookahead' /\ Sizes' /\ Stacks'
  BY <1>1, <1>2 DEF Lookahead, Yy!Tok, Sizes, Reading, Stacks
<1>4. Flags' /\ ~Failing' /\ ~Failing
  BY <1>1 DEF Flags, Failing, Reading, Yy!Ended
<1> QED
  BY <1>1, <1>2, <1>3, <1>4, Kept DEF Refused

\* The token that no entry takes is one the line may not go on with.
LEMMA yyerrlabKeeps == ASSUME CInv, Yy!yyerrlab PROVE CInv'
<1> USE DEF CInv
<1>1. /\ label = "default" /\ label' = "errlab1"
      /\ yyss' = yyss /\ yyvs' = yyvs /\ yystate' = yystate
      /\ given' = given /\ yychar' = yychar /\ yylval' = yylval
      /\ yystacksize' = yystacksize /\ yymaxdepth' = yymaxdepth /\ yyerrstatus' = 3
      /\ Yy!yydefact[yystate] = 0
  BY DEF Yy!yyerrlab, Yy!lookahead, Yy!sizes, Yy!Rule
<1>2. Stack' = Stack
  BY <1>1 DEF Stack
<1>3. Lookahead' /\ Sizes' /\ Stacks'
  BY <1>1, <1>2 DEF Lookahead, Yy!Tok, Sizes, Reading, Stacks
<1>4. Flags' /\ ~Failing
  BY <1>1 DEF Flags, Failing, Reading, Yy!Ended
<1>5. yystate \in Tokenless /\ yystate \notin Deciding /\ yystate = Yy!Top(Stack)
  <2>1. yystate \in 0..24 /\ yystate = Yy!Top(Stack)
    BY DEF Stacks
  <2>2. yystate \notin Reducing
    BY <1>1, <2>1, ReducingStates
  <2> QED
    BY <2>1, <2>2 DEF Reducing, Tokenless, Deciding, Opening, Reopening
<1>6. yychar # Yy!YYEMPTY /\ ~Yy!Listed /\ yychar \in Chars
  <2>1. ~Yy!Consistent(yystate)
    BY <1>5, ConsistentStates DEF Stacks
  <2> QED
    BY <1>1, <2>1 DEF Flags, Lookahead
<1>7. yychar \notin Takes(yystate)
  BY <1>5, <1>6, Rows DEF Yy!Listed, Yy!Look, Stacks
<1>8. Taken + 1 = Len(given) /\ Taken = Len(given) - 1 
      /\ Len(given) > 0 /\ yychar = Yy!Tok(Len(given))
  BY <1>6 DEF Taken, Lookahead
<1>9. Yy!Tok(Len(given)) \notin Yy!MayFollow(Len(given))
  BY <1>4, <1>5, <1>7, <1>8, Follows
<1>10. Refused'
  BY <1>1, <1>2, <1>8, <1>9, Kept DEF Refused
<1> QED
  BY <1>1, <1>2, <1>3, <1>4, <1>10, Kept DEF Failing

\* A token more says nothing about those before it.
LEMMA yylexKeeps == ASSUME Yy!CalcAssumption, CInv, Yy!yylex PROVE CInv'
<1> USE DEF CInv
<1> DEFINE x == [tok |-> yychar', val |-> yylval']
<1>1. /\ label = "backup" /\ label' = "backup" /\ yyss' = yyss /\ yyvs' = yyvs /\ yystate' = yystate
      /\ given' = Append(given, x)
      /\ yystacksize' = yystacksize /\ yymaxdepth' = yymaxdepth /\ yyerrstatus' = yyerrstatus
      /\ yychar = Yy!YYEMPTY
  BY DEF Yy!yylex, Yy!sizes
<1>2. yychar' \in Chars /\ yychar' # Yy!YYEMPTY
  BY DEF Yy!yylex, Chars, Yy!YYEMPTY, Yy!YYEOF, Yy!NUMBER, Yy!DECREMENT
<1>3. yylval' \in 0..IntMax
  BY DEF Yy!yylex, Lookahead, Yy!CalcAssumption
<1>4. x \in Given /\ given \in Seq(Given)
  BY <1>2, <1>3 DEF Given, Lookahead
<1>0. PICK n \in Nat : n = Len(given)
  BY <1>4
<1>a. x.tok = yychar'
  OBVIOUS
<1> HIDE DEF x
<1>5. /\ Len(given') = n + 1 /\ Yy!Tok(n + 1)' = yychar'
      /\ \A i \in 1..n : Yy!Tok(i)' = Yy!Tok(i)
      /\ \A i \in 1..(n + 1) :
            /\ Yy!Line(i)' = Yy!Line(i)
            /\ Yy!MayFollow(i)' = Yy!MayFollow(i)
            /\ \A t : Opens(i, t)' = Opens(i, t)
  BY <1>0, <1>1, <1>4, <1>a, Said
<1>6. Stack' = Stack /\ Taken' = n /\ Taken = n
  BY <1>0, <1>1, <1>2, <1>5 DEF Stack, Taken
<1>7. Lookahead'
  <2>1. given' \in Seq(Given) /\ Len(given') > 0
    BY <1>0, <1>1, <1>4, <1>5
  <2>2. Yy!Tok(Len(given))' = yychar'
    BY <1>5 DEF Yy!Tok
  <2> QED
    BY <1>2, <1>3, <2>1, <2>2 DEF Lookahead
<1>8. Sizes' /\ Stacks' /\ Flags' /\ ~Failing' /\ ~Failing
  BY <1>1, <1>6 DEF Sizes, Stacks, Flags, Failing, Reading, Yy!Ended
<1>9. Place'
  <2>1. n > 0 => given'[n].tok = given[n].tok
    BY <1>5 DEF Yy!Tok
  <2>2. Yy!Top(Stack) # 11
    BY <1>1 DEF Flags, Stacks
  <2>3. LET s == Yy!Top(Stack) IN
        /\ s = 0 => n = 0
        /\ s # 0 => n > 0
        /\ s \in {6} \cup LineEnds => given[n].tok = Yy!NEWLINE
        /\ s \in Reopening => given[n].tok \in Yy!Binary \cup {Yy!LPAREN, Yy!DECREMENT}
        /\ s \in Complete => given[n].tok \in {Yy!NUMBER, Yy!RPAREN}
    BY <1>6, <1>8 DEF Place, Yy!Tok
  <2>4. \A s : s \in {6} \cup LineEnds \cup Reopening \cup Complete => s # 0
    BY DEF LineEnds, Reopening, Complete
  <2> QED
    BY <1>6, <2>1, <2>2, <2>3, <2>4 DEF Place, Yy!Tok
<1>10. Nesting'
  <2>1. \A t : Opens(n + 1, t)' = Opens(n + 1, t)
    BY <1>5
  <2>2. /\ Opens(n + 1, Yy!LPAREN)' = Opens(n + 1, Yy!LPAREN)
        /\ Opens(n + 1, Yy!RPAREN)' = Opens(n + 1, Yy!RPAREN)
    BY <2>1
  <2>3. /\ Opens(Taken + 1, Yy!LPAREN)' = Opens(n + 1, Yy!LPAREN)'
        /\ Opens(Taken + 1, Yy!RPAREN)' = Opens(n + 1, Yy!RPAREN)'
    BY <1>6 DEF Opens, Yy!Line
  <2>4. Nesting
    BY <1>8
  <2> QED
    BY <1>6, <2>2, <2>3, <2>4 DEF Nesting
<1>11. Openers'
  <2>1. Yy!Line(Taken + 1)' = Yy!Line(n + 1)
    <3>1. Yy!Line(Taken + 1)' = Yy!Line(n + 1)'
      BY <1>6 DEF Yy!Line
    <3> QED
      BY <1>5, <3>1
  <2>2. \A i \in Yy!Line(n + 1) : Opener(i, Yy!Line(n + 1)) => Opener(i, Yy!Line(n + 1))'
    <3> TAKE i \in Yy!Line(n + 1)
    <3>a. (n + 1) - 1 = n /\ n + 1 \in Nat \ {0}
      OBVIOUS
    <3>b. Yy!Line(n + 1) \subseteq 1..n
      BY <3>a, LineNext
    <3>1. i \in 1..n /\ Yy!Line(n + 1)' = Yy!Line(n + 1)
      BY <1>5, <3>b
    <3>2. Yy!Tok(i)' = Yy!Tok(i)
      BY <1>5, <3>1
    <3>3. i - 1 \in Yy!Line(n + 1) => i - 1 \in 1..n
      BY <3>b
    <3>4. i - 1 \in Yy!Line(n + 1) => Yy!Tok(i - 1)' = Yy!Tok(i - 1)
      BY <1>5, <3>3
    <3> QED
      BY <3>1, <3>2, <3>4 DEF Opener
  <2>3. \A i : Opener(i, Yy!Line(n + 1))' => Opener(i, Yy!Line(Taken + 1))'
    BY <1>6 DEF Opener, Yy!Line, Yy!Tok
  <2>4. ~IsFlat(Stack) => \E i \in Yy!Line(n + 1) : Opener(i, Yy!Line(n + 1))
    BY <1>6 DEF Openers
  <2>5. ~IsFlat(Stack') => \E i \in Yy!Line(n + 1) : Opener(i, Yy!Line(Taken + 1))'
    BY <1>6, <2>2, <2>3, <2>4
  <2> QED
    BY <2>1, <2>5 DEF Openers, IsFlat
<1>12. Followed'
  <2>1. \A i \in 1..n :
          Yy!Tok(i)' = Yy!Tok(i) /\ Yy!MayFollow(i)' = Yy!MayFollow(i) /\ Yy!Tok(i) \in Yy!MayFollow(i)
    BY <1>5, <1>6 DEF Followed
  <2>2. \A i \in 1..n : Yy!Tok(i)' \in Yy!MayFollow(i)'
    BY <2>1
  <2> QED
    BY <1>6, <2>2 DEF Followed
<1> QED
  BY <1>7, <1>8, <1>9, <1>10, <1>11, <1>12 DEF Refused

\* What is shifted follows the line, and the stack goes along an edge.
LEMMA ShiftKeeps == ASSUME Yy!CalcAssumption, CInv, Yy!Shift PROVE CInv'
<1> USE DEF CInv
<1>1. /\ label = "backup" /\ label' = "newstate" /\ yyss' = yyss /\ yyvs' = Append(yyvs, yylval)
      /\ yystate' = Yy!yytable[Yy!Look] /\ yychar' = Yy!YYEMPTY /\ yychar # Yy!YYEMPTY /\ Yy!Listed
      /\ given' = given /\ yylval' = yylval /\ ~Yy!Consistent(yystate)
      /\ yystacksize' = yystacksize /\ yymaxdepth' = yymaxdepth
      /\ yyerrstatus' = IF yyerrstatus > 0 THEN yyerrstatus - 1 ELSE 0
  BY DEF Yy!Shift, Yy!sizes
<1>2. PICK n \in Nat : n = Len(given) - 1
  BY <1>1 DEF Lookahead
<1>3. PICK s \in 0..24 : s = yystate
  BY DEF Stacks
<1>4. PICK c \in Chars : c = yychar
  BY <1>1 DEF Lookahead
<1>5. PICK u : u = Yy!yytable[Yy!Look]
  OBVIOUS
<1>6. /\ Taken = n /\ Taken' = n + 1 /\ Stack = yyss /\ Stack' = Append(Stack, u)
      /\ Yy!Tok(n + 1) = c /\ Yy!Top(Stack) = s
  BY <1>1, <1>2, <1>3, <1>4, <1>5 DEF Taken, Stack, Lookahead, Stacks
<1>7. s \notin Deciding
  BY <1>1, <1>3, ConsistentStates
<1>8. c \in Takes(s) /\ u \in Read(c) /\ Edge(s, u)
  BY <1>1, <1>3, <1>4, <1>5, <1>7, Rows DEF Yy!Listed, Yy!Look
<1>9. u \in 1..24 /\ u \in 0..24
  BY <1>8, EdgeStates
<1>10. ~Failing /\ ~Failing'
  BY <1>1 DEF Failing
<1>11. Path(Stack) /\ Low(Stack) /\ Path(Stack') /\ Low(Stack') /\ Yy!Top(Stack') = u
       /\ Len(Stack') = Len(Stack) + 1
  <2>1. Path(Stack) /\ Low(Stack)
    BY DEF Stacks
  <2>2. Len(Append(Stack, u)) = Len(Stack) + 1
    BY <2>1 DEF Path
  <2> QED
    BY <1>6, <1>8, <2>1, <2>2, PushPath, PushLow
<1>12. Yy!Tok(n + 1)' = c
       /\ (\A i : /\ Yy!Tok(i)' = Yy!Tok(i) /\ Yy!Line(i)' = Yy!Line(i)
                  /\ Yy!MayFollow(i)' = Yy!MayFollow(i))
       /\ \A i, t : Opens(i, t)' = Opens(i, t)
  BY <1>1, <1>6 DEF Yy!Tok, Yy!Line, Yy!MayFollow, Opens
<1>13. Lookahead'
  BY <1>1 DEF Lookahead
<1>14. Sizes'
  BY <1>1 DEF Sizes, Reading
<1>15. Stacks'
  <2>1. yylval \in Yy!IntMin..IntMax
    BY DEF Lookahead, Yy!IntMin, Yy!CalcAssumption
  <2>2. yyvs \in Seq(Yy!IntMin..IntMax) /\ Len(yyvs) = Len(Stack) - 1 /\ Len(Stack) \in Nat
    BY <1>11 DEF Stacks, Path
  <2>3. yyvs' \in Seq(Yy!IntMin..IntMax) /\ Len(yyvs') = Len(yyvs) + 1
    BY <1>1, <2>1, <2>2
  <2> QED
    BY <1>1, <1>5, <1>9, <1>11, <2>2, <2>3 DEF Stacks
<1>16. Flags'
  BY <1>1, <1>10 DEF Flags, Reading
<1> USE DEF Yy!NUMBER, Yy!PLUS, Yy!MINUS, Yy!LPAREN, Yy!RPAREN, Yy!NEWLINE,
            Yy!MULTIPLY, Yy!DIVIDE, Yy!DECREMENT, Yy!YYEOF
<1>17. Place'
  <2>1. /\ u \in {6} \cup LineEnds => c = Yy!NEWLINE
        /\ u = 11 => c = Yy!YYEOF
        /\ u \in Reopening => c \in Yy!Binary \cup {Yy!LPAREN, Yy!DECREMENT}
        /\ u \in Complete => c \in {Yy!NUMBER, Yy!RPAREN}
    BY <1>8 DEF Read, LineEnds, Reopening, Complete, Yy!Binary, Chars
  <2>2. Yy!Tok(Taken)' = c
    BY <1>6, <1>12 DEF Yy!Tok
  <2> QED
    BY <1>1, <1>6, <1>9, <1>11, <2>1, <2>2 DEF Place
<1>18. Nesting'
  <2>1. Nesting
    BY <1>10
  <2>2. Cardinality(Places(Append(Stack, u))) = Cardinality(Places(Stack)) + (IF u = 3 THEN 1 ELSE 0)
        /\ Cardinality(Places(Stack)) \in Nat
    BY <1>9, <1>11, PushPlaces
  <2>3. /\ Opens(Taken + 1, Yy!LPAREN)' = Opens(n + 2, Yy!LPAREN)
        /\ Opens(Taken + 1, Yy!RPAREN)' = Opens(n + 2, Yy!RPAREN)
    <3>1. (n + 1) + 1 = n + 2
      OBVIOUS
    <3>2. /\ Opens(Taken + 1, Yy!LPAREN)' = Opens(n + 2, Yy!LPAREN)'
          /\ Opens(Taken + 1, Yy!RPAREN)' = Opens(n + 2, Yy!RPAREN)'
      BY <1>6, <3>1 DEF Opens, Yy!Line
    <3> QED
      BY <1>12, <3>2
  <2>4. \A t : /\ Cardinality(Opens(n + 1, t)) \in Nat
               /\ c = Yy!NEWLINE => Cardinality(Opens(n + 2, t)) = 0
               /\ c # Yy!NEWLINE =>
                    Cardinality(Opens(n + 2, t))
                        = Cardinality(Opens(n + 1, t)) + (IF c = t THEN 1 ELSE 0)
    <3>1. (n + 1) + 1 = n + 2 /\ n + 1 \in Nat \ {0}
      OBVIOUS
    <3> QED
      BY <1>6, <3>1, OpensNext
  <2>5. s # 19
    BY <1>7 DEF Deciding
  <2>6. Cardinality(Places(Stack)) =
          Cardinality(Opens(n + 1, Yy!LPAREN)) - Cardinality(Opens(n + 1, Yy!RPAREN))
    BY <1>6, <2>1, <2>5, <2>4 DEF Nesting
  <2>7. (u = 3 <=> c = Yy!LPAREN) /\ (u = 19 <=> c = Yy!RPAREN)
    BY <1>8 DEF Read, LineEnds, Chars
  <2>8. Cardinality(Places(Append(Stack, u))) =
          Cardinality(Opens(n + 2, Yy!LPAREN)) - Cardinality(Opens(n + 2, Yy!RPAREN))
          + (IF u = 19 THEN 1 ELSE 0)
    <3>1. CASE c = Yy!NEWLINE
      <4>1. u \in LineEnds
        BY <1>8, <3>1 DEF Read
      <4>2. Places(Stack') = {}
        BY <1>11, <4>1, NothingOpen
      <4>3. u # 19
        BY <4>1 DEF LineEnds
      <4> QED
        BY <1>6, <2>4, <3>1, <4>2, <4>3, FS_EmptySet
    <3>2. CASE c # Yy!NEWLINE
      <4>1. /\ Cardinality(Opens(n + 2, Yy!LPAREN))
                 = Cardinality(Opens(n + 1, Yy!LPAREN)) + (IF c = Yy!LPAREN THEN 1 ELSE 0)
            /\ Cardinality(Opens(n + 2, Yy!RPAREN))
                 = Cardinality(Opens(n + 1, Yy!RPAREN)) + (IF c = Yy!RPAREN THEN 1 ELSE 0)
            /\ Cardinality(Opens(n + 1, Yy!LPAREN)) \in Nat
            /\ Cardinality(Opens(n + 1, Yy!RPAREN)) \in Nat
        BY <2>4, <3>2
      <4> QED
        BY <2>2, <2>6, <2>7, <4>1
    <3> QED
      BY <3>1, <3>2
  <2> QED
    BY <1>6, <1>11, <2>3, <2>8 DEF Nesting
<1>19. Openers'
  <2> SUFFICES ASSUME ~IsFlat(Stack')
               PROVE  \E i \in Yy!Line(Taken + 1)' : Opener(i, Yy!Line(Taken + 1))'
    BY DEF Openers, IsFlat
  <2>1. Yy!Line(Taken + 1)' = Yy!Line(n + 2)
    <3>1. (n + 1) + 1 = n + 2
      OBVIOUS
    <3>2. Yy!Line(Taken + 1)' = Yy!Line(n + 2)'
      BY <1>6, <3>1 DEF Yy!Line
    <3> QED
      BY <1>12, <3>2
  <2>2. c # Yy!NEWLINE
    <3>1. c = Yy!NEWLINE => u \in LineEnds
      BY <1>8 DEF Read
    <3> QED
      BY <1>11, <3>1, NothingOpen
  <2>3. Yy!Line(n + 2) = Yy!Line(n + 1) \cup {n + 1} /\ Yy!Line(n + 1) \subseteq 1..n
    <3>1. (n + 1) + 1 = n + 2 /\ n + 1 \in Nat \ {0} /\ (n + 1) - 1 = n
      OBVIOUS
    <3> QED
      BY <1>6, <2>2, <3>1, LineNext
  <2>4. \A i : Opener(i, Yy!Line(n + 2)) => Opener(i, Yy!Line(Taken + 1))'
    BY <1>12, <2>1 DEF Opener
  <2>5. CASE ~IsFlat(Stack)
    <3>1. PICK i \in Yy!Line(n + 1) : Opener(i, Yy!Line(n + 1))
      BY <1>6, <2>5 DEF Openers
    <3>2. i - 1 # n + 1 /\ i \in Yy!Line(n + 2)
      BY <2>3, <3>1
    <3>3. Opener(i, Yy!Line(n + 2))
      BY <2>3, <3>1, <3>2 DEF Opener
    <3> QED
      BY <2>1, <2>4, <3>2, <3>3
  <2>6. CASE IsFlat(Stack)
    <3>1. u \in Unary
      BY <1>6, <1>9, <1>11, <2>6, FlatPush
    <3>2. c \in {Yy!LPAREN, Yy!DECREMENT} \/ (c = Yy!MINUS /\ s \in Opening)
      BY <1>8, <3>1, Beneath DEF Read, Unary, LineEnds, Chars
    <3>3. CASE c \in {Yy!LPAREN, Yy!DECREMENT}
      <4>1. Opener(n + 1, Yy!Line(n + 2))
        BY <1>6, <3>3 DEF Opener
      <4> QED
        BY <2>1, <2>3, <2>4, <4>1
    <3>4. CASE c = Yy!MINUS /\ s \in Opening
      <4>1. CASE n = 0
        <5>1. n \notin Yy!Line(n + 2)
          BY <2>3, <4>1
        <5>2. Opener(n + 1, Yy!Line(n + 2))
          BY <1>6, <3>4, <5>1 DEF Opener
        <5> QED
          BY <2>1, <2>3, <2>4, <5>2
      <4>2. CASE n # 0
        <5>1. s # 0 /\ Place
          BY <1>6, <1>10, <4>2 DEF Place
        <5>2. s \in {6} \cup Reopening
          BY <3>4, <5>1 DEF Opening
        <5>3. Yy!Tok(n) # Yy!NUMBER
          BY <1>6, <5>1, <5>2 DEF Place, Yy!Binary
        <5>4. Opener(n + 1, Yy!Line(n + 2))
          BY <1>6, <3>4, <5>3 DEF Opener
        <5> QED
          BY <2>1, <2>3, <2>4, <5>4
      <4> QED
        BY <4>1, <4>2
    <3> QED
      BY <3>2, <3>3, <3>4
  <2> QED
    BY <2>5, <2>6
<1>20. Followed'
  <2>1. c \in Yy!MayFollow(n + 1)
    BY <1>6, <1>7, <1>8, <1>10, Follows
  <2>2. \A i \in 1..(n + 1) : Yy!Tok(i) \in Yy!MayFollow(i)
    BY <1>6, <2>1 DEF Followed
  <2> QED
    BY <1>6, <1>12, <2>2 DEF Followed
<1> QED
  BY <1>10, <1>13, <1>14, <1>15, <1>16, <1>17, <1>18, <1>19, <1>20 DEF Refused

\* A handle is popped whole, and what replaces it ends at the same token.
LEMMA yyreduceKeeps == ASSUME Yy!CalcAssumption, CInv, Yy!yyreduce PROVE CInv'
<1> USE DEF CInv
<1>1. /\ label = "default" /\ label' = "newstate" /\ yyss' = Yy!DropLast(yyss, Yy!yylen)
      /\ yyvs' = Append(Yy!DropLast(yyvs, Yy!yylen), Yy!Yyval)
      /\ yystate' = Yy!Goto(Yy!Top(yyss'), Yy!yyr1[Yy!Rule]) /\ Yy!Rule # 0 /\ ~Yy!Overflows
      /\ given' = given /\ yylval' = yylval /\ yychar' = yychar
      /\ yystacksize' = yystacksize /\ yymaxdepth' = yymaxdepth /\ yyerrstatus' = yyerrstatus
  BY DEF Yy!yyreduce, Yy!Popped, Yy!lookahead, Yy!sizes
<1>2. /\ Stack = yyss /\ Path(yyss) /\ Low(yyss) /\ Yy!Top(yyss) = yystate /\ yystate # 11
      /\ yyvs \in Seq(Yy!IntMin..IntMax) /\ Len(yyvs) = Len(yyss) - 1 /\ ~Failing /\ ~Failing'
  BY <1>1 DEF Stacks, Stack, Flags, Failing
<1>3. PICK s \in 0..24 : s = yystate
  BY DEF Stacks
<1>4. PICK L \in Nat \ {0} : L = Len(yyss)
  BY <1>2 DEF Path
<1>5. PICK r : r = Yy!Rule
  OBVIOUS
<1>6. PICK k : k = Yy!yylen
  OBVIOUS
<1>7. /\ k \in 1..3 /\ k <= L - 1 /\ r \in 2..13
      /\ yyss[L - k] \in Opening
      /\ Yy!yyr1[r] = 14 \/ (Yy!yyr1[r] = 13 /\ yyss[L - k] = 0 /\ s \in LineEnds)
      /\ Yy!yyr1[r] = 14 => s \in Complete
      /\ \A i \in (L - k + 1)..L : yyss[i] = 3 <=> (s = 19 /\ i = L - 2)
      /\ s = 19 => k = 3 /\ yyss[L - 2] = 3
  <2>1. r = Yy!yydefact[s] /\ r # 0 /\ k = Yy!yyr2[r] /\ s # 11
    BY <1>1, <1>2, <1>3, <1>5, <1>6 DEF Yy!Rule, Yy!yylen
  <2> QED
    BY <1>2, <1>3, <1>4, <2>1, Handle, SMTT(60)
<1>8. PICK p \in Opening : p = yyss[L - k]
  BY <1>7
<1>9. PICK u : u = yystate'
  OBVIOUS
<1>10. k \in 0..(L - 1)
  BY <1>7
<1>11. Path(yyss') /\ Low(yyss') /\ Yy!Top(yyss') = p /\ yyss' = Yy!DropLast(yyss, k)
  BY <1>1, <1>2, <1>4, <1>6, <1>8, <1>10, DropPath, DropLow
<1>12. /\ Edge(p, u) /\ u \in 0..24
       /\ (Yy!yyr1[r] = 14 /\ u \in Complete \ {1, 19}) \/ (Yy!yyr1[r] = 13 /\ p = 0 /\ u = 6)
  <2>1. u = Yy!Goto(p, Yy!yyr1[r])
    BY <1>1, <1>5, <1>9, <1>11
  <2>2. CASE Yy!yyr1[r] = 14
    BY <2>1, <2>2, Gotos, AfterEdge, EdgeStates
  <2>3. CASE Yy!yyr1[r] = 13 /\ p = 0
    <3>1. u = 6
      BY <2>1, <2>3, Gotos
    <3> QED
      BY <2>3, <3>1 DEF Edge
  <2> QED
    BY <1>7, <1>8, <2>2, <2>3
<1>13. u \notin Unary /\ u # 3 /\ u # 19 /\ u # 0 /\ u # 11
  BY <1>12 DEF Unary, Complete
<1>14. Stack' = Append(yyss', u) /\ Taken' = Taken
  BY <1>1, <1>9 DEF Stack, Taken
<1>15. Path(Stack') /\ Low(Stack') /\ Yy!Top(Stack') = u
  BY <1>11, <1>12, <1>14, PushPath, PushLow
<1>16. yyss \in Seq(0..24) /\ yyss' \in Seq(0..24) /\ Len(yyss') = L - k /\ Len(Stack') = L - k + 1
  <2>1. yyss \in Seq(0..24) /\ k \in 0..Len(yyss)
    BY <1>2, <1>4, <1>10 DEF Path
  <2>2. yyss' \in Seq(0..24) /\ Len(yyss') = L - k
    BY <1>4, <1>11, <2>1, DropSeq
  <2> QED
    BY <1>14, <2>1, <2>2
<1>17. Lookahead'
  BY <1>1 DEF Lookahead, Yy!Tok
<1>18. Sizes'
  BY <1>1, <1>4, <1>7, <1>16 DEF Sizes, Reading
<1>19. yyvs' \in Seq(Yy!IntMin..IntMax) /\ Len(yyvs') = L - k
  <2>1. Yy!Yyval \in Yy!IntMin..IntMax
    <3>1. \A i \in 1..3 : i <= k => Yy!Arg(i) \in Yy!IntMin..IntMax
      <4>1. Len(yyvs) = L - 1 /\ \A j \in 1..(L - 1) : yyvs[j] \in Yy!IntMin..IntMax
        <5>1. yyvs \in Seq(Yy!IntMin..IntMax) /\ Len(yyvs) = L - 1
          BY <1>2, <1>4
        <5>2. \A j \in 1..Len(yyvs) : yyvs[j] \in Yy!IntMin..IntMax
          BY <5>1, Entries
        <5> QED
          BY <5>1, <5>2
      <4>2. \A i \in 1..3 : i <= k => L - 1 - k + i \in 1..(L - 1)
        BY <1>7
      <4> QED
        BY <1>6, <4>1, <4>2 DEF Yy!Arg
    <3>2. Yy!IntMin \in Int /\ IntMax \in Int /\ 0 \in Yy!IntMin..IntMax
      BY DEF Yy!IntMin, Yy!CalcAssumption
    <3>3. r \in 6..10 => k = 3
      BY <1>5, <1>6, Lengths DEF Yy!yylen
    <3>4. r \in {12, 13} => k = 2
      BY <1>5, <1>6, Lengths DEF Yy!yylen
    <3>5. CASE r \in {6, 7, 8}
      <4>1. Yy!Arg(1) \in Int /\ Yy!Arg(3) \in Int
        BY <1>7, <3>1, <3>2, <3>3, <3>5
      <4>2. Yy!Arg(1) + Yy!Arg(3) \in Int /\ Yy!Arg(1) - Yy!Arg(3) \in Int
            /\ Yy!Arg(1) * Yy!Arg(3) \in Int
        BY <4>1
      <4> QED
        BY <1>5, <3>5, <4>2, WrapInt DEF Yy!Yyval
    <3>6. CASE r = 9
      <4>1. Yy!Arg(1) \in Yy!IntMin..IntMax /\ Yy!Arg(3) \in Yy!IntMin..IntMax
        BY <1>7, <3>1, <3>3, <3>6
      <4>2. ~(Yy!Arg(1) = Yy!IntMin /\ Yy!Arg(3) = -1)
        BY <1>1, <1>5, <3>6 DEF Yy!Overflows
      <4>3. Yy!Arg(3) # 0 => Yy!Quotient(Yy!Arg(1), Yy!Arg(3)) \in Yy!IntMin..IntMax
        BY <4>1, <4>2, QuotientInt
      <4> QED
        BY <1>5, <3>2, <3>6, <4>3 DEF Yy!Yyval
    <3>7. CASE r \in {12, 13}
      <4>1. Yy!Arg(2) \in Int
        BY <1>7, <3>1, <3>2, <3>4, <3>7
      <4>2. -Yy!Arg(2) \in Int /\ Yy!Arg(2) - 1 \in Int
        BY <4>1
      <4> QED
        BY <1>5, <3>7, <4>2, WrapInt DEF Yy!Yyval
    <3>8. CASE r \notin {6, 7, 8, 9, 12, 13}
      <4>1. Yy!Arg(1) \in Yy!IntMin..IntMax /\ (r = 10 => Yy!Arg(2) \in Yy!IntMin..IntMax)
        BY <1>7, <3>1, <3>3
      <4> QED
        BY <1>5, <3>8, <4>1 DEF Yy!Yyval
    <3> QED
      BY <3>5, <3>6, <3>7, <3>8
  <2>2. k \in 0..Len(yyvs) /\ Len(yyvs) = L - 1
    BY <1>2, <1>4, <1>7
  <2>3. Yy!DropLast(yyvs, k) \in Seq(Yy!IntMin..IntMax) /\ Len(Yy!DropLast(yyvs, k)) = L - 1 - k
    BY <1>2, <2>2, DropSeq
  <2> QED
    BY <1>1, <1>4, <1>6, <1>7, <2>1, <2>3
<1>20. Stacks'
  BY <1>9, <1>12, <1>15, <1>16, <1>19 DEF Stacks
<1>21. Flags'
  BY <1>1, <1>2 DEF Flags, Reading
<1>22. Place'
  <2>1. Place /\ Yy!Top(Stack) = s
    BY <1>2, <1>3
  <2>2. s # 0
    <3>1. 0 \notin LineEnds /\ 0 \notin Complete
      BY DEF LineEnds, Complete
    <3> QED
      BY <1>7, <3>1
  <2>3. Yy!Tok(Taken)' = Yy!Tok(Taken)
    BY <1>1, <1>14 DEF Yy!Tok
  <2>4. Taken > 0
    BY <2>1, <2>2 DEF Place
  <2>5. CASE Yy!yyr1[r] = 14
    <3>1. Yy!Tok(Taken) \in {Yy!NUMBER, Yy!RPAREN} /\ u \in Complete
      BY <1>7, <1>12, <2>1, <2>5 DEF Place
    <3>2. u \notin {6} \cup LineEnds /\ u \notin Reopening
      BY <3>1 DEF Complete, LineEnds, Reopening
    <3> QED
      BY <1>13, <1>14, <1>15, <2>3, <2>4, <3>1, <3>2 DEF Place
  <2>6. CASE Yy!yyr1[r] = 13 /\ u = 6
    <3>1. Yy!Tok(Taken) = Yy!NEWLINE
      BY <1>7, <2>1, <2>6 DEF Place
    <3>2. u \notin Complete /\ u \notin Reopening
      BY <2>6 DEF Complete, LineEnds, Reopening
    <3> QED
      BY <1>13, <1>14, <1>15, <2>3, <2>4, <3>1, <3>2 DEF Place
  <2> QED
    BY <1>12, <2>5, <2>6
<1>23. Nesting'
  <2>1. Nesting /\ Yy!Top(Stack) = s
    BY <1>2, <1>3
  <2>2. Cardinality(Places(Stack')) = Cardinality(Places(yyss'))
    <3>1. /\ Cardinality(Places(yyss')) \in Nat
          /\ Cardinality(Places(Append(yyss', u))) = Cardinality(Places(yyss')) + (IF u = 3 THEN 1 ELSE 0)
      BY <1>11, <1>12, PushPlaces
    <3>2. Cardinality(Places(Append(yyss', u))) = Cardinality(Places(yyss'))
      BY <1>13, <3>1
    <3> QED
      BY <1>14, <3>2
  <2>3. Cardinality(Places(yyss')) = Cardinality(Places(yyss)) - (IF s = 19 THEN 1 ELSE 0)
    <3>1. DOMAIN yyss = 1..L
      BY <1>4, <1>16
    <3>2. \A i \in (L - k + 1)..L : i \in Places(yyss) <=> (s = 19 /\ i = L - 2)
      BY <1>7, <1>10, <3>1 DEF Places
    <3>3. Cardinality(Places(yyss)) \in Nat
      BY <1>2, PushPlaces
    <3>4. CASE s = 19
      <4>1. k = 3 /\ L - 2 \in (L - k + 1)..L /\ L - 1 \in (L - k + 1)..L /\ L \in (L - k + 1)..L
        BY <1>7, <3>4
      <4>2. L - 2 \in Places(yyss) /\ L - 1 \notin Places(yyss) /\ L \notin Places(yyss)
        BY <3>2, <3>4, <4>1
      <4> QED
        BY <1>2, <1>4, <1>10, <1>11, <3>4, <4>1, <4>2, PopPlaces
    <3>5. CASE s # 19
      <4>1. \A i \in (L - k + 1)..L : i \notin Places(yyss)
        BY <3>2, <3>5
      <4>2. Cardinality(Places(yyss')) = Cardinality(Places(yyss))
        BY <1>2, <1>4, <1>10, <1>11, <4>1, PopPlaces
      <4> QED
        BY <3>3, <3>5, <4>2
    <3> QED
      BY <3>4, <3>5
  <2>4. \A i, t : Opens(i, t)' = Opens(i, t)
    BY <1>1 DEF Opens, Yy!Line, Yy!Tok
  <2>5. /\ Opens(Taken + 1, Yy!LPAREN)' = Opens(Taken + 1, Yy!LPAREN)
        /\ Opens(Taken + 1, Yy!RPAREN)' = Opens(Taken + 1, Yy!RPAREN)
    BY <1>1, <1>14 DEF Opens, Yy!Line, Yy!Tok
  <2>6. /\ Cardinality(Opens(Taken + 1, Yy!LPAREN)) \in Nat
        /\ Cardinality(Opens(Taken + 1, Yy!RPAREN)) \in Nat
    <3>1. Taken + 1 \in Nat \ {0}
      BY DEF Taken, Lookahead
    <3> QED
      BY <3>1, OpensNext
  <2> QED
    BY <1>2, <1>13, <1>14, <1>15, <2>1, <2>2, <2>3, <2>5, <2>6 DEF Nesting
<1>24. Openers'
  <2>1. IsFlat(Stack) => IsFlat(Stack')
    <3> HAVE IsFlat(Stack)
    <3>1. IsFlat(yyss')
      BY <1>2, <1>4, <1>10, <1>11, FlatDrop
    <3> QED
      BY <1>11, <1>12, <1>13, <1>14, <3>1, FlatPush
  <2>2. /\ Yy!Line(Taken + 1)' = Yy!Line(Taken + 1)
        /\ \A i : Opener(i, Yy!Line(Taken + 1))' <=> Opener(i, Yy!Line(Taken + 1))
    BY <1>1, <1>14 DEF Yy!Line, Opener, Yy!Tok
  <2> QED
    BY <2>1, <2>2 DEF Openers, IsFlat
<1>25. Followed'
  <2>1. \A i : /\ Yy!Tok(i)' = Yy!Tok(i) /\ Yy!Line(i)' = Yy!Line(i)
               /\ Yy!MayFollow(i)' = Yy!MayFollow(i)
    BY <1>1 DEF Yy!Tok, Yy!Line, Yy!MayFollow
  <2> QED
    BY <1>14, <2>1 DEF Followed
<1> QED
  BY <1>2, <1>17, <1>18, <1>20, <1>21, <1>22, <1>23, <1>24, <1>25 DEF Refused

\* Popping in search of the error token.
LEMMA yyerrlab1Keeps == ASSUME CInv, Yy!yyerrlab1 PROVE CInv'
<1> USE DEF CInv
<1>1. /\ label = "errlab1" /\ given' = given /\ yylval' = yylval /\ yychar' = yychar
      /\ yystacksize' = yystacksize /\ yymaxdepth' = yymaxdepth /\ yyerrstatus' = yyerrstatus
      /\ label' \in {"errlab1", "aborted"} /\ Failing /\ Failing' /\ Stack = yyss /\ Stack' = yyss'
  BY DEF Yy!yyerrlab1, Yy!lookahead, Yy!sizes, Failing, Stack
<1>2. Taken' = Taken /\ \A i : /\ Yy!Tok(i)' = Yy!Tok(i) /\ Yy!Line(i)' = Yy!Line(i)
                               /\ Yy!MayFollow(i)' = Yy!MayFollow(i)
  BY <1>1 DEF Taken, Yy!Tok, Yy!Line, Yy!MayFollow
<1>3. Lookahead' /\ Flags'
  BY <1>1, <1>2 DEF Lookahead, Flags, Reading, Failing, Yy!Ended
<1>4. Followed' /\ Refused'
  BY <1>1, <1>2 DEF Followed, Refused
<1>5. PICK L \in Nat \ {0} : L = Len(yyss)
  BY <1>1 DEF Stacks, Path
<1>6. CASE yyss' = yyss /\ yyvs' = yyvs /\ yystate' = yystate
  <2>1. Sizes' /\ Stacks'
    BY <1>1, <1>6 DEF Sizes, Stacks, Reading
  <2>2. Openers'
    BY <1>1, <1>2, <1>6, Kept
  <2> QED
    BY <1>1, <1>3, <1>4, <2>1, <2>2
<1>7. CASE L > 1 /\ yyss' = Yy!DropLast(yyss, 1) /\ yyvs' = Yy!DropLast(yyvs, 1)
         /\ yystate' = Yy!Top(yyss')
  <2>1. 1 \in 0..(L - 1) /\ Path(yyss) /\ Low(yyss) /\ 1 \in 0..L
    BY <1>1, <1>7 DEF Stacks
  <2>2. Path(yyss') /\ Low(yyss')
    BY <1>5, <1>7, <2>1, DropPath, DropLow
  <2>3. yyss \in Seq(0..24)
    BY DEF Stacks
  <2>4. yyss' \in Seq(0..24) /\ Len(yyss') = L - 1
    BY <1>5, <1>7, <2>1, <2>3, DropSeq
  <2>5. yyvs \in Seq(Yy!IntMin..IntMax) /\ Len(yyvs) = L - 1 /\ 1 \in 0..Len(yyvs)
    BY <1>1, <1>5, <1>7 DEF Stacks
  <2>6. yyvs' \in Seq(Yy!IntMin..IntMax) /\ Len(yyvs') = L - 2
    BY <1>7, <2>5, DropSeq
  <2>7. yystate' \in 0..24
    BY <1>7, <2>4, SMTT(60) DEF Yy!Top
  <2>8. Stacks'
    BY <1>1, <1>5, <1>7, <2>2, <2>4, <2>6, <2>7 DEF Stacks
  <2>9. Sizes'
    BY <1>1, <1>5, <2>4 DEF Sizes, Reading
  <2>10. IsFlat(Stack) => IsFlat(Stack')
    BY <1>1, <1>5, <1>7, <2>1, FlatDrop
  <2>11. /\ Yy!Line(Taken + 1)' = Yy!Line(Taken + 1)
         /\ \A i : Opener(i, Yy!Line(Taken + 1))' <=> Opener(i, Yy!Line(Taken + 1))
    BY <1>1, <1>2 DEF Yy!Line, Opener, Yy!Tok
  <2>12. Openers'
    BY <2>10, <2>11 DEF Openers, IsFlat
  <2> QED
    BY <1>1, <1>3, <1>4, <2>8, <2>9, <2>12
<1>8. \/ yyss' = yyss /\ yyvs' = yyvs /\ yystate' = yystate
      \/ L > 1 /\ yyss' = Yy!DropLast(yyss, 1) /\ yyvs' = Yy!DropLast(yyvs, 1)
         /\ yystate' = Yy!Top(yyss')
  BY <1>5 DEF Yy!yyerrlab1, Yy!ErrorPops
<1> QED
  BY <1>6, <1>7, <1>8

\* Nothing happens.
LEMMA StutterKeeps == ASSUME CInv, UNCHANGED Yy!vars PROVE CInv'
<1> USE DEF CInv
<1>1. /\ label' = label /\ yyss' = yyss /\ yyvs' = yyvs /\ yystate' = yystate
      /\ given' = given /\ yychar' = yychar /\ yylval' = yylval
      /\ yystacksize' = yystacksize /\ yymaxdepth' = yymaxdepth /\ yyerrstatus' = yyerrstatus
  BY DEF Yy!vars, Yy!lookahead, Yy!sizes
<1>2. Stack' = Stack
  BY <1>1 DEF Stack
<1>3. Lookahead' /\ Sizes' /\ Stacks'
  BY <1>1, <1>2 DEF Lookahead, Yy!Tok, Sizes, Reading, Stacks
<1>4. Flags' /\ Failing' = Failing
  BY <1>1 DEF Flags, Failing, Reading, Yy!Ended, Yy!Listed, Yy!Look
<1> QED
  BY <1>1, <1>2, <1>3, <1>4, Kept DEF Refused

-----------------------------------------------------------------------------
(***************************************************************************)
(* The theorems.                                                           *)
(***************************************************************************)
THEOREM CInvariant == Yy!CalcAssumption => (Yy!Spec => []CInv)
<1> SUFFICES ASSUME Yy!CalcAssumption PROVE Yy!Spec => []CInv
  OBVIOUS
<1>1. Yy!Init => CInv
  BY InitCInv
<1>2. CInv /\ [Yy!Next]_(Yy!vars) => CInv'
  <2> SUFFICES ASSUME CInv, [Yy!Next]_(Yy!vars) PROVE CInv'
    OBVIOUS
  <2> QED
    BY yynewstateKeeps, yyexhaustedlabKeeps, DefaultKeeps, yylexKeeps, ShiftKeeps, yyreduceKeeps,
       TrapKeeps, yyerrlabKeeps, yyerrlab1Keeps, StutterKeeps DEF Yy!Next
<1> QED
  BY <1>1, <1>2, PTL DEF Yy!Spec

\* Types.
LEMMA Typed == ASSUME Yy!CalcAssumption, CInv PROVE Yy!TypeOK
<1> USE DEF CInv
<1>1. yychar \in {Yy!YYEMPTY, Yy!YYEOF} \cup Yy!NUMBER..Yy!DECREMENT
  BY DEF Lookahead, Chars
<1>2. \A i \in DOMAIN given : given[i].val \in 0..IntMax
  <2>1. given \in Seq(Given)
    BY DEF Lookahead
  <2>2. \A i \in DOMAIN given : given[i] \in Given
    BY <2>1, Entries
  <2> QED
    BY <2>2 DEF Given
<1>3. yyss \in Seq(0..24) /\ yyvs \in Seq(Yy!IntMin..IntMax)
      /\ Len(yyss) <= yystacksize /\ yystacksize <= yymaxdepth
  BY DEF Stacks, Sizes
<1>4. label = "backup" => Len(yyvs) = Len(yyss) - 1 /\ Yy!Top(yyss) = yystate
  BY DEF Stacks, Stack
<1>5. yyerrstatus \in {0, 3} /\ (Yy!Ended \/ label \in {"newstate", "backup", "default", "errlab1"})
  BY DEF Flags, Reading
<1> QED
  BY <1>1, <1>2, <1>3, <1>4, <1>5 DEF Yy!TypeOK

\* Without parentheses and prefix operators seven places are enough.
LEMMA FlatFits == ASSUME CInv PROVE Yy!FlatInputsFit
<1> USE DEF CInv
<1>1. PICK n \in Nat : n = Len(given)
  BY DEF Lookahead
<1> DEFINE line == Yy!Line(n) \cup {n}
           opens == {i \in line :
                       \/ Yy!Tok(i) \in {Yy!LPAREN, Yy!DECREMENT}
                       \/ Yy!Tok(i) = Yy!MINUS /\ (i - 1 \notin line \/ Yy!Tok(i - 1) # Yy!NUMBER)}
<1> SUFFICES ASSUME n > 0, opens = {}
             PROVE  Len(yyss) <= 7 /\ (yymaxdepth > 7 => label # "exhausted")
  BY <1>1 DEF Yy!FlatInputsFit
<1>2. \A i \in line : ~Opener(i, line)
  BY DEF Opener
<1> HIDE DEF opens
<1>3. Taken = n \/ Taken = n - 1
  BY <1>1 DEF Taken
<1>4. IsFlat(Stack)
  <2>0. n \in Nat \ {0}
    OBVIOUS
  <2>1. CASE Taken = n
    <3>1. Yy!Line(Taken + 1) = {} \/ Yy!Line(Taken + 1) = line
      BY <2>0, <2>1, LineNext
    <3> QED
      BY <1>2, <3>1 DEF Openers
  <2>2. CASE Taken = n - 1
    <3>0. (n - 1) + 1 = n
      OBVIOUS
    <3>1. Yy!Line(Taken + 1) = Yy!Line(n) /\ Yy!Line(n) \subseteq 1..(n - 1)
      BY <2>0, <2>2, <3>0, LineNext
    <3>2. \A i \in Yy!Line(n) : ~Opener(i, Yy!Line(n))
      <4> TAKE i \in Yy!Line(n)
      <4>1. i \in line /\ i - 1 # n
        BY <3>1
      <4>2. ~Opener(i, line)
        BY <1>2, <4>1
      <4> QED
        BY <4>1, <4>2 DEF Opener
    <3> QED
      BY <3>1, <3>2 DEF Openers
  <2> QED
    BY <1>3, <2>1, <2>2
<1>5. Len(Stack) <= 7
  BY <1>4, FlatHeight DEF Stacks
<1>6. Len(yyss) <= Len(Stack) /\ Len(yyss) \in Nat
  BY DEF Stacks, Stack
<1>7. label = "exhausted" => yymaxdepth <= Len(yyss)
  BY DEF Sizes
<1>8. yymaxdepth \in Nat /\ Len(Stack) \in Nat
  BY DEF Sizes, Stacks, Path
<1> QED
  BY <1>5, <1>6, <1>7, <1>8

\* The first wrong token is the one that is complained of.
LEMMA Rejects == ASSUME CInv PROVE Yy!RejectsAtOnce
<1> USE DEF CInv
<1>1. Len(given) \in Nat /\ (given # << >> => Len(given) > 0)
  BY DEF Lookahead
<1>2. Taken = Len(given) \/ Taken = Len(given) - 1
  BY DEF Taken
<1>3. \A i \in 1..(Len(given) - 1) : Yy!Tok(i) \in Yy!MayFollow(i)
  BY <1>1, <1>2 DEF Followed
<1>4. given # << >> /\ yychar = Yy!YYEMPTY => Yy!Tok(Len(given)) \in Yy!MayFollow(Len(given))
  BY <1>1 DEF Followed, Taken
<1>5. label = "aborted" => Yy!Tok(Len(given)) \notin Yy!MayFollow(Len(given))
  BY DEF Refused, Failing
<1>6. label = "accepted" => Yy!Tok(Len(given)) = Yy!YYEOF
  <2> HAVE label = "accepted"
  <2>1. Yy!Top(Stack) = 11 /\ ~Failing
    BY DEF Flags, Stacks, Failing
  <2>2. Yy!Tok(Taken) = Yy!YYEOF /\ yychar = Yy!YYEMPTY
    BY <2>1 DEF Place
  <2> QED
    BY <2>2 DEF Taken
<1> QED
  BY <1>3, <1>4, <1>5, <1>6 DEF Yy!RejectsAtOnce

\* For stacks and inputs of every size, and ints of every width: the stacks have
\* the shape and size the tables promise, values stay in int, and only nesting
\* exhausts them.
THEOREM StacksSoundThm == Yy!CalcAssumption => (Yy!Spec => []StacksSound)
<1> SUFFICES ASSUME Yy!CalcAssumption PROVE Yy!Spec => []StacksSound
  OBVIOUS
<1>1. CInv => StacksSound
  BY Typed, FlatFits DEF StacksSound, Yy!StacksSound
<1>2. Yy!Spec => []CInv
  BY CInvariant
<1> QED
  BY <1>1, <1>2, PTL

\* For inputs of every length: no token is shifted that the line may not go on
\* with, no error is found where there is none, and all is accepted only at the
\* end of the input.
THEOREM RejectsAtOnceThm == Yy!CalcAssumption => (Yy!Spec => []RejectsAtOnce)
<1> SUFFICES ASSUME Yy!CalcAssumption PROVE Yy!Spec => []RejectsAtOnce
  OBVIOUS
<1>1. CInv => RejectsAtOnce
  BY Rejects DEF RejectsAtOnce
<1>2. Yy!Spec => []CInv
  BY CInvariant
<1> QED
  BY <1>1, <1>2, PTL

-----------------------------------------------------------------------------
\* The refinement: how the code follows the statements.

\* Nothing is to be done from i to j.
Semis(p, i, j) == \A m \in i..j : p[m].t = "semi"

\* The variables that the statements before l assign.
Assigned(p, l) == {p[j].var : j \in {i \in 1..(l - 1) : p[i].t = "assign"}}

\* Whoever is at instruction k of block b is at the first statement from i on
\* that does something; u is the block that is still being written.
Comes(p, c, u, b, k, i) ==
    \/ k \in DOMAIN c[b] /\ i <= c[b][k].loc /\ Semis(p, i, c[b][k].loc - 1)
    \/ b = u /\ k = Len(c[b]) + 1 /\ i <= Len(p) + 1 /\ Semis(p, i, Len(p))

\* Block b is the condition of the statement at l.
Tests(c, b, l) == 1 \in DOMAIN c[b] /\ c[b][1].op = "condbr" /\ c[b][1].loc = l

\* The statement at o opened level k, which is still open.
OpensAt(p, k, o) ==
    /\ o \in DOMAIN p /\ p[o].t \in {"if", "while"}
    /\ Src!Level(p, o) = k
    /\ \A j \in o..Len(p) : Src!Level(p, j) >= k

-----------------------------------------------------------------------------
\* Levels of nesting.

LEMMA CountsAlike == \A S : Src!Cardinality(S) = Cardinality(S)
  BY DEF Src!Cardinality, Cardinality

LEMMA Counted0 ==
    ASSUME NEW p, NEW i \in Nat
    PROVE  /\ IsFiniteSet(Src!Openers(p, i)) /\ IsFiniteSet(Src!Enders(p, i))
           /\ Src!Openers(p, i) \subseteq 1..i /\ Src!Enders(p, i) \subseteq 1..i
           /\ Src!Level(p, i) = Cardinality(Src!Openers(p, i)) - Cardinality(Src!Enders(p, i))
           /\ Cardinality(Src!Openers(p, i)) \in Nat /\ Cardinality(Src!Enders(p, i)) \in Nat
           /\ Src!Level(p, i) \in Int
<1>1. IsFiniteSet(1..i)
  BY FS_Interval
<1>2. Src!Openers(p, i) \subseteq 1..i /\ Src!Enders(p, i) \subseteq 1..i
  BY DEF Src!Openers, Src!Enders
<1>3. IsFiniteSet(Src!Openers(p, i)) /\ IsFiniteSet(Src!Enders(p, i))
  BY <1>1, <1>2, FS_Subset
<1>4. Src!Level(p, i) = Cardinality(Src!Openers(p, i)) - Cardinality(Src!Enders(p, i))
  BY CountsAlike DEF Src!Level
<1>5. Cardinality(Src!Openers(p, i)) \in Nat /\ Cardinality(Src!Enders(p, i)) \in Nat
  BY <1>3, FS_CardinalityType
<1>6. QED
  BY <1>2, <1>3, <1>4, <1>5

LEMMA LevelZero == ASSUME NEW p PROVE Src!Level(p, 0) = 0
<1>1. Src!Openers(p, 0) = {} /\ Src!Enders(p, 0) = {}
  BY DEF Src!Openers, Src!Enders
<1>2. Cardinality({}) = 0
  BY FS_EmptySet
<1>3. Src!Level(p, 0) = Cardinality({}) - Cardinality({})
  BY <1>1, Counted0
<1>4. QED
  BY <1>2, <1>3

\* A statement's own level: one more than before it if it opens, one less if
\* it ends.
LEMMA LevelNext ==
    ASSUME NEW p, NEW i \in Nat
    PROVE  /\ p[i + 1].t \in {"if", "while"} => Src!Level(p, i + 1) = Src!Level(p, i) + 1
           /\ p[i + 1].t = "end" => Src!Level(p, i + 1) = Src!Level(p, i) - 1
           /\ p[i + 1].t \notin {"if", "while", "end"} => Src!Level(p, i + 1) = Src!Level(p, i)
<1> DEFINE n == i + 1
           A == Src!Openers(p, i)
           B == Src!Enders(p, i)
<1>1. n \in Nat /\ 1..n = 1..i \cup {n} /\ n \notin 1..i
  OBVIOUS
<1>2. /\ IsFiniteSet(A) /\ IsFiniteSet(B) /\ A \subseteq 1..i /\ B \subseteq 1..i
      /\ Src!Level(p, i) = Cardinality(A) - Cardinality(B)
      /\ Cardinality(A) \in Nat /\ Cardinality(B) \in Nat
  BY Counted0
<1>3. Src!Level(p, n) = Cardinality(Src!Openers(p, n)) - Cardinality(Src!Enders(p, n))
  BY <1>1, Counted0
<1>4. Src!Openers(p, n) = IF p[n].t \in {"if", "while"} THEN A \cup {n} ELSE A
  BY <1>1 DEF Src!Openers
<1>5. Src!Enders(p, n) = IF p[n].t = "end" THEN B \cup {n} ELSE B
  BY <1>1 DEF Src!Enders
<1>6. Cardinality(A \cup {n}) = Cardinality(A) + 1 /\ Cardinality(B \cup {n}) = Cardinality(B) + 1
  <2>1. n \notin A /\ n \notin B
    BY <1>1, <1>2
  <2>2. QED
    BY <1>2, <2>1, FS_AddElement
<1> HIDE DEF n, A, B
<1>7. ASSUME p[n].t \in {"if", "while"} PROVE Src!Level(p, n) = Src!Level(p, i) + 1
  <2>1. p[n].t # "end"
    BY <1>7
  <2>2. Src!Openers(p, n) = A \cup {n} /\ Src!Enders(p, n) = B
    BY <1>4, <1>5, <1>7, <2>1
  <2>3. Src!Level(p, n) = Cardinality(A) + 1 - Cardinality(B)
    BY <1>2, <1>3, <1>6, <2>2
  <2>4. QED
    BY <1>2, <2>3
<1>8. ASSUME p[n].t = "end" PROVE Src!Level(p, n) = Src!Level(p, i) - 1
  <2>1. p[n].t \notin {"if", "while"}
    BY <1>8
  <2>2. Src!Level(p, n) = Cardinality(A) - (Cardinality(B) + 1)
    BY <1>3, <1>4, <1>5, <1>6, <1>8, <2>1
  <2>3. QED
    BY <1>2, <2>2
<1>9. ASSUME p[n].t \notin {"if", "while", "end"} PROVE Src!Level(p, n) = Src!Level(p, i)
  BY <1>2, <1>3, <1>4, <1>5, <1>9
<1>10. /\ p[n].t \in {"if", "while"} => Src!Level(p, n) = Src!Level(p, i) + 1
       /\ p[n].t = "end" => Src!Level(p, n) = Src!Level(p, i) - 1
       /\ p[n].t \notin {"if", "while", "end"} => Src!Level(p, n) = Src!Level(p, i)
  BY <1>7, <1>8, <1>9
<1>11. QED
  BY <1>10 DEF n

LEMMA SameLevel ==
    ASSUME NEW p, NEW q, NEW i \in Nat, \A j \in 1..i : q[j] = p[j]
    PROVE  Src!Level(q, i) = Src!Level(p, i)
<1>1. Src!Openers(q, i) = Src!Openers(p, i) /\ Src!Enders(q, i) = Src!Enders(p, i)
  BY DEF Src!Openers, Src!Enders
<1>2. QED
  BY <1>1, Counted0

\* A statement has one end, an end one statement, and what does something
\* next is settled.
LEMMA EndIs ==
    ASSUME NEW p, Len(p) \in Nat, NEW i \in 1..Len(p), NEW j \in 1..Len(p),
           Src!Encloses(p, i, j)
    PROVE  Src!EndOf(p, i) = j
<1>1. j \in i..Len(p)
  BY DEF Src!Encloses
<1>2. ASSUME NEW k \in i..Len(p), Src!Encloses(p, i, k) PROVE k = j
  <2>1. Src!Level(p, i) \in Int
    BY Counted0
  <2>2. CASE k < j
    <3>1. k \in i..(j - 1) /\ Src!Level(p, k) = Src!Level(p, i) - 1
      BY <1>2, <2>2 DEF Src!Encloses
    <3>2. Src!Level(p, k) >= Src!Level(p, i)
      BY <3>1 DEF Src!Encloses
    <3>3. QED
      BY <2>1, <3>1, <3>2
  <2>3. CASE j < k
    <3>1. j \in i..(k - 1) /\ Src!Level(p, j) = Src!Level(p, i) - 1
      BY <1>2, <2>3 DEF Src!Encloses
    <3>2. Src!Level(p, j) >= Src!Level(p, i)
      BY <1>2, <3>1 DEF Src!Encloses
    <3>3. QED
      BY <2>1, <3>1, <3>2
  <2>4. QED
    BY <2>2, <2>3
<1>3. QED
  BY <1>1, <1>2 DEF Src!EndOf

LEMMA OpenerIs ==
    ASSUME NEW p, Len(p) \in Nat, NEW i \in 1..Len(p), NEW j \in 1..Len(p),
           Src!Encloses(p, i, j)
    PROVE  Src!OpenerOf(p, j) = i
<1>1. i \in 1..j
  BY DEF Src!Encloses
<1>2. ASSUME NEW a \in 1..j, NEW b \in 1..j, Src!Encloses(p, a, j), Src!Encloses(p, b, j), a < b
      PROVE  FALSE
  <2>1. Src!Level(p, a) \in Int /\ Src!Level(p, b) \in Int /\ Src!Level(p, j) \in Int
        /\ Src!Level(p, b - 1) \in Int
    <3>1. a \in Nat /\ b \in Nat /\ j \in Nat /\ b - 1 \in Nat
      OBVIOUS
    <3>2. QED
      BY <3>1, Counted0
  <2>2. Src!Level(p, a) = Src!Level(p, b)
    BY <1>2, <2>1 DEF Src!Encloses
  <2>3. Src!Level(p, b) = Src!Level(p, b - 1) + 1
    <3>1. b - 1 \in Nat /\ (b - 1) + 1 = b /\ p[b].t \in {"if", "while"}
      BY <1>2 DEF Src!Encloses
    <3>2. QED
      BY <3>1, LevelNext
  <2>4. b - 1 \in a..(j - 1)
    BY <1>2
  <2>5. Src!Level(p, b - 1) >= Src!Level(p, a)
    BY <1>2, <2>4 DEF Src!Encloses
  <2>6. QED
    BY <2>1, <2>2, <2>3, <2>5
<1>3. ASSUME NEW k \in 1..j, Src!Encloses(p, k, j) PROVE k = i
  <2>1. ~(k < i) /\ ~(i < k)
    BY <1>1, <1>2, <1>3
  <2>2. QED
    BY <2>1
<1>4. QED
  BY <1>1, <1>3 DEF Src!OpenerOf

LEMMA EffectiveIs ==
    ASSUME NEW p, Len(p) \in Nat, NEW i \in Nat, NEW j \in i..Len(p), p[j].t # "semi",
           Semis(p, i, j - 1)
    PROVE  Src!Effective(p, i) = j
<1>1. ASSUME NEW k \in i..Len(p), p[k].t # "semi", \A m \in i..(k - 1) : p[m].t = "semi"
      PROVE  k = j
  <2>1. ~(k < j)
    <3>1. k < j => k \in i..(j - 1)
      OBVIOUS
    <3>2. QED
      BY <1>1, <3>1 DEF Semis
  <2>2. ~(j < k)
    <3>1. j < k => j \in i..(k - 1)
      OBVIOUS
    <3>2. QED
      BY <1>1, <3>1
  <2>3. QED
    BY <2>1, <2>2
<1>2. QED
  BY <1>1 DEF Src!Effective, Semis

-----------------------------------------------------------------------------
\* Variables that have been assigned.

LEMMA AssignedSame ==
    ASSUME NEW p, NEW i \in Nat, NEW l \in Nat, i <= l,
           \A m \in i..(l - 1) : p[m].t = "assign" => p[m].var \in Assigned(p, i)
    PROVE  Assigned(p, l) = Assigned(p, i)
<1>1. Assigned(p, i) \subseteq Assigned(p, l)
  <2>1. 1..(i - 1) \subseteq 1..(l - 1)
    OBVIOUS
  <2>2. QED
    BY <2>1 DEF Assigned
<1>2. ASSUME NEW v \in Assigned(p, l) PROVE v \in Assigned(p, i)
  <2>1. PICK j \in 1..(l - 1) : p[j].t = "assign" /\ p[j].var = v
    BY DEF Assigned
  <2>2. CASE j \in i..(l - 1)
    BY <2>1, <2>2
  <2>3. CASE j \notin i..(l - 1)
    <3>1. j \in 1..(i - 1)
      BY <2>3
    <3>2. QED
      BY <2>1, <3>1 DEF Assigned
  <2>4. QED
    BY <2>2, <2>3
<1>3. QED
  BY <1>1, <1>2

LEMMA AssignedNext ==
    ASSUME NEW p, NEW i \in Nat, i >= 1
    PROVE  /\ p[i].t = "assign" => Assigned(p, i + 1) = Assigned(p, i) \cup {p[i].var}
           /\ p[i].t # "assign" => Assigned(p, i + 1) = Assigned(p, i)
<1>1. 1..((i + 1) - 1) = 1..(i - 1) \cup {i}
  OBVIOUS
<1>2. QED
  BY <1>1 DEF Assigned

LEMMA SemisAssign ==
    ASSUME NEW p, NEW i \in Nat, NEW l \in Nat, i <= l, Semis(p, i, l - 1)
    PROVE  Assigned(p, l) = Assigned(p, i)
  BY AssignedSame DEF Semis

\* A body assigns no variable that has no value before it.
LEMMA BodyAssigns ==
    ASSUME NEW p, Len(p) \in Nat, DOMAIN p = 1..Len(p), FirstAtTop(p),
           \A j \in DOMAIN p : Src!Level(p, j) >= 0,
           NEW i \in DOMAIN p, NEW j \in DOMAIN p, Src!Encloses(p, i, j)
    PROVE  Assigned(p, j) = Assigned(p, i) /\ Assigned(p, j + 1) = Assigned(p, i)
<1>1. i \in Nat /\ j \in Nat /\ i < j /\ i >= 1 /\ j <= Len(p)
  BY DEF Src!Encloses
<1>2. Src!Level(p, i) >= 1 /\ Src!Level(p, i) \in Int
  <2>1. i - 1 \in Nat /\ (i - 1) + 1 = i /\ p[i].t \in {"if", "while"}
    BY <1>1 DEF Src!Encloses
  <2>2. Src!Level(p, i) = Src!Level(p, i - 1) + 1 /\ Src!Level(p, i - 1) \in Int
    BY <2>1, LevelNext, Counted0
  <2>3. CASE i = 1
    <3>1. i - 1 = 0
      BY <2>3
    <3>2. Src!Level(p, i - 1) = 0
      BY <3>1, LevelZero
    <3>3. QED
      BY <2>2, <3>2
  <2>4. CASE i # 1
    <3>1. i - 1 \in DOMAIN p
      BY <1>1, <2>4
    <3>2. QED
      BY <2>2, <3>1
  <2>5. QED
    BY <2>3, <2>4
<1>3. ASSUME NEW m \in i..(j - 1), p[m].t = "assign" PROVE p[m].var \in Assigned(p, i)
  <2>1. m \in DOMAIN p /\ m \in Nat
    BY <1>1
  <2>2. Src!Level(p, m) >= Src!Level(p, i) /\ Src!Level(p, m) \in Int
    BY <2>1, Counted0 DEF Src!Encloses
  <2>3. Src!Level(p, m) # 0
    BY <1>2, <2>2
  <2>4. PICK k \in 1..(m - 1) : p[k].t = "assign" /\ p[k].var = p[m].var /\ Src!Level(p, k) = 0
    BY <1>3, <2>1, <2>3 DEF FirstAtTop
  <2>5. k \notin i..(j - 1)
    <3>1. k \in i..(j - 1) => Src!Level(p, k) >= Src!Level(p, i)
      BY DEF Src!Encloses
    <3>2. QED
      BY <1>2, <2>4, <3>1
  <2>6. k \in 1..(i - 1)
    BY <1>1, <2>5
  <2>7. QED
    BY <2>4, <2>6 DEF Assigned
<1>4. Assigned(p, j) = Assigned(p, i)
  BY <1>1, <1>3, AssignedSame
<1>5. p[j].t # "assign"
  BY DEF Src!Encloses
<1>6. QED
  BY <1>1, <1>4, <1>5, AssignedNext

-----------------------------------------------------------------------------
\* A program that grows by a statement, code that grows by instructions.

Longer(p, q) ==
    /\ Len(p) \in Nat /\ Len(q) \in Nat /\ Len(p) <= Len(q)
    /\ DOMAIN p = 1..Len(p) /\ DOMAIN q = 1..Len(q)
    /\ \A j \in 1..Len(p) : q[j] = p[j]

LEMMA LongerIs ==
    ASSUME NEW p, NEW q, Longer(p, q)
    PROVE  /\ \A i \in 0..Len(p) : Src!Level(q, i) = Src!Level(p, i)
           /\ \A l \in 1..(Len(p) + 1) : Assigned(q, l) = Assigned(p, l)
           /\ \A i \in Nat \ {0}, j \in 0..Len(p) : Semis(p, i, j) => Semis(q, i, j)
           /\ \A i \in 1..Len(p), j \in 1..Len(p) : Src!Encloses(p, i, j) => Src!Encloses(q, i, j)
<1>1. Len(p) \in Nat /\ \A j \in 1..Len(p) : q[j] = p[j]
  BY DEF Longer
<1>2. ASSUME NEW i \in 0..Len(p) PROVE Src!Level(q, i) = Src!Level(p, i)
  <2>1. i \in Nat /\ \A j \in 1..i : q[j] = p[j]
    BY <1>1
  <2>2. QED
    BY <2>1, SameLevel
<1>3. ASSUME NEW l \in 1..(Len(p) + 1) PROVE Assigned(q, l) = Assigned(p, l)
  <2>1. \A j \in 1..(l - 1) : q[j] = p[j]
    BY <1>1
  <2>2. QED
    BY <2>1 DEF Assigned
<1>4. ASSUME NEW i \in Nat \ {0}, NEW j \in 0..Len(p), Semis(p, i, j) PROVE Semis(q, i, j)
  <2>1. i..j \subseteq 1..Len(p)
    BY <1>1
  <2>2. QED
    BY <1>1, <1>4, <2>1 DEF Semis
<1>5. ASSUME NEW i \in 1..Len(p), NEW j \in 1..Len(p), Src!Encloses(p, i, j)
      PROVE  Src!Encloses(q, i, j)
  <2>1. i \in 0..Len(p) /\ j \in 0..Len(p) /\ i..(j - 1) \subseteq 0..Len(p)
    BY <1>1
  <2>2. Src!Level(q, i) = Src!Level(p, i) /\ Src!Level(q, j) = Src!Level(p, j)
        /\ \A k \in i..(j - 1) : Src!Level(q, k) = Src!Level(p, k)
    BY <1>2, <2>1
  <2>3. QED
    BY <1>1, <1>5, <2>2 DEF Src!Encloses
<1>6. QED
  BY <1>2, <1>3, <1>4, <1>5

LEMMA AppendLonger ==
    ASSUME NEW p \in Seq(Tokens), NEW tok \in Tokens
    PROVE  /\ Longer(p, Append(p, tok)) /\ Longer(p, p) /\ Len(p) \in Nat
           /\ Len(Append(p, tok)) = Len(p) + 1 /\ Append(p, tok)[Len(p) + 1] = tok
           /\ Append(p, tok) \in Seq(Tokens)
<1> DEFINE q == Append(p, tok)
<1>1. /\ Len(p) \in Nat /\ Len(q) = Len(p) + 1 /\ DOMAIN p = 1..Len(p) /\ DOMAIN q = 1..(Len(p) + 1)
      /\ q[Len(p) + 1] = tok /\ q \in Seq(Tokens) /\ \A j \in 1..Len(p) : q[j] = p[j]
  OBVIOUS
<1> HIDE DEF q
<1>2. QED
  BY <1>1 DEF Longer, q

Extended(c, d) ==
    /\ DOMAIN c \subseteq DOMAIN d
    /\ \A b \in DOMAIN c : \A k \in DOMAIN c[b] : k \in DOMAIN d[b] /\ d[b][k] = c[b][k]

\* Wherever the old code comes to an end, the new one goes on with the first
\* statement that is new.
Grows(p, c, u, q, d, v) ==
    /\ Longer(p, q) /\ Extended(c, d)
    /\ u \in DOMAIN c => Comes(q, d, v, u, Len(c[u]) + 1, Len(p) + 1)

\* An instruction belongs to a statement that has been read, or is next.
Dated(p, c) == \A b \in DOMAIN c : \A k \in DOMAIN c[b] : c[b][k].loc \in 1..(Len(p) + 1)

LEMMA ComesKept ==
    ASSUME NEW p, NEW c, NEW u, NEW q, NEW d, NEW v, Grows(p, c, u, q, d, v),
           Dated(p, c), Dated(q, d), NEW b \in DOMAIN c, NEW k, NEW i \in Nat \ {0},
           Comes(p, c, u, b, k, i)
    PROVE  Comes(q, d, v, b, k, i)
<1>1. Longer(p, q) /\ Extended(c, d) /\ Len(p) \in Nat /\ Len(q) \in Nat /\ Len(p) <= Len(q)
  BY DEF Grows, Longer
<1>2. CASE k \in DOMAIN c[b] /\ i <= c[b][k].loc /\ Semis(p, i, c[b][k].loc - 1)
  <2>1. k \in DOMAIN d[b] /\ d[b][k] = c[b][k]
    BY <1>1, <1>2 DEF Extended
  <2>2. c[b][k].loc - 1 \in 0..Len(p)
    <3>1. c[b][k].loc \in 1..(Len(p) + 1)
      BY <1>2 DEF Dated
    <3>2. QED
      BY <1>1, <3>1
  <2>3. Semis(q, i, c[b][k].loc - 1)
    BY <1>1, <1>2, <2>2, LongerIs
  <2>4. QED
    BY <1>2, <2>1, <2>3 DEF Comes
<1>3. CASE b = u /\ k = Len(c[b]) + 1 /\ i <= Len(p) + 1 /\ Semis(p, i, Len(p))
  <2>1. Comes(q, d, v, b, k, Len(p) + 1)
    BY <1>3 DEF Grows
  <2>2. Semis(q, i, Len(p))
    <3>1. Len(p) \in 0..Len(p)
      BY <1>1
    <3>2. QED
      BY <1>1, <1>3, <3>1, LongerIs
  <2>3. CASE k \in DOMAIN d[b] /\ Len(p) + 1 <= d[b][k].loc /\ Semis(q, Len(p) + 1, d[b][k].loc - 1)
    <3>1. b \in DOMAIN d /\ d[b][k].loc \in 1..(Len(q) + 1)
      BY <1>1, <2>3 DEF Extended, Dated
    <3>2. PICK l \in Nat : l = d[b][k].loc
      BY <1>1, <3>1
    <3>3. i..(l - 1) \subseteq i..Len(p) \cup (Len(p) + 1)..(l - 1) /\ i <= l
      BY <1>1, <1>3, <2>3, <3>2
    <3>4. Semis(q, i, l - 1)
      BY <2>2, <2>3, <3>2, <3>3 DEF Semis
    <3>5. QED
      BY <2>3, <3>2, <3>3, <3>4 DEF Comes
  <2>4. CASE b = v /\ k = Len(d[b]) + 1 /\ Len(p) + 1 <= Len(q) + 1 /\ Semis(q, Len(p) + 1, Len(q))
    <3>1. i..Len(q) \subseteq i..Len(p) \cup (Len(p) + 1)..Len(q) /\ i <= Len(q) + 1
      BY <1>1, <1>3
    <3>2. Semis(q, i, Len(q))
      BY <2>2, <2>4, <3>1 DEF Semis
    <3>3. QED
      BY <2>4, <3>1, <3>2 DEF Comes
  <2>5. QED
    BY <2>1, <2>3, <2>4 DEF Comes
<1>4. QED
  BY <1>2, <1>3 DEF Comes

-----------------------------------------------------------------------------
\* The invariant.  The block that is being written:
Standing == IF phase \in {"parse", "head"} THEN cur ELSE 0

Alive == phase \in {"parse", "head", "built", "run"}

\* Block e is to follow the statement opened at o: it waits on the parser's
\* stack, or what comes behind the end of the statement comes there.
Waits(p, s, e, o) == \E k \in DOMAIN s : s[k].join = e /\ OpensAt(p, k, o)
Behind(p, c, u, e, o) ==
    \E j \in DOMAIN p : Src!Encloses(p, o, j) /\ Comes(p, c, u, e, 1, j + 1)

\* Block b is to hold the condition of the while that is being read.
Heads(s, b) == \E k \in DOMAIN s : s[k].join = 0 /\ s[k].cond = b

\* An instruction has its statement's expression, whose variables have values.
Uses(t, p, x) ==
    /\ (t = "C" /\ p[x.loc].val.op = "mul") \/ x.val = p[x.loc].val
    /\ Src!VarsOf(p[x.loc].val) \subseteq Assigned(p, x.loc)

RightAlloca(p, c, b, k, x) ==
    /\ x.op = "alloca" /\ x.loc \in DOMAIN p /\ x.var \notin Assigned(p, x.loc)
    /\ p[x.loc].t = "assign"
    /\ k + 1 \in DOMAIN c[b] /\ c[b][k + 1].op = "store"
    /\ c[b][k + 1].loc = x.loc /\ c[b][k + 1].var = x.var

RightStore(t, p, c, u, b, k, x) ==
    /\ x.op = "store" /\ x.loc \in DOMAIN p /\ p[x.loc].t = "assign"
    /\ x.var = p[x.loc].var /\ Uses(t, p, x)
    /\ x.var \in Assigned(p, x.loc) \/ (k > 1 /\ c[b][k - 1].op = "alloca")
    /\ Comes(p, c, u, b, k + 1, x.loc + 1)

RightTest(t, p, c, u, s, x) ==
    /\ x.op = "condbr" /\ x.loc \in DOMAIN p /\ p[x.loc].t \in {"if", "while"}
    /\ Uses(t, p, x)
    /\ Comes(p, c, u, x.then, 1, x.loc + 1)
    /\ Waits(p, s, x.else, x.loc) \/ Behind(p, c, u, x.else, x.loc)

RightHead(p, c, s, x) ==
    /\ x.op = "br"
    /\ \/ x.loc \in DOMAIN p /\ p[x.loc].t = "while" /\ Tests(c, x.to, x.loc)
       \/ x.loc = Len(p) + 1 /\ Heads(s, x.to)

RightEnd(t, p, c, u, x) ==
    /\ x.op = "br" /\ x.loc \in DOMAIN p /\ p[x.loc].t = "end"
    /\ \E o \in DOMAIN p :
          /\ Src!Encloses(p, o, x.loc)
          /\ p[o].t = "if" => Comes(p, c, u, x.to, 1, x.loc + 1)
          /\ p[o].t = "while" /\ t = "C" => Tests(c, x.to, o)

RightRet(t, p, x) ==
    /\ x.op = "ret" /\ x.loc \in DOMAIN p /\ p[x.loc].t = "return" /\ Uses(t, p, x)

Right(t, p, c, u, s, b, k) ==
    \/ RightAlloca(p, c, b, k, c[b][k]) \/ RightStore(t, p, c, u, b, k, c[b][k])
    \/ RightTest(t, p, c, u, s, c[b][k]) \/ RightHead(p, c, s, c[b][k])
    \/ RightEnd(t, p, c, u, c[b][k]) \/ RightRet(t, p, c[b][k])

Wired(t, p, c, u, s) ==
    /\ \A b \in DOMAIN c : \A k \in DOMAIN c[b] : Right(t, p, c, u, s, b, k)
    /\ Comes(p, c, u, 1, 1, 1)

\* The blocks behind the open statements are empty, and the statements known.
Awaited(p, c, s) ==
    \A k \in DOMAIN s : s[k].join # 0 =>
        /\ c[s[k].join] = <<>>
        /\ \E o \in DOMAIN p : /\ OpensAt(p, k, o) /\ p[o].t = s[k].t
                               /\ s[k].t = "while" => Tests(c, s[k].cond, o)

Nested ==
    /\ map = Assigned(prog, Len(prog) + 1)
    /\ \A j \in DOMAIN prog : Src!Level(prog, j) >= 0
    /\ Src!Level(prog, Len(prog)) = IF phase = "head" THEN Len(open) - 1 ELSE Len(open)
    /\ Awaited(prog, code, open)
    /\ phase = "head" => code[cur] = <<>> /\ Top.cond = cur

\* The slots are those of the variables the statements so far assign.
Stored ==
    phase = "run" /\ Covered(prog) =>
        slots = Assigned(prog, Instr.loc) \cup (IF Instr.op = "store" THEN {Instr.var} ELSE {})

Unstarted == phase \in {"parse", "head", "built"} => at = <<0, 0>> /\ slots = {}

XInv ==
    /\ Alive => Nested /\ Wired(tool, prog, code, Standing, open) /\ Stored
    /\ Unstarted
    /\ Covered(prog) => phase # "undefined"

LEMMA RightDated ==
    ASSUME NEW t, NEW p, NEW c, NEW u, NEW s, Len(p) \in Nat, DOMAIN p = 1..Len(p),
           NEW b \in DOMAIN c, NEW k \in DOMAIN c[b], Right(t, p, c, u, s, b, k)
    PROVE  c[b][k].loc \in 1..(Len(p) + 1)
<1>1. c[b][k].loc \in DOMAIN p \/ c[b][k].loc = Len(p) + 1
  BY DEF Right, RightAlloca, RightStore, RightTest, RightHead, RightEnd, RightRet
<1>2. QED
  BY <1>1

LEMMA UsesKept ==
    ASSUME NEW t, NEW p, NEW q, Longer(p, q), NEW x, x.loc \in DOMAIN p, Uses(t, p, x)
    PROVE  Uses(t, q, x)
<1>1. x.loc \in 1..Len(p) /\ x.loc \in 1..(Len(p) + 1) /\ q[x.loc] = p[x.loc]
  BY DEF Longer
<1>2. Assigned(q, x.loc) = Assigned(p, x.loc)
  BY <1>1, LongerIs
<1>3. QED
  BY <1>1, <1>2 DEF Uses

LEMMA TestsKept ==
    ASSUME NEW c, NEW d, Extended(c, d), NEW b \in DOMAIN c, NEW l, Tests(c, b, l)
    PROVE  Tests(d, b, l)
  BY DEF Tests, Extended

LEMMA BehindKept ==
    ASSUME NEW p, NEW c, NEW u, NEW q, NEW d, NEW v, Grows(p, c, u, q, d, v),
           Dated(p, c), Dated(q, d), NEW e \in DOMAIN c, NEW o \in DOMAIN p,
           Behind(p, c, u, e, o)
    PROVE  Behind(q, d, v, e, o)
<1>1. Longer(p, q) /\ DOMAIN p = 1..Len(p) /\ DOMAIN p \subseteq DOMAIN q /\ Len(p) \in Nat
  BY DEF Grows, Longer
<1>2. PICK j \in DOMAIN p : Src!Encloses(p, o, j) /\ Comes(p, c, u, e, 1, j + 1)
  BY DEF Behind
<1>3. Src!Encloses(q, o, j)
  BY <1>1, <1>2, LongerIs
<1>4. j + 1 \in Nat \ {0}
  BY <1>1
<1>5. Comes(q, d, v, e, 1, j + 1)
  BY <1>2, <1>4, ComesKept
<1>6. QED
  BY <1>1, <1>3, <1>5 DEF Behind

\* The stack changes from s to r as the rule wants it: what waits is still
\* waiting or has come, the condition that was to be written has been.
Hands(p, c, u, s, q, d, v, r) ==
    /\ \A o \in DOMAIN p : \A e \in DOMAIN c :
          Waits(p, s, e, o) => Waits(q, r, e, o) \/ Behind(q, d, v, e, o)
    /\ \A b \in DOMAIN c : Heads(s, b) =>
          /\ Len(q) = Len(p) + 1 /\ q[Len(p) + 1].t = "while" /\ Tests(d, b, Len(p) + 1)

LEMMA RightKept ==
    ASSUME NEW t, NEW p, NEW c, NEW u, NEW s, NEW q, NEW d, NEW v, NEW r,
           Grows(p, c, u, q, d, v), Dated(p, c), Dated(q, d), Hands(p, c, u, s, q, d, v, r),
           NEW b \in DOMAIN c, NEW k \in DOMAIN c[b], Targets(c[b][k]) \subseteq DOMAIN c,
           k \in Nat, DOMAIN c[b] = 1..Len(c[b]), Len(c[b]) \in Nat,
           Right(t, p, c, u, s, b, k)
    PROVE  Right(t, q, d, v, r, b, k)
<1> DEFINE x == c[b][k]
<1>1. /\ Longer(p, q) /\ Extended(c, d) /\ Len(p) \in Nat /\ DOMAIN p = 1..Len(p)
      /\ DOMAIN p \subseteq DOMAIN q /\ \A j \in DOMAIN p : q[j] = p[j]
      /\ DOMAIN q = 1..Len(q)
  BY DEF Grows, Longer
<1>2. d[b][k] = x /\ \A n \in DOMAIN c[b] : n \in DOMAIN d[b] /\ d[b][n] = c[b][n]
  BY <1>1 DEF Extended
<1>3. \A l \in DOMAIN p : Assigned(q, l) = Assigned(p, l)
  <2>1. DOMAIN p \subseteq 1..(Len(p) + 1)
    BY <1>1
  <2>2. QED
    BY <1>1, <2>1, LongerIs
<1>4. \A l \in DOMAIN p : l + 1 \in Nat \ {0} /\ l \in Nat
  BY <1>1
<1>5. CASE RightAlloca(p, c, b, k, x)
  <2>1. RightAlloca(q, d, b, k, x)
    BY <1>1, <1>2, <1>3, <1>5 DEF RightAlloca
  <2>2. QED
    BY <1>2, <2>1 DEF Right
<1>6. CASE RightStore(t, p, c, u, b, k, x)
  <2>1. Comes(q, d, v, b, k + 1, x.loc + 1) /\ Uses(t, q, x)
    BY <1>1, <1>4, <1>6, ComesKept, UsesKept DEF RightStore
  <2>2. x.var \in Assigned(q, x.loc) \/ (k > 1 /\ d[b][k - 1].op = "alloca")
    <3>1. k > 1 => k - 1 \in DOMAIN c[b]
      OBVIOUS
    <3>2. k > 1 => d[b][k - 1] = c[b][k - 1]
      BY <1>2, <3>1
    <3>3. x.var \in Assigned(p, x.loc) \/ (k > 1 /\ c[b][k - 1].op = "alloca")
      BY <1>6 DEF RightStore
    <3>4. x.loc \in DOMAIN p
      BY <1>6 DEF RightStore
    <3>5. QED
      BY <1>3, <3>2, <3>3, <3>4
  <2>3. RightStore(t, q, d, v, b, k, x)
    <3>1. /\ x.op = "store" /\ x.loc \in DOMAIN p /\ p[x.loc].t = "assign"
          /\ x.var = p[x.loc].var
      BY <1>6 DEF RightStore
    <3>2. x.loc \in DOMAIN q /\ q[x.loc] = p[x.loc]
      BY <1>1, <3>1
    <3>3. QED
      BY <2>1, <2>2, <3>1, <3>2 DEF RightStore
  <2>4. QED
    BY <1>2, <2>3 DEF Right
<1>7. CASE RightTest(t, p, c, u, s, x)
  <2>1. x.then \in DOMAIN c /\ x.else \in DOMAIN c /\ x.loc \in DOMAIN p
    BY <1>7 DEF Targets, RightTest
  <2>2. Comes(q, d, v, x.then, 1, x.loc + 1) /\ Uses(t, q, x)
    BY <1>1, <1>4, <1>7, <2>1, ComesKept, UsesKept DEF RightTest
  <2>3. Waits(q, r, x.else, x.loc) \/ Behind(q, d, v, x.else, x.loc)
    BY <1>7, <2>1, BehindKept DEF RightTest, Hands
  <2>4. RightTest(t, q, d, v, r, x)
    BY <1>1, <1>7, <2>2, <2>3 DEF RightTest
  <2>5. QED
    BY <1>2, <2>4 DEF Right
<1>8. CASE RightHead(p, c, s, x)
  <2>1. x.to \in DOMAIN c /\ x.op = "br"
    BY <1>8 DEF Targets, RightHead
  <2>2. CASE x.loc \in DOMAIN p /\ p[x.loc].t = "while" /\ Tests(c, x.to, x.loc)
    <3>1. Tests(d, x.to, x.loc)
      BY <1>1, <2>1, <2>2, TestsKept
    <3>2. QED
      BY <1>1, <1>2, <2>1, <2>2, <3>1 DEF Right, RightHead
  <2>3. CASE x.loc = Len(p) + 1 /\ Heads(s, x.to)
    <3>1. Len(q) = Len(p) + 1 /\ q[x.loc].t = "while" /\ Tests(d, x.to, x.loc)
      BY <2>1, <2>3 DEF Hands
    <3>2. x.loc \in DOMAIN q
      BY <1>1, <2>3, <3>1
    <3>3. QED
      BY <1>2, <2>1, <3>1, <3>2 DEF Right, RightHead
  <2>4. QED
    BY <1>8, <2>2, <2>3 DEF RightHead
<1>9. CASE RightEnd(t, p, c, u, x)
  <2>1. x.to \in DOMAIN c /\ x.loc \in DOMAIN p
    BY <1>9 DEF Targets, RightEnd
  <2>2. PICK o \in DOMAIN p :
          /\ Src!Encloses(p, o, x.loc)
          /\ p[o].t = "if" => Comes(p, c, u, x.to, 1, x.loc + 1)
          /\ p[o].t = "while" /\ t = "C" => Tests(c, x.to, o)
    BY <1>9 DEF RightEnd
  <2>3. Src!Encloses(q, o, x.loc)
    BY <1>1, <2>1, <2>2, LongerIs
  <2>4. p[o].t = "if" => Comes(q, d, v, x.to, 1, x.loc + 1)
    BY <1>4, <2>1, <2>2, ComesKept
  <2>5. p[o].t = "while" /\ t = "C" => Tests(d, x.to, o)
    BY <1>1, <2>1, <2>2, TestsKept
  <2>6. RightEnd(t, q, d, v, x)
    BY <1>1, <1>9, <2>1, <2>3, <2>4, <2>5 DEF RightEnd
  <2>7. QED
    BY <1>2, <2>6 DEF Right
<1>10. CASE RightRet(t, p, x)
  <2>1. RightRet(t, q, x)
    BY <1>1, <1>10, UsesKept DEF RightRet
  <2>2. QED
    BY <1>2, <2>1 DEF Right
<1>11. QED
  BY <1>5, <1>6, <1>7, <1>8, <1>9, <1>10 DEF Right

LEMMA WiredKept ==
    ASSUME NEW t, NEW p, NEW c \in Seq(Seq(InstrType)), NEW u, NEW s, NEW q, NEW d, NEW v, NEW r,
           Grows(p, c, u, q, d, v), Dated(q, d), Hands(p, c, u, s, q, d, v, r),
           Wired(t, p, c, u, s), 1 \in DOMAIN c,
           \A b \in DOMAIN c : \A k \in DOMAIN c[b] : Targets(c[b][k]) \subseteq DOMAIN c,
           \A b \in DOMAIN d : \A k \in DOMAIN d[b] :
              (b \in DOMAIN c /\ k \in DOMAIN c[b]) \/ Right(t, q, d, v, r, b, k)
    PROVE  Wired(t, q, d, v, r)
<1>1. Len(p) \in Nat /\ DOMAIN p = 1..Len(p)
  BY DEF Grows, Longer
<1>2. Dated(p, c)
  BY <1>1, RightDated DEF Dated, Wired
<1>3. Comes(q, d, v, 1, 1, 1)
  <2>1. Comes(p, c, u, 1, 1, 1) /\ 1 \in Nat \ {0}
    BY DEF Wired
  <2>2. QED
    BY <1>2, <2>1, ComesKept
<1>4. ASSUME NEW b \in DOMAIN c, NEW k \in DOMAIN c[b] PROVE Right(t, q, d, v, r, b, k)
  <2>1. c[b] \in Seq(InstrType)
    OBVIOUS
  <2>2. k \in Nat /\ DOMAIN c[b] = 1..Len(c[b]) /\ Len(c[b]) \in Nat
    BY <2>1
  <2>3. Right(t, p, c, u, s, b, k) /\ Targets(c[b][k]) \subseteq DOMAIN c
    BY DEF Wired
  <2>4. QED
    BY <1>2, <2>2, <2>3, RightKept
<1>5. QED
  BY <1>3, <1>4 DEF Wired

-----------------------------------------------------------------------------
\* What a rule appends.

\* d is c with the instructions is at the end of block u and n new blocks.
Framed(c, u, is, n, d) ==
    /\ Len(c[u]) \in Nat /\ Len(is) \in Nat /\ DOMAIN d = 1..(Len(c) + n)
    /\ Len(d[u]) = Len(c[u]) + Len(is)
    /\ \A j \in 1..Len(is) : Len(c[u]) + j \in DOMAIN d[u] /\ d[u][Len(c[u]) + j] = is[j]
    /\ \A b \in DOMAIN d : \A k \in DOMAIN d[b] :
          \/ b \in DOMAIN c /\ k \in DOMAIN c[b]
          \/ b = u /\ \E j \in 1..Len(is) : k = Len(c[u]) + j
    /\ \A b \in DOMAIN c \ {u} : d[b] = c[b]
    /\ \A b \in DOMAIN d \ DOMAIN c : d[b] = <<>>

LEMMA WrittenIs ==
    ASSUME NEW c \in Seq(Seq(InstrType)), NEW u \in DOMAIN c, NEW is \in Seq(InstrType),
           NEW n \in Nat, NEW d, Written(c, u, is, n, d)
    PROVE  Extended(c, d) /\ Framed(c, u, is, n, d)
<1>1. c[u] \in Seq(InstrType)
  OBVIOUS
<1>2. /\ Len(c[u]) \in Nat /\ Len(is) \in Nat /\ DOMAIN c[u] = 1..Len(c[u])
      /\ Len(c[u] \o is) = Len(c[u]) + Len(is) /\ DOMAIN (c[u] \o is) = 1..(Len(c[u]) + Len(is))
      /\ \A i \in 1..Len(c[u]) : (c[u] \o is)[i] = c[u][i]
      /\ \A i \in 1..Len(is) : (c[u] \o is)[Len(c[u]) + i] = is[i]
  BY <1>1, Concat
<1>3. /\ Len(c) \in Nat /\ DOMAIN c = 1..Len(c) /\ DOMAIN d = 1..(Len(c) + n)
      /\ d[u] = c[u] \o is
      /\ \A b \in DOMAIN c \ {u} : d[b] = c[b]
      /\ \A b \in DOMAIN d \ DOMAIN c : d[b] = <<>>
  BY DEF Written
<1>4. DOMAIN c \subseteq DOMAIN d
  BY <1>3
<1>5. \A i \in DOMAIN c[u] : i \in DOMAIN d[u] /\ d[u][i] = c[u][i]
  BY <1>2, <1>3
<1>6. Extended(c, d)
  BY <1>3, <1>4, <1>5 DEF Extended
<1>7. \A j \in 1..Len(is) : Len(c[u]) + j \in DOMAIN d[u] /\ d[u][Len(c[u]) + j] = is[j]
  BY <1>2, <1>3
<1>8. ASSUME NEW b \in DOMAIN d, NEW k \in DOMAIN d[b]
      PROVE  \/ b \in DOMAIN c /\ k \in DOMAIN c[b]
             \/ b = u /\ \E j \in 1..Len(is) : k = Len(c[u]) + j
  <2>1. CASE b \in DOMAIN c \ {u}
    BY <1>3, <2>1
  <2>2. CASE b = u
    <3>1. k \in 1..(Len(c[u]) + Len(is))
      BY <1>2, <1>3, <2>2
    <3>2. k \in 1..Len(c[u]) \/ (k - Len(c[u]) \in 1..Len(is) /\ k = Len(c[u]) + (k - Len(c[u])))
      BY <1>2, <3>1
    <3>3. QED
      BY <1>2, <2>2, <3>2
  <2>3. CASE b \notin DOMAIN c
    <3>1. DOMAIN d[b] = {}
      BY <1>3, <2>3
    <3>2. QED
      BY <3>1
  <2>4. QED
    BY <2>1, <2>2, <2>3
<1>9. Len(d[u]) = Len(c[u]) + Len(is)
  BY <1>2, <1>3
<1>10. QED
  BY <1>2, <1>3, <1>6, <1>7, <1>8, <1>9 DEF Framed

LEMMA WiredFacts ==
    ASSUME SInv, XInv, phase \in {"parse", "head"}
    PROVE  /\ Nested /\ Wired(tool, prog, code, cur, open) /\ Dated(prog, code)
           /\ Len(prog) \in Nat /\ DOMAIN prog = 1..Len(prog) /\ prog \in Seq(Tokens)
           /\ code \in Seq(Seq(InstrType)) /\ cur \in DOMAIN code /\ 1 \in DOMAIN code
           /\ Len(code) \in Nat /\ DOMAIN code = 1..Len(code)
           /\ open \in Seq(Opened) /\ Len(open) \in Nat /\ DOMAIN open = 1..Len(open)
           /\ \A b \in DOMAIN code : \A k \in DOMAIN code[b] : Targets(code[b][k]) \subseteq DOMAIN code
           /\ \A k \in DOMAIN open : open[k].join # 0 =>
                 open[k].join \in DOMAIN code \ {cur}
           /\ \A k \in DOMAIN open : open[k].t = "while" => open[k].cond \in DOMAIN code
           /\ \A k \in DOMAIN open : open[k].t \in {"if", "while"}
<1>1. /\ prog \in Seq(Tokens) /\ code \in Seq(Seq(InstrType)) /\ cur \in 1..Len(code)
      /\ open \in Seq(Opened)
  BY DEF SInv, TypeOK, Opened
<1>2. Len(prog) \in Nat /\ DOMAIN prog = 1..Len(prog) /\ Len(code) \in Nat /\ DOMAIN code = 1..Len(code)
      /\ Len(open) \in Nat /\ DOMAIN open = 1..Len(open) /\ 1 \in DOMAIN code
  BY <1>1
<1>3. Nested /\ Wired(tool, prog, code, cur, open)
  BY DEF XInv, Alive, Standing
<1>4. Dated(prog, code)
  BY <1>2, <1>3, RightDated DEF Dated, Wired
<1>5. \A b \in DOMAIN code : \A k \in DOMAIN code[b] : Targets(code[b][k]) \subseteq DOMAIN code
  BY DEF SInv, Regular
<1>6. \A k \in DOMAIN open : /\ open[k].join # 0 => open[k].join \in DOMAIN code \ {cur}
                             /\ open[k].t = "while" => open[k].cond \in DOMAIN code
  BY DEF SInv, Shape
<1>7. \A k \in DOMAIN open : open[k] \in Opened
  BY <1>1, <1>2
<1>8. \A k \in DOMAIN open : open[k].t \in {"if", "while"}
  BY <1>7 DEF Opened
<1>9. QED
  BY <1>1, <1>2, <1>3, <1>4, <1>5, <1>6, <1>8

\* Instructions of the next statement, at the end of the block being written.
LEMMA NextEmitted ==
    ASSUME SInv, XInv, phase \in {"parse", "head"}, NEW is \in Seq(InstrType), NEW n \in Nat,
           NEW q, NEW d, NEW v, d = Emitted(is, n), Longer(prog, q), is # <<>>,
           \A j \in 1..Len(is) : is[j].loc = Len(prog) + 1
    PROVE  /\ Grows(prog, code, cur, q, d, v) /\ Dated(q, d) /\ Extended(code, d)
           /\ Framed(code, cur, is, n, d)
<1>1. /\ code \in Seq(Seq(InstrType)) /\ cur \in DOMAIN code /\ Dated(prog, code)
      /\ Len(prog) \in Nat
  BY WiredFacts, Zenon
<1>2. Written(code, cur, is, n, d)
  <2>1. Grown(code, cur, is, n, d)
    BY DEF Emitted, Grown
  <2>2. QED
    BY <1>1, <2>1, GrownIs
<1>3. Extended(code, d) /\ Framed(code, cur, is, n, d)
  BY <1>1, <1>2, WrittenIs
<1>4. /\ Len(code[cur]) \in Nat /\ Len(is) \in Nat
      /\ \A j \in 1..Len(is) : /\ Len(code[cur]) + j \in DOMAIN d[cur]
                               /\ d[cur][Len(code[cur]) + j] = is[j]
      /\ \A b \in DOMAIN d : \A k \in DOMAIN d[b] :
            \/ b \in DOMAIN code /\ k \in DOMAIN code[b]
            \/ b = cur /\ \E j \in 1..Len(is) : k = Len(code[cur]) + j
      /\ \A b \in DOMAIN code \ {cur} : d[b] = code[b]
      /\ \A b \in DOMAIN d \ DOMAIN code : d[b] = <<>>
  BY <1>3 DEF Framed
<1>5. Len(prog) \in Nat /\ Len(q) \in Nat /\ Len(prog) <= Len(q)
  BY DEF Longer
<1>6. Dated(q, d)
  <2>1. ASSUME NEW b \in DOMAIN d, NEW k \in DOMAIN d[b] PROVE d[b][k].loc \in 1..(Len(q) + 1)
    <3>1. CASE b \in DOMAIN code /\ k \in DOMAIN code[b]
      <4>1. d[b][k] = code[b][k] /\ code[b][k].loc \in 1..(Len(prog) + 1)
        BY <1>1, <1>3, <3>1 DEF Extended, Dated
      <4>2. QED
        BY <1>5, <4>1
    <3>2. CASE b = cur /\ \E j \in 1..Len(is) : k = Len(code[cur]) + j
      <4>1. d[b][k].loc = Len(prog) + 1
        BY <1>4, <3>2
      <4>2. QED
        BY <1>5, <4>1
    <3>3. QED
      BY <1>4, <3>1, <3>2
  <2>2. QED
    BY <2>1 DEF Dated
<1>7. Comes(q, d, v, cur, Len(code[cur]) + 1, Len(prog) + 1)
  <2>1. 1 \in 1..Len(is)
    <3>1. Len(is) # 0
      OBVIOUS
    <3>2. QED
      BY <1>4, <3>1
  <2>2. Len(code[cur]) + 1 \in DOMAIN d[cur] /\ d[cur][Len(code[cur]) + 1].loc = Len(prog) + 1
    BY <1>4, <2>1
  <2>3. Semis(q, Len(prog) + 1, (Len(prog) + 1) - 1)
    BY <1>5 DEF Semis
  <2>4. QED
    BY <1>5, <2>2, <2>3 DEF Comes
<1>8. Grows(prog, code, cur, q, d, v)
  BY <1>3, <1>7 DEF Grows
<1>9. QED
  BY <1>3, <1>6, <1>8

LEMMA LevelAppended ==
    ASSUME NEW p \in Seq(Tokens), NEW tok \in Tokens, NEW q, q = Append(p, tok)
    PROVE  /\ Src!Level(p, Len(p)) \in Int /\ Src!Level(q, Len(p) + 1) \in Int
           /\ tok.t \in {"if", "while"} => Src!Level(q, Len(p) + 1) = Src!Level(p, Len(p)) + 1
           /\ tok.t = "end" => Src!Level(q, Len(p) + 1) = Src!Level(p, Len(p)) - 1
           /\ tok.t \notin {"if", "while", "end"} =>
                 Src!Level(q, Len(p) + 1) = Src!Level(p, Len(p))
<1>1. Longer(p, q) /\ Len(p) \in Nat /\ q[Len(p) + 1] = tok
  BY AppendLonger
<1>2. Src!Level(q, Len(p)) = Src!Level(p, Len(p))
  BY <1>1, LongerIs
<1>3. Src!Level(p, Len(p)) \in Int /\ Src!Level(q, Len(p) + 1) \in Int
  BY <1>1, Counted0
<1>4. /\ q[Len(p) + 1].t \in {"if", "while"} => Src!Level(q, Len(p) + 1) = Src!Level(q, Len(p)) + 1
      /\ q[Len(p) + 1].t = "end" => Src!Level(q, Len(p) + 1) = Src!Level(q, Len(p)) - 1
      /\ q[Len(p) + 1].t \notin {"if", "while", "end"} =>
            Src!Level(q, Len(p) + 1) = Src!Level(q, Len(p))
  BY <1>1, LevelNext
<1>5. QED
  BY <1>1, <1>2, <1>3, <1>4

LEMMA OpensKept ==
    ASSUME NEW p, NEW q, Longer(p, q), NEW k \in Int, NEW o, OpensAt(p, k, o),
           Len(q) \in {Len(p), Len(p) + 1}, Src!Level(q, Len(q)) >= k
    PROVE  OpensAt(q, k, o)
<1>0. Len(p) \in Nat /\ Len(q) \in Nat /\ o \in DOMAIN p /\ DOMAIN p = 1..Len(p)
      /\ DOMAIN q = 1..Len(q) /\ Len(p) <= Len(q) /\ \A j \in 1..Len(p) : q[j] = p[j]
  BY DEF OpensAt, Longer
<1>1. /\ Len(p) \in Nat /\ o \in 1..Len(p) /\ o \in DOMAIN q /\ q[o] = p[o] /\ o \in 0..Len(p)
  <2>1. o \in 1..Len(p)
    BY <1>0
  <2>2. q[o] = p[o]
    BY <1>0, <2>1
  <2>3. o \in 1..Len(q) /\ o \in 0..Len(p)
    <3>1. Len(p) \in Nat /\ Len(q) \in Nat /\ Len(p) <= Len(q)
      BY <1>0
    <3>2. QED
      BY <2>1, <3>1
  <2>4. QED
    BY <1>0, <2>1, <2>2, <2>3
<1>2. Src!Level(q, o) = k /\ q[o].t \in {"if", "while"}
  BY <1>1, LongerIs DEF OpensAt
<1>3. ASSUME NEW j \in o..Len(q) PROVE Src!Level(q, j) >= k
  <2>1. CASE j = Len(q)
    BY <2>1
  <2>2. CASE j # Len(q)
    <3>1. j \in o..Len(p) /\ j \in 0..Len(p)
      BY <1>1, <2>2
    <3>2. QED
      BY <3>1, LongerIs DEF OpensAt
  <2>3. QED
    BY <2>1, <2>2
<1>4. QED
  BY <1>1, <1>2, <1>3 DEF OpensAt

\* A statement that opens, and one that is ended.
LEMMA OpensNow ==
    ASSUME NEW q, Len(q) \in Nat, Len(q) >= 1, DOMAIN q = 1..Len(q), q[Len(q)].t \in {"if", "while"},
           NEW k \in Int, Src!Level(q, Len(q)) = k
    PROVE  OpensAt(q, k, Len(q))
<1>1. Len(q)..Len(q) = {Len(q)} /\ Len(q) \in DOMAIN q
  OBVIOUS
<1>2. QED
  BY <1>1 DEF OpensAt

LEMMA EndsNow ==
    ASSUME NEW p, NEW q, Longer(p, q), Len(q) = Len(p) + 1, q[Len(q)].t = "end",
           NEW k \in Int, NEW o, OpensAt(p, k, o), Src!Level(q, Len(q)) = k - 1
    PROVE  Src!Encloses(q, o, Len(q)) /\ o \in DOMAIN q /\ q[o] = p[o]
<1>1. /\ Len(p) \in Nat /\ o \in 1..Len(p) /\ o \in DOMAIN q /\ q[o] = p[o] /\ o \in 0..Len(p)
  BY DEF OpensAt, Longer
<1>2. Src!Level(q, o) = k /\ q[o].t \in {"if", "while"}
  BY <1>1, LongerIs DEF OpensAt
<1>3. ASSUME NEW j \in o..(Len(q) - 1) PROVE Src!Level(q, j) >= k
  <2>1. j \in o..Len(p) /\ j \in 0..Len(p)
    BY <1>1
  <2>2. QED
    BY <2>1, LongerIs DEF OpensAt
<1>4. o < Len(q)
  BY <1>1
<1>5. QED
  BY <1>1, <1>2, <1>3, <1>4 DEF Src!Encloses

LEMMA AwaitedKept ==
    ASSUME NEW p, NEW c, NEW s, Awaited(p, c, s), NEW q, NEW d, Longer(p, q), Extended(c, d),
           Len(q) \in {Len(p), Len(p) + 1}, NEW k \in DOMAIN s, k \in Int, NEW x, x = s[k],
           x.join # 0, d[x.join] = c[x.join], Src!Level(q, Len(q)) >= k,
           x.t = "while" => x.cond \in DOMAIN c
    PROVE  /\ d[x.join] = <<>>
           /\ \E o \in DOMAIN q : /\ OpensAt(q, k, o) /\ q[o].t = x.t
                                  /\ x.t = "while" => Tests(d, x.cond, o)
<1>1. PICK o \in DOMAIN p : /\ OpensAt(p, k, o) /\ p[o].t = x.t
                            /\ x.t = "while" => Tests(c, x.cond, o)
  BY DEF Awaited
<1>2. OpensAt(q, k, o)
  BY <1>1, OpensKept
<1>3. o \in DOMAIN q /\ q[o].t = x.t
  BY <1>1, <1>2 DEF OpensAt, Longer
<1>4. x.t = "while" => Tests(d, x.cond, o)
  BY <1>1, TestsKept
<1>5. d[x.join] = <<>>
  BY DEF Awaited
<1>6. QED
  BY <1>2, <1>3, <1>4, <1>5

-----------------------------------------------------------------------------
\* The rules of the grammar.

LEMMA XKept ==
    ASSUME XInv, phase \in {"parse", "head"}, phase' \in {"parse", "head", "built"},
           UNCHANGED <<at, slots>>, Nested',
           Wired(tool', prog', code', IF phase' = "built" THEN 0 ELSE cur', open')
    PROVE  XInv'
<1>1. Standing' = IF phase' = "built" THEN 0 ELSE cur'
  BY DEF Standing
<1>2. Stored' /\ Unstarted'
  BY DEF Stored, Unstarted, XInv
<1>3. QED
  BY <1>1, <1>2 DEF XInv, Alive

LEMMA NestedKept ==
    ASSUME SInv, XInv, phase \in {"parse", "head"}, NEW tok \in Tokens,
           prog' = Append(prog, tok), phase' \in {"parse", "built"},
           map' = map \cup (IF tok.t = "assign" THEN {tok.var} ELSE {}),
           Len(open') \in Nat, Src!Level(prog', Len(prog) + 1) = Len(open'),
           Awaited(prog', code', open')
    PROVE  Nested'
<1>1. /\ Nested /\ prog \in Seq(Tokens) /\ Len(prog) \in Nat
  BY WiredFacts, Zenon
<1>2. /\ Longer(prog, prog') /\ Len(prog') = Len(prog) + 1 /\ prog'[Len(prog) + 1] = tok
      /\ DOMAIN prog = 1..Len(prog) /\ DOMAIN prog' = 1..Len(prog')
  BY <1>1, AppendLonger DEF Longer
<1>3. map' = Assigned(prog', Len(prog') + 1)
  <2>1. Len(prog) + 1 \in Nat /\ Len(prog) + 1 >= 1 /\ Len(prog) + 1 \in 1..(Len(prog) + 1)
    BY <1>1
  <2>2. Assigned(prog', Len(prog) + 1) = map
    BY <1>1, <1>2, <2>1, LongerIs DEF Nested
  <2>3. /\ tok.t = "assign" => Assigned(prog', (Len(prog) + 1) + 1) = map \cup {tok.var}
        /\ tok.t # "assign" => Assigned(prog', (Len(prog) + 1) + 1) = map
    BY <1>2, <2>1, <2>2, AssignedNext, ZenonT(60)
  <2>4. QED
    BY <1>2, <2>3
<1>4. ASSUME NEW j \in DOMAIN prog' PROVE Src!Level(prog', j) >= 0
  <2>1. CASE j = Len(prog) + 1
    BY <2>1
  <2>2. CASE j # Len(prog) + 1
    <3>1. j \in 1..Len(prog) /\ j \in 0..Len(prog)
      BY <1>1, <1>2, <2>2
    <3>2. Src!Level(prog', j) = Src!Level(prog, j)
      BY <1>2, <3>1, LongerIs
    <3>3. QED
      BY <1>1, <1>2, <3>1, <3>2 DEF Nested
  <2>3. QED
    BY <2>1, <2>2
<1>5. Src!Level(prog', Len(prog')) = Len(open') /\ phase' # "head"
  BY <1>2
<1>6. QED
  BY <1>3, <1>4, <1>5 DEF Nested

\* What comes at the end of an empty block that is being written, or of the
\* last statement's instructions: what is read next.
LEMMA ComesNext ==
    ASSUME NEW q, Len(q) \in Nat, NEW d, NEW v, NEW k, k = Len(d[v]) + 1
    PROVE  Comes(q, d, v, v, k, Len(q) + 1)
<1>1. Semis(q, Len(q) + 1, Len(q))
  BY DEF Semis
<1>2. QED
  BY <1>1 DEF Comes

\* Nothing that waits is touched by a rule inside it.
LEMMA HandsKept ==
    ASSUME SInv, XInv, phase \in {"parse", "head"}, NEW q, NEW d, NEW v, NEW r,
           Longer(prog, q), Len(q) \in {Len(prog), Len(prog) + 1},
           \A k \in DOMAIN open : open[k].join # 0 =>
              /\ k \in DOMAIN r /\ r[k] = open[k] /\ Src!Level(q, Len(q)) >= k,
           \A b \in DOMAIN code : Heads(open, b) =>
              /\ Len(q) = Len(prog) + 1 /\ q[Len(prog) + 1].t = "while"
              /\ Tests(d, b, Len(prog) + 1)
    PROVE  Hands(prog, code, cur, open, q, d, v, r)
<1>1. ASSUME NEW o \in DOMAIN prog, NEW e \in DOMAIN code, Waits(prog, open, e, o)
      PROVE  Waits(q, r, e, o)
  <2>1. PICK k \in DOMAIN open : open[k].join = e /\ OpensAt(prog, k, o)
    BY <1>1 DEF Waits
  <2>2. e # 0 /\ k \in Int
    <3>1. DOMAIN code = 1..Len(code) /\ DOMAIN open = 1..Len(open)
      BY WiredFacts, Zenon
    <3>2. QED
      BY <3>1
  <2>3. k \in DOMAIN r /\ r[k].join = e /\ Src!Level(q, Len(q)) >= k
    BY <2>1, <2>2
  <2>4. OpensAt(q, k, o)
    BY <2>1, <2>2, <2>3, OpensKept
  <2>5. QED
    BY <2>3, <2>4 DEF Waits
<1>2. QED
  BY <1>1 DEF Hands

LEMMA StillAwaited ==
    ASSUME SInv, XInv, phase \in {"parse", "head"}, NEW q, NEW d, Longer(prog, q),
           Len(q) \in {Len(prog), Len(prog) + 1}, Extended(code, d),
           \A b \in DOMAIN code \ {cur} : d[b] = code[b],
           NEW k \in DOMAIN open, open[k].join # 0, Src!Level(q, Len(q)) >= k
    PROVE  /\ d[open[k].join] = <<>>
           /\ \E o \in DOMAIN q : /\ OpensAt(q, k, o) /\ q[o].t = open[k].t
                                  /\ open[k].t = "while" => Tests(d, open[k].cond, o)
<1>1. /\ Nested /\ Len(open) \in Nat /\ DOMAIN open = 1..Len(open)
      /\ \A j \in DOMAIN open : open[j].join # 0 => open[j].join \in DOMAIN code \ {cur}
      /\ \A j \in DOMAIN open : open[j].t = "while" => open[j].cond \in DOMAIN code
  BY WiredFacts, Zenon
<1>2. PICK x : x = open[k]
  OBVIOUS
<1>3. d[x.join] = code[x.join] /\ x.join # 0 /\ (x.t = "while" => x.cond \in DOMAIN code)
  BY <1>1, <1>2
<1>4. k \in Int
  BY <1>1
<1>5. Awaited(prog, code, open)
  BY <1>1 DEF Nested
<1>6. /\ d[x.join] = <<>>
      /\ \E o \in DOMAIN q : /\ OpensAt(q, k, o) /\ q[o].t = x.t
                             /\ x.t = "while" => Tests(d, x.cond, o)
  BY <1>2, <1>3, <1>4, <1>5, AwaitedKept
<1>7. QED
  BY <1>2, <1>6

LEMMA AssignX ==
    ASSUME Src!SourceAssumption, SInv, XInv, NEW tok \in Tokens, Assign(tok)
    PROVE  XInv'
<1> DEFINE n == Len(prog) + 1
           K == Len(code[cur])
           a == [op |-> "alloca", var |-> tok.var, loc |-> Len(prog')]
           s == [op |-> "store", var |-> tok.var, val |-> Gen(tok.val), loc |-> Len(prog')]
           is == (IF tok.var \in map THEN <<>> ELSE <<a>>) \o <<s>>
<1>1. /\ phase = "parse" /\ phase' = "parse" /\ tok.t = "assign" /\ prog' = Append(prog, tok)
      /\ UNCHANGED <<tool, open, cur, at, slots>> /\ map' = map \cup {tok.var}
      /\ Src!VarsOf(tok.val) \subseteq map /\ code' = Emitted(is, 0)
  BY DEF Assign, Reduce, machine, Loads
<1>2. /\ Nested /\ Wired(tool, prog, code, cur, open)
      /\ Len(prog) \in Nat /\ prog \in Seq(Tokens)
      /\ code \in Seq(Seq(InstrType)) /\ cur \in DOMAIN code /\ 1 \in DOMAIN code
      /\ Len(open) \in Nat /\ DOMAIN open = 1..Len(open)
      /\ \A b \in DOMAIN code : \A k \in DOMAIN code[b] : Targets(code[b][k]) \subseteq DOMAIN code
      /\ \A k \in DOMAIN open : open[k].join # 0 => open[k].join \in DOMAIN code \ {cur}
      /\ \A k \in DOMAIN open : open[k].t = "while" => open[k].cond \in DOMAIN code
  BY <1>1, WiredFacts, Zenon
<1>3. /\ Longer(prog, prog') /\ Len(prog') = n /\ prog'[n] = tok /\ n \in Nat /\ n >= 1
      /\ DOMAIN prog' = 1..n
  BY <1>1, <1>2, AppendLonger DEF Longer
<1>4. tok.var \in Vars /\ tok.val \in Src!Exprs
  BY <1>1, TokenIs
<1>5. /\ a \in InstrType /\ a.op = "alloca" /\ a.loc = n /\ a.var = tok.var
      /\ s \in InstrType /\ s.op = "store" /\ s.loc = n /\ s.var = tok.var /\ s.val = Gen(tok.val)
  <2>1. Gen(tok.val) \in Src!Exprs
    BY <1>4, GenTyped
  <2>2. QED
    BY <1>3, <1>4, <2>1, InstrTyped
<1> HIDE DEF a, s
<1>6. /\ is \in Seq(InstrType) /\ Len(is) = IF tok.var \in map THEN 1 ELSE 2
      /\ is[Len(is)] = s /\ is # <<>>
      /\ tok.var \notin map => is[1] = a
  <2>1. <<s>> \in Seq(InstrType) /\ Len(<<s>>) = 1 /\ <<s>>[1] = s
    BY <1>5
  <2>2. CASE tok.var \in map
    <3>1. is = <<>> \o <<s>>
      BY <2>2
    <3>2. <<>> \in Seq(InstrType) /\ Len(<<>>) = 0
      OBVIOUS
    <3>3. Len(<<>> \o <<s>>) = 1 /\ (<<>> \o <<s>>)[1] = s /\ <<>> \o <<s>> \in Seq(InstrType)
      BY <2>1, <3>2, Concat
    <3> HIDE DEF is
    <3>4. QED
      BY <2>2, <3>1, <3>3
  <2>3. CASE tok.var \notin map
    <3>1. is = <<a>> \o <<s>>
      BY <2>3
    <3>2. <<a>> \in Seq(InstrType) /\ Len(<<a>>) = 1 /\ <<a>>[1] = a
      BY <1>5
    <3>3. Len(<<a>> \o <<s>>) = 2 /\ (<<a>> \o <<s>>)[1] = a /\ (<<a>> \o <<s>>)[2] = s
          /\ <<a>> \o <<s>> \in Seq(InstrType)
      BY <2>1, <3>2, Concat
    <3> HIDE DEF is
    <3>4. QED
      BY <2>3, <3>1, <3>3
  <2>4. QED
    BY <2>2, <2>3
<1> HIDE DEF is
<1>7. \A j \in 1..Len(is) : (j = Len(is) /\ is[j] = s)
                            \/ (j = 1 /\ Len(is) = 2 /\ tok.var \notin map /\ is[j] = a /\ is[2] = s)
  <2>1. ASSUME NEW j \in 1..Len(is), j # Len(is) PROVE j = 1 /\ Len(is) = 2 /\ tok.var \notin map
    BY <1>6, <2>1
  <2>2. QED
    BY <1>6, <2>1
<1>8. \A j \in 1..Len(is) : is[j].loc = n
  BY <1>5, <1>7
<1>9. /\ Grows(prog, code, cur, prog', code', cur) /\ Dated(prog', code') /\ Extended(code, code')
      /\ K \in Nat /\ Len(is) \in Nat
      /\ Len(code'[cur]) = K + Len(is)
      /\ \A j \in 1..Len(is) : K + j \in DOMAIN code'[cur] /\ code'[cur][K + j] = is[j]
      /\ \A b \in DOMAIN code' : \A k \in DOMAIN code'[b] :
            \/ b \in DOMAIN code /\ k \in DOMAIN code[b]
            \/ b = cur /\ \E j \in 1..Len(is) : k = K + j
      /\ \A b \in DOMAIN code \ {cur} : code'[b] = code[b]
  <2>1. 0 \in Nat /\ phase \in {"parse", "head"}
    BY <1>1
  <2>2. code' = Emitted(is, 0)
    BY <1>1
  <2>3. Longer(prog, prog')
    BY <1>3
  <2>4. is \in Seq(InstrType) /\ is # <<>>
    BY <1>6
  <2>5. \A j \in 1..Len(is) : is[j].loc = Len(prog) + 1
    BY <1>8
  <2>6. /\ Grows(prog, code, cur, prog', code', cur) /\ Dated(prog', code')
        /\ Extended(code, code') /\ Framed(code, cur, is, 0, code')
    BY <2>1, <2>2, <2>3, <2>4, <2>5, NextEmitted
  <2>7. QED
    BY <2>6 DEF Framed
<1> HIDE DEF K
<1>10. Src!Level(prog', n) = Len(open)
  BY <1>1, <1>2, LevelAppended DEF Nested
<1>11. Awaited(prog', code', open)
  <2>1. ASSUME NEW k \in DOMAIN open, open[k].join # 0
        PROVE  /\ code'[open[k].join] = <<>>
               /\ \E o \in DOMAIN prog' :
                     /\ OpensAt(prog', k, o) /\ prog'[o].t = open[k].t
                     /\ open[k].t = "while" => Tests(code', open[k].cond, o)
    <3>1. Src!Level(prog', Len(prog')) >= k
      BY <1>2, <1>3, <1>10
    <3>2. Len(prog') \in {Len(prog), Len(prog) + 1} /\ Longer(prog, prog')
      BY <1>3
    <3>3. Extended(code, code') /\ \A b \in DOMAIN code \ {cur} : code'[b] = code[b]
      BY <1>9
    <3>4. phase \in {"parse", "head"}
      BY <1>1
    <3>5. QED
      BY <2>1, <3>1, <3>2, <3>3, <3>4, StillAwaited
  <2>2. QED
    BY <2>1 DEF Awaited
<1>12. Nested'
  BY <1>1, <1>2, <1>10, <1>11, NestedKept
<1>13. Hands(prog, code, cur, open, prog', code', cur, open)
  <2>1. \A b : ~Heads(open, b)
    BY <1>1 DEF SInv, Shape, Heads
  <2>2. \A k \in DOMAIN open : Src!Level(prog', Len(prog')) >= k
    BY <1>2, <1>3, <1>10
  <2>3. QED
    BY <1>1, <1>3, <2>1, <2>2, HandsKept
<1>14. Assigned(prog', n) = map
  <2>1. n \in 1..(Len(prog) + 1)
    BY <1>3
  <2>2. QED
    BY <1>2, <1>3, <2>1, LongerIs DEF Nested
<1>15. RightStore(tool, prog', code', cur, cur, K + Len(is), s)
  <2>1. Uses(tool, prog', s)
    BY <1>1, <1>3, <1>5, <1>14 DEF Uses, Gen
  <2>2. tok.var \in map \/ (K + Len(is) > 1 /\ code'[cur][(K + Len(is)) - 1].op = "alloca")
    <3>1. ASSUME tok.var \notin map PROVE code'[cur][(K + Len(is)) - 1] = a /\ K + Len(is) > 1
      <4>1. Len(is) = 2 /\ is[1] = a /\ 1 \in 1..Len(is) /\ K \in Nat
        BY <1>6, <1>9, <3>1
      <4>2. (K + Len(is)) - 1 = K + 1 /\ K + Len(is) > 1
        BY <4>1
      <4>3. QED
        BY <1>9, <4>1, <4>2
    <3>2. QED
      BY <1>5, <3>1
  <2>3. Comes(prog', code', cur, cur, K + Len(is) + 1, n + 1)
    BY <1>3, <1>9, ComesNext
  <2>4. n \in DOMAIN prog' /\ prog'[n].t = "assign" /\ prog'[n].var = tok.var
    BY <1>1, <1>3
  <2>5. QED
    BY <1>5, <1>14, <2>1, <2>2, <2>3, <2>4 DEF RightStore
<1>16. ASSUME Len(is) = 2, tok.var \notin map, is[1] = a, is[2] = s
       PROVE  RightAlloca(prog', code', cur, K + 1, a)
  <2>1. 2 \in 1..Len(is) /\ (K + 1) + 1 = K + 2
    BY <1>9, <1>16
  <2>2. (K + 1) + 1 \in DOMAIN code'[cur] /\ code'[cur][(K + 1) + 1] = s
    BY <1>9, <1>16, <2>1
  <2>3. n \in DOMAIN prog' /\ prog'[n].t = "assign"
    BY <1>1, <1>3
  <2>4. QED
    BY <1>5, <1>14, <1>16, <2>2, <2>3 DEF RightAlloca
<1>17. ASSUME NEW b \in DOMAIN code', NEW k \in DOMAIN code'[b],
              ~(b \in DOMAIN code /\ k \in DOMAIN code[b])
       PROVE  Right(tool, prog', code', cur, open, b, k)
  <2>1. PICK j \in 1..Len(is) : b = cur /\ k = K + j
    BY <1>9, <1>17
  <2>2. code'[b][k] = is[j]
    BY <1>9, <2>1
  <2>3. CASE j = Len(is) /\ is[j] = s
    BY <1>15, <2>1, <2>2, <2>3 DEF Right
  <2>4. CASE j = 1 /\ Len(is) = 2 /\ tok.var \notin map /\ is[j] = a /\ is[2] = s
    BY <1>16, <2>1, <2>2, <2>4 DEF Right
  <2>5. QED
    BY <1>7, <2>3, <2>4
<1>18. Wired(tool, prog', code', cur, open)
  BY <1>2, <1>9, <1>13, <1>17, WiredKept
<1>19. QED
  BY <1>1, <1>12, <1>18, XKept

LEMMA NullX ==
    ASSUME Src!SourceAssumption, SInv, XInv, NEW tok \in Tokens, Null(tok)
    PROVE  XInv'
<1> DEFINE n == Len(prog) + 1
<1>1. /\ phase = "parse" /\ phase' = "parse" /\ tok.t = "semi" /\ prog' = Append(prog, tok)
      /\ UNCHANGED <<tool, open, cur, code, map, at, slots>>
  BY DEF Null, Reduce, machine
<1>2. /\ Nested /\ Wired(tool, prog, code, cur, open) /\ Dated(prog, code)
      /\ Len(prog) \in Nat /\ prog \in Seq(Tokens)
      /\ code \in Seq(Seq(InstrType)) /\ cur \in DOMAIN code /\ 1 \in DOMAIN code
      /\ Len(open) \in Nat /\ DOMAIN open = 1..Len(open)
      /\ \A b \in DOMAIN code : \A k \in DOMAIN code[b] : Targets(code[b][k]) \subseteq DOMAIN code
  BY <1>1, WiredFacts, Zenon
<1>3. /\ Longer(prog, prog') /\ Len(prog') = n /\ prog'[n] = tok /\ n \in Nat /\ n >= 1
      /\ DOMAIN prog' = 1..n
  BY <1>1, <1>2, AppendLonger DEF Longer
<1>4. Src!Level(prog', n) = Len(open)
  BY <1>1, <1>2, LevelAppended DEF Nested
<1>5. phase \in {"parse", "head"} /\ Len(prog') \in {Len(prog), Len(prog) + 1}
      /\ \A k \in DOMAIN open : Src!Level(prog', Len(prog')) >= k
  BY <1>1, <1>2, <1>3, <1>4
<1>6. Extended(code, code) /\ Dated(prog', code)
  <2>1. 1..(Len(prog) + 1) \subseteq 1..(Len(prog') + 1)
    BY <1>3
  <2>2. QED
    BY <1>2, <2>1 DEF Extended, Dated
<1>7. Comes(prog', code, cur, cur, Len(code[cur]) + 1, Len(prog) + 1)
  <2>1. Len(prog') = Len(prog) + 1 /\ Len(prog) + 1 <= Len(prog') + 1
    BY <1>3
  <2>2. (Len(prog) + 1)..Len(prog') = {n}
    BY <1>3
  <2>3. Semis(prog', Len(prog) + 1, Len(prog'))
    BY <1>1, <1>3, <2>2 DEF Semis
  <2>4. QED
    BY <2>1, <2>3 DEF Comes
<1>8. Grows(prog, code, cur, prog', code, cur)
  BY <1>3, <1>6, <1>7 DEF Grows
<1>9. Awaited(prog', code, open)
  <2>1. ASSUME NEW k \in DOMAIN open, open[k].join # 0
        PROVE  /\ code[open[k].join] = <<>>
               /\ \E o \in DOMAIN prog' :
                     /\ OpensAt(prog', k, o) /\ prog'[o].t = open[k].t
                     /\ open[k].t = "while" => Tests(code, open[k].cond, o)
    BY <1>3, <1>5, <1>6, <2>1, StillAwaited
  <2>2. QED
    BY <2>1 DEF Awaited
<1>10. Nested'
  BY <1>1, <1>2, <1>4, <1>9, NestedKept
<1>11. Hands(prog, code, cur, open, prog', code, cur, open)
  <2>1. \A b : ~Heads(open, b)
    BY <1>1 DEF SInv, Shape, Heads
  <2>2. QED
    BY <1>3, <1>5, <2>1, HandsKept
<1>12. Wired(tool, prog', code, cur, open)
  BY <1>2, <1>6, <1>8, <1>11, WiredKept
<1>13. QED
  BY <1>1, <1>10, <1>12, XKept

\* One instruction, which ends the block, and n new blocks.
OneFramed(c, u, x, n, d) ==
    /\ Len(c[u]) \in Nat /\ DOMAIN d = 1..(Len(c) + n)
    /\ Len(c[u]) + 1 \in DOMAIN d[u] /\ d[u][Len(c[u]) + 1] = x
    /\ \A b \in DOMAIN d : \A k \in DOMAIN d[b] :
          (b \in DOMAIN c /\ k \in DOMAIN c[b]) \/ (b = u /\ k = Len(c[u]) + 1)
    /\ \A b \in DOMAIN c \ {u} : d[b] = c[b]
    /\ \A b \in DOMAIN d \ DOMAIN c : d[b] = <<>>

LEMMA OneEmitted ==
    ASSUME SInv, XInv, phase \in {"parse", "head"}, NEW x \in InstrType, NEW n \in Nat,
           NEW q, NEW d, NEW v, d = Emitted(<<x>>, n), Longer(prog, q), x.loc = Len(prog) + 1
    PROVE  /\ Grows(prog, code, cur, q, d, v) /\ Dated(q, d) /\ Extended(code, d)
           /\ OneFramed(code, cur, x, n, d)
<1> DEFINE is == <<x>>
<1>1. is \in Seq(InstrType) /\ Len(is) = 1 /\ is[1] = x /\ is # <<>> /\ 1..Len(is) = {1}
  OBVIOUS
<1>2. d = Emitted(is, n)
  OBVIOUS
<1> HIDE DEF is
<1>3. \A j \in 1..Len(is) : is[j].loc = Len(prog) + 1
  BY <1>1
<1>4. is \in Seq(InstrType) /\ is # <<>>
  BY <1>1
<1>5. /\ Grows(prog, code, cur, q, d, v) /\ Dated(q, d) /\ Extended(code, d)
      /\ Framed(code, cur, is, n, d)
  BY <1>2, <1>3, <1>4, NextEmitted
<1>6. OneFramed(code, cur, x, n, d)
  BY <1>1, <1>5 DEF Framed, OneFramed
<1>7. QED
  BY <1>5, <1>6

LEMMA OneWired ==
    ASSUME SInv, XInv, phase \in {"parse", "head"}, NEW x \in InstrType, NEW n \in Nat,
           NEW q, NEW d, NEW v, NEW r, d = Emitted(<<x>>, n), Longer(prog, q),
           x.loc = Len(prog) + 1, Hands(prog, code, cur, open, q, d, v, r),
           \/ RightTest(tool, q, d, v, r, x) \/ RightHead(q, d, r, x)
           \/ RightEnd(tool, q, d, v, x) \/ RightRet(tool, q, x)
    PROVE  Wired(tool, q, d, v, r)
<1>1. /\ Wired(tool, prog, code, cur, open)
      /\ code \in Seq(Seq(InstrType)) /\ 1 \in DOMAIN code
      /\ \A b \in DOMAIN code : \A k \in DOMAIN code[b] : Targets(code[b][k]) \subseteq DOMAIN code
  BY WiredFacts, Zenon
<1>2. Grows(prog, code, cur, q, d, v) /\ Dated(q, d) /\ OneFramed(code, cur, x, n, d)
  BY OneEmitted
<1>3. Right(tool, q, d, v, r, cur, Len(code[cur]) + 1)
  BY <1>2 DEF Right, OneFramed
<1>4. ASSUME NEW b \in DOMAIN d, NEW k \in DOMAIN d[b]
      PROVE  (b \in DOMAIN code /\ k \in DOMAIN code[b]) \/ Right(tool, q, d, v, r, b, k)
  BY <1>2, <1>3 DEF OneFramed
<1>5. QED
  BY <1>1, <1>2, <1>4, WiredKept

LEMMA IfX ==
    ASSUME Src!SourceAssumption, SInv, XInv, NEW tok \in Tokens, If(tok)
    PROVE  XInv'
<1> DEFINE n == Len(prog) + 1
           L == Len(code)
           m == Len(open)
           o == [t |-> "if", cond |-> 0, join |-> L + 2]
           x == [op |-> "condbr", val |-> Gen(tok.val), then |-> L + 1, else |-> L + 2,
                 loc |-> Len(prog')]
<1>1. /\ phase = "parse" /\ phase' = "parse" /\ tok.t = "if" /\ prog' = Append(prog, tok)
      /\ UNCHANGED <<tool, map, at, slots>> /\ Src!VarsOf(tok.val) \subseteq map
      /\ cur' = L + 1 /\ open' = Append(open, o) /\ code' = Emitted(<<x>>, 2)
  BY DEF If, Reduce, machine, Branches, Loads
<1>2. /\ Nested /\ Len(prog) \in Nat /\ prog \in Seq(Tokens)
      /\ L \in Nat /\ DOMAIN code = 1..L
      /\ open \in Seq(Opened) /\ m \in Nat /\ DOMAIN open = 1..m
  BY <1>1, WiredFacts, Zenon
<1>3. /\ Longer(prog, prog') /\ Len(prog') = n /\ prog'[n] = tok /\ n \in Nat /\ n >= 1
      /\ DOMAIN prog' = 1..n
  BY <1>1, <1>2, AppendLonger DEF Longer
<1>4. x \in InstrType /\ x.op = "condbr" /\ x.loc = n /\ x.val = Gen(tok.val)
      /\ x.then = L + 1 /\ x.else = L + 2
  <2>1. Gen(tok.val) \in Src!Exprs
    BY <1>1, TokenIs, GenTyped
  <2>2. L + 1 \in Nat /\ L + 2 \in Nat /\ Len(prog') \in Nat /\ Len(prog') = n
    BY <1>2, <1>3
  <2>3. QED
    BY <2>1, <2>2 DEF InstrType
<1>5. o \in Opened /\ o.join = L + 2 /\ o.t = "if"
  BY <1>2 DEF Opened
<1> HIDE DEF x, o
<1>6. /\ Len(open') = m + 1 /\ DOMAIN open' = 1..(m + 1) /\ open'[m + 1] = o
      /\ \A k \in 1..m : open'[k] = open[k]
  BY <1>1, <1>2, <1>5, AppendIs
<1>7. phase \in {"parse", "head"} /\ 2 \in Nat /\ Len(prog') \in {Len(prog), Len(prog) + 1}
  BY <1>1, <1>3
<1>8. /\ Extended(code, code') /\ OneFramed(code, cur, x, 2, code')
  BY <1>1, <1>3, <1>4, <1>7, OneEmitted
<1>9. /\ \A b \in DOMAIN code \ {cur} : code'[b] = code[b]
      /\ code'[L + 1] = <<>> /\ code'[L + 2] = <<>>
  <2>1. {L + 1, L + 2} \subseteq 1..(L + 2) /\ L + 1 \notin 1..L /\ L + 2 \notin 1..L
    BY <1>2
  <2>2. QED
    BY <1>2, <1>8, <2>1 DEF OneFramed
<1>10. Src!Level(prog', n) = m + 1
  BY <1>1, <1>2, LevelAppended DEF Nested
<1>11. \A k \in DOMAIN open : Src!Level(prog', Len(prog')) >= k
  BY <1>2, <1>3, <1>10
<1>12. OpensAt(prog', m + 1, n)
  <2>1. m + 1 \in Int /\ prog'[n].t \in {"if", "while"}
    BY <1>1, <1>2, <1>3
  <2>2. QED
    BY <1>3, <1>10, <2>1, OpensNow
<1>13. Awaited(prog', code', open')
  <2>1. ASSUME NEW k \in DOMAIN open', open'[k].join # 0
        PROVE  /\ code'[open'[k].join] = <<>>
               /\ \E y \in DOMAIN prog' :
                     /\ OpensAt(prog', k, y) /\ prog'[y].t = open'[k].t
                     /\ open'[k].t = "while" => Tests(code', open'[k].cond, y)
    <3>1. CASE k = m + 1
      <4>1. n \in DOMAIN prog' /\ prog'[n].t = "if"
        BY <1>1, <1>3
      <4>2. QED
        BY <1>5, <1>6, <1>9, <1>12, <3>1, <4>1
    <3>2. CASE k # m + 1
      <4>1. k \in DOMAIN open /\ open'[k] = open[k]
        BY <1>2, <1>6, <3>2
      <4>2. Src!Level(prog', Len(prog')) >= k /\ open[k].join # 0
        BY <1>11, <2>1, <4>1
      <4>3. /\ code'[open[k].join] = <<>>
            /\ \E y \in DOMAIN prog' :
                  /\ OpensAt(prog', k, y) /\ prog'[y].t = open[k].t
                  /\ open[k].t = "while" => Tests(code', open[k].cond, y)
        BY <1>3, <1>7, <1>8, <1>9, <4>1, <4>2, StillAwaited
      <4>4. QED
        BY <4>1, <4>3
    <3>3. QED
      BY <3>1, <3>2
  <2>2. QED
    BY <2>1 DEF Awaited
<1>14. Nested'
  <2>1. Len(open') \in Nat /\ Src!Level(prog', Len(prog) + 1) = Len(open')
    BY <1>2, <1>6, <1>10
  <2>2. map' = map \cup (IF tok.t = "assign" THEN {tok.var} ELSE {})
    BY <1>1
  <2>3. QED
    BY <1>1, <1>7, <1>13, <2>1, <2>2, NestedKept
<1>15. Hands(prog, code, cur, open, prog', code', L + 1, open')
  <2>1. \A b : ~Heads(open, b)
    BY <1>1 DEF SInv, Shape, Heads
  <2>2. \A k \in DOMAIN open : k \in DOMAIN open' /\ open'[k] = open[k]
    BY <1>2, <1>6
  <2>3. QED
    BY <1>3, <1>7, <1>11, <2>1, <2>2, HandsKept
<1>16. RightTest(tool, prog', code', L + 1, open', x)
  <2>1. Uses(tool, prog', x)
    <3>1. n \in 1..(Len(prog) + 1)
      BY <1>3
    <3>2. Assigned(prog', n) = map
      BY <1>2, <1>3, <3>1, LongerIs DEF Nested
    <3>3. QED
      BY <1>1, <1>3, <1>4, <3>2 DEF Uses, Gen
  <2>2. Comes(prog', code', L + 1, L + 1, 1, n + 1)
    <3>1. 1 = Len(code'[L + 1]) + 1
      BY <1>9
    <3>2. QED
      BY <1>3, <3>1, ComesNext
  <2>3. Waits(prog', open', L + 2, n)
    <3>1. m + 1 \in DOMAIN open' /\ open'[m + 1].join = L + 2
      BY <1>2, <1>5, <1>6
    <3>2. QED
      BY <1>12, <3>1 DEF Waits
  <2>4. n \in DOMAIN prog' /\ prog'[n].t \in {"if", "while"}
    BY <1>1, <1>3
  <2>5. QED
    BY <1>4, <2>1, <2>2, <2>3, <2>4 DEF RightTest
<1>17. Wired(tool, prog', code', L + 1, open')
  BY <1>1, <1>3, <1>4, <1>7, <1>15, <1>16, OneWired
<1>18. QED
  BY <1>1, <1>14, <1>17, XKept

LEMMA WhileHeadX ==
    ASSUME Src!SourceAssumption, SInv, XInv, WhileHead
    PROVE  XInv'
<1> DEFINE L == Len(code)
           m == Len(open)
           o == [t |-> "while", cond |-> L + 1, join |-> 0]
           x == [op |-> "br", to |-> L + 1, loc |-> Len(prog) + 1]
<1>1. /\ phase = "parse" /\ phase' = "head" /\ UNCHANGED <<tool, prog, map, at, slots>>
      /\ cur' = L + 1 /\ open' = Append(open, o) /\ code' = Emitted(<<x>>, 1)
  BY DEF WhileHead, machine
<1>2. /\ Nested /\ Len(prog) \in Nat /\ prog \in Seq(Tokens) /\ DOMAIN prog = 1..Len(prog)
      /\ L \in Nat /\ DOMAIN code = 1..L
      /\ open \in Seq(Opened) /\ m \in Nat /\ DOMAIN open = 1..m
  BY <1>1, WiredFacts, Zenon
<1>3. Longer(prog, prog)
  BY <1>2 DEF Longer
<1>4. x \in InstrType /\ x.op = "br" /\ x.loc = Len(prog) + 1 /\ x.to = L + 1
  <2>1. L + 1 \in Nat /\ Len(prog) + 1 \in Nat
    BY <1>2
  <2>2. QED
    BY <2>1 DEF InstrType
<1>5. o \in Opened /\ o.join = 0 /\ o.t = "while" /\ o.cond = L + 1
  BY <1>2 DEF Opened
<1> HIDE DEF x, o
<1>6. /\ Len(open') = m + 1 /\ DOMAIN open' = 1..(m + 1) /\ open'[m + 1] = o
      /\ \A k \in 1..m : open'[k] = open[k]
  BY <1>1, <1>2, <1>5, AppendIs
<1>7. phase \in {"parse", "head"} /\ 1 \in Nat /\ Len(prog) \in {Len(prog), Len(prog) + 1}
  BY <1>1
<1>8. /\ Extended(code, code') /\ OneFramed(code, cur, x, 1, code')
  BY <1>1, <1>3, <1>4, <1>7, OneEmitted
<1>9. /\ \A b \in DOMAIN code \ {cur} : code'[b] = code[b]
      /\ code'[L + 1] = <<>>
  <2>1. L + 1 \in 1..(L + 1) /\ L + 1 \notin 1..L
    BY <1>2
  <2>2. QED
    BY <1>2, <1>8, <2>1 DEF OneFramed
<1>10. Src!Level(prog, Len(prog)) = m /\ \A k \in DOMAIN open : Src!Level(prog, Len(prog)) >= k
  BY <1>1, <1>2 DEF Nested
<1>11. Awaited(prog, code', open')
  <2>1. ASSUME NEW k \in DOMAIN open', open'[k].join # 0
        PROVE  /\ code'[open'[k].join] = <<>>
               /\ \E y \in DOMAIN prog :
                     /\ OpensAt(prog, k, y) /\ prog[y].t = open'[k].t
                     /\ open'[k].t = "while" => Tests(code', open'[k].cond, y)
    <3>1. k # m + 1
      BY <1>5, <1>6, <2>1
    <3>2. k \in DOMAIN open /\ open'[k] = open[k]
      BY <1>2, <1>6, <3>1
    <3>3. open[k].join # 0 /\ Src!Level(prog, Len(prog)) >= k
      BY <1>10, <2>1, <3>2
    <3>4. /\ code'[open[k].join] = <<>>
          /\ \E y \in DOMAIN prog :
                /\ OpensAt(prog, k, y) /\ prog[y].t = open[k].t
                /\ open[k].t = "while" => Tests(code', open[k].cond, y)
      BY <1>3, <1>7, <1>8, <1>9, <3>2, <3>3, StillAwaited
    <3>5. QED
      BY <3>2, <3>4
  <2>2. QED
    BY <2>1 DEF Awaited
<1>12. Nested'
  <2>1. Top'.cond = cur' /\ code'[cur'] = <<>>
    BY <1>1, <1>5, <1>6, <1>9 DEF Top
  <2>2. Src!Level(prog, Len(prog)) = Len(open') - 1
    BY <1>2, <1>6, <1>10
  <2>3. map = Assigned(prog, Len(prog) + 1) /\ \A j \in DOMAIN prog : Src!Level(prog, j) >= 0
    BY <1>2 DEF Nested
  <2>4. QED
    BY <1>1, <1>11, <2>1, <2>2, <2>3 DEF Nested
<1>13. Hands(prog, code, cur, open, prog, code', L + 1, open')
  <2>1. \A b : ~Heads(open, b)
    BY <1>1 DEF SInv, Shape, Heads
  <2>2. \A k \in DOMAIN open : k \in DOMAIN open' /\ open'[k] = open[k]
    BY <1>2, <1>6
  <2>3. QED
    BY <1>3, <1>7, <1>10, <2>1, <2>2, HandsKept
<1>14. RightHead(prog, code', open', x)
  <2>1. m + 1 \in DOMAIN open' /\ open'[m + 1].join = 0 /\ open'[m + 1].cond = L + 1
    BY <1>2, <1>5, <1>6
  <2>2. Heads(open', x.to)
    BY <1>4, <2>1 DEF Heads
  <2>3. QED
    BY <1>4, <2>2 DEF RightHead
<1>15. Wired(tool, prog, code', L + 1, open')
  BY <1>1, <1>3, <1>4, <1>7, <1>13, <1>14, OneWired
<1>16. QED
  BY <1>1, <1>12, <1>15, XKept

LEMMA WhileBodyX ==
    ASSUME Src!SourceAssumption, SInv, XInv, NEW tok \in Tokens, WhileBody(tok)
    PROVE  XInv'
<1> DEFINE n == Len(prog) + 1
           L == Len(code)
           m == Len(open)
           x == [op |-> "condbr", val |-> Gen(tok.val), then |-> L + 1, else |-> L + 2,
                 loc |-> Len(prog')]
<1>1. /\ phase = "head" /\ phase' = "parse" /\ tok.t = "while" /\ prog' = Append(prog, tok)
      /\ UNCHANGED <<tool, map, at, slots>> /\ Src!VarsOf(tok.val) \subseteq map
      /\ cur' = L + 1 /\ open' = [open EXCEPT ![m].join = L + 2] /\ code' = Emitted(<<x>>, 2)
  BY DEF WhileBody, Reduce, machine, Branches, Loads, Remember
<1>2. /\ Nested /\ Len(prog) \in Nat /\ prog \in Seq(Tokens)
      /\ L \in Nat /\ DOMAIN code = 1..L /\ cur \in DOMAIN code
      /\ open \in Seq(Opened) /\ m \in Nat /\ DOMAIN open = 1..m
  BY <1>1, WiredFacts, Zenon
<1>3. /\ Longer(prog, prog') /\ Len(prog') = n /\ prog'[n] = tok /\ n \in Nat /\ n >= 1
      /\ DOMAIN prog' = 1..n
  BY <1>1, <1>2, AppendLonger DEF Longer
<1>4. x \in InstrType /\ x.op = "condbr" /\ x.loc = n /\ x.val = Gen(tok.val)
      /\ x.then = L + 1 /\ x.else = L + 2
  <2>1. Gen(tok.val) \in Src!Exprs
    BY <1>1, TokenIs, GenTyped
  <2>2. L + 1 \in Nat /\ L + 2 \in Nat /\ Len(prog') \in Nat /\ Len(prog') = n
    BY <1>2, <1>3
  <2>3. QED
    BY <2>1, <2>2 DEF InstrType
<1> HIDE DEF x
<1>5. /\ m \in DOMAIN open /\ open[m] = Top /\ Top.t = "while" /\ Top.join = 0
      /\ Top.cond = cur /\ code[cur] = <<>>
      /\ \A k \in DOMAIN open : open[k].join = 0 => k = m
  <2>1. open # <<>> /\ Top.t = "while" /\ Top.join = 0
        /\ \A k \in DOMAIN open : open[k].join = 0 => k = m
    BY <1>1 DEF SInv, Shape
  <2>2. m \in DOMAIN open
    BY <1>2, <2>1
  <2>3. Top.cond = cur /\ code[cur] = <<>>
    BY <1>1, <1>2 DEF Nested
  <2>4. QED
    BY <2>1, <2>2, <2>3 DEF Top
<1>6. /\ Len(open') = m /\ DOMAIN open' = 1..m
      /\ \A k \in 1..m : k # m => open'[k] = open[k]
      /\ open'[m].join = L + 2 /\ open'[m].t = "while" /\ open'[m].cond = cur
  <2>1. open[m] \in Opened /\ open[m].t = "while" /\ open[m].cond = cur
    BY <1>2, <1>5
  <2>2. /\ Len(open') = m /\ DOMAIN open' = 1..m
        /\ \A k \in 1..m : k # m => open'[k] = open[k]
        /\ open'[m] = [open[m] EXCEPT !.join = L + 2]
    BY <1>1, <1>2, <1>5
  <2>3. [open[m] EXCEPT !.join = L + 2].join = L + 2
        /\ [open[m] EXCEPT !.join = L + 2].t = "while"
        /\ [open[m] EXCEPT !.join = L + 2].cond = cur
    BY <2>1 DEF Opened
  <2>4. QED
    BY <2>2, <2>3
<1>7. phase \in {"parse", "head"} /\ 2 \in Nat /\ Len(prog') \in {Len(prog), Len(prog) + 1}
  BY <1>1, <1>3
<1>8. /\ Extended(code, code') /\ OneFramed(code, cur, x, 2, code')
  BY <1>1, <1>3, <1>4, <1>7, OneEmitted
<1>9. /\ \A b \in DOMAIN code \ {cur} : code'[b] = code[b]
      /\ code'[L + 1] = <<>> /\ code'[L + 2] = <<>>
  <2>1. {L + 1, L + 2} \subseteq 1..(L + 2) /\ L + 1 \notin 1..L /\ L + 2 \notin 1..L
    BY <1>2
  <2>2. QED
    BY <1>2, <1>8, <2>1 DEF OneFramed
<1>10. Src!Level(prog', n) = m
  <2>1. Src!Level(prog, Len(prog)) = m - 1
    BY <1>1, <1>2 DEF Nested
  <2>2. Src!Level(prog', n) = Src!Level(prog, Len(prog)) + 1
    BY <1>1, <1>2, LevelAppended
  <2>3. QED
    BY <1>2, <2>1, <2>2
<1>11. \A k \in DOMAIN open : Src!Level(prog', Len(prog')) >= k
  BY <1>2, <1>3, <1>10
<1>12. OpensAt(prog', m, n)
  <2>1. m \in Int /\ prog'[n].t \in {"if", "while"}
    BY <1>1, <1>2, <1>3
  <2>2. QED
    BY <1>3, <1>10, <2>1, OpensNow
<1>13. Tests(code', cur, n)
  <2>1. Len(code[cur]) + 1 = 1
    BY <1>5
  <2>2. QED
    BY <1>4, <1>8, <2>1 DEF Tests, OneFramed
<1>14. Awaited(prog', code', open')
  <2>1. ASSUME NEW k \in DOMAIN open', open'[k].join # 0
        PROVE  /\ code'[open'[k].join] = <<>>
               /\ \E y \in DOMAIN prog' :
                     /\ OpensAt(prog', k, y) /\ prog'[y].t = open'[k].t
                     /\ open'[k].t = "while" => Tests(code', open'[k].cond, y)
    <3>1. CASE k = m
      <4>1. n \in DOMAIN prog' /\ prog'[n].t = "while"
        BY <1>1, <1>3
      <4>2. QED
        BY <1>6, <1>9, <1>12, <1>13, <3>1, <4>1
    <3>2. CASE k # m
      <4>1. k \in DOMAIN open /\ open'[k] = open[k]
        BY <1>2, <1>6, <3>2
      <4>2. Src!Level(prog', Len(prog')) >= k /\ open[k].join # 0
        BY <1>11, <2>1, <4>1
      <4>3. /\ code'[open[k].join] = <<>>
            /\ \E y \in DOMAIN prog' :
                  /\ OpensAt(prog', k, y) /\ prog'[y].t = open[k].t
                  /\ open[k].t = "while" => Tests(code', open[k].cond, y)
        BY <1>3, <1>7, <1>8, <1>9, <4>1, <4>2, StillAwaited
      <4>4. QED
        BY <4>1, <4>3
    <3>3. QED
      BY <3>1, <3>2
  <2>2. QED
    BY <2>1 DEF Awaited
<1>15. Nested'
  <2>1. Len(open') \in Nat /\ Src!Level(prog', Len(prog) + 1) = Len(open')
    BY <1>2, <1>6, <1>10
  <2>2. map' = map \cup (IF tok.t = "assign" THEN {tok.var} ELSE {})
    BY <1>1
  <2>3. QED
    BY <1>1, <1>7, <1>14, <2>1, <2>2, NestedKept
<1>16. Hands(prog, code, cur, open, prog', code', L + 1, open')
  <2>1. ASSUME NEW b \in DOMAIN code, Heads(open, b)
        PROVE  /\ Len(prog') = Len(prog) + 1 /\ prog'[Len(prog) + 1].t = "while"
               /\ Tests(code', b, Len(prog) + 1)
    <3>1. b = cur
      BY <1>5, <2>1 DEF Heads
    <3>2. QED
      BY <1>1, <1>3, <1>13, <3>1
  <2>2. ASSUME NEW k \in DOMAIN open, open[k].join # 0
        PROVE  k \in DOMAIN open' /\ open'[k] = open[k] /\ Src!Level(prog', Len(prog')) >= k
    <3>1. k # m
      BY <1>5, <2>2
    <3>2. QED
      BY <1>2, <1>6, <1>11, <3>1
  <2>3. QED
    BY <1>3, <1>7, <2>1, <2>2, HandsKept
<1>17. RightTest(tool, prog', code', L + 1, open', x)
  <2>1. Uses(tool, prog', x)
    <3>1. n \in 1..(Len(prog) + 1)
      BY <1>3
    <3>2. Assigned(prog', n) = map
      BY <1>2, <1>3, <3>1, LongerIs DEF Nested
    <3>3. QED
      BY <1>1, <1>3, <1>4, <3>2 DEF Uses, Gen
  <2>2. Comes(prog', code', L + 1, L + 1, 1, n + 1)
    <3>1. 1 = Len(code'[L + 1]) + 1
      BY <1>9
    <3>2. QED
      BY <1>3, <3>1, ComesNext
  <2>3. Waits(prog', open', L + 2, n)
    <3>1. m \in DOMAIN open' /\ open'[m].join = L + 2
      BY <1>2, <1>5, <1>6
    <3>2. QED
      BY <1>12, <3>1 DEF Waits
  <2>4. n \in DOMAIN prog' /\ prog'[n].t \in {"if", "while"}
    BY <1>1, <1>3
  <2>5. QED
    BY <1>4, <2>1, <2>2, <2>3, <2>4 DEF RightTest
<1>18. Wired(tool, prog', code', L + 1, open')
  BY <1>1, <1>3, <1>4, <1>7, <1>16, <1>17, OneWired
<1>19. QED
  BY <1>1, <1>15, <1>18, XKept

LEMMA EndX ==
    ASSUME Src!SourceAssumption, SInv, XInv, NEW tok \in Tokens, End(tok)
    PROVE  XInv'
<1> DEFINE n == Len(prog) + 1
           L == Len(code)
           m == Len(open)
           J == Top.join
           to == IF Top.t = "if" THEN J ELSE BackTo(Top)
           x == [op |-> "br", to |-> to, loc |-> Len(prog')]
<1>1. /\ phase = "parse" /\ phase' = "parse" /\ tok.t = "end" /\ prog' = Append(prog, tok)
      /\ UNCHANGED <<tool, map, at, slots>> /\ open # <<>>
      /\ cur' = J /\ open' = SubSeq(open, 1, m - 1) /\ code' = Emitted(<<x>>, 0)
  BY DEF End, Reduce, machine, EndBranch, Pop
<1>2. /\ Nested /\ Len(prog) \in Nat /\ prog \in Seq(Tokens)
      /\ L \in Nat /\ DOMAIN code = 1..L
      /\ open \in Seq(Opened) /\ m \in Nat /\ DOMAIN open = 1..m
      /\ \A k \in DOMAIN open : open[k].join # 0 => open[k].join \in DOMAIN code \ {cur}
      /\ \A k \in DOMAIN open : open[k].t = "while" => open[k].cond \in DOMAIN code
      /\ \A k \in DOMAIN open : open[k].t \in {"if", "while"}
  BY <1>1, WiredFacts, Zenon
<1>3. /\ Longer(prog, prog') /\ Len(prog') = n /\ prog'[n] = tok /\ n \in Nat /\ n >= 1
      /\ DOMAIN prog' = 1..n
  BY <1>1, <1>2, AppendLonger DEF Longer
<1>4. /\ m \in DOMAIN open /\ m >= 1 /\ open[m] = Top /\ J # 0 /\ J \in DOMAIN code \ {cur}
      /\ Top.t \in {"if", "while"} /\ (Top.t = "while" => Top.cond \in DOMAIN code)
  <2>1. m \in DOMAIN open /\ m >= 1
    BY <1>1, <1>2
  <2>2. open[m] = Top
    BY DEF Top
  <2>3. open[m].join # 0
    BY <1>1, <2>1 DEF SInv, Shape
  <2>4. QED
    BY <1>2, <2>1, <2>2, <2>3
<1>5. \A k \in DOMAIN open : open[k].join # 0
  BY <1>1 DEF SInv, Shape
<1>6. /\ Len(open') = m - 1 /\ DOMAIN open' = 1..(m - 1)
      /\ \A k \in 1..(m - 1) : open'[k] = open[k]
  BY <1>1, <1>2, <1>4
<1>7. x \in InstrType /\ x.op = "br" /\ x.loc = n /\ x.to = to
  <2>1. to \in DOMAIN code
    BY <1>4 DEF BackTo
  <2>2. to \in Nat /\ Len(prog') \in Nat /\ Len(prog') = n
    BY <1>2, <1>3, <2>1
  <2> HIDE DEF to
  <2>3. QED
    BY <2>2 DEF InstrType
<1> HIDE DEF x
<1>8. phase \in {"parse", "head"} /\ 0 \in Nat /\ Len(prog') \in {Len(prog), Len(prog) + 1}
  BY <1>1, <1>3
<1>9. /\ Grows(prog, code, cur, prog', code', J)
      /\ Extended(code, code') /\ OneFramed(code, cur, x, 0, code')
  BY <1>1, <1>3, <1>7, <1>8, OneEmitted
<1>10. \A b \in DOMAIN code \ {cur} : code'[b] = code[b]
  BY <1>9 DEF OneFramed
<1>11. Src!Level(prog', n) = m - 1
  <2>1. Src!Level(prog, Len(prog)) = m
    BY <1>1, <1>2 DEF Nested
  <2>2. Src!Level(prog', n) = Src!Level(prog, Len(prog)) - 1
    BY <1>1, <1>2, LevelAppended
  <2>3. QED
    BY <1>2, <2>1, <2>2
<1>12. \A k \in DOMAIN open : k # m => k \in 1..(m - 1) /\ Src!Level(prog', Len(prog')) >= k
  BY <1>2, <1>3, <1>11
<1>13. Awaited(prog', code', open')
  <2>1. ASSUME NEW k \in DOMAIN open'
        PROVE  /\ code'[open'[k].join] = <<>>
               /\ \E y \in DOMAIN prog' :
                     /\ OpensAt(prog', k, y) /\ prog'[y].t = open'[k].t
                     /\ open'[k].t = "while" => Tests(code', open'[k].cond, y)
    <3>1. k \in DOMAIN open /\ k # m /\ open'[k] = open[k]
      BY <1>2, <1>4, <1>6
    <3>2. Src!Level(prog', Len(prog')) >= k /\ open[k].join # 0
      BY <1>5, <1>12, <3>1
    <3>3. /\ code'[open[k].join] = <<>>
          /\ \E y \in DOMAIN prog' :
                /\ OpensAt(prog', k, y) /\ prog'[y].t = open[k].t
                /\ open[k].t = "while" => Tests(code', open[k].cond, y)
      BY <1>3, <1>8, <1>9, <1>10, <3>1, <3>2, StillAwaited
    <3>4. QED
      BY <3>1, <3>3
  <2>2. QED
    BY <2>1 DEF Awaited
<1>14. Nested'
  <2>1. Len(open') \in Nat /\ Src!Level(prog', Len(prog) + 1) = Len(open')
    BY <1>2, <1>4, <1>6, <1>11
  <2>2. map' = map \cup (IF tok.t = "assign" THEN {tok.var} ELSE {})
    BY <1>1
  <2>3. QED
    BY <1>1, <1>8, <1>13, <2>1, <2>2, NestedKept
<1>15. code[J] = <<>> /\ code'[J] = <<>>
  <2>1. code[open[m].join] = <<>>
    BY <1>2, <1>4 DEF Nested, Awaited
  <2>2. QED
    BY <1>4, <1>10, <2>1
<1>16. Comes(prog', code', J, J, 1, n + 1)
  <2>1. 1 = Len(code'[J]) + 1
    BY <1>15
  <2>2. QED
    BY <1>3, <2>1, ComesNext
\* The statement that ends, and those that stay open.
<1>17. ASSUME NEW o, OpensAt(prog, m, o)
       PROVE  Src!Encloses(prog', o, n) /\ o \in DOMAIN prog' /\ prog'[o] = prog[o]
  <2>1. Len(prog') = Len(prog) + 1 /\ prog'[Len(prog')].t = "end" /\ m \in Int
        /\ Src!Level(prog', Len(prog')) = m - 1
    BY <1>1, <1>2, <1>3, <1>11
  <2>2. Src!Encloses(prog', o, Len(prog')) /\ o \in DOMAIN prog' /\ prog'[o] = prog[o]
    BY <1>3, <1>17, <2>1, EndsNow
  <2>3. QED
    BY <1>3, <2>2
<1>18. Hands(prog, code, cur, open, prog', code', J, open')
  <2>1. \A b : ~Heads(open, b)
    BY <1>5 DEF Heads
  <2>2. ASSUME NEW o \in DOMAIN prog, NEW e \in DOMAIN code, Waits(prog, open, e, o)
        PROVE  Waits(prog', open', e, o) \/ Behind(prog', code', J, e, o)
    <3>1. PICK k \in DOMAIN open : open[k].join = e /\ OpensAt(prog, k, o)
      BY <2>2 DEF Waits
    <3>2. CASE k = m
      <4>1. e = J /\ OpensAt(prog, m, o)
        BY <1>4, <3>1, <3>2
      <4>2. Src!Encloses(prog', o, n) /\ n \in DOMAIN prog'
        BY <1>3, <1>17, <4>1
      <4>3. QED
        BY <1>16, <4>1, <4>2 DEF Behind
    <3>3. CASE k # m
      <4>1. k \in DOMAIN open' /\ open'[k].join = e /\ Src!Level(prog', Len(prog')) >= k /\ k \in Int
        BY <1>2, <1>6, <1>12, <3>1, <3>3
      <4>2. OpensAt(prog', k, o)
        BY <1>3, <1>8, <3>1, <4>1, OpensKept
      <4>3. QED
        BY <4>1, <4>2 DEF Waits
    <3>4. QED
      BY <3>2, <3>3
  <2>3. QED
    BY <2>1, <2>2 DEF Hands
<1>19. RightEnd(tool, prog', code', J, x)
  <2>1. PICK o \in DOMAIN prog : /\ OpensAt(prog, m, o) /\ prog[o].t = Top.t
                                 /\ Top.t = "while" => Tests(code, Top.cond, o)
    BY <1>2, <1>4 DEF Nested, Awaited
  <2>2. Src!Encloses(prog', o, n) /\ o \in DOMAIN prog' /\ prog'[o].t = Top.t
    BY <1>17, <2>1
  <2>3. Top.t = "if" => to = J
    OBVIOUS
  <2>4. Top.t = "while" /\ tool = "C" => to = Top.cond /\ Tests(code', Top.cond, o)
    <3>1. Top.t = "while" /\ tool = "C" => to = Top.cond
      BY DEF BackTo
    <3>2. Top.t = "while" => Tests(code', Top.cond, o)
      BY <1>4, <1>9, <2>1, TestsKept
    <3>3. QED
      BY <3>1, <3>2
  <2> HIDE DEF to
  <2>5. n \in DOMAIN prog' /\ prog'[n].t = "end"
    BY <1>1, <1>3
  <2>6. QED
    BY <1>7, <1>16, <2>2, <2>3, <2>4, <2>5 DEF RightEnd
<1>20. Wired(tool, prog', code', J, open')
  BY <1>1, <1>3, <1>7, <1>8, <1>18, <1>19, OneWired
<1>21. QED
  BY <1>1, <1>14, <1>20, XKept

LEMMA ReturnX ==
    ASSUME Src!SourceAssumption, SInv, XInv, NEW tok \in Tokens, Return(tok)
    PROVE  XInv'
<1> DEFINE n == Len(prog) + 1
           x == [op |-> "ret", val |-> Gen(tok.val), loc |-> Len(prog')]
<1>1. /\ phase = "parse" /\ phase' = "built" /\ tok.t = "return" /\ prog' = Append(prog, tok)
      /\ UNCHANGED <<tool, map, at, slots, open>> /\ Src!VarsOf(tok.val) \subseteq map
      /\ open = <<>> /\ code' = Emitted(<<x>>, 0)
  BY DEF Return, Reduce, machine, Loads
<1>2. /\ Nested /\ Len(prog) \in Nat /\ prog \in Seq(Tokens)
  BY <1>1, WiredFacts, Zenon
<1>3. /\ Longer(prog, prog') /\ Len(prog') = n /\ prog'[n] = tok /\ n \in Nat /\ n >= 1
      /\ DOMAIN prog' = 1..n
  BY <1>1, <1>2, AppendLonger DEF Longer
<1>4. x \in InstrType /\ x.op = "ret" /\ x.loc = n /\ x.val = Gen(tok.val)
  <2>1. Gen(tok.val) \in Src!Exprs
    BY <1>1, TokenIs, GenTyped
  <2>2. Len(prog') \in Nat /\ Len(prog') = n
    BY <1>3
  <2>3. QED
    BY <2>1, <2>2 DEF InstrType
<1> HIDE DEF x
<1>5. phase \in {"parse", "head"} /\ 0 \in Nat /\ Len(prog') \in {Len(prog), Len(prog) + 1}
  BY <1>1, <1>3
<1>6. Len(open') = 0 /\ Len(open) = 0 /\ DOMAIN open = {} /\ DOMAIN open' = {}
  BY <1>1
<1>7. Src!Level(prog', n) = 0
  BY <1>1, <1>2, <1>6, LevelAppended DEF Nested
<1>8. Awaited(prog', code', open')
  BY <1>6 DEF Awaited
<1>9. Nested'
  <2>1. Len(open') \in Nat /\ Src!Level(prog', Len(prog) + 1) = Len(open')
    BY <1>6, <1>7
  <2>2. map' = map \cup (IF tok.t = "assign" THEN {tok.var} ELSE {})
    BY <1>1
  <2>3. QED
    BY <1>1, <1>5, <1>8, <2>1, <2>2, NestedKept
<1>10. Hands(prog, code, cur, open, prog', code', 0, open')
  BY <1>6 DEF Hands, Waits, Heads
<1>11. RightRet(tool, prog', x)
  <2>1. n \in 1..(Len(prog) + 1)
    BY <1>3
  <2>2. Assigned(prog', n) = map
    BY <1>2, <1>3, <2>1, LongerIs DEF Nested
  <2>3. Uses(tool, prog', x)
    BY <1>1, <1>3, <1>4, <2>2 DEF Uses, Gen
  <2>4. n \in DOMAIN prog'
    BY <1>3
  <2>5. QED
    BY <1>1, <1>3, <1>4, <2>3, <2>4 DEF RightRet
<1>12. Wired(tool, prog', code', 0, open')
  BY <1>1, <1>3, <1>4, <1>5, <1>10, <1>11, OneWired
<1>13. QED
  BY <1>1, <1>9, <1>12, XKept

-----------------------------------------------------------------------------
\* Where nothing is being built: at first, and when the code runs.

LEMMA InitX == ASSUME Src!SourceAssumption, Init PROVE XInv
<1>1. /\ prog = <<>> /\ phase = "parse" /\ open = <<>> /\ code = << <<>> >> /\ cur = 1
      /\ map = {} /\ at = <<0, 0>> /\ slots = {}
  BY DEF Init
<1>2. /\ Len(prog) = 0 /\ DOMAIN prog = {} /\ Len(open) = 0 /\ DOMAIN open = {}
      /\ DOMAIN code = {1} /\ code[1] = <<>> /\ DOMAIN code[1] = {} /\ Len(code[1]) = 0
  BY <1>1
<1>3. Nested
  <2>1. Assigned(prog, Len(prog) + 1) = {}
    BY <1>2 DEF Assigned
  <2>2. Src!Level(prog, Len(prog)) = 0
    BY <1>2, LevelZero
  <2>3. QED
    BY <1>1, <1>2, <2>1, <2>2 DEF Nested, Awaited
<1>4. Wired(tool, prog, code, 1, open)
  <2>1. Semis(prog, 1, Len(prog))
    BY <1>2 DEF Semis
  <2>2. Comes(prog, code, 1, 1, 1, 1)
    BY <1>2, <2>1 DEF Comes
  <2>3. QED
    BY <1>2, <2>2 DEF Wired
<1>5. QED
  BY <1>1, <1>3, <1>4 DEF XInv, Alive, Standing, Stored, Unstarted

\* What is known of an instruction that is being executed.
LEMMA RunKnows ==
    ASSUME SInv, XInv, phase \in {"built", "run"}
    PROVE  /\ open = <<>> /\ prog \in Seq(Tokens) /\ Len(prog) \in Nat /\ DOMAIN prog = 1..Len(prog)
           /\ Nested /\ Wired(tool, prog, code, 0, <<>>)
           /\ 0 \notin DOMAIN code
<1>1. ~Building
  BY DEF Building
<1>2. open = <<>> /\ prog \in Seq(Tokens) /\ code \in Seq(Seq(InstrType))
  BY <1>1 DEF SInv, Shape, TypeOK
<1>3. Len(prog) \in Nat /\ DOMAIN prog = 1..Len(prog) /\ 0 \notin DOMAIN code
  BY <1>2
<1>4. Nested /\ Wired(tool, prog, code, 0, open)
  BY DEF XInv, Alive, Standing
<1>5. QED
  BY <1>2, <1>3, <1>4

\* An instruction that is come to belongs to the statement that is next.
LEMMA Arrives ==
    ASSUME NEW t, NEW p, NEW c, Len(p) \in Nat, DOMAIN p = 1..Len(p), 0 \notin DOMAIN c,
           NEW b \in DOMAIN c, NEW k \in DOMAIN c[b], NEW i \in Nat \ {0},
           Right(t, p, c, 0, <<>>, b, k), Comes(p, c, 0, b, k, i),
           k = 1 \/ c[b][k - 1].op # "alloca", NEW x, x = c[b][k], k \in Nat
    PROVE  /\ x.loc \in DOMAIN p /\ Src!Effective(p, i) = x.loc
           /\ Assigned(p, x.loc) = Assigned(p, i)
           /\ x.op = "store" => x.var \in Assigned(p, i)
<1>1. x.loc \in DOMAIN p /\ p[x.loc].t # "semi"
      /\ (x.op = "store" => x.var \in Assigned(p, x.loc))
  BY DEF Right, RightAlloca, RightStore, RightTest, RightHead, RightEnd, RightRet, Heads
<1>2. i <= x.loc /\ Semis(p, i, x.loc - 1)
  BY DEF Comes
<1>3. x.loc \in i..Len(p) /\ x.loc \in Nat
  BY <1>1, <1>2
<1>4. Src!Effective(p, i) = x.loc
  BY <1>1, <1>2, <1>3, EffectiveIs
<1>5. Assigned(p, x.loc) = Assigned(p, i)
  BY <1>2, <1>3, SemisAssign
<1>6. QED
  BY <1>1, <1>4, <1>5

LEMMA TestsComes ==
    ASSUME NEW p, NEW c, NEW b, NEW o \in Nat, Tests(c, b, o)
    PROVE  Comes(p, c, 0, b, 1, o)
<1>1. Semis(p, o, o - 1)
  BY DEF Semis
<1>2. QED
  BY <1>1 DEF Tests, Comes

LEMMA CoveredKept ==
    ASSUME UNCHANGED <<tool, prog>> PROVE Covered(prog)' <=> Covered(prog)
<1>1. \A x : Translated(x)' <=> Translated(x)
  BY DEF Translated
<1>2. FirstAtTop(prog)' <=> FirstAtTop(prog)
  BY DEF FirstAtTop
<1>3. QED
  BY <1>1, <1>2 DEF Covered

\* The step to an instruction, where the slots are those of the statement.
LEMMA Moves ==
    ASSUME SInv, XInv, SInv', phase \in {"built", "run"}, phase' = "run",
           UNCHANGED <<tool, code, cur, map, open, prog>>,
           Covered(prog) =>
              \E i \in Nat \ {0} :
                 /\ Comes(prog, code, 0, at'[1], at'[2], i)
                 /\ at'[2] = 1 \/ code[at'[1]][at'[2] - 1].op # "alloca"
                 /\ slots' = Assigned(prog, i)
    PROVE  XInv'
<1>1. Nested' /\ Wired(tool, prog, code, Standing', open)
  <2>1. Nested /\ Wired(tool, prog, code, 0, open)
    BY RunKnows
  <2>2. Nested'
    BY <2>1 DEF Nested
  <2>3. QED
    BY <2>1, <2>2 DEF Standing
<1>2. Stored'
  <2>1. SUFFICES ASSUME Covered(prog)
                 PROVE  slots' = Assigned(prog, Instr'.loc)
                                 \cup (IF Instr'.op = "store" THEN {Instr'.var} ELSE {})
    BY CoveredKept DEF Stored
  <2>2. PICK i \in Nat \ {0} :
                 /\ Comes(prog, code, 0, at'[1], at'[2], i)
                 /\ at'[2] = 1 \/ code[at'[1]][at'[2] - 1].op # "alloca"
                 /\ slots' = Assigned(prog, i)
    BY <2>1
  <2>3. /\ Wired(tool, prog, code, 0, <<>>) /\ Len(prog) \in Nat /\ DOMAIN prog = 1..Len(prog)
        /\ 0 \notin DOMAIN code
    BY RunKnows
  <2>4. at'[1] \in DOMAIN code /\ at'[2] \in DOMAIN code[at'[1]] /\ at'[2] \in Nat
    BY DEF SInv, Executing, TypeOK
  <2>5. Right(tool, prog, code, 0, <<>>, at'[1], at'[2])
    BY <2>3, <2>4 DEF Wired
  <2>6. Instr' = code[at'[1]][at'[2]]
    BY DEF Instr
  <2>7. /\ Assigned(prog, Instr'.loc) = Assigned(prog, i)
        /\ Instr'.op = "store" => Instr'.var \in Assigned(prog, i)
    BY <2>2, <2>3, <2>4, <2>5, <2>6, Arrives
  <2>8. QED
    BY <2>2, <2>7
<1>3. QED
  BY <1>1, <1>2 DEF XInv, Alive, Unstarted

\* The parser or the program stops, for a reason that is allowed.
LEMMA Stops ==
    ASSUME XInv, UNCHANGED <<tool, prog>>,
           phase' \in {"error", "crashed", "returned"} \/ (phase' = "undefined" /\ ~Covered(prog))
    PROVE  XInv'
<1>1. ~Alive' /\ Unstarted' /\ (Covered(prog)' => phase' # "undefined")
  BY CoveredKept DEF Alive, Unstarted
<1>2. QED
  BY <1>1 DEF XInv

LEMMA WriteModuleX == ASSUME SInv, XInv, SInv', WriteModule PROVE XInv'
<1>1. /\ phase = "built" /\ phase' = "run" /\ at' = <<1, 1>>
      /\ UNCHANGED <<tool, code, cur, map, open, prog, slots>>
  BY DEF WriteModule, built
<1>2. slots' = Assigned(prog, 1)
  <2>1. slots' = {}
    BY <1>1 DEF XInv, Unstarted
  <2>2. Assigned(prog, 1) = {}
    BY DEF Assigned
  <2>3. QED
    BY <2>1, <2>2
<1>3. Comes(prog, code, 0, 1, 1, 1)
  BY <1>1, RunKnows DEF Wired
<1>4. at'[1] = 1 /\ at'[2] = 1 /\ 1 \in Nat \ {0}
  BY <1>1
<1>5. QED
  BY <1>1, <1>2, <1>3, <1>4, Moves

-----------------------------------------------------------------------------
\* What the program that runs is in terms of the statements.

SrcPhase == IF phase \in {"parse", "head", "built"} THEN "write"
            ELSE IF phase \in {"error", "crashed"} THEN "rejected" ELSE phase
SrcPos == IF at = <<0, 0>> THEN 0 ELSE code[at[1]][at[2]].loc
SrcEnv == [v \in Vars |-> IF v \in slots THEN mem[v] ELSE -1]

LEMMA SrcIs ==
    /\ (UNCHANGED Src!vars) <=> UNCHANGED <<prog, SrcPhase, SrcPos, SrcEnv, result>>
    /\ Src!Init <=> /\ prog = <<>> /\ SrcPhase = "write" /\ SrcPos = 0
                    /\ SrcEnv = [v \in Vars |-> -1] /\ result = -1
    /\ Src!Write <=> /\ SrcPhase = "write" /\ \E tok \in Tokens : prog' = Append(prog, tok)
                     /\ UNCHANGED <<SrcPhase, SrcPos, SrcEnv, result>>
    /\ Src!Reject <=> /\ SrcPhase = "write" /\ SrcPhase' = "rejected"
                      /\ UNCHANGED <<prog, SrcPos, SrcEnv, result>>
    /\ Src!Begin <=> /\ SrcPhase = "write" /\ SrcPhase' = "run"
                     /\ SrcPos' = Src!Effective(prog, 1)
                     /\ UNCHANGED <<prog, SrcEnv, result>>
    /\ Src!Assign <=> /\ SrcPhase = "run" /\ prog[SrcPos].t = "assign"
                      /\ SrcEnv' = [SrcEnv EXCEPT ![prog[SrcPos].var] =
                                       Src!Eval(prog[SrcPos].val, SrcEnv)]
                      /\ SrcPos' = Src!Effective(prog, SrcPos + 1)
                      /\ UNCHANGED <<prog, SrcPhase, result>>
    /\ Src!Test <=> /\ SrcPhase = "run" /\ prog[SrcPos].t \in {"if", "while"}
                    /\ SrcPos' = IF Src!Eval(prog[SrcPos].val, SrcEnv) # 0
                                 THEN Src!Effective(prog, SrcPos + 1)
                                 ELSE Src!Effective(prog, Src!EndOf(prog, SrcPos) + 1)
                    /\ UNCHANGED <<prog, SrcPhase, SrcEnv, result>>
    /\ Src!End <=> /\ SrcPhase = "run" /\ prog[SrcPos].t = "end"
                   /\ SrcPos' = IF prog[Src!OpenerOf(prog, SrcPos)].t = "while"
                                THEN Src!Effective(prog, Src!OpenerOf(prog, SrcPos))
                                ELSE Src!Effective(prog, SrcPos + 1)
                   /\ UNCHANGED <<prog, SrcPhase, SrcEnv, result>>
    /\ Src!Return <=> /\ SrcPhase = "run" /\ prog[SrcPos].t = "return"
                      /\ result' = Src!Eval(prog[SrcPos].val, SrcEnv)
                      /\ SrcPhase' = "returned" /\ UNCHANGED <<prog, SrcPos, SrcEnv>>
<1>1. (UNCHANGED Src!vars) <=> UNCHANGED <<prog, SrcPhase, SrcPos, SrcEnv, result>>
  BY DEF Src!vars, SrcPhase, SrcPos, SrcEnv
<1>2. Src!Init <=> /\ prog = <<>> /\ SrcPhase = "write" /\ SrcPos = 0
                   /\ SrcEnv = [v \in Vars |-> -1] /\ result = -1
  BY DEF Src!Init, Src!NoVal, SrcPhase, SrcPos, SrcEnv
<1>3. Src!Write <=> /\ SrcPhase = "write" /\ \E tok \in Tokens : prog' = Append(prog, tok)
                    /\ UNCHANGED <<SrcPhase, SrcPos, SrcEnv, result>>
  BY DEF Src!Write, SrcPhase, SrcPos, SrcEnv
<1>4. Src!Reject <=> /\ SrcPhase = "write" /\ SrcPhase' = "rejected"
                     /\ UNCHANGED <<prog, SrcPos, SrcEnv, result>>
  BY DEF Src!Reject, SrcPhase, SrcPos, SrcEnv
<1>5. Src!Begin <=> /\ SrcPhase = "write" /\ SrcPhase' = "run"
                    /\ SrcPos' = Src!Effective(prog, 1)
                    /\ UNCHANGED <<prog, SrcEnv, result>>
  BY DEF Src!Begin, SrcPhase, SrcPos, SrcEnv
<1>6. Src!Assign <=> /\ SrcPhase = "run" /\ prog[SrcPos].t = "assign"
                     /\ SrcEnv' = [SrcEnv EXCEPT ![prog[SrcPos].var] =
                                      Src!Eval(prog[SrcPos].val, SrcEnv)]
                     /\ SrcPos' = Src!Effective(prog, SrcPos + 1)
                     /\ UNCHANGED <<prog, SrcPhase, result>>
  BY DEF Src!Assign, Src!Running, Src!Goto, SrcPhase, SrcPos, SrcEnv
<1>7. Src!Test <=> /\ SrcPhase = "run" /\ prog[SrcPos].t \in {"if", "while"}
                   /\ SrcPos' = IF Src!Eval(prog[SrcPos].val, SrcEnv) # 0
                                THEN Src!Effective(prog, SrcPos + 1)
                                ELSE Src!Effective(prog, Src!EndOf(prog, SrcPos) + 1)
                   /\ UNCHANGED <<prog, SrcPhase, SrcEnv, result>>
  BY DEF Src!Test, Src!Running, Src!Goto, SrcPhase, SrcPos, SrcEnv
<1>8. Src!End <=> /\ SrcPhase = "run" /\ prog[SrcPos].t = "end"
                  /\ SrcPos' = IF prog[Src!OpenerOf(prog, SrcPos)].t = "while"
                               THEN Src!Effective(prog, Src!OpenerOf(prog, SrcPos))
                               ELSE Src!Effective(prog, SrcPos + 1)
                  /\ UNCHANGED <<prog, SrcPhase, SrcEnv, result>>
  BY DEF Src!End, Src!Running, Src!Goto, SrcPhase, SrcPos, SrcEnv
<1>9. Src!Return <=> /\ SrcPhase = "run" /\ prog[SrcPos].t = "return"
                     /\ result' = Src!Eval(prog[SrcPos].val, SrcEnv)
                     /\ SrcPhase' = "returned" /\ UNCHANGED <<prog, SrcPos, SrcEnv>>
  BY DEF Src!Return, Src!Running, SrcPhase, SrcPos, SrcEnv
<1>10. QED
  BY <1>1, <1>2, <1>3, <1>4, <1>5, <1>6, <1>7, <1>8, <1>9

\* An expression has one value in two memories that agree on its variables.
LEMMA EvalAlike ==
    ASSUME NEW e \in Src!Exprs, NEW f, NEW g, \A v \in Src!VarsOf(e) : f[v] = g[v]
    PROVE  Src!Eval(e, f) = Src!Eval(e, g)
<1>1. e.a \in Src!Leaf /\ e.b \in Src!Leaf /\ e.op \in Src!Ops
  BY DEF Src!Exprs
<1>2. ASSUME NEW l \in Src!LeavesOf(e), l \in Src!Leaf
      PROVE  Src!LeafValue(l, f) = Src!LeafValue(l, g)
  <2>1. CASE l \in [imm : Src!Values]
    BY <2>1 DEF Src!LeafValue
  <2>2. CASE l \in [id : Vars]
    <3>1. DOMAIN l = {"id"} /\ l.id \in Vars /\ l = [id |-> l.id]
      BY <2>2
    <3>2. l.id \in Src!VarsOf(e)
      BY <3>1 DEF Src!VarsOf
    <3>3. "imm" \notin DOMAIN l
      BY <3>1
    <3>4. QED
      BY <3>2, <3>3 DEF Src!LeafValue
  <2>3. QED
    BY <1>2, <2>1, <2>2 DEF Src!Leaf
<1>3. e.a \in Src!LeavesOf(e)
  BY DEF Src!LeavesOf
<1>4. Src!LeafValue(e.a, f) = Src!LeafValue(e.a, g)
  BY <1>1, <1>2, <1>3
<1>5. CASE e.op \in {"leaf", "neg", "not"}
  BY <1>4, <1>5 DEF Src!Eval, Src!Apply
<1>6. CASE e.op \notin {"leaf", "neg", "not"}
  <2>1. e.b \in Src!LeavesOf(e)
    BY <1>6 DEF Src!LeavesOf
  <2>2. Src!LeafValue(e.b, f) = Src!LeafValue(e.b, g)
    BY <1>1, <1>2, <2>1
  <2>3. QED
    BY <1>4, <2>2 DEF Src!Eval
<1>7. QED
  BY <1>5, <1>6

LEMMA TokenHolds ==
    ASSUME Src!SourceAssumption, NEW tok \in Tokens,
           tok.t \in {"assign", "if", "while", "return"}
    PROVE  "val" \in DOMAIN tok /\ tok.val \in Src!Exprs
<1>1. tok \in Src!TokenType
  BY DEF Src!SourceAssumption
<1>2. CASE tok \in [t : {"assign"}, var : Vars, val : Src!Exprs]
  BY <1>2
<1>3. CASE tok \in [t : {"if", "while", "return"}, val : Src!Exprs]
  BY <1>3
<1>4. CASE tok \in [t : {"end", "semi"}]
  BY <1>4
<1>5. QED
  BY <1>1, <1>2, <1>3, <1>4 DEF Src!TokenType

LEMMA Now ==
    ASSUME SInv, XInv, phase = "run"
    PROVE  /\ Right(tool, prog, code, 0, <<>>, at[1], at[2]) /\ Instr = code[at[1]][at[2]]
           /\ at[1] \in DOMAIN code /\ at[2] \in DOMAIN code[at[1]] /\ at[2] \in Nat /\ at[1] \in Nat
           /\ Instr.loc \in DOMAIN prog /\ SrcPos = Instr.loc /\ SrcPhase = "run"
           /\ Instr.op \in {"alloca", "store", "condbr", "br", "ret"}
           /\ Instr.loc \in Nat \ {0} /\ Instr.loc + 1 \in Nat \ {0}
<1>1. at[1] \in DOMAIN code /\ at[2] \in DOMAIN code[at[1]] /\ at \in Nat \X Nat
  BY DEF SInv, Executing, TypeOK
<1>2. /\ Wired(tool, prog, code, 0, <<>>) /\ 0 \notin DOMAIN code
      /\ Len(prog) \in Nat /\ DOMAIN prog = 1..Len(prog)
  BY RunKnows
<1>3. Right(tool, prog, code, 0, <<>>, at[1], at[2])
  BY <1>1, <1>2 DEF Wired
<1>4. Instr = code[at[1]][at[2]]
  BY DEF Instr
<1>5. Instr.loc \in DOMAIN prog /\ Instr.op \in {"alloca", "store", "condbr", "br", "ret"}
  <2>1. \A b : ~Heads(<<>>, b)
    BY DEF Heads
  <2>2. \/ RightAlloca(prog, code, at[1], at[2], Instr)
        \/ RightStore(tool, prog, code, 0, at[1], at[2], Instr)
        \/ RightTest(tool, prog, code, 0, <<>>, Instr) \/ RightHead(prog, code, <<>>, Instr)
        \/ RightEnd(tool, prog, code, 0, Instr) \/ RightRet(tool, prog, Instr)
    BY <1>3, <1>4 DEF Right
  <2>3. QED
    BY <2>1, <2>2
       DEF RightAlloca, RightStore, RightTest, RightHead, RightEnd, RightRet
<1>6. at # <<0, 0>>
  BY <1>1, <1>2
<1>7. SrcPos = Instr.loc /\ SrcPhase = "run"
  BY <1>4, <1>6 DEF SrcPos, SrcPhase
<1>8. QED
  BY <1>1, <1>2, <1>3, <1>4, <1>5, <1>7

\* An instruction that has an expression: it is the statement's, every slot it
\* reads is there, and it has the value it has for the statement.
LEMMA Means ==
    ASSUME Src!SourceAssumption, SInv, XInv, phase = "run", Covered(prog),
           Uses(tool, prog, Instr), prog[Instr.loc].t \in {"assign", "if", "while", "return"}
    PROVE  /\ Src!VarsOf(Instr.val) \subseteq slots
           /\ Src!Eval(Instr.val, mem) = Src!Eval(prog[SrcPos].val, SrcEnv)
<1>1. Instr.loc \in DOMAIN prog /\ SrcPos = Instr.loc
  BY Now
<1>2. prog \in Seq(Tokens)
  BY RunKnows
<1>3. PICK tok \in Tokens : tok = prog[Instr.loc]
  BY <1>1, <1>2
<1>4. "val" \in DOMAIN tok /\ tok.val \in Src!Exprs
  BY <1>3, TokenHolds
<1>5. Translated(tok)
  BY <1>1, <1>3 DEF Covered
<1>6. Instr.val = tok.val
  BY <1>3, <1>4, <1>5 DEF Uses, Translated
<1>7. Src!VarsOf(tok.val) \subseteq Assigned(prog, Instr.loc)
  BY <1>3 DEF Uses
<1>8. Assigned(prog, Instr.loc) \subseteq slots
  BY DEF XInv, Alive, Stored
<1>9. \A v \in Src!VarsOf(tok.val) : v \in Vars /\ v \in slots
  BY <1>7, <1>8 DEF Src!VarsOf
<1>10. \A v \in Src!VarsOf(tok.val) : mem[v] = SrcEnv[v]
  BY <1>9 DEF SrcEnv
<1>11. Src!Eval(tok.val, mem) = Src!Eval(tok.val, SrcEnv)
  BY <1>4, <1>10, EvalAlike
<1>12. QED
  BY <1>1, <1>3, <1>6, <1>9, <1>11

LEMMA AlwaysAddressed ==
    ASSUME Src!SourceAssumption, SInv, XInv, phase = "run", Covered(prog)
    PROVE  Addressed
<1>1. /\ Right(tool, prog, code, 0, <<>>, at[1], at[2]) /\ Instr = code[at[1]][at[2]]
      /\ Instr.op \in {"alloca", "store", "condbr", "br", "ret"}
  BY Now
<1>2. CASE Instr.op \in {"alloca", "br"}
  BY <1>2 DEF Addressed
<1>3. CASE Instr.op = "store"
  <2>1. Uses(tool, prog, Instr) /\ prog[Instr.loc].t = "assign"
    BY <1>1, <1>3 DEF Right, RightAlloca, RightStore, RightTest, RightHead, RightEnd, RightRet
  <2>2. Src!VarsOf(Instr.val) \subseteq slots
    BY <2>1, Means
  <2>3. Instr.var \in slots
    BY <1>3 DEF XInv, Alive, Stored
  <2>4. QED
    BY <1>3, <2>2, <2>3 DEF Addressed
<1>4. CASE Instr.op \in {"condbr", "ret"}
  <2>1. Uses(tool, prog, Instr) /\ prog[Instr.loc].t \in {"if", "while", "return"}
    BY <1>1, <1>4 DEF Right, RightAlloca, RightStore, RightTest, RightHead, RightEnd, RightRet
  <2>2. Src!VarsOf(Instr.val) \subseteq slots
    BY <2>1, Means
  <2>3. QED
    BY <1>4, <2>2 DEF Addressed
<1>5. QED
  BY <1>1, <1>2, <1>3, <1>4

\* Where such a step lands: at what the program does next.
LEMMA Lands ==
    ASSUME SInv, XInv, SInv', phase \in {"built", "run"}, phase' = "run",
           UNCHANGED <<tool, code, cur, map, open, prog>>, NEW i \in Nat \ {0},
           Comes(prog, code, 0, at'[1], at'[2], i),
           at'[2] = 1 \/ code[at'[1]][at'[2] - 1].op # "alloca"
    PROVE  SrcPos' = Src!Effective(prog, i) /\ SrcPhase' = "run"
<1>1. /\ Wired(tool, prog, code, 0, <<>>) /\ Len(prog) \in Nat /\ DOMAIN prog = 1..Len(prog)
      /\ 0 \notin DOMAIN code
  BY RunKnows
<1>2. at'[1] \in DOMAIN code /\ at'[2] \in DOMAIN code[at'[1]] /\ at'[2] \in Nat
  BY DEF SInv, Executing, TypeOK
<1>3. Right(tool, prog, code, 0, <<>>, at'[1], at'[2])
  BY <1>1, <1>2 DEF Wired
<1>4. PICK x : x = code[at'[1]][at'[2]]
  OBVIOUS
<1>5. Src!Effective(prog, i) = x.loc
  BY <1>1, <1>2, <1>3, <1>4, Arrives
<1>6. at' # <<0, 0>>
  BY <1>1, <1>2
<1>7. SrcPos' = x.loc /\ SrcPhase' = "run"
  BY <1>4, <1>6 DEF SrcPos, SrcPhase
<1>8. QED
  BY <1>5, <1>7

LEMMA AllocaX ==
    ASSUME Src!SourceAssumption, SInv, XInv, SInv', Alloca
    PROVE  XInv' /\ (Covered(prog) => [Src!Next]_(Src!vars))
<1> DEFINE x == Instr
<1>1. /\ phase = "run" /\ phase' = "run" /\ x.op = "alloca"
      /\ slots' = slots \cup {x.var} /\ mem' = [mem EXCEPT ![x.var] = -1]
      /\ at' = <<at[1], at[2] + 1>>
      /\ UNCHANGED <<tool, code, cur, map, open, prog, result>>
  BY DEF Alloca, Running, Forward, built
<1>2. /\ Right(tool, prog, code, 0, <<>>, at[1], at[2]) /\ x = code[at[1]][at[2]]
      /\ at[2] \in Nat /\ SrcPos = x.loc /\ SrcPhase = "run"
  BY <1>1, Now
<1>3. /\ x.var \notin Assigned(prog, x.loc)
      /\ code[at[1]][at[2] + 1].op = "store" /\ code[at[1]][at[2] + 1].loc = x.loc
      /\ code[at[1]][at[2] + 1].var = x.var
  BY <1>1, <1>2 DEF Right, RightAlloca, RightStore, RightTest, RightHead, RightEnd, RightRet
<1>4. Instr' = code[at[1]][at[2] + 1]
  BY <1>1 DEF Instr
<1>5. Covered(prog) => slots = Assigned(prog, x.loc)
  BY <1>1 DEF XInv, Alive, Stored
<1>6. XInv'
  <2>1. Stored'
    BY <1>1, <1>3, <1>4, <1>5, CoveredKept DEF Stored
  <2>2. Nested /\ Wired(tool, prog, code, 0, open)
    BY <1>1, RunKnows
  <2>3. Nested'
    BY <1>1, <2>2 DEF Nested
  <2>4. Wired(tool', prog', code', Standing', open')
    BY <1>1, <2>2 DEF Standing
  <2>5. QED
    BY <1>1, <2>1, <2>3, <2>4 DEF XInv, Alive, Unstarted
<1>7. ASSUME Covered(prog) PROVE UNCHANGED Src!vars
  <2>1. SrcPos' = SrcPos
    <3>1. at' # <<0, 0>>
      BY <1>1, <1>2
    <3>2. SrcPos' = Instr'.loc
      BY <3>1 DEF SrcPos, Instr
    <3>3. QED
      BY <1>2, <1>3, <1>4, <3>2
  <2>2. SrcEnv' = SrcEnv
    <3>1. x.var \notin slots /\ mem \in [Vars -> Src!Values \cup {-1}]
      BY <1>3, <1>5, <1>7 DEF SInv, TypeOK
    <3>2. \A v \in Vars : (IF v \in slots' THEN mem'[v] ELSE -1) = IF v \in slots THEN mem[v] ELSE -1
      BY <1>1, <3>1
    <3>3. QED
      BY <3>2 DEF SrcEnv
  <2>3. SrcPhase' = SrcPhase
    BY <1>1 DEF SrcPhase
  <2>4. QED
    BY <1>1, <2>1, <2>2, <2>3, SrcIs
<1>8. QED
  BY <1>6, <1>7

LEMMA StoreX ==
    ASSUME Src!SourceAssumption, SInv, XInv, SInv', Store
    PROVE  XInv' /\ (Covered(prog) => [Src!Next]_(Src!vars))
<1> DEFINE x == Instr
<1>1. /\ phase = "run" /\ phase' = "run" /\ x.op = "store" /\ slots' = slots
      /\ mem' = [mem EXCEPT ![x.var] = Src!Eval(x.val, mem)]
      /\ at' = <<at[1], at[2] + 1>>
      /\ UNCHANGED <<tool, code, cur, map, open, prog, result>>
  BY DEF Store, Running, Forward, built
<1>2. /\ Right(tool, prog, code, 0, <<>>, at[1], at[2]) /\ x = code[at[1]][at[2]]
      /\ at[2] \in Nat /\ SrcPos = x.loc /\ SrcPhase = "run"
      /\ x.loc \in Nat \ {0} /\ x.loc + 1 \in Nat \ {0}
  BY <1>1, Now
<1>3. /\ prog[x.loc].t = "assign" /\ x.var = prog[x.loc].var /\ Uses(tool, prog, x)
      /\ Comes(prog, code, 0, at[1], at[2] + 1, x.loc + 1)
  BY <1>1, <1>2 DEF Right, RightAlloca, RightStore, RightTest, RightHead, RightEnd, RightRet
<1>4. Covered(prog) => slots' = Assigned(prog, x.loc + 1)
  <2>1. Assigned(prog, x.loc + 1) = Assigned(prog, x.loc) \cup {x.var}
    <3>1. x.loc \in Nat /\ x.loc >= 1
      BY <1>2
    <3>2. prog[x.loc].t = "assign" =>
              Assigned(prog, x.loc + 1) = Assigned(prog, x.loc) \cup {prog[x.loc].var}
      BY <3>1, AssignedNext, ZenonT(60)
    <3>3. QED
      BY <1>3, <3>2
  <2>2. QED
    BY <1>1, <2>1 DEF XInv, Alive, Stored
<1>5. /\ Comes(prog, code, 0, at'[1], at'[2], x.loc + 1)
      /\ at'[2] = 1 \/ code[at'[1]][at'[2] - 1].op # "alloca"
  <2>1. at'[1] = at[1] /\ at'[2] = at[2] + 1 /\ at'[2] - 1 = at[2]
    BY <1>1, <1>2
  <2>2. QED
    BY <1>1, <1>2, <1>3, <2>1
<1>6. XInv'
  BY <1>1, <1>2, <1>4, <1>5, Moves
<1>7. ASSUME Covered(prog) PROVE Src!Assign
  <2>1. SrcPos' = Src!Effective(prog, SrcPos + 1) /\ SrcPhase' = "run"
    BY <1>1, <1>2, <1>5, Lands
  <2>2. Src!Eval(x.val, mem) = Src!Eval(prog[SrcPos].val, SrcEnv)
    BY <1>1, <1>3, <1>7, Means
  <2>3. x.var \in slots /\ slots \subseteq Vars /\ mem \in [Vars -> Src!Values \cup {-1}]
    BY <1>1, <1>7 DEF XInv, Alive, Stored, SInv, TypeOK
  <2>4. PICK w : w = Src!Eval(x.val, mem)
    OBVIOUS
  <2>5. SrcEnv' = [SrcEnv EXCEPT ![x.var] = w]
    <3>1. PICK y : y = x.var
      OBVIOUS
    <3>2. mem' = [mem EXCEPT ![y] = w] /\ y \in slots
      BY <1>1, <2>3, <2>4, <3>1
    <3>3. SrcEnv' = [v \in Vars |-> IF v \in slots THEN mem'[v] ELSE -1]
      BY <1>1 DEF SrcEnv
    <3>4. SrcEnv = [v \in Vars |-> IF v \in slots THEN mem[v] ELSE -1]
      BY DEF SrcEnv
    <3>5. \A v \in Vars : (IF v \in slots THEN mem'[v] ELSE -1)
                          = [SrcEnv EXCEPT ![y] = w][v]
      BY <2>3, <3>2, <3>4
    <3>6. SrcEnv' = [SrcEnv EXCEPT ![y] = w]
      BY <3>3, <3>4, <3>5
    <3>7. QED
      BY <3>1, <3>6
  <2>6. QED
    BY <1>1, <1>2, <1>3, <2>1, <2>2, <2>4, <2>5, SrcIs
<1>8. QED
  BY <1>6, <1>7 DEF Src!Next

LEMMA BranchX ==
    ASSUME Src!SourceAssumption, SInv, XInv, SInv', Branch
    PROVE  XInv' /\ (Covered(prog) => [Src!Next]_(Src!vars))
<1> DEFINE x == Instr
<1>1. /\ phase = "run" /\ phase' = "run" /\ x.op = "br" /\ at' = <<x.to, 1>>
      /\ UNCHANGED <<tool, code, cur, map, open, prog, mem, slots, result>>
  BY DEF Branch, Running, Jump, built
<1>2. /\ Right(tool, prog, code, 0, <<>>, at[1], at[2]) /\ x = code[at[1]][at[2]]
      /\ SrcPos = x.loc /\ SrcPhase = "run" /\ x.loc \in DOMAIN prog
      /\ x.loc \in Nat \ {0} /\ x.loc + 1 \in Nat \ {0}
  BY <1>1, Now
<1>3. RightHead(prog, code, <<>>, x) \/ RightEnd(tool, prog, code, 0, x)
  BY <1>1, <1>2 DEF Right, RightAlloca, RightStore, RightTest, RightRet
<1>4. Covered(prog) => slots' = Assigned(prog, x.loc)
  BY <1>1 DEF XInv, Alive, Stored
<1>5. at'[1] = x.to /\ at'[2] = 1
  BY <1>1
<1>6. SrcEnv' = SrcEnv
  BY <1>1 DEF SrcEnv
<1>7. /\ Nested /\ DOMAIN prog = 1..Len(prog) /\ Len(prog) \in Nat /\ prog \in Seq(Tokens)
      /\ tool \in Tools
  BY <1>1, RunKnows DEF SInv, TypeOK
<1>8. CASE RightHead(prog, code, <<>>, x)
  <2>1. prog[x.loc].t = "while" /\ Tests(code, x.to, x.loc)
    BY <1>8 DEF RightHead, Heads
  <2>2. Comes(prog, code, 0, at'[1], at'[2], x.loc)
    BY <1>2, <1>5, <2>1, TestsComes
  <2>3. XInv'
    BY <1>1, <1>2, <1>4, <1>5, <2>2, Moves
  <2>4. SrcPos' = SrcPos /\ SrcPhase' = "run"
    <3>1. SrcPhase' = "run"
      BY <1>1, <1>2, <1>5, <2>2, Lands
    <3>2. at' # <<0, 0>> /\ code[at'[1]][at'[2]].loc = x.loc
      BY <1>5, <2>1 DEF Tests
    <3>3. QED
      BY <1>1, <1>2, <3>1, <3>2 DEF SrcPos
  <2>5. UNCHANGED Src!vars
    BY <1>1, <1>2, <1>6, <2>4, SrcIs
  <2>6. QED
    BY <2>3, <2>5
<1>9. CASE RightEnd(tool, prog, code, 0, x)
  <2>1. PICK o \in DOMAIN prog :
           /\ Src!Encloses(prog, o, x.loc)
           /\ prog[o].t = "if" => Comes(prog, code, 0, x.to, 1, x.loc + 1)
           /\ prog[o].t = "while" /\ tool = "C" => Tests(code, x.to, o)
    BY <1>9 DEF RightEnd
  <2>2. prog[x.loc].t = "end" /\ prog[o].t \in {"if", "while"} /\ o \in Nat \ {0}
    BY <1>7, <1>9, <2>1 DEF RightEnd, Src!Encloses
  <2>3. Src!OpenerOf(prog, x.loc) = o
    BY <1>2, <1>7, <2>1, OpenerIs
  <2>4. CASE prog[o].t = "if"
    <3>1. Comes(prog, code, 0, at'[1], at'[2], x.loc + 1)
      BY <1>5, <2>1, <2>4
    <3>2. Covered(prog) => slots' = Assigned(prog, x.loc + 1)
      BY <1>2, <1>4, <2>2, AssignedNext, SMTT(60)
    <3>3. XInv'
      BY <1>1, <1>2, <1>5, <3>1, <3>2, Moves
    <3>4. SrcPos' = Src!Effective(prog, SrcPos + 1) /\ SrcPhase' = "run"
      BY <1>1, <1>2, <1>5, <3>1, Lands
    <3>5. Src!End
      BY <1>1, <1>2, <1>6, <2>2, <2>3, <2>4, <3>4, SrcIs
    <3>6. QED
      BY <3>3, <3>5 DEF Src!Next
  <2>5. CASE prog[o].t = "while"
    <3>1. ASSUME Covered(prog) PROVE tool = "C" /\ slots' = Assigned(prog, o)
      <4>1. tool = "C"
        BY <1>7, <2>5, <3>1 DEF Covered, Translated, Tools
      <4>2. FirstAtTop(prog) /\ \A j \in DOMAIN prog : Src!Level(prog, j) >= 0
        BY <1>7, <3>1 DEF Covered, Nested
      <4>3. Assigned(prog, x.loc) = Assigned(prog, o)
        BY <1>2, <1>7, <2>1, <4>2, BodyAssigns
      <4>4. QED
        BY <1>4, <3>1, <4>1, <4>3
    <3>2. Covered(prog) => Comes(prog, code, 0, at'[1], at'[2], o)
      BY <1>5, <2>1, <2>2, <2>5, <3>1, TestsComes
    <3>3. XInv'
      BY <1>1, <1>5, <2>2, <3>1, <3>2, Moves
    <3>4. ASSUME Covered(prog) PROVE Src!End
      <4>1. SrcPos' = Src!Effective(prog, o) /\ SrcPhase' = "run"
        BY <1>1, <1>5, <2>2, <3>2, <3>4, Lands
      <4>2. QED
        BY <1>1, <1>2, <1>6, <2>2, <2>3, <2>5, <4>1, SrcIs
    <3>5. QED
      BY <3>3, <3>4 DEF Src!Next
  <2>6. QED
    BY <2>2, <2>4, <2>5
<1>10. QED
  BY <1>3, <1>8, <1>9

LEMMA CondBranchX ==
    ASSUME Src!SourceAssumption, SInv, XInv, SInv', CondBranch
    PROVE  XInv' /\ (Covered(prog) => [Src!Next]_(Src!vars))
<1> DEFINE x == Instr
<1>1. /\ phase = "run" /\ phase' = "run" /\ x.op = "condbr"
      /\ at' = <<IF Src!Eval(x.val, mem) # 0 THEN x.then ELSE x.else, 1>>
      /\ UNCHANGED <<tool, code, cur, map, open, prog, mem, slots, result>>
  BY DEF CondBranch, Running, Jump, built
<1>2. /\ Right(tool, prog, code, 0, <<>>, at[1], at[2]) /\ x = code[at[1]][at[2]]
      /\ SrcPos = x.loc /\ SrcPhase = "run" /\ x.loc \in DOMAIN prog
      /\ x.loc \in Nat \ {0} /\ x.loc + 1 \in Nat \ {0}
  BY <1>1, Now
<1>3. RightTest(tool, prog, code, 0, <<>>, x)
  BY <1>1, <1>2 DEF Right, RightAlloca, RightStore, RightHead, RightEnd, RightRet
<1>4. /\ prog[x.loc].t \in {"if", "while"} /\ Uses(tool, prog, x)
      /\ Comes(prog, code, 0, x.then, 1, x.loc + 1)
      /\ Behind(prog, code, 0, x.else, x.loc)
  BY <1>3 DEF RightTest, Waits
<1>5. Covered(prog) => slots' = Assigned(prog, x.loc)
  BY <1>1 DEF XInv, Alive, Stored
<1>6. at'[1] = (IF Src!Eval(x.val, mem) # 0 THEN x.then ELSE x.else) /\ at'[2] = 1
  BY <1>1
<1>7. SrcEnv' = SrcEnv
  BY <1>1 DEF SrcEnv
<1>8. /\ Nested /\ DOMAIN prog = 1..Len(prog) /\ Len(prog) \in Nat
  BY <1>1, RunKnows
<1>9. Covered(prog) => Src!Eval(x.val, mem) = Src!Eval(prog[SrcPos].val, SrcEnv)
  BY <1>1, <1>4, Means
<1>10. CASE Src!Eval(x.val, mem) # 0
  <2>1. Comes(prog, code, 0, at'[1], at'[2], x.loc + 1)
    BY <1>4, <1>6, <1>10
  <2>2. Covered(prog) => slots' = Assigned(prog, x.loc + 1)
    <3>1. x.loc \in Nat /\ x.loc >= 1
      BY <1>2
    <3>2. prog[x.loc].t # "assign" => Assigned(prog, x.loc + 1) = Assigned(prog, x.loc)
      BY <3>1, AssignedNext, ZenonT(60)
    <3>3. prog[x.loc].t # "assign"
      BY <1>4
    <3>4. QED
      BY <1>5, <3>2, <3>3
  <2>3. XInv'
    BY <1>1, <1>2, <1>6, <2>1, <2>2, Moves
  <2>4. SrcPos' = Src!Effective(prog, SrcPos + 1) /\ SrcPhase' = "run"
    BY <1>1, <1>2, <1>6, <2>1, Lands
  <2>5. Covered(prog) => Src!Test
    BY <1>1, <1>2, <1>4, <1>7, <1>9, <1>10, <2>4, SrcIs
  <2>6. QED
    BY <2>3, <2>5 DEF Src!Next
<1>11. CASE Src!Eval(x.val, mem) = 0
  <2>1. PICK j \in DOMAIN prog : Src!Encloses(prog, x.loc, j)
                                 /\ Comes(prog, code, 0, x.else, 1, j + 1)
    BY <1>4 DEF Behind
  <2>2. Src!EndOf(prog, x.loc) = j /\ j + 1 \in Nat \ {0}
    BY <1>2, <1>8, <2>1, EndIs, SMTT(60)
  <2>3. Comes(prog, code, 0, at'[1], at'[2], j + 1)
    BY <1>6, <1>11, <2>1
  <2>4. Covered(prog) => slots' = Assigned(prog, j + 1)
    <3>1. SUFFICES ASSUME Covered(prog) PROVE slots' = Assigned(prog, j + 1)
      OBVIOUS
    <3>2. FirstAtTop(prog) /\ \A y \in DOMAIN prog : Src!Level(prog, y) >= 0
      BY <1>8, <3>1 DEF Covered, Nested
    <3>3. Assigned(prog, j + 1) = Assigned(prog, x.loc)
      BY <1>2, <1>8, <2>1, <3>2, BodyAssigns
    <3>4. QED
      BY <1>5, <3>1, <3>3
  <2>5. XInv'
    BY <1>1, <1>6, <2>2, <2>3, <2>4, Moves
  <2>6. SrcPos' = Src!Effective(prog, j + 1) /\ SrcPhase' = "run"
    BY <1>1, <1>6, <2>2, <2>3, Lands
  <2>7. Covered(prog) => Src!Test
    BY <1>1, <1>2, <1>4, <1>7, <1>9, <1>11, <2>2, <2>6, SrcIs
  <2>8. QED
    BY <2>5, <2>7 DEF Src!Next
<1>12. QED
  BY <1>10, <1>11

LEMMA RetX ==
    ASSUME Src!SourceAssumption, SInv, XInv, Ret
    PROVE  XInv' /\ (Covered(prog) => [Src!Next]_(Src!vars))
<1> DEFINE x == Instr
<1>1. /\ phase = "run" /\ phase' = "returned" /\ x.op = "ret" /\ result' = Src!Eval(x.val, mem)
      /\ UNCHANGED <<tool, code, prog, at, mem, slots>>
  BY DEF Ret, Running, built
<1>2. /\ Right(tool, prog, code, 0, <<>>, at[1], at[2]) /\ x = code[at[1]][at[2]]
      /\ SrcPos = x.loc /\ SrcPhase = "run"
  BY <1>1, Now
<1>3. prog[x.loc].t = "return" /\ Uses(tool, prog, x)
  BY <1>1, <1>2 DEF Right, RightAlloca, RightStore, RightTest, RightHead, RightEnd, RightRet
<1>4. XInv'
  BY <1>1, Stops
<1>5. ASSUME Covered(prog) PROVE Src!Return
  <2>1. Src!Eval(x.val, mem) = Src!Eval(prog[SrcPos].val, SrcEnv)
    BY <1>1, <1>3, <1>5, Means
  <2>2. SrcPos' = SrcPos /\ SrcEnv' = SrcEnv /\ SrcPhase' = "returned"
    BY <1>1 DEF SrcPos, SrcEnv, SrcPhase
  <2>3. QED
    BY <1>1, <1>2, <1>3, <2>1, <2>2, SrcIs
<1>6. QED
  BY <1>4, <1>5 DEF Src!Next

LEMMA StrayX ==
    ASSUME Src!SourceAssumption, SInv, XInv, Stray
    PROVE  XInv' /\ (Covered(prog) => [Src!Next]_(Src!vars))
<1>1. phase = "run" /\ phase' = "undefined" /\ ~Addressed /\ UNCHANGED <<tool, prog>>
  BY DEF Stray, built
<1>2. ~Covered(prog)
  BY <1>1, AlwaysAddressed
<1>3. QED
  BY <1>1, <1>2, Stops

-----------------------------------------------------------------------------
\* Every step of the tool and of what it generated is one of the program's.

\* A reduction writes the next statement of the program.
LEMMA WrittenNext ==
    ASSUME XInv, NEW tok \in Tokens, phase \in {"parse", "head"},
           phase' \in {"parse", "head", "built"}, prog' = Append(prog, tok),
           UNCHANGED machine
    PROVE  Src!Next
<1>1. at = <<0, 0>> /\ UNCHANGED <<at, mem, slots, result>>
  BY DEF XInv, Unstarted, machine
<1>2. SrcPhase = "write" /\ SrcPhase' = SrcPhase
  BY DEF SrcPhase
<1>3. SrcPos' = SrcPos
  BY <1>1 DEF SrcPos
<1>4. SrcEnv' = SrcEnv
  BY <1>1 DEF SrcEnv
<1>5. Src!Write
  BY <1>1, <1>2, <1>3, <1>4, SrcIs
<1>6. QED
  BY <1>5 DEF Src!Next

LEMMA TokenX ==
    ASSUME Src!SourceAssumption, SInv, XInv, NEW tok \in Tokens,
           \/ Assign(tok) \/ Null(tok) \/ If(tok) \/ WhileBody(tok)
           \/ End(tok) \/ Return(tok)
    PROVE  XInv' /\ Src!Next
<1>1. XInv'
  BY AssignX, NullX, IfX, WhileBodyX, EndX, ReturnX
<1>2. /\ phase \in {"parse", "head"} /\ phase' \in {"parse", "head", "built"}
      /\ prog' = Append(prog, tok) /\ UNCHANGED machine
  BY DEF Assign, Null, If, WhileBody, End, Return, Reduce
<1>3. QED
  BY <1>1, <1>2, WrittenNext

\* The head of a while is not yet a statement.
LEMMA HeadNext ==
    ASSUME Src!SourceAssumption, SInv, XInv, WhileHead
    PROVE  XInv' /\ UNCHANGED Src!vars
<1>1. /\ phase = "parse" /\ phase' = "head" /\ at = <<0, 0>>
      /\ UNCHANGED <<prog, at, mem, slots, result>>
  BY DEF WhileHead, XInv, Unstarted, machine
<1>2. SrcPhase' = SrcPhase
  BY <1>1 DEF SrcPhase
<1>3. SrcPos' = SrcPos
  BY <1>1 DEF SrcPos
<1>4. SrcEnv' = SrcEnv
  BY <1>1 DEF SrcEnv
<1>5. QED
  BY <1>1, <1>2, <1>3, <1>4, SrcIs, WhileHeadX

\* A parse that is given up rejects the program.
LEMMA RejectNext ==
    ASSUME XInv, Crash \/ SyntaxError
    PROVE  XInv' /\ Src!Next
<1>1. /\ phase \in {"parse", "head"} /\ phase' \in {"error", "crashed"} /\ at = <<0, 0>>
      /\ UNCHANGED <<tool, prog, at, mem, slots, result>>
  BY DEF Crash, SyntaxError, XInv, Unstarted, built, machine
<1>2. SrcPhase = "write" /\ SrcPhase' = "rejected"
  BY <1>1 DEF SrcPhase
<1>3. SrcPos' = SrcPos
  BY <1>1 DEF SrcPos
<1>4. SrcEnv' = SrcEnv
  BY <1>1 DEF SrcEnv
<1>5. Src!Reject
  BY <1>1, <1>2, <1>3, <1>4, SrcIs
<1>6. XInv'
  BY <1>1, Stops
<1>7. QED
  BY <1>5, <1>6 DEF Src!Next

\* main.bc is run from its first instruction, which is the first statement's.
LEMMA BeginNext ==
    ASSUME SInv, XInv, SInv', WriteModule
    PROVE  XInv' /\ Src!Next
<1>1. /\ phase = "built" /\ phase' = "run" /\ at' = <<1, 1>>
      /\ UNCHANGED <<tool, code, cur, map, open, prog, mem, slots, result>>
  BY DEF WriteModule, built
<1>2. Comes(prog, code, 0, 1, 1, 1)
  BY <1>1, RunKnows DEF Wired
<1>3. at'[1] = 1 /\ at'[2] = 1 /\ 1 \in Nat \ {0}
  BY <1>1
<1>4. SrcPos' = Src!Effective(prog, 1) /\ SrcPhase' = "run"
  BY <1>1, <1>2, <1>3, Lands
<1>5. SrcPhase = "write"
  BY <1>1 DEF SrcPhase
<1>6. SrcEnv' = SrcEnv
  BY <1>1 DEF SrcEnv
<1>7. Src!Begin
  BY <1>1, <1>4, <1>5, <1>6, SrcIs
<1>8. QED
  BY <1>7, WriteModuleX DEF Src!Next

LEMMA NextX ==
    ASSUME Src!SourceAssumption, SInv, XInv, [Next]_vars
    PROVE  XInv' /\ [Covered(prog) => Src!Next]_(Src!vars)
<1>1. SInv'
  BY NextS
<1>2. CASE UNCHANGED vars
  <2>1. UNCHANGED <<tool, prog, phase, open, code, cur, map, bc, at, mem, slots, result>>
    BY <1>2 DEF vars
  <2>2. UNCHANGED <<SrcPhase, SrcPos, SrcEnv>>
    BY <2>1 DEF SrcPhase, SrcPos, SrcEnv
  <2>3. UNCHANGED Src!vars
    BY <2>1, <2>2, SrcIs
  <2>4. Nested' <=> Nested
    BY <2>1 DEF Nested, Top
  <2>5. Stored' <=> Stored
    BY <2>1, CoveredKept DEF Stored, Instr
  <2>6. (Unstarted' <=> Unstarted) /\ (Alive' <=> Alive) /\ Standing' = Standing
    BY <2>1 DEF Unstarted, Alive, Standing
  <2>7. XInv'
    BY <2>1, <2>4, <2>5, <2>6, CoveredKept DEF XInv
  <2>8. QED
    BY <2>3, <2>7
<1>3. CASE Parse
  BY <1>1, <1>3, TokenX, HeadNext, RejectNext, BeginNext DEF Parse
<1>4. CASE Execute
  BY <1>1, <1>4, AllocaX, StoreX, BranchX, CondBranchX, RetX, StrayX DEF Execute
<1>5. QED
  BY <1>2, <1>3, <1>4 DEF Next

LEMMA InitNext == ASSUME Init PROVE Src!Init
<1>1. /\ prog = <<>> /\ phase = "parse" /\ at = <<0, 0>> /\ slots = {} /\ result = -1
  BY DEF Init
<1>2. SrcPhase = "write" /\ SrcPos = 0 /\ SrcEnv = [v \in Vars |-> -1]
  BY <1>1 DEF SrcPhase, SrcPos, SrcEnv
<1>3. QED
  BY <1>1, <1>2, SrcIs

\* Whatever the identifiers, the statements and the bound on the program are,
\* the code that the tools of Tutorials/3 generate does what the program says:
\* each step of the generated code is the step the program takes next, or it
\* is one the program does not see, for every program whose statements the
\* tool translates.
THEOREM RefinementThm == Src!SourceAssumption => (Spec => RunsAsWritten)
<1> SUFFICES ASSUME Src!SourceAssumption PROVE Spec => RunsAsWritten
  OBVIOUS
<1> DEFINE IInv == SInv /\ XInv
<1>1. Init => IInv /\ Src!Init
  BY InitS, InitX, InitNext
<1>2. IInv /\ [Next]_vars => IInv' /\ [Covered(prog) => Src!Next]_(Src!vars)
  BY NextS, NextX
<1> HIDE DEF IInv
<1>3. QED
  BY <1>1, <1>2, PTL DEF Spec, RunsAsWritten

\* And such a program never reads or writes a stack slot that is not there:
\* every alloca it needs has been executed before.
THEOREM NeverStraysThm ==
    Src!SourceAssumption => (Spec => [](Covered(prog) => phase # "undefined"))
<1> SUFFICES ASSUME Src!SourceAssumption
             PROVE  Spec => [](Covered(prog) => phase # "undefined")
  OBVIOUS
<1> DEFINE IInv == SInv /\ XInv
<1>1. Init => IInv
  BY InitS, InitX
<1>2. IInv /\ [Next]_vars => IInv'
  BY NextS, NextX
<1>3. IInv => (Covered(prog) => phase # "undefined")
  BY DEF XInv
<1> HIDE DEF IInv
<1>4. QED
  BY <1>1, <1>2, <1>3, PTL DEF Spec

=============================================================================
