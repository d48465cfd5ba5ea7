-------------------------- MODULE SymbolTableProofs --------------------------
(***************************************************************************)
(* The symbol table, for every hash function, table size and threshold:    *)
(* items stay where lookups search, redeclarations hide until the table    *)
(* grows, and lookups implement ScopedNames.                               *)
(***************************************************************************)
EXTENDS SymbolTable, FiniteSetTheorems, SequenceTheorems, TLAPS

\* What a call may be given: names hashed to numbers, storage by number.
Entry == [name : Names, val : Nat \ {0}, pos : Int]

Tables ==
    [buckets : UNION {[0..(k - 1) -> SUBSET Entry] : k \in Nat \ {0}},
     num_buckets : Nat \ {0}, num_items : Nat,
     expand_mult : UNION {[0..(k - 1) -> Nat] : k \in Nat \ {0}},
     ineff_expands : Nat, noexpand : BOOLEAN]

Shape(t) ==
    /\ t = [buckets |-> t.buckets, num_buckets |-> t.num_buckets,
            num_items |-> t.num_items, expand_mult |-> t.expand_mult,
            ineff_expands |-> t.ineff_expands, noexpand |-> t.noexpand]
    /\ t.num_buckets \in Nat \ {0}
    /\ t.num_items \in Nat
    /\ t.ineff_expands \in Nat
    /\ t.noexpand \in BOOLEAN
    /\ t.buckets \in [0..(t.num_buckets - 1) -> SUBSET Entry]
    /\ t.expand_mult \in [0..(t.num_buckets - 1) -> Nat]

Placed(t, h) ==
    \A b \in 0..(t.num_buckets - 1) : \A e \in t.buckets[b] :
        b = Bucket(h, e.name, t.num_buckets)

Counted(t) == IsFiniteSet(Items(t)) /\ Cardinality(Items(t)) = t.num_items

Positions(t) ==
    /\ \A e \in Items(t) : /\ e.pos # 0
                           /\ e.pos <= t.num_items
                           /\ 0 - t.num_items <= e.pos
    /\ \A e, x \in Items(t) : e.pos \in {x.pos, 0 - x.pos} => e = x

\* Before the first doubling chains are in the order of declaration; k bounds
\* the storage made so far.
Ordered(t, k) ==
    /\ t.num_buckets >= InitBuckets
    /\ \A e \in Items(t) : e.val <= k
    /\ t.num_buckets = InitBuckets =>
          \A e, x \in Items(t) : x.pos <= e.pos => x.val <= e.val

TableInv(t, h, k) ==
    Shape(t) /\ Placed(t, h) /\ Counted(t) /\ Positions(t) /\ Ordered(t, k)

LEMMA BucketRange ==
    ASSUME NEW h \in Hashes, NEW n \in Names, NEW k \in Nat \ {0}
    PROVE  Bucket(h, n, k) \in 0..(k - 1)
<1>1. h[n] \in Nat
  BY UtHashAssumption
<1>2. QED
  BY <1>1 DEF Bucket

LEMMA NewTableInv ==
    ASSUME NEW h \in Hashes, NEW k \in Nat
    PROVE  TableInv(NewTable, h, k) /\ Items(NewTable) = {}
<1>1. Items(NewTable) = {}
  BY DEF Items, NewTable
<1>2. Shape(NewTable)
  BY UtHashAssumption DEF Shape, NewTable
<1>3. Placed(NewTable, h) /\ Counted(NewTable)
  BY <1>1, FS_EmptySet DEF Placed, Counted, NewTable
<1>4. Positions(NewTable) /\ Ordered(NewTable, k)
  <2>1. NewTable.num_buckets = InitBuckets
    BY DEF NewTable
  <2>2. QED
    BY <1>1, <2>1, UtHashAssumption DEF Positions, Ordered
<1>5. QED
  BY <1>1, <1>2, <1>3, <1>4 DEF TableInv

\* Adding an item adds it, at the head of its chain.
LEMMA InsertInv ==
    ASSUME NEW t, NEW h \in Hashes, NEW k \in Nat, TableInv(t, h, k),
           NEW n \in Names
    PROVE  /\ TableInv(Insert(t, h, n, k + 1), h, k + 1)
           /\ Items(Insert(t, h, n, k + 1)) =
                Items(t) \cup {[name |-> n, val |-> k + 1, pos |-> t.num_items + 1]}
<1> DEFINE e0 == [name |-> n, val |-> k + 1, pos |-> t.num_items + 1]
           b0 == Bucket(h, n, t.num_buckets)
           s  == Insert(t, h, n, k + 1)
<1>1. b0 \in 0..(t.num_buckets - 1)
  BY BucketRange DEF TableInv, Shape
<1>2. Shape(t)
  BY DEF TableInv
<1>3. s = [buckets |-> [t.buckets EXCEPT ![b0] = @ \cup {e0}],
           num_buckets |-> t.num_buckets, num_items |-> t.num_items + 1,
           expand_mult |-> t.expand_mult, ineff_expands |-> t.ineff_expands,
           noexpand |-> t.noexpand]
  <2> HIDE DEF e0, b0
  <2>1. s = [t EXCEPT !.num_items = @ + 1, !.buckets[b0] = @ \cup {e0}]
    BY DEF Insert, e0, b0
  <2>2. QED
    BY <1>2, <2>1 DEF Shape
<1> HIDE DEF s, e0, b0
<1>4. /\ e0 \in Entry
      /\ e0.name = n /\ e0.val = k + 1 /\ e0.pos = t.num_items + 1
      /\ s.num_items = t.num_items + 1 /\ s.num_buckets = t.num_buckets
  BY <1>2, <1>3 DEF e0, Entry, Shape
<1>5. Shape(s)
  BY <1>1, <1>2, <1>3, <1>4 DEF Shape
<1>6. Items(s) = Items(t) \cup {e0}
  BY <1>1, <1>2, <1>3 DEF Items, Shape
<1>7. Placed(s, h)
  BY <1>1, <1>2, <1>3 DEF TableInv, Placed, Shape, e0, b0
<1>8. \A e \in Items(t) : /\ e.pos \in Int /\ e.val \in Nat
                          /\ e.pos # 0 /\ e.val <= k
                          /\ e.pos <= t.num_items /\ 0 - t.num_items <= e.pos
  BY <1>2 DEF TableInv, Positions, Ordered, Shape, Items, Entry
<1>9. t.num_items \in Nat
  BY <1>2 DEF Shape
<1>10. Positions(s)
  <2>1. \A e \in Items(s) : e.pos # 0 /\ e.pos <= s.num_items /\ 0 - s.num_items <= e.pos
    BY <1>4, <1>6, <1>8, <1>9
  <2>2. \A e \in Items(t) : e.pos \notin {e0.pos, 0 - e0.pos} /\ e0.pos \notin {e.pos, 0 - e.pos}
    BY <1>4, <1>8, <1>9
  <2>3. \A e, x \in Items(s) : e.pos \in {x.pos, 0 - x.pos} => e = x
    BY <1>6, <2>2 DEF TableInv, Positions
  <2>4. QED
    BY <2>1, <2>3 DEF Positions
<1>11. Counted(s)
  <2>1. e0 \notin Items(t)
    BY <1>4, <1>8, <1>9
  <2>2. QED
    BY <1>4, <1>6, <2>1, FS_AddElement DEF TableInv, Counted
<1>12. Ordered(s, k + 1)
  <2>1. \A e \in Items(s) : e.val <= k + 1
    BY <1>4, <1>6, <1>8
  <2>2. \A e \in Items(t) : ~(e0.pos <= e.pos)
    BY <1>4, <1>8, <1>9
  <2>3. ASSUME s.num_buckets = InitBuckets, NEW e \in Items(s), NEW x \in Items(s),
               x.pos <= e.pos
        PROVE  x.val <= e.val
    <3>1. CASE e = e0
      BY <1>4, <2>1, <3>1
    <3>2. CASE e # e0
      BY <1>4, <1>6, <2>2, <2>3, <3>2 DEF TableInv, Ordered
    <3>3. QED
      BY <3>1, <3>2
  <2>4. QED
    BY <1>4, <2>1, <2>3 DEF TableInv, Ordered
<1>13. QED
  BY <1>5, <1>6, <1>7, <1>10, <1>11, <1>12 DEF TableInv, s, e0

\* Doubling keeps every item and finds each its chain under the new mask.
LEMMA ExpandInv ==
    ASSUME NEW t, NEW h \in Hashes, NEW k \in Nat, TableInv(t, h, k),
           t.num_items > 0
    PROVE  /\ TableInv(Expand(t, h), h, k)
           /\ Items(Expand(t, h)) = {Flip(e) : e \in Items(t)}
<1> DEFINE s == Expand(t, h)
           I == Items(t)
           ideal == (t.num_items + 2 * t.num_buckets - 1) \div (2 * t.num_buckets)
           card(b) == Cardinality(Spread(t, h)[b])
           over(b) == IF card(b) > ideal THEN card(b) - ideal ELSE 0
           mult == [b \in 0..(2 * t.num_buckets - 1) |->
                       IF over(b) > 0 THEN card(b) \div ideal ELSE 0]
           ineff == IF MapThenSumSet(over, 0..(2 * t.num_buckets - 1)) > t.num_items \div 2
                    THEN t.ineff_expands + 1 ELSE 0
<1>1. Shape(t)
  BY DEF TableInv
<1>2. \A e \in I : e \in Entry
  BY <1>1 DEF Shape, Items
<1>3. /\ s = [buckets |-> Spread(t, h), num_buckets |-> 2 * t.num_buckets,
              num_items |-> t.num_items, expand_mult |-> mult,
              ineff_expands |-> ineff, noexpand |-> (ineff > 1)]
      /\ s.buckets = Spread(t, h)
      /\ s.num_buckets = 2 * t.num_buckets
      /\ s.num_items = t.num_items
      /\ s.expand_mult = mult
      /\ s.ineff_expands = ineff
      /\ s.noexpand = (ineff > 1)
  <2>1. s = [buckets |-> Spread(t, h), num_buckets |-> 2 * t.num_buckets,
             num_items |-> t.num_items, expand_mult |-> mult,
             ineff_expands |-> ineff, noexpand |-> (ineff > 1)]
    BY Zenon DEF Expand
  <2> HIDE DEF s, mult, ineff
  <2>2. QED
    BY <2>1
<1>3a. ineff \in {0, t.ineff_expands + 1}
  OBVIOUS
<1> HIDE DEF s, I, ineff, mult, over
<1>4. s.num_buckets \in Nat \ {0} /\ s.num_buckets > t.num_buckets
  BY <1>1, <1>3 DEF Shape
<1>5. \A e \in I : /\ Flip(e) \in Entry
                   /\ Flip(e).name = e.name
                   /\ Flip(e).val = e.val
                   /\ Flip(e).pos = 0 - e.pos
  BY <1>2 DEF Flip, Entry
<1>6. \A b \in 0..(s.num_buckets - 1) :
         s.buckets[b] = {Flip(e) : e \in {x \in I : Bucket(h, x.name, s.num_buckets) = b}}
  BY <1>3 DEF Spread, I
<1>7. Items(s) = {Flip(e) : e \in I}
  <2>1. \A e \in I : Bucket(h, e.name, s.num_buckets) \in 0..(s.num_buckets - 1)
    BY <1>2, <1>4, BucketRange DEF Entry
  <2>2. QED
    BY <1>6, <2>1 DEF Items
<1>8. Shape(s)
  <2>1. s.buckets \in [0..(s.num_buckets - 1) -> SUBSET Entry]
    <3>1. s.buckets = [b \in 0..(s.num_buckets - 1) |->
              {Flip(e) : e \in {x \in I : Bucket(h, x.name, s.num_buckets) = b}}]
      BY <1>3 DEF Spread, I
    <3>2. \A b : {Flip(e) : e \in {x \in I : Bucket(h, x.name, s.num_buckets) = b}} \subseteq Entry
      BY <1>5
    <3>3. QED
      BY <3>1, <3>2
  <2>2. ideal \in Nat \ {0}
    <3>1. t.num_items \in Nat /\ t.num_buckets \in Nat \ {0}
      BY <1>1 DEF Shape
    <3>2. PICK m : m = 2 * t.num_buckets
      OBVIOUS
    <3>3. PICK a : a = t.num_items + m - 1
      OBVIOUS
    <3>4. m \in Nat \ {0} /\ a \in Nat /\ a >= m
      BY <3>1, <3>2, <3>3
    <3>5. \A c \in Nat, d \in Nat \ {0} : c >= d => c \div d \in Nat \ {0}
      OBVIOUS
    <3>6. a \div m \in Nat \ {0}
      BY <3>4, <3>5
    <3>7. QED
      BY <3>2, <3>3, <3>6
  <2>3. ASSUME NEW b \in 0..(s.num_buckets - 1) PROVE card(b) \in Nat
    <3>1. Spread(t, h)[b] \subseteq {Flip(e) : e \in I}
      BY <1>3, <1>6
    <3>2. IsFiniteSet({Flip(e) : e \in I})
      <4>1. [e \in I |-> Flip(e)] \in Surjection(I, {Flip(e) : e \in I})
        BY DEF Surjection
      <4>2. QED
        BY <4>1, FS_Surjection DEF TableInv, Counted, I
    <3>3. QED
      BY <3>1, <3>2, FS_Subset, FS_CardinalityType
  <2>4. \A c, d \in Nat : d # 0 => c \div d \in Nat
    OBVIOUS
  <2> HIDE DEF ideal, card
  <2>5. mult \in [0..(s.num_buckets - 1) -> Nat]
    BY <1>3, <2>2, <2>3, <2>4 DEF mult, over
  <2>6. ineff \in Nat /\ (ineff > 1) \in BOOLEAN
    BY <1>3a, <1>1 DEF Shape
  <2>7. QED
    BY <1>1, <1>3, <1>4, <2>1, <2>5, <2>6 DEF Shape
<1>9. Placed(s, h)
  BY <1>5, <1>6 DEF Placed
<1>10. \A e, x \in I : e.pos \in Int /\ (e.pos \in {x.pos, 0 - x.pos} => e = x)
  BY <1>2 DEF TableInv, Positions, I, Entry
<1>11. Positions(s)
  BY <1>1, <1>2, <1>3, <1>5, <1>7, <1>10, SMTT(60) DEF TableInv, Positions, I, Shape, Entry
<1>12. Counted(s)
  <2> DEFINE f == [e \in I |-> Flip(e)]
  <2>1. f \in Bijection(I, Items(s))
    <3>1. f \in [I -> Items(s)]
      BY <1>7
    <3>2. \A y \in Items(s) : \E e \in I : f[e] = y
      BY <1>7
    <3>3. \A e, x \in I : f[e] = f[x] => e = x
      BY <1>5, <1>10
    <3>4. QED
      BY <3>1, <3>2, <3>3 DEF Bijection, Injection, Surjection, IsInjective
  <2>2. QED
    BY <1>3, <2>1, FS_Bijection DEF ExistsBijection, TableInv, Counted, I
<1>13. Ordered(s, k)
  <2>1. s.num_buckets > InitBuckets
    BY <1>1, <1>4, UtHashAssumption DEF TableInv, Ordered, Shape
  <2>2. \A e \in Items(s) : e.val <= k
    BY <1>5, <1>7 DEF TableInv, Ordered, I
  <2>3. QED
    BY <1>4, <2>1, <2>2, UtHashAssumption DEF Ordered
<1>14. QED
  BY <1>7, <1>8, <1>9, <1>11, <1>12, <1>13 DEF TableInv, s, I

\* HASH_ADD_KEYPTR as a whole, whether the table doubles or not.
LEMMA AddInv ==
    ASSUME NEW t, NEW h \in Hashes, NEW k \in Nat, TableInv(t, h, k),
           NEW n \in Names
    PROVE  /\ TableInv(Add(t, h, n, k + 1), h, k + 1)
           /\ \A m \in Names : Declared(Add(t, h, n, k + 1), m) =
                IF m = n THEN Declared(t, m) \cup {k + 1} ELSE Declared(t, m)
<1> DEFINE s  == Insert(t, h, n, k + 1)
           e0 == [name |-> n, val |-> k + 1, pos |-> t.num_items + 1]
<1>1. TableInv(s, h, k + 1) /\ Items(s) = Items(t) \cup {e0}
  BY InsertInv
<1>2. s.num_items > 0
  BY DEF TableInv, Shape, Insert
<1>3. \A m \in Names : Declared(s, m) =
         IF m = n THEN Declared(t, m) \cup {k + 1} ELSE Declared(t, m)
  <2>1. e0.name = n /\ e0.val = k + 1
    OBVIOUS
  <2> HIDE DEF s, e0
  <2>2. QED
    BY <1>1, <2>1 DEF Declared
<1> HIDE DEF s
<1>4. CASE Full(s, Bucket(h, n, t.num_buckets))
  <2>1. Add(t, h, n, k + 1) = Expand(s, h)
    BY <1>4 DEF Add, s
  <2>2. /\ TableInv(Expand(s, h), h, k + 1)
        /\ Items(Expand(s, h)) = {Flip(e) : e \in Items(s)}
    BY <1>1, <1>2, ExpandInv
  <2>3. \A e \in Items(s) : Flip(e).name = e.name /\ Flip(e).val = e.val
    BY <1>1 DEF TableInv, Shape, Items, Entry, Flip
  <2>4. \A m \in Names : Declared(Expand(s, h), m) = Declared(s, m)
    BY <2>2, <2>3 DEF Declared
  <2>5. QED
    BY <1>3, <2>1, <2>2, <2>4
<1>5. CASE ~Full(s, Bucket(h, n, t.num_buckets))
  BY <1>1, <1>3, <1>5 DEF Add, s
<1>6. QED
  BY <1>4, <1>5

LEMMA AddDeclared ==
    ASSUME NEW t, NEW h \in Hashes, NEW k \in Nat, TableInv(t, h, k),
           NEW n \in Names, NEW m \in Names, NEW v
    PROVE  v \in Declared(Add(t, h, n, k + 1), m) <=>
              v \in Declared(t, m) \/ (m = n /\ v = k + 1)
<1>1. Declared(Add(t, h, n, k + 1), m) =
        IF m = n THEN Declared(t, m) \cup {k + 1} ELSE Declared(t, m)
  BY AddInv
<1>2. CASE m = n
  BY <1>1, <1>2
<1>3. CASE m # n
  BY <1>1, <1>3
<1>4. QED
  BY <1>2, <1>3

LEMMA TableInvLater ==
    ASSUME NEW t, NEW h \in Hashes, NEW k \in Nat, TableInv(t, h, k)
    PROVE  TableInv(t, h, k + 1)
<1>1. \A e \in Items(t) : e.val \in Nat
  BY DEF TableInv, Shape, Items, Entry
<1>2. QED
  BY <1>1 DEF TableInv, Ordered

\* What a lookup in one scope sees is what the scope declares.
LEMMA MatchesDeclared ==
    ASSUME NEW t, NEW h \in Hashes, NEW k \in Nat, TableInv(t, h, k),
           NEW n \in Names
    PROVE  /\ Matches(t, h, n) = {e \in Items(t) : e.name = n}
           /\ Matches(t, h, n) = {} <=> Declared(t, n) = {}
           /\ \A e \in First(t, h, n) : e.val \in Declared(t, n)
<1>1. Bucket(h, n, t.num_buckets) \in 0..(t.num_buckets - 1)
  BY BucketRange DEF TableInv, Shape
<1>2. Matches(t, h, n) = {e \in Items(t) : e.name = n}
  BY <1>1 DEF Matches, Items, TableInv, Placed
<1>3. QED
  BY <1>2 DEF First, Declared

-----------------------------------------------------------------------------

IInv ==
    /\ hash \in Hashes
    /\ scopes \in Seq(Tables)
    /\ Len(scopes) <= MaxDepth
    /\ \A i \in 1..Len(scopes) : TableInv(scopes[i], hash, made)
    /\ globals \in [Names -> Vals \cup {NoVal}]
    /\ functions \in SUBSET {n \in Names : globals[n] = NoVal}
    /\ made \in 0..MaxVals
    /\ found \in Vals \cup {NoVal}

LEMMA ShapeTables ==
    ASSUME NEW t, Shape(t) PROVE t \in Tables
BY DEF Shape, Tables

\* The scopes after each of the steps that change them.
LEMMA PushScopes ==
    ASSUME IInv, symbol_push_scope
    PROVE  /\ scopes' \in Seq(Tables)
           /\ Len(scopes') = Len(scopes) + 1
           /\ \A i \in 1..Len(scopes') :
                 scopes'[i] = IF i = 1 THEN NewTable ELSE scopes[i - 1]
<1>1. NewTable \in Tables
  <2>1. TableInv(NewTable, hash, 0)
    BY NewTableInv DEF IInv
  <2>2. QED
    BY <2>1, ShapeTables DEF TableInv
<1>2. <<NewTable>> \in Seq(Tables) /\ Len(<<NewTable>>) = 1 /\ <<NewTable>>[1] = NewTable
  <2> HIDE DEF NewTable
  <2>1. QED
    BY <1>1
<1>3. scopes \in Seq(Tables) /\ Len(scopes) \in Nat /\ scopes' = <<NewTable>> \o scopes
  BY DEF IInv, symbol_push_scope
<1>4. QED
  BY <1>2, <1>3, ConcatProperties

LEMMA PopScopes ==
    ASSUME IInv, symbol_pop_scope
    PROVE  /\ scopes # << >>
           /\ scopes' \in Seq(Tables)
           /\ Len(scopes') = Len(scopes) - 1
           /\ \A i \in 1..Len(scopes') : scopes'[i] = scopes[i + 1]
BY HeadTailProperties DEF IInv, symbol_pop_scope, is_global_scope

LEMMA InsertScopes ==
    ASSUME IInv, NEW n \in Names, symbol_insert(n)
    PROVE  /\ 1 \in 1..Len(scopes)
           /\ scopes' \in Seq(Tables)
           /\ Len(scopes') = Len(scopes)
           /\ \A i \in 1..Len(scopes) :
                 scopes'[i] = IF i = 1 THEN Add(scopes[1], hash, n, made + 1)
                              ELSE scopes[i]
<1>1. 1 \in 1..Len(scopes)
  BY EmptySeq DEF IInv, symbol_insert, is_global_scope
<1>2. Add(scopes[1], hash, n, made + 1) \in Tables
  BY <1>1, AddInv, ShapeTables DEF IInv, TableInv
<1>3. scopes' = [scopes EXCEPT ![1] = Add(scopes[1], hash, n, made + 1)]
  BY DEF symbol_insert
<1>4. QED
  BY <1>1, <1>2, <1>3, ExceptSeq DEF IInv

LEMMA InitIInv == Init => IInv
BY SymbolTableAssumption DEF Init, IInv, Vals

LEMMA FoundVal ==
    ASSUME IInv, NEW n \in Names, symbol_find(n)
    PROVE  found' \in Vals \cup {NoVal}
<1>1. ASSUME NEW i \in 1..Len(scopes), NEW e \in First(scopes[i], hash, n),
             found' = e.val
      PROVE  found' \in Vals
  <2>1. TableInv(scopes[i], hash, made) /\ made \in Nat
    BY DEF IInv
  <2>2. e \in Items(scopes[i])
    BY <2>1, MatchesDeclared DEF First, IInv
  <2>3. e.val \in Nat \ {0} /\ e.val <= made
    BY <2>1, <2>2 DEF TableInv, Shape, Items, Entry, Ordered
  <2>4. QED
    BY <1>1, <2>3, SymbolTableAssumption DEF IInv, Vals
<1>2. QED
  BY <1>1 DEF symbol_find, IInv

LEMMA NextIInv == IInv /\ [Next]_vars => IInv'
<1> SUFFICES ASSUME IInv, [Next]_vars PROVE IInv'
  OBVIOUS
<1>1. CASE symbol_push_scope
  <2>1. ASSUME NEW i \in 1..Len(scopes') PROVE TableInv(scopes'[i], hash, made)
    <3>1. CASE i = 1
      <4>1. TableInv(NewTable, hash, made)
        BY NewTableInv, SymbolTableAssumption DEF IInv
      <4>2. QED
        BY PushScopes, <1>1, <3>1, <4>1
    <3>2. CASE i # 1
      <4>1. i - 1 \in 1..Len(scopes)
        BY PushScopes, <1>1, <3>2 DEF IInv
      <4>2. QED
        BY PushScopes, <1>1, <3>2, <4>1 DEF IInv
    <3>3. QED
      BY <3>1, <3>2
  <2>2. Len(scopes') <= MaxDepth
    BY PushScopes, <1>1, SymbolTableAssumption DEF IInv, symbol_push_scope
  <2>3. QED
    BY PushScopes, <1>1, <2>1, <2>2 DEF IInv, symbol_push_scope
<1>2. CASE symbol_pop_scope
  BY PopScopes, <1>2, SymbolTableAssumption DEF IInv, symbol_pop_scope
<1>3. ASSUME NEW n \in Names, symbol_insert(n) PROVE IInv'
  <2>1. made \in Nat /\ made' = made + 1 /\ made' \in 0..MaxVals
    BY <1>3, SymbolTableAssumption DEF IInv, symbol_insert
  <2>2. \A i \in 1..Len(scopes) : TableInv(scopes[i], hash, made)
    BY DEF IInv
  <2>3. ASSUME NEW i \in 1..Len(scopes') PROVE TableInv(scopes'[i], hash, made + 1)
    <3>1. i \in 1..Len(scopes) /\ hash \in Hashes
      BY InsertScopes, <1>3 DEF IInv
    <3>2. CASE i = 1
      <4>1. TableInv(Add(scopes[1], hash, n, made + 1), hash, made + 1)
        BY AddInv, <2>1, <2>2, <3>1, <3>2
      <4>2. QED
        BY InsertScopes, <1>3, <3>1, <3>2, <4>1
    <3>3. CASE i # 1
      <4>1. scopes'[i] = scopes[i]
        BY InsertScopes, <1>3, <3>1, <3>3
      <4>2. QED
        BY TableInvLater, <2>1, <2>2, <3>1, <4>1
    <3>4. QED
      BY <3>2, <3>3
  <2>4. QED
    BY InsertScopes, <1>3, <2>1, <2>3 DEF IInv, symbol_insert
<1>4. ASSUME NEW n \in Names, AddGlobal(n) PROVE IInv'
  <2>1. made \in Nat /\ made' = made + 1 /\ made' \in 0..MaxVals
    BY <1>4, SymbolTableAssumption DEF IInv, AddGlobal
  <2>2. /\ globals' \in [Names -> Vals \cup {NoVal}]
        /\ functions' \in SUBSET {m \in Names : globals'[m] = NoVal}
    BY <1>4, <2>1 DEF IInv, AddGlobal, Taken, Vals
  <2>3. \A i \in 1..Len(scopes) : TableInv(scopes[i], hash, made)
    BY DEF IInv
  <2>4. \A i \in 1..Len(scopes) : TableInv(scopes[i], hash, made + 1)
    BY <2>1, <2>3, TableInvLater DEF IInv
  <2>5. QED
    BY <1>4, <2>1, <2>2, <2>4 DEF IInv, AddGlobal
<1>5. ASSUME NEW n \in Names, symbol_find(n) PROVE IInv'
  BY <1>5, FoundVal DEF IInv, symbol_find
<1>6. ASSUME NEW n \in Names, AddFunction(n) PROVE IInv'
  <2>1. functions' \in SUBSET {m \in Names : globals'[m] = NoVal}
    BY <1>6 DEF IInv, AddFunction, Taken
  <2>2. QED
    BY <1>6, <2>1 DEF IInv, AddFunction
<1>7. CASE UNCHANGED vars
  BY <1>7 DEF IInv, vars
<1>8. QED
  BY <1>1, <1>2, <1>3, <1>4, <1>5, <1>6, <1>7 DEF Next

LEMMA SpecIInv == Spec => []IInv
BY InitIInv, NextIInv, PTL DEF Spec

-----------------------------------------------------------------------------
\* The state of the table is what symbol.c and uthash.h declare it to be.
THEOREM TypeThm == Spec => []TypeOK
<1>1. IInv => TypeOK
  <2> SUFFICES ASSUME IInv PROVE TypeOK
    OBVIOUS
  <2>1. ASSUME NEW i \in 1..Len(scopes) PROVE IsTable(scopes[i])
    <3> DEFINE t == scopes[i]
    <3>1. TableInv(t, hash, made) /\ made \in Nat /\ made <= MaxVals
      BY SymbolTableAssumption DEF IInv
    <3> HIDE DEF t
    <3>2. ASSUME NEW b \in 0..(t.num_buckets - 1), NEW e \in t.buckets[b]
          PROVE  e \in [name : Names, val : Vals, pos : Int]
      <4>1. e \in Entry /\ e \in Items(t)
        BY <3>1 DEF TableInv, Shape, Items
      <4>2. e.val \in Vals
        BY <3>1, <4>1, SymbolTableAssumption DEF TableInv, Ordered, Entry, Vals
      <4>3. QED
        BY <4>1, <4>2 DEF Entry
    <3>3. t.buckets \in [0..(t.num_buckets - 1) ->
                            SUBSET [name : Names, val : Vals, pos : Int]]
      BY <3>1, <3>2 DEF TableInv, Shape
    <3>4. IsTable(t)
      BY <3>1, <3>3 DEF TableInv, Shape, IsTable
    <3>5. QED
      BY <3>4 DEF t
  <2>2. QED
    BY <2>1 DEF IInv, TypeOK
<1>2. QED
  BY <1>1, SpecIInv, PTL

\* No insertion and no doubling loses an item, links it twice, or leaves it in
\* a chain that HASH_FIND does not search for its name.
THEOREM SoundThm == Spec => []TablesSound
<1>1. IInv => TablesSound
  BY DEF IInv, TableInv, Placed, Counted, Positions, TablesSound
<1>2. QED
  BY <1>1, SpecIInv, PTL

\* Until its table first doubles, a scope finds the latest declaration.
THEOREM LatestThm == Spec => []LatestUntilGrowth
<1>1. IInv => LatestUntilGrowth
  <2> SUFFICES ASSUME IInv, NEW i \in 1..Len(scopes), NEW n \in Names,
                      scopes[i].num_buckets = InitBuckets,
                      NEW e \in First(scopes[i], hash, n),
                      NEW x \in Matches(scopes[i], hash, n)
               PROVE  x.val <= e.val
    BY DEF LatestUntilGrowth
  <2>1. TableInv(scopes[i], hash, made) /\ made \in Nat
    BY DEF IInv
  <2>2. /\ e \in Items(scopes[i]) /\ x \in Items(scopes[i])
        /\ x.pos <= e.pos
    BY <2>1, MatchesDeclared DEF First, IInv
  <2>3. QED
    BY <2>1, <2>2 DEF TableInv, Ordered
<1>2. QED
  BY <1>1, SpecIInv, PTL

-----------------------------------------------------------------------------
\* The refinement.

Envs == Seq([Names -> SUBSET Nat])

LEMMA EnvOfSeq ==
    ASSUME NEW ss \in Seq(Tables), NEW h \in Hashes, NEW k \in Nat,
           \A i \in 1..Len(ss) : TableInv(ss[i], h, k)
    PROVE  /\ Len(ss) \in Nat
           /\ EnvOf(ss) \in Envs
           /\ Len(EnvOf(ss)) = Len(ss)
           /\ \A i \in 1..Len(ss), n \in Names : EnvOf(ss)[i][n] = Declared(ss[i], n)
<1> DEFINE f(i) == [n \in Names |-> Declared(ss[i], n)]
<1>1. Len(ss) \in Nat
  OBVIOUS
<1>2. ASSUME NEW i \in 1..Len(ss) PROVE f(i) \in [Names -> SUBSET Nat]
  <2>1. \A e \in Items(ss[i]) : e.val \in Nat
    <3>1. Shape(ss[i])
      BY DEF TableInv
    <3>2. QED
      BY <3>1 DEF Shape, Items, Entry
  <2>2. QED
    BY <2>1 DEF Declared
<1>3. EnvOf(ss) = [i \in 1..Len(ss) |-> f(i)]
  BY DEF EnvOf
<1> HIDE DEF f
<1>4. EnvOf(ss) \in Envs /\ Len(EnvOf(ss)) = Len(ss)
  BY <1>1, <1>2, <1>3 DEF Envs
<1>5. QED
  BY <1>1, <1>4 DEF EnvOf

LEMMA EnvBar ==
    ASSUME IInv
    PROVE  /\ Len(scopes) \in Nat
           /\ envBar \in Envs
           /\ Len(envBar) = Len(scopes)
           /\ \A i \in 1..Len(scopes), n \in Names :
                 envBar[i][n] = Declared(scopes[i], n)
BY EnvOfSeq, SymbolTableAssumption DEF IInv, envBar

LEMMA EnvBarNext ==
    ASSUME IInv'
    PROVE  /\ envBar' \in Envs
           /\ Len(envBar') = Len(scopes')
           /\ \A i \in 1..Len(scopes'), n \in Names :
                 envBar'[i][n] = Declared(scopes'[i], n)
BY EnvOfSeq, SymbolTableAssumption DEF IInv, envBar

LEMMA FunEqual ==
    ASSUME NEW f \in [Names -> SUBSET Nat], NEW g \in [Names -> SUBSET Nat],
           \A n \in Names : f[n] = g[n]
    PROVE  f = g
OBVIOUS

LEMMA EnvEqual ==
    ASSUME NEW r \in Envs, NEW s \in Envs, Len(r) = Len(s),
           \A i \in 1..Len(r), n \in Names : r[i][n] = s[i][n]
    PROVE  r = s
<1>1. ASSUME NEW i \in 1..Len(r) PROVE r[i] = s[i]
  <2>1. r[i] \in [Names -> SUBSET Nat] /\ s[i] \in [Names -> SUBSET Nat]
    BY ElementOfSeq DEF Envs
  <2>2. QED
    BY <2>1, FunEqual
<1>2. QED
  BY <1>1, SeqEqual DEF Envs

LEMMA InitBar == Init => SN!Init
<1> SUFFICES ASSUME Init PROVE SN!Init
  OBVIOUS
<1>1. IInv /\ Len(scopes) = 0
  BY InitIInv DEF Init
<1>2. envBar = << >>
  BY <1>1, EnvBar, EmptySeq, EnvEqual DEF Envs
<1>3. QED
  BY <1>2 DEF Init, SN!Init

LEMMA PushBar ==
    ASSUME IInv, IInv', symbol_push_scope PROVE SN!Push
<1>1. SN!NoNames \in [Names -> SUBSET Nat] /\ \A n \in Names : SN!NoNames[n] = {}
  BY DEF SN!NoNames
<1> DEFINE r == <<SN!NoNames>> \o envBar
<1>2. <<SN!NoNames>> \in Envs /\ Len(<<SN!NoNames>>) = 1
      /\ <<SN!NoNames>>[1] = SN!NoNames
  BY <1>1 DEF Envs
<1>3. /\ r \in Envs /\ Len(r) = Len(scopes) + 1
      /\ \A i \in 1..Len(r) : r[i] = IF i = 1 THEN SN!NoNames ELSE envBar[i - 1]
  BY <1>2, EnvBar, ConcatProperties DEF Envs
<1> HIDE DEF r
<1>4. \A n \in Names : Declared(NewTable, n) = {}
  BY NewTableInv DEF IInv, Declared
<1>5. /\ envBar' \in Envs /\ Len(envBar') = Len(scopes')
      /\ \A i \in 1..Len(scopes'), n \in Names : envBar'[i][n] = Declared(scopes'[i], n)
  BY EnvBarNext
<1>6. ASSUME NEW i \in 1..Len(r), NEW n \in Names PROVE r[i][n] = envBar'[i][n]
  <2>1. Len(scopes) \in Nat
    BY EnvBar
  <2>2. CASE i = 1
    <3>1. 1 \in 1..Len(scopes') /\ scopes'[1] = NewTable
      BY <2>1, PushScopes
    <3>2. envBar'[1][n] = {}
      BY <1>4, <1>5, <3>1
    <3>3. QED
      BY <1>1, <1>3, <2>1, <2>2, <3>2
  <2>3. CASE i # 1
    <3>1. i - 1 \in 1..Len(scopes)
      BY <1>3, <2>1, <2>3
    <3>2. QED
      BY <1>3, <1>5, <2>1, <2>3, <3>1, PushScopes, EnvBar
  <2>4. QED
    BY <2>2, <2>3
<1>7. envBar' = r
  BY <1>3, <1>5, <1>6, PushScopes, EnvEqual
<1>8. QED
  BY <1>7 DEF r, SN!Push, symbol_push_scope

LEMMA PopBar ==
    ASSUME IInv, IInv', symbol_pop_scope PROVE SN!Pop
<1>1. envBar # << >> /\ Len(scopes) \in Nat /\ Len(scopes) > 0
  <2>1. Len(scopes) > 0
    BY PopScopes, EmptySeq DEF IInv
  <2>2. QED
    BY <2>1, EnvBar
<1> DEFINE r == Tail(envBar)
<1>2. /\ r \in Envs /\ Len(r) = Len(scopes) - 1
      /\ \A i \in 1..Len(r) : r[i] = envBar[i + 1]
  BY <1>1, EnvBar, HeadTailProperties DEF Envs
<1> HIDE DEF r
<1>3. /\ envBar' \in Envs /\ Len(envBar') = Len(scopes')
      /\ \A i \in 1..Len(scopes'), n \in Names : envBar'[i][n] = Declared(scopes'[i], n)
  BY EnvBarNext
<1>4. ASSUME NEW i \in 1..Len(r), NEW n \in Names PROVE r[i][n] = envBar'[i][n]
  BY <1>1, <1>2, <1>3, PopScopes, EnvBar
<1>5. envBar' = r
  BY <1>2, <1>3, <1>4, PopScopes, EnvEqual
<1>6. QED
  BY <1>1, <1>5 DEF r, SN!Pop, symbol_pop_scope

LEMMA InsertBar ==
    ASSUME IInv, IInv', NEW n \in Names, symbol_insert(n)
    PROVE  SN!Declare(n, made + 1)
<1>1. 1 \in 1..Len(scopes) /\ made \in Nat
  BY InsertScopes, SymbolTableAssumption DEF IInv
<1> DEFINE d == envBar[1][n] \cup {made + 1}
           f == [envBar[1] EXCEPT ![n] = d]
           r == [envBar EXCEPT ![1] = f]
<1>2. envBar[1] \in [Names -> SUBSET Nat]
  BY <1>1, EnvBar, ElementOfSeq DEF Envs
<1>3. /\ f \in [Names -> SUBSET Nat]
      /\ \A m \in Names : f[m] = IF m = n THEN envBar[1][n] \cup {made + 1}
                                 ELSE envBar[1][m]
  BY <1>1, <1>2
<1>4. r = [envBar EXCEPT ![1][n] = @ \cup {made + 1}]
  OBVIOUS
<1> HIDE DEF f
<1>5. /\ r \in Envs /\ Len(r) = Len(scopes)
      /\ \A i \in 1..Len(scopes) : r[i] = IF i = 1 THEN f ELSE envBar[i]
  BY <1>1, <1>3, EnvBar, ExceptSeq DEF Envs
<1> HIDE DEF r
<1>6. /\ envBar' \in Envs /\ Len(envBar') = Len(scopes')
      /\ \A i \in 1..Len(scopes'), m \in Names : envBar'[i][m] = Declared(scopes'[i], m)
  BY EnvBarNext
<1>7. ASSUME NEW i \in 1..Len(r), NEW m \in Names PROVE r[i][m] = envBar'[i][m]
  <2>1. CASE i = 1
    <3>1. TableInv(scopes[1], hash, made) /\ hash \in Hashes
      BY <1>1 DEF IInv
    <3> DEFINE t == scopes[1]
               u == Add(scopes[1], hash, n, made + 1)
    <3>2. \A v : v \in Declared(u, m) <=>
                 v \in Declared(t, m) \/ (m = n /\ v = made + 1)
      BY <1>1, <3>1, AddDeclared
    <3>3. scopes'[1] = u
      BY <1>1, InsertScopes
    <3> HIDE DEF t, u
    <3>4. envBar'[1][m] = Declared(u, m)
      BY <1>1, <1>6, <3>3, InsertScopes
    <3>5. \A l \in Names : envBar[1][l] = Declared(t, l)
      BY <1>1, EnvBar DEF t
    <3>6. r[i][m] = f[m]
      BY <1>1, <1>5, <2>1
    <3>7. \A v : v \in f[m] <=> v \in Declared(t, m) \/ (m = n /\ v = made + 1)
      BY <1>3, <3>5
    <3>8. f[m] = Declared(u, m)
      BY <3>2, <3>7
    <3>9. QED
      BY <2>1, <3>4, <3>6, <3>8
  <2>2. CASE i # 1
    BY <1>5, <1>6, <2>2, InsertScopes, EnvBar
  <2>3. QED
    BY <2>1, <2>2
<1>8. envBar' = r
  BY <1>5, <1>6, <1>7, InsertScopes, EnvEqual
<1>9. envBar # << >>
  BY <1>1, EnvBar
<1>10. QED
  BY <1>4, <1>8, <1>9 DEF SN!Declare, symbol_insert

LEMMA FindBar ==
    ASSUME IInv, NEW n \in Names, symbol_find(n) PROVE SN!Find(n)
<1>1. \A i \in 1..Len(scopes) :
         /\ Matches(scopes[i], hash, n) = {} <=> envBar[i][n] = {}
         /\ \A e \in First(scopes[i], hash, n) : e.val \in envBar[i][n]
  <2>1. ASSUME NEW i \in 1..Len(scopes)
        PROVE  /\ Matches(scopes[i], hash, n) = {} <=> Declared(scopes[i], n) = {}
               /\ \A e \in First(scopes[i], hash, n) : e.val \in Declared(scopes[i], n)
    <3>1. TableInv(scopes[i], hash, made) /\ hash \in Hashes /\ made \in Nat
      BY SymbolTableAssumption DEF IInv
    <3>2. QED
      BY ONLY <3>1, n \in Names, MatchesDeclared
  <2>2. QED
    BY <2>1, EnvBar
<1>2. UNCHANGED <<envBar, globals, functions>>
  BY DEF symbol_find, envBar, EnvOf
<1>3. Len(envBar) = Len(scopes) /\ Len(scopes) \in Nat
  BY EnvBar
<1>4. CASE \E i \in 1..Len(scopes) :
              /\ InScope(i, n)
              /\ \E e \in First(scopes[i], hash, n) : found' = e.val
  <2>1. PICK i \in 1..Len(scopes) :
              /\ InScope(i, n)
              /\ \E e \in First(scopes[i], hash, n) : found' = e.val
    BY <1>4
  <2>2. found' \in envBar[i][n]
    BY <1>1, <2>1
  <2>3. \A j \in 1..(i - 1) : envBar[j][n] = {}
    BY <1>1, <1>3, <2>1 DEF InScope
  <2>4. QED
    BY <1>2, <1>3, <2>1, <2>2, <2>3 DEF SN!Find
<1>5. CASE /\ \A i \in 1..Len(scopes) : Matches(scopes[i], hash, n) = {}
           /\ found' = globals[n]
  BY <1>1, <1>2, <1>3, <1>5 DEF SN!Find
<1>6. QED
  BY <1>4, <1>5 DEF symbol_find

\* The hash tables, however they grow, implement a stack of scopes: a lookup
\* gives a declaration of the innermost scope that has the name.
THEOREM RefinementThm == Spec => SN!Spec
<1>1. IInv /\ IInv' /\ [Next]_vars => [SN!Next]_(SN!vars)
  <2> SUFFICES ASSUME IInv, IInv', [Next]_vars PROVE [SN!Next]_(SN!vars)
    OBVIOUS
  <2>1. CASE symbol_push_scope
    BY <2>1, PushBar DEF SN!Next
  <2>2. CASE symbol_pop_scope
    BY <2>2, PopBar DEF SN!Next
  <2>3. ASSUME NEW n \in Names, symbol_insert(n) PROVE SN!Next
    <3>1. made + 1 \in Vals
      BY <2>3, SymbolTableAssumption DEF IInv, symbol_insert, Vals
    <3>2. QED
      BY <2>3, <3>1, InsertBar DEF SN!Next
  <2>4. ASSUME NEW n \in Names, AddGlobal(n) PROVE SN!Next
    <3>1. made + 1 \in Vals
      BY <2>4, SymbolTableAssumption DEF IInv, AddGlobal, Vals
    <3>2. envBar = << >>
      BY <2>4, EnvBar, EmptySeq, EnvEqual DEF Envs, AddGlobal, is_global_scope
    <3>3. SN!DeclareGlobal(n, made + 1)
      BY <2>4, <3>2 DEF SN!DeclareGlobal, SN!Taken, AddGlobal, Taken, envBar, EnvOf
    <3>4. QED
      BY <3>1, <3>3 DEF SN!Next
  <2>5. ASSUME NEW n \in Names, symbol_find(n) PROVE SN!Next
    BY <2>5, FindBar DEF SN!Next
  <2>6. ASSUME NEW n \in Names, AddFunction(n) PROVE SN!Next
    <3>1. envBar # << >>
      <4>1. Len(scopes) > 0
        BY <2>6, EmptySeq DEF IInv, AddFunction, is_global_scope
      <4>2. QED
        BY <4>1, EnvBar
    <3>2. SN!DefineFunction(n)
      BY <2>6, <3>1 DEF SN!DefineFunction, SN!Taken, AddFunction, Taken, envBar, EnvOf
    <3>3. QED
      BY <3>2 DEF SN!Next
  <2>7. CASE UNCHANGED vars
    BY <2>7 DEF vars, SN!vars, envBar, EnvOf
  <2>8. QED
    BY <2>1, <2>2, <2>3, <2>4, <2>5, <2>6, <2>7 DEF Next
<1>2. QED
  BY <1>1, InitBar, SpecIInv, PTL DEF Spec, SN!Spec
=============================================================================
