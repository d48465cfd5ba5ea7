------------------------------- MODULE UtHash -------------------------------
(***************************************************************************)
(* The chained hash table of uthash.h as the MiniC symbol table uses it:   *)
(* items are added and found, never deleted, and a table doubles its       *)
(* buckets when a chain gets too long.                                     *)
(*                                                                         *)
(* A chain is a set of items; item.pos is where the item stands in it, the *)
(* head of the chain having the largest.  An item added to a table of k    *)
(* items gets pos k + 1, larger than the size of every other pos, so it is *)
(* the head of its chain.  Doubling walks each chain from its head and     *)
(* pushes each item on the front of its new chain: it reverses the order,  *)
(* which is to negate every pos.                                           *)
(***************************************************************************)
EXTENDS Integers, FiniteSets, FiniteSetsExt

CONSTANTS
    Names,          \* keys
    Hashes,         \* the hash functions to consider, from Names to Nat
    InitBuckets,    \* HASH_INITIAL_NUM_BUCKETS, 32 in the code
    Threshold       \* HASH_BKT_CAPACITY_THRESH, 10 in the code

ASSUME UtHashAssumption ==
    /\ Hashes \subseteq [Names -> Nat]
    /\ InitBuckets \in Nat \ {0}
    /\ Threshold \in Nat \ {0}

\* HASH_MAKE_TABLE.  A scope without names has no table yet; that shows in
\* nothing but its address.
NewTable ==
    [buckets |-> [b \in 0..(InitBuckets - 1) |-> {}],
     num_buckets |-> InitBuckets,
     num_items |-> 0,
     expand_mult |-> [b \in 0..(InitBuckets - 1) |-> 0],
     ineff_expands |-> 0,
     noexpand |-> FALSE]

\* HASH_TO_BKT: num_buckets is a power of two, so the mask is a remainder.
Bucket(hash, n, num_buckets) == hash[n] % num_buckets

Items(t) == UNION {t.buckets[b] : b \in 0..(t.num_buckets - 1)}

Flip(e) == [e EXCEPT !.pos = 0 - e.pos]

\* A bug a doubling could have: the items are hashed with the old number of
\* buckets.
Spread_oldMask(t, hash) ==
    [b \in 0..(2 * t.num_buckets - 1) |->
        {Flip(e) : e \in {x \in Items(t) : Bucket(hash, x.name, t.num_buckets) = b}}]

\* The loop of HASH_EXPAND_BUCKETS over the old buckets.
Spread(t, hash) ==
    [b \in 0..(2 * t.num_buckets - 1) |->
        {Flip(e) : e \in {x \in Items(t) : Bucket(hash, x.name, 2 * t.num_buckets) = b}}]

\* HASH_EXPAND_BUCKETS: expand_mult grows with a chain that stays longer than
\* the ideal, and a table that two doublings in a row did not help stops
\* doubling.
Expand(t, hash) ==
    LET all   == 0..(2 * t.num_buckets - 1)
        new   == Spread(t, hash)
        ideal == (t.num_items + 2 * t.num_buckets - 1) \div (2 * t.num_buckets)
        over(b) == IF Cardinality(new[b]) > ideal
                   THEN Cardinality(new[b]) - ideal ELSE 0
        ineff == IF MapThenSumSet(over, all) > t.num_items \div 2
                 THEN t.ineff_expands + 1 ELSE 0
    IN  [buckets |-> new,
         num_buckets |-> 2 * t.num_buckets,
         num_items |-> t.num_items,
         expand_mult |-> [b \in all |-> IF over(b) > 0
                                        THEN Cardinality(new[b]) \div ideal ELSE 0],
         ineff_expands |-> ineff,
         noexpand |-> ineff > 1]

\* HASH_ADD_KEYPTR up to the test for expansion.  Nothing looks for an item of
\* the same name.
Insert(t, hash, n, v) ==
    [t EXCEPT
        !.num_items = @ + 1,
        !.buckets[Bucket(hash, n, t.num_buckets)] =
            @ \cup {[name |-> n, val |-> v, pos |-> t.num_items + 1]}]

\* The chain the item went to has reached its capacity.
Full(t, b) ==
    /\ Cardinality(t.buckets[b]) >= (t.expand_mult[b] + 1) * Threshold
    /\ ~t.noexpand

\* A bug: the new item is put behind the others of its chain.
Add_atTail(t, hash, n, v) ==
    LET t1 == [t EXCEPT
                !.num_items = @ + 1,
                !.buckets[Bucket(hash, n, t.num_buckets)] =
                    @ \cup {[name |-> n, val |-> v, pos |-> 0 - (t.num_items + 1)]}]
    IN  IF Full(t1, Bucket(hash, n, t.num_buckets)) THEN Expand(t1, hash) ELSE t1

Add(t, hash, n, v) ==
    LET t1 == Insert(t, hash, n, v)
    IN  IF Full(t1, Bucket(hash, n, t.num_buckets)) THEN Expand(t1, hash) ELSE t1

\* The items HASH_FIND could stop at, and the one it does stop at: the first
\* of that name from the head of the chain.
Matches(t, hash, n) ==
    {e \in t.buckets[Bucket(hash, n, t.num_buckets)] : e.name = n}

First(t, hash, n) ==
    {e \in Matches(t, hash, n) : \A x \in Matches(t, hash, n) : x.pos <= e.pos}
=============================================================================
