----------------------------- MODULE SymbolTable -----------------------------
(***************************************************************************)
(* The MiniC symbol table, projects/tools/p2/symbol.c (symbol.cpp in p2cpp *)
(* is the same code): a stack of scopes, each with a hash table, searched  *)
(* from the innermost scope outwards and then in the globals of the LLVM   *)
(* module.  Its callers are the rules of minic.y, which open one scope per *)
(* function and none for a block; the table itself takes any depth.        *)
(***************************************************************************)
EXTENDS UtHash, Sequences

CONSTANTS
    NoVal,          \* NULL
    MaxDepth,       \* bound: open scopes
    MaxVals         \* bound: allocas and globals made in a run

ASSUME SymbolTableAssumption == MaxDepth \in Nat /\ MaxVals \in Nat

VARIABLES
    hash,           \* the hash function, chosen in Init and fixed
    scopes,         \* the list that starts at head, innermost scope first
    globals,        \* LLVMGetNamedGlobal of each name
    functions,      \* the names that functions of the module have
    made,           \* allocas and globals made so far, each a number
    found           \* what the last symbol_find returned

vars == <<hash, scopes, globals, functions, made, found>>

Vals == 1..MaxVals

Init ==
    /\ hash \in Hashes
    /\ scopes = << >>
    /\ globals = [n \in Names |-> NoVal]
    /\ functions = {}
    /\ made = 0
    /\ found = NoVal

is_global_scope == scopes = << >>

symbol_push_scope ==
    /\ Len(scopes) < MaxDepth
    /\ scopes' = <<NewTable>> \o scopes
    /\ UNCHANGED <<hash, globals, functions, made, found>>

\* minic.y pops only what it has pushed.
symbol_pop_scope ==
    /\ ~is_global_scope
    /\ scopes' = Tail(scopes)
    /\ UNCHANGED <<hash, globals, functions, made, found>>

\* A declaration inside a function: symbol_insert of a new alloca.
symbol_insert(n) ==
    /\ ~is_global_scope
    /\ made < MaxVals
    /\ made' = made + 1
    /\ scopes' = [scopes EXCEPT ![1] = Add(@, hash, n, made + 1)]
    /\ UNCHANGED <<hash, globals, functions, found>>

\* A bug: a function does not keep a global from taking its name.
Taken_byGlobal(n) == globals[n] # NoVal

\* LLVM gives a global or a function whose name is taken another name, one
\* with a dot, which is no identifier.
Taken(n) == n \in functions \/ globals[n] # NoVal

\* A declaration at the top level.
AddGlobal(n) ==
    /\ is_global_scope
    /\ made < MaxVals
    /\ made' = made + 1
    /\ globals' = [globals EXCEPT ![n] = IF Taken(n) THEN @ ELSE made + 1]
    /\ UNCHANGED <<hash, scopes, functions, found>>

\* LLVMAddFunction in BuildFunction, which runs in the scope just opened.
AddFunction(n) ==
    /\ ~is_global_scope
    /\ functions' = IF Taken(n) THEN functions ELSE functions \cup {n}
    /\ UNCHANGED <<hash, scopes, globals, made, found>>

\* A bug: the search goes from the outermost scope inwards.
InScope_outermost(i, n) ==
    /\ Matches(scopes[i], hash, n) # {}
    /\ \A j \in (i + 1)..Len(scopes) : Matches(scopes[j], hash, n) = {}

\* get_symbol_in_scope: the first scope, from scope i outwards, that has n.
InScope(i, n) ==
    /\ Matches(scopes[i], hash, n) # {}
    /\ \A j \in 1..(i - 1) : Matches(scopes[j], hash, n) = {}

symbol_find(n) ==
    /\ \/ \E i \in 1..Len(scopes) :
             /\ InScope(i, n)
             /\ \E e \in First(scopes[i], hash, n) : found' = e.val
       \/ /\ \A i \in 1..Len(scopes) : Matches(scopes[i], hash, n) = {}
          /\ found' = globals[n]
    /\ UNCHANGED <<hash, scopes, globals, functions, made>>

Next ==
    \/ symbol_push_scope \/ symbol_pop_scope
    \/ \E n \in Names : symbol_insert(n) \/ AddGlobal(n) \/ AddFunction(n) \/ symbol_find(n)

Spec == Init /\ [][Next]_vars

-----------------------------------------------------------------------------
\* Properties.

IsTable(t) ==
    /\ t.num_buckets \in Nat \ {0}
    /\ t.buckets \in [0..(t.num_buckets - 1) ->
                         SUBSET [name : Names, val : Vals, pos : Int]]
    /\ t.expand_mult \in [0..(t.num_buckets - 1) -> Nat]
    /\ {t.num_items, t.ineff_expands} \subseteq Nat
    /\ t.noexpand \in BOOLEAN

TypeOK ==
    /\ hash \in Hashes
    /\ Len(scopes) <= MaxDepth
    /\ \A i \in 1..Len(scopes) : IsTable(scopes[i])
    /\ globals \in [Names -> Vals \cup {NoVal}]
    /\ functions \in SUBSET {n \in Names : globals[n] = NoVal}
    /\ made \in 0..MaxVals
    /\ found \in Vals \cup {NoVal}

\* After every insertion and every doubling each item is in the chain its name
\* hashes to under the current mask, where symbol_find will look for it, and
\* no item has been lost or linked twice.
TablesSound ==
    \A i \in 1..Len(scopes) :
        LET t == scopes[i] IN
        /\ \A b \in 0..(t.num_buckets - 1) : \A e \in t.buckets[b] :
              b = Bucket(hash, e.name, t.num_buckets)
        /\ Cardinality(Items(t)) = t.num_items
        /\ \A e, x \in Items(t) : e.pos \in {x.pos, 0 - x.pos} => e = x

\* A redeclaration in a scope that has not outgrown its first buckets hides the
\* earlier one: a chain is searched from the latest item.  (Doubling reverses
\* the chains, and the earlier declaration comes back.)
LatestUntilGrowth ==
    \A i \in 1..Len(scopes) : \A n \in Names :
        scopes[i].num_buckets = InitBuckets =>
            \A e \in First(scopes[i], hash, n) :
            \A x \in Matches(scopes[i], hash, n) : x.val <= e.val

\* The declarations of each name in the open scopes.
Declared(t, n) == {e.val : e \in {x \in Items(t) : x.name = n}}

EnvOf(ss) == [i \in 1..Len(ss) |-> [n \in Names |-> Declared(ss[i], n)]]

envBar == EnvOf(scopes)

SN == INSTANCE ScopedNames WITH env <- envBar

\* Whatever the hash function and however the tables have grown, a lookup gives
\* a declaration of the innermost scope that declares the name, or the global,
\* and the one declaration if there is only one.  Leaving a scope brings back
\* what it hid.
ImplementsScopedNames == SN!Spec
=============================================================================
