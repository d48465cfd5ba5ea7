----------------------------- MODULE ScopedNames -----------------------------
(***************************************************************************)
(* What the MiniC parser expects of its symbol table: a stack of scopes,   *)
(* each mapping a name to the storage it was given, over the globals of    *)
(* the LLVM module, where functions have names too.  A name that a scope   *)
(* declares twice may stand for either of its declarations; everything     *)
(* else is determined.                                                     *)
(***************************************************************************)
EXTENDS Naturals, Sequences

CONSTANTS
    Names,     \* identifiers
    Vals,      \* allocas and global variables
    NoVal      \* the NULL a failed lookup returns

VARIABLES
    env,       \* the open scopes, innermost first: declarations of each name
    globals,   \* the module's global of each name, or NoVal
    functions, \* the names of the module's functions
    found      \* what the last lookup returned

vars == <<env, globals, functions, found>>

NoNames == [n \in Names |-> {}]

Init ==
    /\ env = << >>
    /\ globals = [n \in Names |-> NoVal]
    /\ functions = {}
    /\ found = NoVal

Push ==
    /\ env' = <<NoNames>> \o env
    /\ UNCHANGED <<globals, functions, found>>

Pop ==
    /\ env # << >>
    /\ env' = Tail(env)
    /\ UNCHANGED <<globals, functions, found>>

Declare(n, v) ==
    /\ env # << >>
    /\ env' = [env EXCEPT ![1][n] = @ \cup {v}]
    /\ UNCHANGED <<globals, functions, found>>

\* A name of the module is taken once: LLVM gives a second symbol that wants
\* it another name, which no lookup asks for.
Taken(n) == n \in functions \/ globals[n] # NoVal

DeclareGlobal(n, v) ==
    /\ env = << >>
    /\ globals' = [globals EXCEPT ![n] = IF Taken(n) THEN @ ELSE v]
    /\ UNCHANGED <<env, functions, found>>

DefineFunction(n) ==
    /\ env # << >>
    /\ functions' = IF Taken(n) THEN functions ELSE functions \cup {n}
    /\ UNCHANGED <<env, globals, found>>

Find(n) ==
    /\ \/ \E i \in 1..Len(env) :
             /\ found' \in env[i][n]
             /\ \A j \in 1..(i - 1) : env[j][n] = {}
       \/ /\ \A i \in 1..Len(env) : env[i][n] = {}
          /\ found' = globals[n]
    /\ UNCHANGED <<env, globals, functions>>

Next ==
    \/ Push \/ Pop
    \/ \E n \in Names : Find(n) \/ DefineFunction(n)
    \/ \E n \in Names, v \in Vals : Declare(n, v) \/ DeclareGlobal(n, v)

Spec == Init /\ [][Next]_vars
=============================================================================
