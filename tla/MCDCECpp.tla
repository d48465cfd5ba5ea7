------------------------------ MODULE MCDCECpp ------------------------------
(***************************************************************************)
(* Small instances of DCECpp: three functions, the second one a            *)
(* declaration, over every graph of three instructions that stays within   *)
(* its functions.  All three instructions in one function, or split        *)
(* between the first and the last.                                         *)
(***************************************************************************)
EXTENDS DCECpp

MCN == 3
MCNF == 3

Addresses == {[i \in 1..MCN |-> i], [i \in 1..MCN |-> MCN + 1 - i]}

\* A load behaves as "pure" and a volatile load as "other" in everything but
\* isDead's switch, so each graph takes its kinds from one of two pairs.
KindMaps == [1..MCN -> {"load", "volatileLoad"}] \cup [1..MCN -> {"pure", "other"}]

Layouts == {<<1, 1, 1>>, <<1, 1, 3>>, <<1, 3, 3>>}

MCModules ==
    {m \in [ops : [1..MCN -> SUBSET (1..MCN)], kind : KindMaps, addr : Addresses,
            fn : Layouts, valid : BOOLEAN] :
        /\ \A i \in 1..MCN : \A j \in m.ops[i] : m.fn[j] = m.fn[i]
        /\ ~m.valid => m.ops = [i \in 1..MCN |-> {}]}
=============================================================================
