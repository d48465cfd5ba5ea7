--------------------------- MODULE MCDCEWorklist ---------------------------
(***************************************************************************)
(* Small instances of DCEWorklist: every graph of three instructions.      *)
(*                                                                         *)
(* The scan only adds to a set, so program order does not matter beyond    *)
(* the module being covered; what matters is the address order against the *)
(* graph, and ranging over every graph covers every such pairing with two  *)
(* fixed address orders.                                                   *)
(***************************************************************************)
EXTENDS DCEWorklist

MCN == 3
MCNF == 1

Addresses == {[i \in 1..MCN |-> i], [i \in 1..MCN |-> MCN + 1 - i]}

\* A load behaves as "pure" and a volatile load as "other" in everything but
\* isDead's switch, so each graph takes its kinds from one of two pairs.
KindMaps == [1..MCN -> {"load", "volatileLoad"}] \cup [1..MCN -> {"pure", "other"}]

MCModules ==
    [ops : [1..MCN -> SUBSET (1..MCN)], kind : KindMaps, addr : Addresses,
     fn : {[i \in 1..MCN |-> 1]}, valid : {TRUE}]
    \cup
    [ops : {[i \in 1..MCN |-> {}], [i \in 1..MCN |-> 1..(i - 1)]}, kind : KindMaps,
     addr : Addresses, fn : {[i \in 1..MCN |-> 1]}, valid : {FALSE}]
=============================================================================
