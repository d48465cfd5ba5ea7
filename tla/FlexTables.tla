------------------------------ MODULE FlexTables ------------------------------
(***************************************************************************)
(* The tables that flex has made for calc.lex and words.lex.               *)
(***************************************************************************)
EXTENDS Integers, Sequences

\* Arrays that start at 0.
Array(s) == [i \in 0..(Len(s) - 1) |-> s[i + 1]]

CalcTables ==
    [accept |-> Array(<<0, 0, 0, 12, 11, 1, 2, 9, 10, 5, 7, 8, 6, 3, 4, 3, 0>>),
     base |-> Array(<<0, 0, 0, 14, 15, 15, 15, 15, 15, 15, 15, 5, 15, 2, 15, 1, 15>>),
     def |-> Array(<<0, 16, 1, 16, 16, 16, 16, 16, 16, 16, 16, 16, 16, 16, 16, 16, 0>>),
     nxt |-> Array(<<0, 4, 5, 6, 7, 8, 9, 10, 11, 12, 13, 15, 15, 14, 16, 3,
                     16, 16, 16, 16, 16, 16, 16, 16, 16, 16>>),
     chk |-> Array(<<0, 1, 1, 1, 1, 1, 1, 1, 1, 1, 1, 15, 13, 11, 3, 16,
                     16, 16, 16, 16, 16, 16, 16, 16, 16, 16>>),
     meta |-> Array(<<0, 1, 1, 1, 1, 1, 1, 1, 1, 1, 1>>),
     jam |-> 16, jamBase |-> 15, endOfBuffer |-> 12]

WordsTables ==
    [accept |-> Array(<<0, 0, 0, 5, 1, 2, 1, 2, 3, 0>>),
     base |-> Array(<<0, 0, 0, 6, 7, 0, 0, 0, 0, 7, 3, 1>>),
     def |-> Array(<<0, 9, 1, 9, 9, 10, 11, 10, 11, 0, 9, 9>>),
     nxt |-> Array(<<0, 4, 5, 6, 8, 7, 9, 3, 9, 9, 9>>),
     chk |-> Array(<<0, 1, 1, 1, 11, 10, 3, 9, 9, 9, 9>>),
     meta |-> Array(<<0, 1, 2, 3>>),
     jam |-> 9, jamBase |-> 7, endOfBuffer |-> 5]

Tables == [calc |-> CalcTables, words |-> WordsTables]

One(S) == [of |-> S, kind |-> "one"]
Two(S) == [of |-> S, kind |-> "two"]
Run(S) == [of |-> S, kind |-> "run"]

AllRules ==
    [calc |-> <<One({2}), One({3}), Run({10}), Two({8}), One({6}), One({9}),
                One({7}), One({8}), One({4}), One({5}), One(0..10)>>,
     words |-> <<One({0, 1, 3}), Run({2}), Run({3}), One(0..3)>>]
=============================================================================
