------------------------------ MODULE Calculator ------------------------------
(***************************************************************************)
(* The parser of the calculator (Calc) beside the code generators and the  *)
(* translators, under names that are its own.                              *)
(***************************************************************************)
CONSTANTS
    NumberValues, IntMax, YYINITDEPTH, MaxDepths, MaxGiven    \* see Calc

VARIABLES
    given, yychar, yylval, yyss, yyvs, yystacksize, yymaxdepth, yystate, yyerrstatus,
    out, label

Yy == INSTANCE Calc WITH
    Numbers <- NumberValues, MaxTokens <- MaxGiven, pc <- label

\* Every line is answered, but that of a division that cannot be (see Calc).
LinesAnswered == Yy!LinesAnswered

\* Errors are seen at the token that is one (see Calc).
RejectsAtOnce == Yy!RejectsAtOnce

\* The stacks hold what is open, however they have grown (see Calc).
StacksSound == Yy!StacksSound

\* Parsing comes to an end (see Calc).
Terminates == Yy!Terminates
=============================================================================
