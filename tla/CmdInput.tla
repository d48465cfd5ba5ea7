--------------------------------- MODULE CmdInput ---------------------------------
(***************************************************************************)
(* How the arguments of p2 and p2cpp come to be words.  The scanner of     *)
(* cmdline.lex reads its "file" with myinput, which hands out one argument *)
(* and a blank at a time, as much as there is room for.  flex keeps the    *)
(* token it is in, has room for YY_READ_BUF_SIZE bytes behind it in a      *)
(* buffer of twice that, and doubles the buffer only when it is full.      *)
(* Module MiniCDriver takes it from there: an argument is a word.          *)
(***************************************************************************)
EXTENDS Integers, Sequences, FiniteSets

CONSTANTS
    Chars,          \* characters of arguments, other than the blank
    MaxArgs,        \* bound: arguments
    MaxLength,      \* bound: of one of them
    YY_READ_BUF_SIZE,
    MaxReads        \* bound: calls of myinput

CmdInputAssumption ==
    /\ Chars \subseteq STRING /\ " " \notin Chars
    /\ MaxArgs \in Nat /\ MaxLength \in Nat /\ MaxReads \in Nat
    /\ YY_READ_BUF_SIZE \in Nat \ {0}

VARIABLES
    argv,           \* the arguments
    targv, offset,  \* the next one, and where in it
    buf_size,       \* yy_buf_size
    token,          \* the bytes of the token that may still go on
    words,          \* the tokens that are not blanks
    reads,
    pc

vars == <<argv, targv, offset, buf_size, token, words, reads, pc>>

Tuples(S, n) == UNION {[1..k -> S] : k \in 0..n}

Init ==
    /\ argv \in Tuples(Tuples(Chars \cup {" "}, MaxLength), MaxArgs)
    /\ targv = 1 /\ offset = 0
    /\ buf_size = 2 * YY_READ_BUF_SIZE
    /\ token = << >> /\ words = << >>
    /\ reads = 0 /\ pc = "scan"

Smaller(a, b) == IF a < b THEN a ELSE b
Blank(t) == t # << >> /\ t[1] = " "

-----------------------------------------------------------------------------
\* The scanner: a token goes on while its bytes are all blank or all not.

\* A token that has ended, if it is a word.
Word(t) == IF t = << >> \/ Blank(t) THEN << >> ELSE <<t>>

\* One more byte: it belongs to the token, or ends it and begins the next.
OneByte(x, c) ==
    IF x.token = << >> \/ (Blank(x.token) <=> c = " ")
    THEN [x EXCEPT !.token = Append(@, c)]
    ELSE [words |-> x.words \o Word(x.token), token |-> <<c>>]

\* The words and the token that may still go on when, behind those of x, the
\* bytes of text have been matched.
Scanned(x, text) ==
    LET Upto[i \in 0..Len(text)] ==
            IF i = 0 THEN x ELSE OneByte(Upto[i - 1], text[i])
    IN  Upto[Len(text)]

Words(text) ==
    LET x == Scanned([words |-> << >>, token |-> << >>], text)
    IN  x.words \o Word(x.token)

\* yy_get_next_buffer: room behind the token.
Grown(size) ==
    LET Try[s \in Nat] == IF s - Len(token) - 1 <= 0 THEN Try[s * 2] ELSE s IN Try[size]
max == Smaller(Grown(buf_size) - Len(token) - 1, YY_READ_BUF_SIZE)

-----------------------------------------------------------------------------
\* myinput

len == Len(argv[targv]) - offset

\* A bug: the argument may fill the room, and the blank goes behind it.
copylen_full == IF len > max THEN max - 1 ELSE len

copylen == IF len >= max THEN max - 1 ELSE len

\* What is put into buf.
Copied ==
    SubSeq(argv[targv], offset + 1, offset + copylen)
    \o IF offset + copylen = Len(argv[targv]) THEN <<" ">> ELSE << >>

NextArg(copied) == offset + copied = Len(argv[targv])

\* The scanner has met the end of its buffer.
Read ==
    /\ pc = "scan" /\ reads < MaxReads
    /\ targv <= Len(argv)
    /\ Len(Copied) > 0
    /\ targv' = IF NextArg(copylen) THEN targv + 1 ELSE targv
    /\ offset' = IF NextArg(copylen) THEN 0 ELSE offset
    /\ LET x == Scanned([words |-> words, token |-> token], Copied)
       IN  words' = x.words /\ token' = x.token
    /\ buf_size' = Grown(buf_size)
    /\ reads' = reads + 1
    /\ UNCHANGED <<argv, pc>>

\* A read that gives nothing is the end of the input; what there is of the
\* token is one.
End ==
    /\ pc = "scan" /\ reads < MaxReads
    /\ IF targv > Len(argv) THEN TRUE ELSE Len(Copied) = 0
    /\ words' = words \o Word(token)
    /\ token' = << >>
    /\ buf_size' = Grown(buf_size)
    /\ pc' = "end"
    /\ UNCHANGED <<argv, targv, offset, reads>>

Next == Read \/ End

\* Cmdlex scans to the end.
Spec == Init /\ [][Next]_vars /\ WF_vars(Next)

-----------------------------------------------------------------------------
\* An argument as long as the room is never handed out whole.
Long(a) == Len(a) >= YY_READ_BUF_SIZE
Prefix(a) == SubSeq(a, 1, YY_READ_BUF_SIZE - 1)
FirstLong ==
    LET long == {i \in DOMAIN argv : Long(argv[i])} IN
        IF long = {} THEN Len(argv) + 1 ELSE CHOOSE i \in long : \A j \in long : i <= j

\* Arguments one to n, a blank behind each.
Joined(n) ==
    LET Up[i \in 0..n] == IF i = 0 THEN << >> ELSE Up[i - 1] \o argv[i] \o <<" ">> IN Up[n]

OneToken(text) == \A i, j \in DOMAIN text : text[i] = " " => text[j] = " "

\* Types; and myinput never copies more than there is room for, the blank it
\* adds included (cmdline.lex:68).
TypeOK ==
    /\ targv \in 1..(Len(argv) + 1) /\ offset = 0
    /\ buf_size \in Nat /\ buf_size >= 2 * YY_READ_BUF_SIZE
    /\ OneToken(token)
    /\ Len(token) < buf_size
    /\ pc \in {"scan", "end"}
    /\ pc = "scan" /\ targv <= Len(argv) => Len(Copied) <= max

\* No run of blanks takes the room of a read.
FewBlanks ==
    LET upTo == IF FirstLong > Len(argv) THEN Joined(Len(argv))
                ELSE Joined(FirstLong - 1) \o argv[FirstLong]
    IN  \A i \in 1..(Len(upTo) - YY_READ_BUF_SIZE + 1) :
            \E j \in i..(i + YY_READ_BUF_SIZE - 1) : upTo[j] # " "

\* The words are those of the arguments, up to the first that is as long as a
\* read.  Of that one the first bytes are read twice, because offset stays 0;
\* then a single byte has room, which myinput takes for none, and what comes
\* after is never seen (cmdline.lex:61, :63, :70).
WordsRight ==
    pc = "end" /\ FewBlanks =>
        IF FirstLong > Len(argv) THEN words = Words(Joined(Len(argv)))
        ELSE words = Words(Joined(FirstLong - 1) \o Prefix(argv[FirstLong])
                                                 \o Prefix(argv[FirstLong]))

\* The room is kept to, and the words come out of it.
WordsSound == TypeOK /\ WordsRight

\* The scan ends unless an argument as long as a read has a blank where it is
\* read again and again, which ends a token each time (cmdline.lex:63).
Ends ==
    (\A i \in DOMAIN argv : Long(argv[i]) => OneToken(Prefix(argv[i]))) => <>(pc = "end")
=============================================================================
