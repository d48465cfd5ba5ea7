-------------------------------- MODULE Scanner --------------------------------
(***************************************************************************)
(* The flex scanners checked in as LectureCode/Parser/calc.lex.c and       *)
(* LectureCode/Lexer/words.c: one engine, two sets of tables.  yylex runs  *)
(* over a buffer that ends in two NULs, moves what it has of a token to    *)
(* the front when it meets them, grows the buffer if the token fills it,   *)
(* reads on, and finds its state again.  A byte is its class in yy_ec; a   *)
(* NUL may also be in the text.                                            *)
(***************************************************************************)
EXTENDS Integers, Sequences, FiniteSets

CONSTANTS
    Tables, AllRules,  \* of each scanner (see FlexTables)
    Bytes,          \* for each scanner the classes of the bytes in the input
    MaxInput,       \* bound, for each scanner: bytes in the input
    BufSizes,       \* YY_BUF_SIZE may be one of these
    YY_READ_BUF_SIZE,
    MaxEofs         \* bound: calls after the end of the input

NUL == 0

Scanners == DOMAIN Tables

ScannerAssumption ==
    /\ Scanners = {"calc", "words"}
    /\ \A x \in Scanners : Bytes[x] \subseteq {NUL} \cup DOMAIN Tables[x].meta
    /\ \A x \in Scanners : MaxInput[x] \in Nat
    /\ BufSizes \subseteq Nat \ {0} /\ YY_READ_BUF_SIZE \in Nat \ {0}
    /\ MaxEofs \in Nat

VARIABLES
    scanner,        \* which of the two it is
    input,          \* what the file holds
    interactive,    \* it is a terminal: a read ends with a line
    read,           \* bytes read so far
    ch_buf,         \* yy_ch_buf: yy_buf_size bytes and two more
    n_chars,        \* bytes in it
    status,         \* yy_buffer_status
    text,           \* yytext_ptr
    c_buf_p, hold,  \* where the next token starts, and the byte that is there
    cp, bp,         \* the byte looked at, the first of the token
    state, last,    \* of the automaton; its last accepting state and place
    pc,             \* what yylex does next
    out             \* the tokens so far

buffer == <<ch_buf, n_chars, status, read>>
vars == <<scanner, input, interactive, buffer, text, c_buf_p, hold, cp, bp, state, last, pc, out>>

Tuples(S, n) == UNION {[1..k -> S] : k \in 0..n}

\* The tables the engine is compiled with.
T == Tables[scanner]

EOF == [rule |-> "eof", text |-> << >>]

\* The calls that were told that there is nothing more.
Eofs == {i \in DOMAIN out : out[i] = EOF}

\* yy_create_buffer, yy_init_buffer, yy_flush_buffer, yy_load_buffer_state.
Init ==
    /\ scanner \in Scanners
    /\ input \in Tuples(Bytes[scanner], MaxInput[scanner])
    /\ interactive \in BOOLEAN
    /\ read = 0
    /\ \E size \in BufSizes : ch_buf = [i \in 0..(size + 1) |-> NUL]
    /\ n_chars = 0
    /\ status = "new"
    /\ text = 0 /\ c_buf_p = 0 /\ hold = NUL
    /\ cp = 0 /\ bp = 0
    /\ state = 1 /\ last = [state |-> 0, cpos |-> 0]
    /\ pc = "call"
    /\ out = << >>

buf_size == Cardinality(DOMAIN ch_buf) - 2

-----------------------------------------------------------------------------
\* The automaton.

\* A step on a byte class, through the default states of the tables.
Trans(s, c) ==
    LET Row[at \in (DOMAIN T.def) \X (DOMAIN T.meta)] ==
            LET x == at[1]  y == at[2]  d == T.def[x] IN
            IF T.chk[T.base[x] + y] = x THEN T.nxt[T.base[x] + y]
            ELSE Row[<<d, IF d > T.jam THEN T.meta[y] ELSE y>>]
    IN  Row[<<s, c>>]

Accepting(s, l, p) == IF T.accept[s] # 0 THEN [state |-> s, cpos |-> p] ELSE l

\* The class of a byte of the text that is known not to end the buffer.
NulClass(b) == IF b = NUL THEN 1 ELSE b

\* yy_get_previous_state: the state and the last accepting one after the
\* bytes of buf from place b up to place p.
yy_get_previous_state(buf, b, p) ==
    LET At[q \in b..p] ==
            IF q = b THEN [state |-> 1, last |-> last]
            ELSE LET x == At[q - 1] IN
                 [state |-> Trans(x.state, NulClass(buf[q - 1])),
                  last |-> Accepting(x.state, x.last, q - 1)]
    IN  At[p]

-----------------------------------------------------------------------------
\* yylex.

Call ==
    /\ pc = "call"
    /\ Cardinality(Eofs) <= MaxEofs
    /\ ch_buf' = [ch_buf EXCEPT ![c_buf_p] = hold]
    /\ cp' = c_buf_p /\ bp' = c_buf_p
    /\ state' = 1
    /\ pc' = "match"
    /\ UNCHANGED <<scanner, input, interactive, n_chars, status, read, text, c_buf_p, hold, last, out>>

Match ==
    /\ pc = "match"
    /\ last' = Accepting(state, last, cp)
    /\ state' = Trans(state, ch_buf[cp])
    /\ cp' = cp + 1
    /\ pc' = IF T.base[state'] = T.jamBase THEN "find" ELSE "match"
    /\ UNCHANGED <<scanner, input, interactive, buffer, text, c_buf_p, hold, bp, out>>

\* A bug: the scanner acts where it has jammed.
Backed_not == [state |-> state, cpos |-> cp]

Backed == IF T.accept[state] = 0 THEN last ELSE [state |-> state, cpos |-> cp]

\* yy_find_action, YY_DO_BEFORE_ACTION.
Find ==
    /\ pc = "find"
    /\ cp' = Backed.cpos /\ state' = Backed.state
    /\ text' = bp
    /\ hold' = ch_buf[cp']
    /\ ch_buf' = [ch_buf EXCEPT ![cp'] = NUL]
    /\ c_buf_p' = cp'
    /\ pc' = IF T.accept[state'] = T.endOfBuffer THEN "end" ELSE "act"
    /\ UNCHANGED <<scanner, input, interactive, n_chars, status, read, bp, last, out>>

\* The action of a rule, which returns a token, prints the text or skips it.
Rule ==
    /\ pc = "act"
    /\ out' = Append(out, [rule |-> T.accept[state],
                           text |-> [i \in 1..(cp - text) |-> ch_buf[text + i - 1]]])
    /\ pc' = "call"
    /\ UNCHANGED <<scanner, input, interactive, buffer, text, c_buf_p, hold, cp, bp, state, last>>

-----------------------------------------------------------------------------
\* The end-of-buffer action: cp, and c_buf_p, are one behind the byte that led
\* to it.

Matched == cp - text - 1
Restored == [ch_buf EXCEPT ![cp] = hold]

\* "This was really a NUL."
InText == c_buf_p <= n_chars

NulInText ==
    /\ pc = "end" /\ InText
    /\ status' = IF status = "new" THEN "normal" ELSE status
    /\ LET here == text + Matched
           before == yy_get_previous_state(Restored, text, here)
           next == Trans(before.state, 1)
       IN  /\ last' = Accepting(before.state, before.last, here)
           /\ \/ /\ next # T.jam
                 /\ cp' = here + 1 /\ state' = next /\ pc' = "match"
              \/ /\ next = T.jam
                 /\ cp' = here /\ state' = before.state /\ pc' = "find"
    /\ c_buf_p' = cp'
    /\ bp' = text
    /\ ch_buf' = Restored
    /\ UNCHANGED <<scanner, input, interactive, n_chars, read, text, hold, out>>

NewLine == IF scanner = "calc" THEN 3 ELSE 2
Smaller(a, b) == IF a < b THEN a ELSE b

\* YY_INPUT: as much as there is room for, from a terminal at most a line.
YY_INPUT(room) ==
    LET most == Smaller(room, Len(input) - read)
        lines == {k \in 1..most : input[read + k] = NewLine}
    IN  IF interactive /\ lines # {} THEN CHOOSE k \in lines : \A l \in lines : k <= l
        ELSE most

\* The size the buffer is doubled to until something can be read into it.
Grown(size, move) ==
    LET Try[s \in Nat] == IF s - move - 1 <= 0 THEN Try[s * 2] ELSE s IN Try[size]

num_to_read(size, move) == Smaller(size - move - 1, YY_READ_BUF_SIZE)

\* A bug: the byte before the end of the buffer is left behind.
number_to_move_less == IF c_buf_p - text > 1 THEN c_buf_p - text - 2 ELSE 0

number_to_move == c_buf_p - text - 1

\* What is read of the file.
Got == IF status = "eof pending" THEN 0
       ELSE YY_INPUT(num_to_read(Grown(buf_size, number_to_move), number_to_move))

\* yy_get_next_buffer: the token to the front, the new bytes behind it, two NULs.
yy_get_next_buffer ==
    /\ pc = "end" /\ ~InText
    /\ LET move == number_to_move
           size == IF status = "eof pending" THEN buf_size ELSE Grown(buf_size, move)
       IN  /\ n_chars' = move + Got
           /\ ch_buf' = [i \in 0..(size + 1) |->
                 CASE i < move -> Restored[text + i]
                   [] i >= move /\ i < move + Got -> input[read + i - move + 1]
                   [] i = move + Got \/ i = move + Got + 1 -> NUL
                   [] OTHER -> IF i \in DOMAIN ch_buf THEN Restored[i] ELSE NUL]
    /\ read' = read + Got
    /\ text' = 0 /\ bp' = 0
    /\ UNCHANGED <<scanner, input, interactive>>

\* The state is found again after the text that was moved.
Resume(p) ==
    LET x == yy_get_previous_state(ch_buf', 0, p) IN
        /\ c_buf_p' = p /\ cp' = p
        /\ state' = x.state /\ last' = x.last
        /\ UNCHANGED <<hold, out>>

ContinueScan ==
    /\ yy_get_next_buffer /\ Got # 0
    /\ status' = "normal"
    /\ Resume(Matched)
    /\ pc' = "match"

\* A bug: the scanner goes on to match, and meets the end again.
goto_last_match == "match"

\* There is nothing more to match.
goto_last == "find"

\* Text before the end of the file is a token first.
LastMatch ==
    /\ yy_get_next_buffer /\ Got = 0 /\ number_to_move # 0
    /\ status' = "eof pending"
    /\ Resume(n_chars')
    /\ pc' = goto_last

\* yyrestart, and yywrap, which gives 1.
EndOfFile ==
    /\ yy_get_next_buffer /\ Got = 0 /\ number_to_move = 0
    /\ status' = "new"
    /\ c_buf_p' = 0 /\ hold' = NUL
    /\ out' = Append(out, EOF)
    /\ pc' = "call"
    /\ UNCHANGED <<cp, state, last>>

Next ==
    \/ Call \/ Match \/ Find \/ Rule
    \/ NulInText \/ ContinueScan \/ LastMatch \/ EndOfFile

\* The parser asks for the next token, and the scanner goes on until it has it.
Spec == Init /\ [][Next]_vars /\ WF_vars(Next)

-----------------------------------------------------------------------------
\* The rules as they are written: the longest match, of equal ones the first.

Rules == AllRules[scanner]

\* The lengths at which a text from place p on has only bytes in S.
RunsOf(S, p) == {k \in 1..(Len(input) - p + 1) : \A i \in p..(p + k - 1) : input[i] \in S}

\* How long rule r matches at place p: 0 if not at all.
MatchLength(r, p) ==
    LET longest == Cardinality(RunsOf(Rules[r].of, p))
    IN  CASE Rules[r].kind = "one" -> Smaller(longest, 1)
          [] Rules[r].kind = "two" -> IF longest >= 2 THEN 2 ELSE 0
          [] OTHER -> longest

RuleAt(p) ==
    CHOOSE r \in DOMAIN Rules :
        \A q \in DOMAIN Rules :
            \/ MatchLength(q, p) < MatchLength(r, p)
            \/ MatchLength(q, p) = MatchLength(r, p) /\ r <= q

Tokens ==
    LET From[p \in 1..(Len(input) + 1)] ==
            IF p > Len(input) THEN << >>
            ELSE LET n == MatchLength(RuleAt(p), p) IN
                 <<[rule |-> RuleAt(p), text |-> SubSeq(input, p, p + n - 1)]>> \o From[p + n]
    IN  From[1]

-----------------------------------------------------------------------------
\* Properties.

TypeOK ==
    /\ read \in 0..Len(input)
    /\ n_chars \in 0..buf_size /\ n_chars + 1 \in DOMAIN ch_buf
    /\ {text, c_buf_p, cp, bp} \subseteq DOMAIN ch_buf
    /\ hold \in Bytes[scanner] \cup {NUL}
    /\ state \in DOMAIN T.accept
    /\ status \in {"new", "normal", "eof pending"}
    /\ pc \in {"call", "match", "find", "act", "end"}
    \* The two fatal errors: no action found, end of buffer missed.
    /\ pc = "act" => T.accept[state] # 0
    /\ pc = "end" /\ ~InText => c_buf_p <= n_chars + 1

IsPrefixOf(s, t) == Len(s) <= Len(t) /\ s = SubSeq(t, 1, Len(s))

\* However the file is cut into reads, and wherever the buffer ends or is full,
\* the tokens are those of the rules; after the last one the scanner answers
\* that there is none, as often as it is called.
TokensRight ==
    LET n == Len(out) - Cardinality(Eofs)
        toks == SubSeq(out, 1, n)
    IN  /\ Eofs = (n + 1)..Len(out)
        /\ IsPrefixOf(toks, Tokens)
        /\ Eofs # {} => toks = Tokens

\* Between two tokens, no byte is lost, repeated or out of its place: tokens,
\* buffer and file together are the input.
TextOf(ts) == LET Cat[i \in 0..Len(ts)] == IF i = 0 THEN << >> ELSE Cat[i - 1] \o ts[i].text
              IN  Cat[Len(ts)]
InBuffer == [i \in 1..(n_chars - c_buf_p) |-> IF i = 1 THEN hold ELSE ch_buf[c_buf_p + i - 1]]

Conserved ==
    pc = "call" => TextOf(out) \o InBuffer \o SubSeq(input, read + 1, Len(input)) = input

\* The buffer grows for tokens that do not fit, never for a long file.
GrowsForTokens ==
    LET longest == {Len(Tokens[i].text) : i \in DOMAIN Tokens} \cup {0} IN
        buf_size \notin BufSizes => \E k \in longest : buf_size <= 2 * (k + 1)

\* The buffer, whatever has been moved in it and wherever it has been cut.
BufferSound == TypeOK /\ Conserved /\ GrowsForTokens

\* The scanner finds the end of every file.
Terminates == <>(Eofs # {})
=============================================================================
