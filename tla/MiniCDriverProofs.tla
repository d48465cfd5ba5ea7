-------------------------- MODULE MiniCDriverProofs --------------------------
(***************************************************************************)
(* The driver of the MiniC compiler, for every command line, every set of  *)
(* files and whatever they hold: what the command line means, which files  *)
(* are open, that declarations reach the module in order and all of them,  *)
(* and what is left on the disk.  Then the scanners, over recursive        *)
(* functions: the tokens of MiniC and the words of a command line          *)
(* (FrontEnd), and the two engines of flex with their buffers              *)
(* (LectureScanners), for every input, buffer and size of a read.          *)
(***************************************************************************)
EXTENDS MiniCDriver, FrontEnd, LectureScanners, FiniteSetTheorems, WellFoundedInduction, TLAPS

\* The files as the parser finds them.
Start == IF tool = "p2cpp" THEN [given.file EXCEPT ![outfile] = << >>] ELSE given.file

Types ==
    /\ tool \in Tools /\ argv \in Tokens
    /\ given \in [file : [Names -> Contents \cup {Missing}], stdin : Stdins]
    /\ pc \in Pcs
    /\ targv \in 1..(Len(argv) + 1)
    /\ fname \in BOOLEAN
    /\ outfile \in Names \cup {NoName}
    /\ infile \in Seq(Names)
    /\ disk \in [Names -> Contents \cup {Missing, Bitcode}]
    /\ infile_cnt \in 1..(Len(infile) + 1)
    /\ currentFile \in 0..(infile_cnt - 1) /\ yyin \in 0..(infile_cnt - 1)
    /\ open \subseteq 1..(infile_cnt - 1)
    /\ at \in Nat
    /\ module \in Seq(Nat \X Nat)
    /\ seen \subseteq {"missing", "syntax", "lexical", "write"}
    /\ status \in {0, 1, 255}

\* Nothing has been read before main calls yywrap.
Fresh ==
    pc \in {"cmdline", "start"} =>
        /\ infile_cnt = 1 /\ currentFile = 0 /\ yyin = 0 /\ open = {}
        /\ at = 0 /\ module = << >> /\ seen = {} /\ status = 0

\* yyin, currentFile and infile_cnt between two calls of yywrap: 0 while stdin
\* is read in place of a first file that is missing.
Handles ==
    /\ pc \in {"parse", "empty"} => at <= Len(Text)
    /\ pc = "parse" =>
        /\ currentFile = yyin
        /\ open = (IF yyin = 0 THEN {} ELSE {yyin})
        /\ infile_cnt = (IF yyin = 0 THEN 2 ELSE yyin + 1)
        /\ IF yyin = 0 THEN disk[infile[1]] = Missing ELSE disk[infile[yyin]] # Missing
        /\ disk[infile[1]] = Missing => "missing" \in seen

\* The disk does not change between main's preparations and its last step.
Disk ==
    /\ pc = "cmdline" => disk = given.file
    /\ pc \in {"start", "parse", "empty", "write"} =>
          outfile \in Names /\ infile # << >> /\ disk = Start
    /\ pc = "done" =>
          \/ disk = given.file
          \/ disk = Start /\ outfile \in Names /\ "lexical" \in seen
          \/ disk = [Start EXCEPT ![outfile] = Bitcode] /\ outfile \in Names

\* Declarations come in order, the last of them from what has just been read.
Ordered ==
    /\ \A i, j \in 1..Len(module) : i < j => Before(module[i], module[j])
    /\ pc = "parse" =>
          \A i \in 1..Len(module) :
              module[i][1] < yyin \/ (module[i][1] = yyin /\ module[i][2] <= at)

Elements == {module[i] : i \in 1..Len(module)}

\* What the scanner has handed to the parser.
Handed == UNION {{<<h, k>> : k \in 1..(IF h = yyin THEN at ELSE Units(h))} : h \in Read}

Covered == pc = "parse" => Elements = Handed

\* After an undisturbed parse the module has all of the input.
Complete ==
    pc \in {"write", "done"} /\ status = 0 /\ seen = {} =>
        /\ Elements = UNION {{<<h, k>> : k \in 1..Size(Start[infile[h]])} :
                                h \in 1..Len(infile)}
        /\ pc = "done" => disk[outfile] = Bitcode

\* What Cmdlex has understood when it comes to argv[n].
Pending(n) ==
    \E j \in 1..(n - 1) : argv[j] = Output /\ \A k \in (j + 1)..(n - 1) : argv[k] \notin Names

InputsBefore(n) == {i \in Inputs : i < n}
TakenBefore(n) == {i \in Taken : i < n}

Meant(n, inName, outf, inf) ==
    /\ inName <=> Pending(n)
    /\ Len(inf) = Cardinality(InputsBefore(n))
    /\ \A i \in InputsBefore(n) : inf[Cardinality({k \in Inputs : k <= i})] = argv[i]
    /\ TakenBefore(n) = {} => outf = NoName
    /\ TakenBefore(n) # {} =>
          \E i \in TakenBefore(n) : outf = argv[i] /\ \A k \in TakenBefore(n) : k <= i

Understood == pc = "cmdline" => Meant(targv, fname, outfile, infile)

IInv ==
    /\ Types /\ Fresh /\ Handles /\ Disk
    /\ Ordered /\ Covered /\ Complete
    /\ Understood /\ CmdlineMeaning

-----------------------------------------------------------------------------
\* The command line.

LEMMA ArgvTyped ==
    Types => argv \in Seq(Names \cup {Option, Output}) /\ Len(argv) \in Nat
  BY DriverAssumption DEF Types

\* A name is the output's if -o is pending there, an input otherwise.
LEMMA NameAt ==
    ASSUME NEW n \in 1..Len(argv), argv[n] \in Names
    PROVE  /\ n \in Taken <=> Pending(n)
           /\ n \in Inputs <=> ~Pending(n)
  BY DEF Taken, Inputs, Pending

LEMMA InputsFinite ==
    ASSUME Types, NEW P \in SUBSET Inputs
    PROVE  IsFiniteSet(P) /\ Cardinality(P) \in Nat
<1>1. IsFiniteSet(1..Len(argv))
  BY ArgvTyped, FS_Interval
<1>2. P \subseteq 1..Len(argv)
  BY DEF Inputs
<1>3. QED
  BY <1>1, <1>2, FS_Subset, FS_CardinalityType

\* The place of an input among the inputs.
LEMMA PlaceOf ==
    ASSUME Types, NEW n \in Nat, NEW i \in InputsBefore(n)
    PROVE  Cardinality({k \in Inputs : k <= i}) \in 1..Cardinality(InputsBefore(n))
<1> DEFINE P == {k \in Inputs : k <= i}
<1>1. P \subseteq InputsBefore(n) /\ i \in P /\ InputsBefore(n) \subseteq Inputs
  BY DEF InputsBefore, Inputs
<1>2. /\ IsFiniteSet(P) /\ Cardinality(P) \in Nat
      /\ IsFiniteSet(InputsBefore(n)) /\ Cardinality(InputsBefore(n)) \in Nat
  BY <1>1, InputsFinite
<1>3. Cardinality(P) <= Cardinality(InputsBefore(n))
  BY <1>1, <1>2, FS_Subset
<1>4. Cardinality(P) # 0
  BY <1>1, <1>2, FS_EmptySet
<1>5. QED
  BY <1>2, <1>3, <1>4

LEMMA BeforeNext ==
    ASSUME NEW S \in SUBSET Nat, NEW n \in Nat
    PROVE  /\ n \in S => {i \in S : i < n + 1} = {i \in S : i < n} \cup {n}
           /\ n \notin S => {i \in S : i < n + 1} = {i \in S : i < n}
           /\ {i \in S : i <= n} = {i \in S : i < n + 1}
<1>1. \A i \in S : (i < n + 1 <=> i < n \/ i = n) /\ (i <= n <=> i < n + 1)
  OBVIOUS
<1>2. QED
  BY <1>1

LEMMA Indices == Types => Inputs \subseteq Nat /\ Taken \subseteq Nat
  BY ArgvTyped DEF Inputs, Taken

LEMMA OneMoreInput ==
    ASSUME Types, NEW n \in Inputs
    PROVE  /\ InputsBefore(n + 1) = InputsBefore(n) \cup {n}
           /\ {k \in Inputs : k <= n} = InputsBefore(n + 1)
           /\ Cardinality(InputsBefore(n + 1)) = Cardinality(InputsBefore(n)) + 1
<1>1. n \in Nat /\ Inputs \subseteq Nat
  BY Indices
<1>2. /\ InputsBefore(n + 1) = InputsBefore(n) \cup {n}
      /\ {k \in Inputs : k <= n} = InputsBefore(n + 1)
  BY <1>1, BeforeNext DEF InputsBefore
<1>3. n \notin InputsBefore(n)
  BY <1>1 DEF InputsBefore
<1>4. IsFiniteSet(InputsBefore(n))
  BY InputsFinite DEF InputsBefore
<1>5. QED
  BY <1>2, <1>3, <1>4, FS_AddElement

\* An option, and -o.
LEMMA NoNameMeant ==
    ASSUME Types, NEW n \in 1..Len(argv), argv[n] \notin Names,
           NEW b \in BOOLEAN, NEW c \in BOOLEAN, NEW o, NEW inf,
           Meant(n, b, o, inf), c <=> b \/ argv[n] = Output
    PROVE  Meant(n + 1, c, o, inf)
<1>1. n \in Nat /\ n \notin Inputs /\ n \notin Taken
  BY ArgvTyped DEF Inputs, Taken
<1>2. InputsBefore(n + 1) = InputsBefore(n) /\ TakenBefore(n + 1) = TakenBefore(n)
  BY <1>1, Indices, BeforeNext DEF InputsBefore, TakenBefore
<1>3. Pending(n + 1) <=> Pending(n) \/ argv[n] = Output
  <2>1. ASSUME Pending(n) PROVE Pending(n + 1)
    <3>1. PICK j \in 1..(n - 1) : /\ argv[j] = Output
                                 /\ \A k \in (j + 1)..(n - 1) : argv[k] \notin Names
      BY <2>1 DEF Pending
    <3>2. \A k \in (j + 1)..n : k = n \/ k \in (j + 1)..(n - 1)
      BY <1>1
    <3>3. j \in 1..n /\ n + 1 - 1 = n
      BY <1>1
    <3>4. QED
      BY <3>1, <3>2, <3>3 DEF Pending
  <2>2. ASSUME argv[n] = Output PROVE Pending(n + 1)
    <3>1. n \in 1..n /\ n + 1 - 1 = n /\ (n + 1)..n = {}
      BY <1>1
    <3>2. QED
      BY <2>2, <3>1 DEF Pending
  <2>3. ASSUME Pending(n + 1), argv[n] # Output PROVE Pending(n)
    <3>1. n + 1 - 1 = n
      BY <1>1
    <3>2. PICK j \in 1..n : argv[j] = Output /\ \A k \in (j + 1)..n : argv[k] \notin Names
      BY <2>3, <3>1 DEF Pending
    <3>3. j \in 1..(n - 1) /\ (j + 1)..(n - 1) \subseteq (j + 1)..n
      BY <1>1, <2>3, <3>2
    <3>4. QED
      BY <3>2, <3>3 DEF Pending
  <2>4. QED
    BY <2>1, <2>2, <2>3
<1>4. QED
  BY <1>2, <1>3 DEF Meant

LEMMA NotNames == Option \notin Names /\ Output \notin Names /\ Option # Output
<1>1. Option # Output
  BY DEF Option, Output
<1>2. QED
  BY <1>1, DriverAssumption

LEMMA NothingPending ==
    ASSUME NEW n \in Nat, argv[n] \in Names
    PROVE  ~Pending(n + 1)
<1>1. SUFFICES ASSUME NEW j \in 1..n, argv[j] = Output,
                      \A k \in (j + 1)..n : argv[k] \notin Names
               PROVE  FALSE
  <2>1. n + 1 - 1 = n
    OBVIOUS
  <2>2. QED
    BY <2>1 DEF Pending
<1>2. j # n
  BY <1>1, NotNames
<1>3. n \in (j + 1)..n
  BY <1>2
<1>4. QED
  BY <1>1, <1>3

\* A name where -o is pending, and one where it is not.
LEMMA OutputMeant ==
    ASSUME Types, NEW n \in 1..Len(argv), argv[n] \in Names,
           NEW o, NEW inf, Meant(n, TRUE, o, inf)
    PROVE  Meant(n + 1, FALSE, argv[n], inf)
<1>1. n \in Nat /\ n \in Taken /\ n \notin Inputs
  BY NameAt, ArgvTyped DEF Meant
<1>2. /\ InputsBefore(n + 1) = InputsBefore(n)
      /\ TakenBefore(n + 1) = TakenBefore(n) \cup {n}
  BY <1>1, Indices, BeforeNext DEF InputsBefore, TakenBefore
<1>3. \A k \in TakenBefore(n + 1) : k <= n
  BY <1>1, <1>2, Indices DEF TakenBefore
<1>4. ~Pending(n + 1)
  BY <1>1, NothingPending
<1>5. QED
  BY <1>2, <1>3, <1>4 DEF Meant

LEMMA InputMeant ==
    ASSUME Types, NEW n \in 1..Len(argv), argv[n] \in Names,
           NEW o, NEW inf \in Seq(Names), Meant(n, FALSE, o, inf)
    PROVE  Meant(n + 1, FALSE, o, Append(inf, argv[n]))
<1> DEFINE longer == Append(inf, argv[n])
<1>1. n \in Nat /\ n \in Inputs /\ n \notin Taken
  BY NameAt, ArgvTyped DEF Meant
<1>2. TakenBefore(n + 1) = TakenBefore(n)
  BY <1>1, Indices, BeforeNext DEF TakenBefore
<1>3. ~Pending(n + 1)
  BY <1>1, NothingPending
<1>4. Len(inf) = Cardinality(InputsBefore(n)) /\ Len(inf) \in Nat
  BY DEF Meant
<1>5. /\ Len(longer) = Len(inf) + 1 /\ longer[Len(inf) + 1] = argv[n]
      /\ \A k \in 1..Len(inf) : longer[k] = inf[k]
  OBVIOUS
<1>6. Len(longer) = Cardinality(InputsBefore(n + 1))
  BY <1>1, <1>4, <1>5, OneMoreInput
<1>7. ASSUME NEW i \in InputsBefore(n + 1)
      PROVE  longer[Cardinality({k \in Inputs : k <= i})] = argv[i]
  <2>1. CASE i = n
    BY <1>1, <1>4, <1>5, <2>1, OneMoreInput, ZenonT(60)
  <2>2. CASE i # n
    <3>1. i \in InputsBefore(n)
      BY <1>1, <2>2, OneMoreInput
    <3>2. Cardinality({k \in Inputs : k <= i}) \in 1..Len(inf)
      BY <1>1, <1>4, <3>1, PlaceOf
    <3>3. QED
      BY <1>5, <3>1, <3>2 DEF Meant
  <2>3. QED
    BY <2>1, <2>2
<1>8. QED
  BY <1>2, <1>3, <1>6, <1>7 DEF Meant

\* One word.
LEMMA CmdlexUnderstands ==
    ASSUME Types, Understood, Cmdlex
    PROVE  Understood'
<1>1. /\ pc = "cmdline" /\ targv \in 1..Len(argv) /\ targv' = targv + 1
      /\ UNCHANGED <<argv, pc>> /\ Meant(targv, fname, outfile, infile)
  BY DEF Cmdlex, Consume, fixed, Types, Understood
<1>2. Option \notin Names /\ Output \notin Names /\ Option # Output
  BY NotNames
<1>3. fname \in BOOLEAN /\ infile \in Seq(Names)
  BY DEF Types
<1>4. Meant(targv + 1, fname', outfile', infile')
  <2>1. CASE argv[targv] = Option /\ UNCHANGED <<fname, outfile, infile>>
    BY <1>1, <1>2, <1>3, <2>1, NoNameMeant
  <2>2. CASE argv[targv] = Output /\ fname' = TRUE /\ UNCHANGED <<outfile, infile>>
    BY <1>1, <1>2, <1>3, <2>2, NoNameMeant
  <2>3. CASE argv[targv] \in Names /\ FileName(argv[targv])
    <3>1. CASE fname
      BY <1>1, <2>3, <3>1, OutputMeant DEF FileName, LeaveFNAME
    <3>2. CASE ~fname
      BY <1>1, <1>3, <2>3, <3>2, InputMeant DEF FileName, LeaveFNAME
    <3>3. QED
      BY <3>1, <3>2
  <2>4. QED
    BY <2>1, <2>2, <2>3 DEF Cmdlex
<1>5. Taken' = Taken
  BY <1>1 DEF Taken
<1>6. Inputs' = Inputs
  BY <1>1, <1>5 DEF Inputs
<1>7. /\ InputsBefore(targv)' = InputsBefore(targv + 1)
      /\ TakenBefore(targv)' = TakenBefore(targv + 1)
      /\ Pending(targv)' <=> Pending(targv + 1)
  BY <1>1, <1>5, <1>6 DEF InputsBefore, TakenBefore, Pending
<1>8. QED
  BY <1>1, <1>4, <1>6, <1>7 DEF Understood, Meant

\* Behind the last word, what has been understood is what the line means.
LEMMA WholeLine ==
    ASSUME Types, Understood, pc = "cmdline", targv > Len(argv), outfile' = Target,
           pc' # "cmdline", UNCHANGED <<argv, infile>>
    PROVE  Understood' /\ CmdlineMeaning'
<1>1. /\ targv = Len(argv) + 1 /\ Len(argv) \in Nat
      /\ Meant(targv, fname, outfile, infile)
  BY ArgvTyped DEF Understood, Types
<1>2. InputsBefore(targv) = Inputs /\ TakenBefore(targv) = Taken
  BY <1>1 DEF InputsBefore, TakenBefore, Inputs, Taken
<1>3. Taken' = Taken
  BY DEF Taken
<1>4. Inputs' = Inputs
  BY <1>3 DEF Inputs
<1>5. \A i \in Taken : argv[i] # NoName
  BY DriverAssumption DEF Taken
<1>6. /\ Taken = {} => outfile' = OutBc
      /\ Taken # {} => \E i \in Taken : outfile' = argv[i] /\ \A k \in Taken : k <= i
  BY <1>1, <1>2, <1>5 DEF Meant, Target
<1>7. /\ Len(infile) = Cardinality(Inputs)
      /\ \A i \in Inputs : infile[Cardinality({k \in Inputs : k <= i})] = argv[i]
  BY <1>1, <1>2 DEF Meant
<1>8. QED
  BY <1>3, <1>4, <1>6, <1>7 DEF CmdlineMeaning, Understood

\* The steps of the compiler do not touch what the command line has set.
LEMMA LineKept ==
    ASSUME CmdlineMeaning, pc # "cmdline", pc' # "cmdline",
           UNCHANGED <<argv, infile, outfile>>
    PROVE  Understood' /\ CmdlineMeaning'
<1>1. Taken' = Taken
  BY DEF Taken
<1>2. Inputs' = Inputs
  BY <1>1 DEF Inputs
<1>3. QED
  BY <1>1, <1>2 DEF CmdlineMeaning, Understood

-----------------------------------------------------------------------------
\* The files.

LEMMA StartTyped ==
    ASSUME Types, outfile \in Names
    PROVE  /\ Start \in [Names -> Contents \cup {Missing}]
           /\ \A f \in Names : f # outfile => Start[f] = given.file[f]
           /\ tool = "p2" => Start = given.file
           /\ tool = "p2cpp" => Start[outfile] = << >>
  BY DriverAssumption DEF Types, Start

\* What is being read is a sequence of units.
LEMMA TextTyped ==
    ASSUME Types, Handles, Disk, pc = "parse"
    PROVE  /\ Text \in Seq(Unit) /\ Len(Text) \in Nat
           /\ Units(yyin) = Len(Text)
           /\ yyin # 0 => yyin \in 1..Len(infile) /\ infile[yyin] \in Names
<1>1. given.stdin \in Contents /\ Contents \subseteq Seq(Unit) /\ Missing \notin Contents
  BY DriverAssumption DEF Types
<1>2. CASE yyin = 0
  BY <1>1, <1>2 DEF Text, Units, Size
<1>3. CASE yyin # 0
  <2>1. yyin \in 1..Len(infile) /\ infile[yyin] \in Names
    BY <1>3 DEF Types
  <2>2. disk[infile[yyin]] \in Contents
    BY <1>3, <2>1, StartTyped DEF Handles, Disk
  <2>3. QED
    BY <1>1, <1>3, <2>1, <2>2 DEF Text, Units, Size
<1>4. QED
  BY <1>2, <1>3

\* A step that changes none of what the parser is fed with.
Quiet == UNCHANGED <<fixed, outfile, infile, disk>>

LEMMA QuietStart == Quiet => Start' = Start
  BY DEF Quiet, fixed, Start

LEMMA InitIInv == Init => IInv
<1>1. SUFFICES ASSUME Init PROVE IInv
  OBVIOUS
<1>2. argv \in Seq(Names \cup {Option, Output}) /\ Len(argv) \in Nat
  BY <1>1, DriverAssumption DEF Init
<1>3. Types
  <2>1. disk \in [Names -> Contents \cup {Missing, Bitcode}]
    BY <1>1 DEF Init
  <2>2. module \in Seq(Nat \X Nat) /\ infile \in Seq(Names) /\ Len(infile) = 0
    BY <1>1 DEF Init
  <2>3. /\ tool \in Tools /\ argv \in Tokens
        /\ given \in [file : [Names -> Contents \cup {Missing}], stdin : Stdins]
        /\ pc = "cmdline" /\ targv = 1 /\ fname = FALSE /\ outfile = NoName
        /\ infile_cnt = 1 /\ currentFile = 0 /\ yyin = 0 /\ open = {} /\ at = 0
        /\ seen = {} /\ status = 0
    BY <1>1 DEF Init
  <2>4. /\ targv \in 1..(Len(argv) + 1) /\ infile_cnt \in 1..(Len(infile) + 1)
        /\ currentFile \in 0..(infile_cnt - 1) /\ yyin \in 0..(infile_cnt - 1)
        /\ at \in Nat
    BY <1>2, <2>2, <2>3
  <2>5. /\ pc \in Pcs /\ fname \in BOOLEAN /\ outfile \in Names \cup {NoName}
        /\ status \in {0, 1, 255} /\ open \subseteq 1..(infile_cnt - 1)
        /\ seen \subseteq {"missing", "syntax", "lexical", "write"}
    BY <2>3 DEF Pcs
  <2>6. QED
    BY <2>1, <2>2, <2>3, <2>4, <2>5, Zenon DEF Types
<1>4. Fresh /\ Handles /\ Disk /\ Ordered /\ Covered /\ Complete /\ CmdlineMeaning
  BY <1>1 DEF Init, Fresh, Handles, Disk, Ordered, Covered, Complete, CmdlineMeaning
<1>5. Understood
  <2>1. InputsBefore(1) = {} /\ TakenBefore(1) = {}
    BY <1>2 DEF InputsBefore, TakenBefore, Inputs, Taken
  <2>2. ~Pending(1)
    BY DEF Pending
  <2>3. QED
    BY <1>1, <2>1, <2>2, FS_EmptySet DEF Init, Understood, Meant
<1>6. QED
  BY <1>3, <1>4, <1>5 DEF IInv

LEMMA CmdlexStep == IInv /\ Cmdlex => IInv'
<1>1. SUFFICES ASSUME IInv, Cmdlex PROVE IInv'
  OBVIOUS
<1>2. Understood'
  BY <1>1, CmdlexUnderstands DEF IInv
<1>3. /\ pc = "cmdline" /\ pc' = "cmdline" /\ targv' \in 1..(Len(argv) + 1)
      /\ UNCHANGED <<tool, argv, given, infile_cnt, currentFile, yyin, open,
                     disk, at, module, seen, status>>
  BY <1>1, ArgvTyped DEF Cmdlex, Consume, fixed, inputs, IInv, Types
<1>4. fname' \in BOOLEAN /\ outfile' \in Names \cup {NoName} /\ infile' \in Seq(Names)
  <2>1. fname \in BOOLEAN /\ outfile \in Names \cup {NoName} /\ infile \in Seq(Names)
    BY <1>1 DEF IInv, Types
  <2>2. CASE argv[targv] \in Names /\ FileName(argv[targv])
    <3>1. CASE fname
      BY <2>1, <2>2, <3>1 DEF FileName, LeaveFNAME
    <3>2. CASE ~fname
      <4>1. /\ infile' = Append(infile, argv[targv]) /\ argv[targv] \in Names
            /\ outfile' = outfile /\ fname' = FALSE
        BY <2>2, <3>2 DEF FileName, LeaveFNAME
      <4>2. infile' \in Seq(Names)
        BY <2>1, <4>1
      <4>3. QED
        BY <2>1, <4>1, <4>2
    <3>3. QED
      BY <3>1, <3>2
  <2>3. CASE UNCHANGED <<outfile, infile>> /\ (fname' = TRUE \/ UNCHANGED fname)
    BY <2>1, <2>3
  <2>4. QED
    BY <1>1, <2>2, <2>3 DEF Cmdlex
<1>5. infile_cnt = 1
  BY <1>1, <1>3 DEF IInv, Fresh
<1>6. Types'
  <2>1. Len(infile') \in Nat
    BY <1>4
  <2>2. QED
    BY <1>1, <1>3, <1>4, <1>5, <2>1 DEF IInv, Types
<1>7. Fresh' /\ Handles' /\ Disk' /\ Ordered' /\ Covered' /\ Complete' /\ CmdlineMeaning'
  BY <1>1, <1>3 DEF IInv, Fresh, Handles, Disk, Ordered, Covered, Complete, CmdlineMeaning
<1>8. QED
  BY <1>2, <1>6, <1>7 DEF IInv

LEMMA TargetTyped == Types => Target \in Names
  BY DriverAssumption DEF Types, Target

LEMMA NoInputStep == IInv /\ NoInput => IInv'
<1>1. SUFFICES ASSUME IInv, NoInput PROVE IInv'
  OBVIOUS
<1>2. /\ pc = "cmdline" /\ pc' = "done" /\ outfile' = Target /\ status' = 1
      /\ targv > Len(argv)
      /\ UNCHANGED <<tool, argv, given, targv, fname, infile, infile_cnt, currentFile,
                     yyin, open, disk, at, module, seen>>
  BY <1>1 DEF NoInput, fixed, inputs
<1>3. Types'
  BY <1>1, <1>2, TargetTyped DEF IInv, Types, Pcs
<1>4. Understood' /\ CmdlineMeaning'
  BY <1>1, <1>2, WholeLine DEF IInv
<1>5. Fresh' /\ Handles' /\ Disk' /\ Ordered' /\ Covered' /\ Complete'
  BY <1>1, <1>2 DEF IInv, Fresh, Handles, Disk, Ordered, Covered, Complete
<1>6. QED
  BY <1>3, <1>4, <1>5 DEF IInv

LEMMA PrepareStep == IInv /\ Prepare => IInv'
<1>1. SUFFICES ASSUME IInv, Prepare PROVE IInv'
  OBVIOUS
<1>2. /\ pc = "cmdline" /\ pc' = "start" /\ outfile' = Target
      /\ targv > Len(argv) /\ infile # << >>
      /\ UNCHANGED <<tool, argv, given, targv, fname, infile, infile_cnt, currentFile,
                     yyin, open, at, module, seen, status>>
  BY <1>1 DEF Prepare, fixed, inputs
<1>3. disk' = Start'
  BY <1>1, <1>2 DEF Prepare, Emptied, Start, IInv, Disk
<1>4. Types'
  <2>1. disk' \in [Names -> Contents \cup {Missing, Bitcode}]
    BY <1>1, <1>2, TargetTyped, DriverAssumption DEF Prepare, Emptied, IInv, Types
  <2>2. QED
    BY <1>1, <1>2, <2>1, TargetTyped DEF IInv, Types, Pcs
<1>5. Understood' /\ CmdlineMeaning'
  BY <1>1, <1>2, WholeLine DEF IInv
<1>6. Disk'
  BY <1>1, <1>2, <1>3, TargetTyped DEF IInv, Disk
<1>7. Fresh' /\ Handles' /\ Ordered' /\ Covered' /\ Complete'
  BY <1>1, <1>2 DEF IInv, Fresh, Handles, Ordered, Covered, Complete
<1>8. QED
  BY <1>4, <1>5, <1>6, <1>7 DEF IInv

-----------------------------------------------------------------------------
\* yywrap.

LEMMA FirstFileStep == IInv /\ FirstFile => IInv'
<1>1. SUFFICES ASSUME IInv, FirstFile PROVE IInv'
  OBVIOUS
<1>2. /\ pc = "start" /\ pc' = "parse"
      /\ UNCHANGED <<tool, argv, given, targv, fname, outfile, infile, disk, module, status>>
      /\ infile_cnt = 1 /\ currentFile = 0 /\ yyin = 0 /\ open = {}
      /\ at = 0 /\ module = << >> /\ seen = {}
  BY <1>1 DEF FirstFile, fixed, cmdline, IInv, Fresh
<1>3. /\ infile \in Seq(Names) /\ Len(infile) \in Nat /\ Len(infile) >= 1
      /\ infile[1] \in Names
  BY <1>1, <1>2 DEF IInv, Disk, Types
<1>4. /\ infile_cnt' = 2 /\ at' = 0
      /\ \/ /\ disk[infile[1]] # Missing /\ open' = {1} /\ currentFile' = 1
            /\ yyin' = 1 /\ seen' = {}
         \/ /\ disk[infile[1]] = Missing /\ open' = {} /\ currentFile' = 0
            /\ yyin' = 0 /\ seen' = {"missing"}
  <2>1. CASE WrapOpens
    BY <1>2, <2>1 DEF WrapOpens, Advance, Fclose
  <2>2. CASE WrapFails
    BY <1>2, <2>2 DEF WrapFails, Advance, Fclose
  <2>3. QED
    BY <1>1, <2>1, <2>2 DEF FirstFile
<1>5. Types'
  BY <1>1, <1>2, <1>3, <1>4 DEF IInv, Types, Pcs
<1>6. Handles' /\ Disk' /\ Fresh' /\ Complete'
  <2>1. Len(Text') \in Nat
    <3>1. given.stdin \in Seq(Unit)
      BY <1>1, DriverAssumption DEF IInv, Types
    <3>2. disk[infile[1]] # Missing => disk[infile[1]] \in Seq(Unit)
      BY <1>1, <1>2, <1>3, StartTyped, DriverAssumption DEF IInv, Disk
    <3>3. QED
      BY <1>2, <1>4, <3>1, <3>2 DEF Text
  <2>2. Start' = Start
    BY <1>2 DEF Start
  <2>3. QED
    BY <1>1, <1>2, <1>4, <2>1, <2>2 DEF IInv, Handles, Disk, Fresh, Complete
<1>7. Ordered' /\ Covered'
  <2>1. Elements' = {}
    BY <1>2 DEF Elements
  <2>2. Read' = {yyin'}
    BY <1>2, <1>4 DEF Read
  <2>3. Handed' = {}
    BY <1>4, <2>2 DEF Handed
  <2>4. QED
    BY <1>2, <2>1, <2>3 DEF Ordered, Covered
<1>8. Understood' /\ CmdlineMeaning'
  BY <1>1, <1>2, LineKept DEF IInv
<1>9. QED
  BY <1>5, <1>6, <1>7, <1>8 DEF IInv

\* What has been handed over when a file is at its end is what has been when
\* the next one is at its beginning.
LEMMA HandedNext ==
    ASSUME Types, Handles, Disk, pc = "parse", at = Len(Text),
           yyin' = infile_cnt, at' = 0, UNCHANGED <<given, infile, disk>>
    PROVE  Handed' = Handed
<1>1. /\ yyin \in Nat /\ yyin' = (IF yyin = 0 THEN 2 ELSE yyin + 1)
      /\ yyin' > yyin /\ yyin' > 1
  BY DEF Types, Handles
<1>2. Read' = Read \cup {yyin'} /\ yyin' \notin Read
  <2>1. 2..yyin' = (2..yyin) \cup {yyin'}
    BY <1>1
  <2>2. yyin' \notin 2..yyin
    BY <1>1
  <2>3. QED
    BY <1>1, <2>1, <2>2 DEF Read
<1>3. at = Units(yyin)
  BY TextTyped
<1>4. \A h \in Read : Units(h)' = Units(h)
  BY DEF Units
<1>5. Handed = UNION {{<<h, k>> : k \in 1..Units(h)} : h \in Read}
  BY <1>3 DEF Handed
<1>6. Handed' = UNION {{<<h, k>> : k \in 1..(IF h = yyin' THEN 0 ELSE Units(h)')} :
                          h \in Read \cup {yyin'}}
  BY <1>2 DEF Handed
<1>7. \A h \in Read : (IF h = yyin' THEN 0 ELSE Units(h)') = Units(h)
  BY <1>2, <1>4
<1>8. {<<yyin', k>> : k \in 1..0} = {}
  OBVIOUS
<1>9. QED
  BY <1>5, <1>6, <1>7, <1>8

LEMMA NextFileStep == IInv /\ NextFile => IInv'
<1>1. SUFFICES ASSUME IInv, NextFile PROVE IInv'
  OBVIOUS
<1>2. /\ pc = "parse" /\ pc' = "parse" /\ at = Len(Text)
      /\ UNCHANGED <<tool, argv, given, targv, fname, outfile, infile, disk, module, status, seen>>
      /\ infile_cnt <= Len(infile) /\ disk[infile[infile_cnt]] # Missing
      /\ currentFile' = infile_cnt /\ yyin' = infile_cnt /\ at' = 0
      /\ infile_cnt' = infile_cnt + 1 /\ open' = Fclose \cup {infile_cnt}
  BY <1>1 DEF NextFile, WrapOpens, Advance, fixed, cmdline
<1>3. open' = {infile_cnt}
  BY <1>1, <1>2 DEF Fclose, IInv, Handles
<1>4. infile_cnt \in 1..Len(infile) /\ Len(infile) \in Nat
  BY <1>1, <1>2 DEF IInv, Types
<1>5. Types'
  BY <1>1, <1>2, <1>3, <1>4 DEF IInv, Types
<1>6. Start' = Start
  BY <1>2 DEF Start
<1>7. Handles'
  <2>1. infile_cnt # 0 /\ Len(Text') \in Nat
    <3>1. disk[infile[infile_cnt]] \in Seq(Unit)
      BY <1>1, <1>2, <1>4, StartTyped, DriverAssumption DEF IInv, Disk, Types
    <3>2. QED
      BY <1>2, <1>4, <3>1 DEF Text
  <2>2. QED
    BY <1>1, <1>2, <1>3, <1>4, <2>1 DEF IInv, Handles
<1>8. Disk' /\ Fresh' /\ Complete'
  BY <1>1, <1>2, <1>6 DEF IInv, Disk, Fresh, Complete
<1>9. Ordered'
  <2>1. \A i \in 1..Len(module) : module[i] \in Nat \X Nat
    BY <1>1 DEF IInv, Types
  <2>2. yyin \in Nat /\ yyin' > yyin /\ yyin' \in Nat
    BY <1>1, <1>2 DEF IInv, Types, Handles
  <2>3. ASSUME NEW i \in 1..Len(module) PROVE module[i][1] < yyin'
    <3>1. module[i][1] < yyin \/ module[i][1] = yyin
      BY <1>1, <1>2 DEF IInv, Ordered
    <3>2. module[i][1] \in Nat
      BY <2>1
    <3>3. QED
      BY <2>2, <3>1, <3>2
  <2>4. QED
    BY <1>1, <1>2, <2>3 DEF IInv, Ordered
<1>10. Covered'
  BY <1>1, <1>2, HandedNext DEF IInv, Covered, Elements
<1>11. Understood' /\ CmdlineMeaning'
  BY <1>1, <1>2, LineKept DEF IInv
<1>12. QED
  BY <1>5, <1>7, <1>8, <1>9, <1>10, <1>11 DEF IInv

\* An end of input in an undisturbed run is that of the last file.
LEMMA AllRead ==
    ASSUME Types, Handles, Disk, Covered, pc = "parse", at = Len(Text), seen = {},
           infile_cnt > Len(infile)
    PROVE  Elements = UNION {{<<h, k>> : k \in 1..Size(Start[infile[h]])} :
                                h \in 1..Len(infile)}
<1>1. disk[infile[1]] # Missing /\ yyin # 0 /\ yyin \in Nat
  BY DEF Handles, Types
<1>2. yyin = Len(infile)
  BY <1>1 DEF Handles, Types
<1>3. Read = 1..Len(infile)
  <2>1. {1} \cup 2..yyin = 1..yyin
    BY <1>1
  <2>2. QED
    BY <1>1, <1>2, <2>1 DEF Read
<1>4. \A h \in Read : (IF h = yyin THEN at ELSE Units(h)) = Size(Start[infile[h]])
  <2>1. at = Units(yyin)
    BY TextTyped
  <2>2. \A h \in Read : Units(h) = Size(Start[infile[h]])
    BY <1>3 DEF Units, Disk
  <2>3. QED
    BY <2>1, <2>2
<1>5. QED
  BY <1>3, <1>4 DEF Covered, Handed

LEMMA HandlesGrow ==
    ASSUME NEW m \in Nat, NEW n \in Nat, 1 <= m, m <= n
    PROVE  0 \in 0..(n - 1) /\ \A h \in 0..(m - 1) : h \in 0..(n - 1)
  OBVIOUS

LEMMA LastFileStep == IInv /\ LastFile => IInv'
<1>1. SUFFICES ASSUME IInv, LastFile PROVE IInv'
  OBVIOUS
<1>2. /\ pc = "parse" /\ pc' \in {"empty", "write"} /\ at = Len(Text)
      /\ UNCHANGED <<tool, argv, given, targv, fname, outfile, infile, disk, module,
                     status, yyin, at>>
      /\ open' = Fclose
      /\ \/ /\ infile_cnt > Len(infile)
            /\ UNCHANGED <<infile_cnt, currentFile, seen>>
         \/ /\ infile_cnt <= Len(infile) /\ infile_cnt' = infile_cnt + 1
            /\ currentFile' = 0 /\ seen' = seen \cup {"missing"}
  BY <1>1 DEF LastFile, WrapEnd, WrapFails, Advance, fixed, cmdline
<1>3. open' = {}
  BY <1>1, <1>2 DEF Fclose, IInv, Handles
<1>4. Types'
  <2>1. /\ infile_cnt' \in 1..(Len(infile) + 1) /\ infile_cnt' >= infile_cnt
        /\ currentFile' \in {0, currentFile} /\ seen' \subseteq seen \cup {"missing"}
    BY <1>1, <1>2 DEF IInv, Types
  <2>2. /\ currentFile' \in 0..(infile_cnt' - 1) /\ yyin' \in 0..(infile_cnt' - 1)
        /\ open' \subseteq 1..(infile_cnt' - 1)
    <3>1. /\ infile_cnt \in Nat /\ infile_cnt' \in Nat /\ infile_cnt >= 1
          /\ currentFile \in 0..(infile_cnt - 1) /\ yyin \in 0..(infile_cnt - 1)
      BY <1>1, <2>1 DEF IInv, Types
    <3>2. yyin' = yyin /\ (currentFile' = 0 \/ currentFile' = currentFile)
      BY <1>2, <2>1
    <3>3. infile_cnt <= infile_cnt'
      BY <2>1, <3>1
    <3>4. 0 \in 0..(infile_cnt' - 1) /\ \A h \in 0..(infile_cnt - 1) : h \in 0..(infile_cnt' - 1)
      BY <3>1, <3>3, HandlesGrow
    <3>5. yyin' \in 0..(infile_cnt' - 1)
      BY <3>1, <3>2, <3>4
    <3>6. currentFile' \in 0..(infile_cnt' - 1)
      BY <3>1, <3>2, <3>4
    <3>7. QED
      BY <1>3, <3>5, <3>6
  <2>3. QED
    BY <1>1, <1>2, <2>1, <2>2, ZenonT(60) DEF IInv, Types, Pcs
<1>5. Start' = Start /\ Text' = Text /\ Elements' = Elements
  BY <1>2 DEF Start, Text, Elements
<1>6. Handles' /\ Disk' /\ Fresh'
  BY <1>1, <1>2, <1>5 DEF IInv, Handles, Disk, Fresh
<1>7. Ordered' /\ Covered'
  BY <1>1, <1>2 DEF IInv, Ordered, Covered
<1>8. Complete'
  BY <1>1, <1>2, <1>5, AllRead DEF IInv, Complete
<1>9. Understood' /\ CmdlineMeaning'
  BY <1>1, <1>2, LineKept DEF IInv
<1>10. QED
  BY <1>4, <1>6, <1>7, <1>8, <1>9 DEF IInv

-----------------------------------------------------------------------------
\* The parser.

LEMMA HandedOne ==
    ASSUME Types, Handles, Disk, pc = "parse", at' = at + 1,
           UNCHANGED <<given, infile, disk, yyin>>
    PROVE  Handed' = Handed \cup {<<yyin, at + 1>>}
<1>1. yyin \in Nat /\ at \in Nat
  BY DEF Types
<1>2. Read' = Read /\ yyin \in Read
  BY <1>1 DEF Read, Handles
<1>3. \A h \in Read : Units(h)' = Units(h)
  BY DEF Units
<1>4. 1..(at + 1) = (1..at) \cup {at + 1}
  BY <1>1
<1>5. {<<yyin, k>> : k \in 1..(at + 1)} = {<<yyin, k>> : k \in 1..at} \cup {<<yyin, at + 1>>}
  BY <1>4
<1>6. Handed' = UNION {{<<h, k>> : k \in 1..(IF h = yyin THEN at + 1 ELSE Units(h)')} : h \in Read}
  BY <1>2 DEF Handed
<1> DEFINE Old(h) == {<<h, k>> : k \in 1..(IF h = yyin THEN at ELSE Units(h))}
           New(h) == {<<h, k>> : k \in 1..(IF h = yyin THEN at + 1 ELSE Units(h)')}
<1>7. New(yyin) = Old(yyin) \cup {<<yyin, at + 1>>}
  BY <1>5
<1>8. \A h \in Read : h # yyin => New(h) = Old(h)
  BY <1>3
<1>9. Handed = UNION {Old(h) : h \in Read} /\ Handed' = UNION {New(h) : h \in Read}
  BY <1>6 DEF Handed
<1> HIDE DEF Old, New
<1>10. QED
  BY <1>2, <1>7, <1>8, <1>9

LEMMA DeclarationStep == IInv /\ Declaration => IInv'
<1>1. SUFFICES ASSUME IInv, Declaration PROVE IInv'
  OBVIOUS
<1> DEFINE d == <<yyin, at + 1>>
<1>2. /\ pc = "parse" /\ at < Len(Text) /\ at' = at + 1 /\ module' = Append(module, d)
      /\ UNCHANGED <<tool, argv, given, targv, fname, outfile, infile, infile_cnt,
                     currentFile, yyin, open, pc, disk, seen, status>>
  BY <1>1 DEF Declaration, fixed, cmdline, inputs
<1>3. /\ yyin \in Nat /\ at \in Nat /\ d \in Nat \X Nat
      /\ module \in Seq(Nat \X Nat) /\ Len(Text) \in Nat
  BY <1>1, <1>2, TextTyped DEF IInv, Types
<1>4. /\ Len(module') = Len(module) + 1 /\ Len(module) \in Nat
      /\ module'[Len(module) + 1] = d
      /\ \A i \in 1..Len(module) : module'[i] = module[i] /\ module[i] \in Nat \X Nat
      /\ module' \in Seq(Nat \X Nat)
  BY <1>2, <1>3
<1>5. Types'
  BY <1>1, <1>2, <1>3, <1>4 DEF IInv, Types
<1>6. Start' = Start /\ Text' = Text
  BY <1>2 DEF Start, Text
<1>7. Handles' /\ Disk' /\ Fresh' /\ Complete'
  BY <1>1, <1>2, <1>3, <1>6 DEF IInv, Handles, Disk, Fresh, Complete
<1>8. Ordered'
  <2>1. d[1] = yyin /\ d[2] = at + 1
    OBVIOUS
  <2>2. \A i \in 1..Len(module) :
           module[i][1] < yyin \/ (module[i][1] = yyin /\ module[i][2] <= at)
    BY <1>1, <1>2 DEF IInv, Ordered
  <2>a. \A i \in 1..Len(module) : module[i][1] \in Nat /\ module[i][2] \in Nat
    BY <1>4
  <2>3. \A i \in 1..Len(module) : Before(module[i], d)
    <3>1. \A k \in Nat : k <= at => k < at + 1
      BY <1>3
    <3>2. QED
      BY <2>1, <2>2, <2>a, <3>1 DEF Before
  <2>4. \A i, j \in 1..Len(module) : i < j => Before(module[i], module[j])
    BY <1>1 DEF IInv, Ordered
  <2>5. \A i \in 1..Len(module') : i \in 1..Len(module) \/ i = Len(module) + 1
    BY <1>4
  <2>6. ASSUME NEW i \in 1..Len(module'), NEW j \in 1..Len(module'), i < j
        PROVE  Before(module'[i], module'[j])
    <3>1. i \in 1..Len(module)
      BY <1>4, <2>6
    <3>2. QED
      BY <1>4, <2>3, <2>4, <2>5, <2>6, <3>1
  <2>7. ASSUME NEW i \in 1..Len(module')
        PROVE  module'[i][1] < yyin \/ (module'[i][1] = yyin /\ module'[i][2] <= at + 1)
    <3>1. CASE i = Len(module) + 1
      BY <1>3, <1>4, <2>1, <3>1
    <3>2. CASE i \in 1..Len(module)
      <4>1. \A k \in Nat : k <= at => k <= at + 1
        BY <1>3
      <4>2. QED
        BY <1>4, <2>2, <2>a, <3>2, <4>1
    <3>3. QED
      BY <2>5, <3>1, <3>2
  <2>8. QED
    BY <1>2, <2>6, <2>7 DEF Ordered
<1>9. Covered'
  <2>1. Elements' = Elements \cup {d}
    <3>1. 1..Len(module') = (1..Len(module)) \cup {Len(module) + 1}
      BY <1>4
    <3>2. Elements' = {module'[i] : i \in 1..Len(module)} \cup {module'[Len(module) + 1]}
      BY <3>1 DEF Elements
    <3>3. {module'[i] : i \in 1..Len(module)} = Elements
      BY <1>4 DEF Elements
    <3>4. QED
      BY <1>4, <3>2, <3>3
  <2>2. QED
    BY <1>1, <1>2, <2>1, HandedOne DEF IInv, Covered
<1>10. Understood' /\ CmdlineMeaning'
  BY <1>1, <1>2, LineKept DEF IInv
<1>11. QED
  BY <1>5, <1>7, <1>8, <1>9, <1>10 DEF IInv

\* What goes wrong keeps the module as it is, and is in seen.
LEMMA ErrorStep ==
    ASSUME IInv, SyntaxError \/ LexicalError \/ EmptyInput \/ WriteFails
    PROVE  IInv'
<1>1. /\ UNCHANGED <<tool, argv, given, targv, fname, outfile, infile, infile_cnt,
                     currentFile, yyin, open, disk, at, module>>
      /\ pc \in {"parse", "empty", "write"} /\ pc' \in {"write", "done"}
      /\ pc' = "done" => tool = "p2" \/ "lexical" \in seen'
      /\ seen' # {} /\ seen' \subseteq {"missing", "syntax", "lexical", "write"}
      /\ status' \in {0, 1, 255}
  BY ZenonT(60) DEF IInv, Types, SyntaxError, LexicalError, EmptyInput, WriteFails, fixed, cmdline, inputs
<1>2. Types'
  BY <1>1 DEF IInv, Types, Pcs
<1>3. Start' = Start /\ (tool = "p2" => Start = given.file)
  BY <1>1 DEF Start
<1>4. Handles' /\ Fresh' /\ Ordered' /\ Covered' /\ Complete'
  <2>1. pc' \notin {"cmdline", "start", "parse", "empty"}
    BY <1>1
  <2>2. Ordered'
    BY <1>1, <2>1 DEF IInv, Ordered
  <2>3. QED
    BY <1>1, <2>1, <2>2 DEF Handles, Fresh, Covered, Complete
<1>5. Disk'
  BY <1>1, <1>3 DEF IInv, Disk
<1>6. Understood' /\ CmdlineMeaning'
  BY <1>1, LineKept DEF IInv
<1>7. QED
  BY <1>2, <1>4, <1>5, <1>6 DEF IInv

LEMMA WriteStep == IInv /\ Write => IInv'
<1>1. SUFFICES ASSUME IInv, Write PROVE IInv'
  OBVIOUS
<1>2. /\ pc = "write" /\ pc' = "done" /\ disk' = [disk EXCEPT ![outfile] = Bitcode]
      /\ UNCHANGED <<tool, argv, given, targv, fname, outfile, infile, infile_cnt,
                     currentFile, yyin, open, at, module, seen, status>>
  BY <1>1 DEF Write, Kept, fixed, cmdline, inputs
<1>3. outfile \in Names /\ disk = Start /\ disk \in [Names -> Contents \cup {Missing, Bitcode}]
  BY <1>1, <1>2 DEF IInv, Disk, Types
<1>4. /\ disk' \in [Names -> Contents \cup {Missing, Bitcode}]
      /\ disk'[outfile] = Bitcode
  BY <1>2, <1>3
<1>5. Types'
  BY <1>1, <1>2, <1>4 DEF IInv, Types, Pcs
<1>6. Start' = Start /\ Elements' = Elements
  BY <1>2 DEF Start, Elements
<1>7. Handles' /\ Fresh' /\ Ordered' /\ Covered' /\ Disk'
  BY <1>1, <1>2, <1>3, <1>6 DEF IInv, Handles, Fresh, Ordered, Covered, Disk
<1>8. Complete'
  BY <1>1, <1>2, <1>4, <1>6 DEF IInv, Complete
<1>9. Understood' /\ CmdlineMeaning'
  BY <1>1, <1>2, LineKept DEF IInv
<1>10. QED
  BY <1>5, <1>7, <1>8, <1>9 DEF IInv

LEMMA StutterStep == IInv /\ UNCHANGED vars => IInv'
<1>1. SUFFICES ASSUME IInv, UNCHANGED vars PROVE IInv'
  OBVIOUS
<1>2. UNCHANGED <<tool, argv, given, targv, fname, outfile, infile, infile_cnt,
                  currentFile, yyin, open, pc, disk, at, module, seen, status>>
  BY <1>1 DEF vars, fixed, cmdline, inputs
<1>3. Types' /\ Fresh' /\ Handles' /\ Disk'
  BY <1>1, <1>2 DEF IInv, Types, Fresh, Handles, Disk, Start, Text
<1>4. Ordered' /\ Covered' /\ Complete'
  <2>1. Start' = Start /\ Elements' = Elements /\ Read' = Read
    BY <1>2 DEF Start, Elements, Read
  <2>2. \A h \in Read : Units(h)' = Units(h)
    BY <1>2 DEF Units
  <2>3. Handed' = Handed
    BY <1>2, <2>1, <2>2 DEF Handed
  <2>4. Ordered'
    BY <1>1, <1>2 DEF IInv, Ordered
  <2>5. Covered'
    BY <1>1, <1>2, <2>1, <2>3 DEF IInv, Covered
  <2>6. Complete'
    BY <1>1, <1>2, <2>1 DEF IInv, Complete
  <2>7. QED
    BY <2>4, <2>5, <2>6
<1>5. Understood' /\ CmdlineMeaning'
  <2>1. Taken' = Taken
    BY <1>2 DEF Taken
  <2>2. Inputs' = Inputs
    BY <1>2, <2>1 DEF Inputs
  <2>3. /\ InputsBefore(targv)' = InputsBefore(targv)
        /\ TakenBefore(targv)' = TakenBefore(targv)
        /\ Pending(targv)' <=> Pending(targv)
    BY <1>2, <2>1, <2>2 DEF InputsBefore, TakenBefore, Pending
  <2>4. QED
    BY <1>1, <1>2, <2>1, <2>2, <2>3 DEF IInv, Understood, Meant, CmdlineMeaning
<1>6. QED
  BY <1>3, <1>4, <1>5 DEF IInv

LEMMA Invariance == Spec => []IInv
<1>1. IInv /\ [Next]_vars => IInv'
  BY CmdlexStep, NoInputStep, PrepareStep, FirstFileStep, NextFileStep, LastFileStep,
     DeclarationStep, ErrorStep, WriteStep, StutterStep DEF Next
<1>2. QED
  BY InitIInv, <1>1, PTL DEF Spec

-----------------------------------------------------------------------------
\* The theorems.

\* Every variable keeps its type; yywrap never counts past the last input, and
\* the scanner never past the end of what it reads.
THEOREM TypeThm == Spec => []TypeOK
<1>1. IInv => TypeOK
  <2>1. SUFFICES ASSUME IInv PROVE TypeOK
    OBVIOUS
  <2>2. pc \in {"parse", "empty"} => at \in 0..Len(Text)
    BY <2>1 DEF IInv, Types, Handles
  <2>3. QED
    BY <2>1, <2>2 DEF IInv, Types, TypeOK
<1>2. QED
  BY <1>1, Invariance, PTL

\* The last name behind an -o is the output, the other names are the inputs.
THEOREM MeaningThm == Spec => []CmdlineMeaning
<1>1. IInv => CmdlineMeaning
  BY DEF IInv
<1>2. QED
  BY <1>1, Invariance, PTL

\* Only the file that is read is open, and what is read is stdin or open.
THEOREM HandledThm == Spec => []FilesHandled
<1>1. IInv => FilesHandled
  BY DEF IInv, Fresh, Handles, FilesHandled
<1>2. QED
  BY <1>1, Invariance, PTL

\* Types and handles together, as the runs check them.
THEOREM HandlesThm == Spec => []HandlesSound
  BY TypeThm, HandledThm, PTL DEF HandlesSound

\* Declarations reach the module in order, each once and none left out.
THEOREM OrderThm == Spec => []ReadInOrder
<1>1. IInv => ReadInOrder
  BY DEF IInv, Ordered, Covered, Elements, Handed, ReadInOrder
<1>2. QED
  BY <1>1, Invariance, PTL

\* A run without an error writes all declarations of all inputs.
THEOREM CleanThm == Spec => []CleanCompile
<1>1. IInv => CleanCompile
  <2>1. SUFFICES ASSUME IInv, pc = "done", status = 0, seen = {},
                        tool = "p2" \/ \A i \in 1..Len(infile) : infile[i] # outfile
                 PROVE  /\ disk[outfile] = Bitcode
                        /\ Elements = UNION {{<<h, k>> : k \in 1..Size(given.file[infile[h]])} :
                                                h \in 1..Len(infile)}
    BY DEF CleanCompile, Elements
  <2>2. \A h \in 1..Len(infile) : Start[infile[h]] = given.file[infile[h]]
    <3>1. \A h \in 1..Len(infile) : infile[h] \in Names
      BY <2>1 DEF IInv, Types
    <3>2. CASE tool = "p2cpp"
      BY <2>1, <3>1, <3>2 DEF Start, IInv, Types
    <3>3. CASE tool # "p2cpp"
      BY <3>3 DEF Start
    <3>4. QED
      BY <3>2, <3>3
  <2>3. QED
    BY <2>1, <2>2 DEF IInv, Complete
<1>2. QED
  BY <1>1, Invariance, PTL

\* At the end no file but the output has changed, and the output only to be
\* whole, or empty where lexical_error left p2cpp through exit.
THEOREM WholeThm == Spec => []OutputWhole
<1>1. IInv => OutputWhole
  <2>1. SUFFICES ASSUME IInv, pc = "done", NEW f \in Names, disk[f] # given.file[f]
                 PROVE  /\ f = outfile
                        /\ \/ disk[f] = Bitcode
                           \/ tool = "p2cpp" /\ disk[f] = << >> /\ "lexical" \in seen
    BY DEF OutputWhole
  <2>2. outfile \in Names /\ f = outfile
    BY <2>1, StartTyped DEF IInv, Disk
  <2>3. Start \in [Names -> Contents \cup {Missing}] /\ tool \in {"p2", "p2cpp"}
    BY <2>1, <2>2, StartTyped DEF IInv, Types, Tools
  <2>4. QED
    BY <2>1, <2>2, <2>3, StartTyped DEF IInv, Disk
<1>2. QED
  BY <1>1, Invariance, PTL

\* A clean run has written everything, and no run has touched another file.
THEOREM FilesThm == Spec => []FilesWhole
<1>1. CleanCompile /\ OutputWhole => FilesWhole
  BY DEF FilesWhole
<1>2. QED
  BY <1>1, CleanThm, WholeThm, PTL

-----------------------------------------------------------------------------
\* Numbers, and functions that are defined by what they are further on.

Below == {p \in Nat \X Nat : p[1] < p[2]}

LEMMA Smallest ==
    ASSUME NEW T \in SUBSET Nat, T # {}
    PROVE  \E x \in T : \A y \in T : x <= y
<1>1. IsWellFoundedOn(Below, Nat)
  BY NatLessThanWellFounded, Zenon DEF OpToRel, Below
<1>2. PICK x \in T : \A y \in T : <<y, x>> \notin Below
  BY <1>1, WFMin, Zenon
<1>3. \A i, j \in Nat : <<i, j>> \in Below <=> i < j
  BY DEF Below
<1>4. ASSUME NEW y \in T PROVE x <= y
  <2>1. x \in Nat /\ y \in Nat
    OBVIOUS
  <2>2. ~(y < x)
    BY <1>2, <1>3, <2>1
  <2>3. QED
    BY <2>1, <2>2
<1>5. QED
  BY <1>4

LEMMA UpFrom0 ==
    ASSUME NEW S, 0 \in S, \A k \in Nat : k \in S => k + 1 \in S
    PROVE  Nat \subseteq S
<1> DEFINE T == Nat \ S
<1>1. SUFFICES ASSUME T # {} PROVE FALSE
  OBVIOUS
<1>2. PICK x \in T : \A y \in T : x <= y
  BY <1>1, Smallest
<1>3. x \in Nat /\ x # 0
  OBVIOUS
<1>4. x - 1 \in Nat /\ x - 1 \notin T
  BY <1>2, <1>3
<1>5. (x - 1) + 1 \in S
  BY <1>4
<1>6. QED
  BY <1>3, <1>5

Places == Nat \ {0}

\* What is there up to n is a[p] and what there is from a later place on.
Further(f, n, a, later) ==
    f = [p \in Places |-> IF p > n THEN {} ELSE a[p] \cup f[later[p]]]

LEMMA FurtherExists ==
    ASSUME NEW n \in Nat, NEW a \in [Places -> SUBSET Nat], NEW later \in [Places -> Places],
           \A p \in Places : later[p] > p
    PROVE  \E f \in [Places -> SUBSET Nat] : Further(f, n, a, later)
<1> DEFINE At(f, p) == f[p] = IF p > n THEN {} ELSE a[p] \cup f[later[p]]
           S == {m \in Nat : \E f \in [Places -> SUBSET Nat] :
                                \A p \in Places : p > n - m => At(f, p)}
<1>1. 0 \in S
  <2>1. [p \in Places |-> {}] \in [Places -> SUBSET Nat]
    OBVIOUS
  <2>2. \A p \in Places : p > n - 0 => At([q \in Places |-> {}], p)
    BY DEF Places
  <2>3. QED
    BY <2>1, <2>2
<1>2. ASSUME NEW m \in Nat, m \in S PROVE m + 1 \in S
  <2>1. PICK f \in [Places -> SUBSET Nat] : \A p \in Places : p > n - m => At(f, p)
    BY <1>2
  <2> DEFINE v == a[n - m] \cup f[later[n - m]]
             e == [p \in Places |-> IF p = n - m THEN v ELSE f[p]]
  <2>2. n - m \in Places => v \in SUBSET Nat
    BY <2>1
  <2>3. e \in [Places -> SUBSET Nat]
    BY <2>1, <2>2
  <2>4. ASSUME NEW p \in Places, p > n - (m + 1) PROVE At(e, p)
    <3>1. p \in Nat /\ later[p] \in Places /\ later[p] \in Nat /\ later[p] > p
      BY DEF Places
    <3>2. later[p] # n - m /\ e[later[p]] = f[later[p]]
      BY <2>4, <3>1
    <3>3. CASE p = n - m
      <4>1. e[p] = a[p] \cup f[later[p]] /\ ~(p > n)
        BY <3>1, <3>3
      <4>2. QED
        BY <3>2, <4>1
    <3>4. CASE p # n - m
      <4>1. p > n - m /\ e[p] = f[p]
        BY <2>4, <3>1, <3>4
      <4>2. QED
        BY <2>1, <3>2, <4>1
    <3>5. QED
      BY <3>3, <3>4
  <2> HIDE DEF e, At
  <2>5. QED
    BY <2>3, <2>4
<1>3. n \in S
  BY <1>1, <1>2, UpFrom0
<1>4. PICK f \in [Places -> SUBSET Nat] : \A p \in Places : p > n - n => At(f, p)
  BY <1>3
<1>5. \A p \in Places : At(f, p)
  BY <1>4 DEF Places
<1>6. f = [p \in Places |-> IF p > n THEN {} ELSE a[p] \cup f[later[p]]]
  BY <1>4, <1>5
<1>7. QED
  BY <1>4, <1>6 DEF Further

LEMMA FurtherIs ==
    ASSUME NEW n \in Nat, NEW a \in [Places -> SUBSET Nat], NEW later \in [Places -> Places],
           \A p \in Places : later[p] > p /\ a[p] \subseteq p..n,
           NEW f, Further(f, n, a, later)
    PROVE  \A p \in Places : f[p] \subseteq p..n
<1> DEFINE S == {m \in Nat : \A p \in Places : p > n - m => f[p] \subseteq p..n}
<1>1. \A p \in Places : f[p] = IF p > n THEN {} ELSE a[p] \cup f[later[p]]
  BY DEF Further
<1>2. 0 \in S
  <2>1. \A p \in Places : p > n - 0 => p > n
    BY DEF Places
  <2>2. \A p \in Places : p > n => f[p] = {}
    BY <1>1, Zenon
  <2>3. QED
    BY <2>1, <2>2
<1>3. ASSUME NEW m \in Nat, m \in S PROVE m + 1 \in S
  <2>1. ASSUME NEW p \in Places, p > n - (m + 1) PROVE f[p] \subseteq p..n
    <3>1. p \in Nat /\ later[p] \in Places /\ later[p] \in Nat /\ later[p] > p
      BY DEF Places
    <3>2. later[p] > n - m
      BY <2>1, <3>1
    <3>3. f[later[p]] \subseteq later[p]..n
      BY <1>3, <3>1, <3>2
    <3>4. f[later[p]] \subseteq p..n
      BY <3>1, <3>3
    <3>5. QED
      BY <1>1, <3>4
  <2>2. QED
    BY <2>1
<1>4. n \in S
  BY <1>2, <1>3, UpFrom0
<1>5. QED
  BY <1>4 DEF Places

-----------------------------------------------------------------------------
\* Comments, in a text t whatever the scanner has read of it.

PairAt(t, c, d, i) == i < Len(t) /\ t[i] = c /\ t[i + 1] = d

PairIn(t, c, d, p) ==
    LET there == {i \in p..(Len(t) - 1) : t[i] = c /\ t[i + 1] = d} IN
        IF there = {} THEN Len(t) + 1 ELSE CHOOSE i \in there : \A j \in there : i <= j

CodeFrom(t) ==
    CHOOSE f : f = [p \in Nat \ {0} |->
        IF p > Len(t) THEN {}
        ELSE LET i == PairIn(t, "/", "*", p) IN
                p..(i - 1) \cup f[PairIn(t, "*", "/", i + 2) + 2]]

InCode(t) == CodeFrom(t)[1]

LEMMA CodeIs == L!Code = InCode(text)
  BY DEF L!Code, L!Pair, InCode, CodeFrom, PairIn

\* The first pair at p or behind it.
FirstPair(t, c, d, p, q) ==
    /\ q \in p..(Len(t) - 1) \cup {Len(t) + 1}
    /\ \A i \in p..(q - 1) : ~PairAt(t, c, d, i)
    /\ q # Len(t) + 1 => PairAt(t, c, d, q)

LEMMA PairIs ==
    ASSUME NEW X, NEW t \in Seq(X), NEW c, NEW d, NEW p \in Places
    PROVE  FirstPair(t, c, d, p, PairIn(t, c, d, p))
<1> DEFINE there == {i \in p..(Len(t) - 1) : t[i] = c /\ t[i + 1] = d}
           q == PairIn(t, c, d, p)
<1>1. Len(t) \in Nat /\ p \in Nat
  BY DEF Places
<1>2. \A i \in p..Len(t) : PairAt(t, c, d, i) <=> i \in there
  BY <1>1 DEF PairAt
<1>3. CASE there = {}
  <2>1. q = Len(t) + 1
    BY <1>3 DEF PairIn
  <2> HIDE DEF q, there
  <2>2. p..(q - 1) = p..Len(t)
    BY <1>1, <2>1
  <2>3. \A i \in p..(q - 1) : ~PairAt(t, c, d, i)
    BY <1>2, <1>3, <2>2
  <2>4. QED
    BY <2>1, <2>3 DEF FirstPair, q
<1>4. CASE there # {}
  <2>1. there \in SUBSET Nat
    BY <1>1
  <2>2. \E i \in there : \A j \in there : i <= j
    BY <1>4, <2>1, Smallest
  <2>3. q \in there /\ \A j \in there : q <= j
    BY <1>4, <2>2, Zenon DEF PairIn
  <2> HIDE DEF q
  <2>4. q \in p..(Len(t) - 1) /\ PairAt(t, c, d, q)
    BY <1>1, <2>3 DEF PairAt
  <2>5. ASSUME NEW i \in p..(q - 1) PROVE ~PairAt(t, c, d, i)
    <3>1. i \in p..Len(t) /\ ~(q <= i) /\ i \in Int
      BY <1>1, <2>4
    <3>2. QED
      BY <1>2, <2>3, <3>1
  <2>6. QED
    BY <2>4, <2>5 DEF FirstPair, q
<1>5. QED
  BY <1>3, <1>4

\* It is one only.
LEMMA FirstPairOne ==
    ASSUME NEW X, NEW t \in Seq(X), NEW c, NEW d, NEW p \in Places,
           NEW q, FirstPair(t, c, d, p, q), NEW r, FirstPair(t, c, d, p, r)
    PROVE  q = r
<1>2. q \in Nat /\ r \in Nat /\ Len(t) \in Nat /\ p \in Nat
  BY DEF FirstPair, Places
<1>3. ~(q < r)
  <2>1. SUFFICES ASSUME q < r PROVE FALSE
    OBVIOUS
  <2>2. q # Len(t) + 1 /\ q >= p
    BY <1>2, <2>1 DEF FirstPair
  <2>3. q \in p..(r - 1)
    BY <1>2, <2>1, <2>2
  <2>4. QED
    BY <2>2, <2>3 DEF FirstPair
<1>4. ~(r < q)
  <2>1. SUFFICES ASSUME r < q PROVE FALSE
    OBVIOUS
  <2>2. r # Len(t) + 1 /\ r >= p
    BY <1>2, <2>1 DEF FirstPair
  <2>3. r \in p..(q - 1)
    BY <1>2, <2>1, <2>2
  <2>4. QED
    BY <2>2, <2>3 DEF FirstPair
<1>5. QED
  BY <1>2, <1>3, <1>4

LEMMA PairSkips ==
    ASSUME NEW X, NEW t \in Seq(X), NEW c, NEW d, NEW p \in Places, NEW q \in Places,
           p <= q, q <= Len(t) + 1, \A i \in p..(q - 1) : ~PairAt(t, c, d, i)
    PROVE  PairIn(t, c, d, p) = PairIn(t, c, d, q)
<1> DEFINE r == PairIn(t, c, d, q)
<1>1. FirstPair(t, c, d, q, r)
  BY PairIs
<1> HIDE DEF r
<1>2. Len(t) \in Nat /\ p \in Nat /\ q \in Nat
  BY DEF Places
<1>3. r \in p..(Len(t) - 1) \cup {Len(t) + 1} /\ r \in Nat
  BY <1>1, <1>2 DEF FirstPair
<1>4. \A i \in p..(r - 1) : i \in p..(q - 1) \/ i \in q..(r - 1)
  BY <1>2, <1>3
<1>5. FirstPair(t, c, d, p, r)
  BY <1>1, <1>3, <1>4 DEF FirstPair
<1>6. FirstPair(t, c, d, p, PairIn(t, c, d, p))
  BY PairIs
<1>7. QED
  BY <1>5, <1>6, FirstPairOne DEF r

LEMMA CodeFromIs ==
    ASSUME NEW X, NEW t \in Seq(X), NEW p \in Places
    PROVE  /\ CodeFrom(t)[p] =
                IF p > Len(t) THEN {}
                ELSE LET i == PairIn(t, "/", "*", p) IN
                        p..(i - 1) \cup CodeFrom(t)[PairIn(t, "*", "/", i + 2) + 2]
           /\ CodeFrom(t)[p] \subseteq p..Len(t)
<1> DEFINE n == Len(t)
           close(i) == PairIn(t, "*", "/", i + 2) + 2
           open1(k) == PairIn(t, "/", "*", k)
           a == [k \in Places |-> IF k > n THEN {} ELSE k..(open1(k) - 1)]
           later == [k \in Places |-> IF k > n THEN k + 1 ELSE close(open1(k))]
           Def(f) == [k \in Places |-> IF k > n THEN {}
                                       ELSE k..(open1(k) - 1) \cup f[close(open1(k))]]
           F == CHOOSE f : f = Def(f)
<1>1. n \in Nat
  OBVIOUS
<1>2. ASSUME NEW k \in Places, ~(k > n)
      PROVE  /\ open1(k) \in k..(n + 1) /\ k..(open1(k) - 1) \subseteq k..n
             /\ close(open1(k)) \in Places /\ close(open1(k)) > k
  <2>1. k \in Nat /\ k # 0
    BY DEF Places
  <2>2. FirstPair(t, "/", "*", k, open1(k))
    BY PairIs
  <2>3. open1(k) \in k..(n + 1)
    BY <1>1, <1>2, <2>1, <2>2 DEF FirstPair
  <2>4. open1(k) + 2 \in Places
    BY <1>1, <2>1, <2>3 DEF Places
  <2>5. FirstPair(t, "*", "/", open1(k) + 2, PairIn(t, "*", "/", open1(k) + 2))
    BY <2>4, PairIs
  <2> DEFINE o == open1(k)
             e == PairIn(t, "*", "/", o + 2)
  <2>6. e \in (o + 2)..(n - 1) \cup {n + 1}
    BY <2>5 DEF FirstPair
  <2> HIDE DEF o, e
  <2>7. o \in k..(n + 1)
    BY <2>3 DEF o
  <2>8. e \in Nat /\ e >= k
    BY <1>1, <1>2, <2>1, <2>6, <2>7
  <2>9. e + 2 \in Places /\ e + 2 > k
    BY <2>1, <2>8 DEF Places
  <2>10. k..(o - 1) \subseteq k..n
    BY <1>1, <2>1, <2>7
  <2>11. QED
    BY <2>7, <2>9, <2>10 DEF o, e
<1> HIDE DEF open1, close
<1>3. a \in [Places -> SUBSET Nat] /\ \A k \in Places : a[k] \subseteq k..n
  <2>1. \A k \in Places : (IF k > n THEN {} ELSE k..(open1(k) - 1)) \subseteq k..n
    BY <1>2
  <2>2. \A k \in Places : k..n \subseteq Nat
    BY <1>1 DEF Places
  <2>3. QED
    BY <2>1, <2>2
<1>4. later \in [Places -> Places] /\ \A k \in Places : later[k] > k
  <2>1. \A k \in Places : k + 1 \in Places /\ k + 1 > k
    BY DEF Places
  <2>2. QED
    BY <1>2, <2>1
<1>5. \A f : Further(f, n, a, later) <=> f = Def(f)
  <2>1. ASSUME NEW f
        PROVE  [k \in Places |-> IF k > n THEN {} ELSE a[k] \cup f[later[k]]] = Def(f)
    OBVIOUS
  <2>2. QED
    BY <2>1 DEF Further
<1>6. PICK f \in [Places -> SUBSET Nat] : Further(f, n, a, later)
  BY <1>1, <1>3, <1>4, FurtherExists
<1> HIDE DEF a, later
<1>7. F = Def(F)
  <2>1. \E g : g = Def(g)
    BY <1>5, <1>6
  <2> HIDE DEF Def
  <2>2. QED
    BY <2>1
<1>8. CodeFrom(t) = F
  BY DEF CodeFrom, open1, close, Places
<1> HIDE DEF F
<1>9. F[p] = IF p > n THEN {} ELSE p..(open1(p) - 1) \cup F[close(open1(p))]
  BY <1>7
<1>10. F[p] \subseteq p..n
  <2>1. Further(F, n, a, later)
    BY <1>5, <1>7
  <2> HIDE DEF Def
  <2>2. \A k \in Places : F[k] \subseteq k..n
    BY <1>1, <1>3, <1>4, <2>1, FurtherIs
  <2>3. QED
    BY <2>2
<1>11. QED
  BY <1>8, <1>9, <1>10 DEF open1, close

\* What the code from p on is, if no comment begins before q.
LEMMA CodeSkips ==
    ASSUME NEW X, NEW t \in Seq(X), NEW p \in Places, NEW q \in Places,
           p <= q, q <= Len(t) + 1, \A i \in p..(q - 1) : ~PairAt(t, "/", "*", i)
    PROVE  CodeFrom(t)[p] = p..(q - 1) \cup CodeFrom(t)[q]
<1> DEFINE n == Len(t)
           o == PairIn(t, "/", "*", q)
           e == PairIn(t, "*", "/", o + 2) + 2
<1>1. n \in Nat /\ p \in Nat \ {0} /\ q \in Nat \ {0}
  BY DEF Places
<1>2. PairIn(t, "/", "*", p) = o
  BY PairSkips
<1>3. CodeFrom(t)[p] = IF p > n THEN {} ELSE p..(o - 1) \cup CodeFrom(t)[e]
  <2> DEFINE u == PairIn(t, "/", "*", p)
  <2>1. CodeFrom(t)[p] = IF p > n THEN {}
                         ELSE p..(u - 1) \cup CodeFrom(t)[PairIn(t, "*", "/", u + 2) + 2]
    BY CodeFromIs
  <2>2. u = o
    BY <1>2
  <2> HIDE DEF u, o
  <2>3. QED
    BY <2>1, <2>2
<1>4. CodeFrom(t)[q] = IF q > n THEN {} ELSE q..(o - 1) \cup CodeFrom(t)[e]
  BY CodeFromIs
<1>5. FirstPair(t, "/", "*", q, o)
  BY PairIs
<1> HIDE DEF n, o
<1>6. CASE p = q
  <2>1. p..(q - 1) = {}
    BY <1>1, <1>6
  <2>2. QED
    BY <1>6, <2>1
<1>7. CASE p < q /\ q <= n
  <2>1. o \in q..(n + 1)
    BY <1>1, <1>5, <1>7 DEF FirstPair, n
  <2>2. p..(o - 1) = p..(q - 1) \cup q..(o - 1)
    BY <1>1, <1>7, <2>1
  <2>3. ~(p > n) /\ ~(q > n)
    BY <1>1, <1>7
  <2> HIDE DEF e
  <2>4. QED
    BY <1>3, <1>4, <2>2, <2>3
<1>8. CASE p < q /\ q = n + 1
  <2>1. o = n + 1
    BY <1>1, <1>5, <1>8 DEF FirstPair, n
  <2>2. o + 2 \in Places
    BY <1>1, <2>1 DEF Places
  <2>3. FirstPair(t, "*", "/", o + 2, PairIn(t, "*", "/", o + 2))
    BY <2>2, PairIs
  <2>4. e = n + 3 /\ e \in Places /\ e > n
    <3> DEFINE u == PairIn(t, "*", "/", o + 2)
    <3>1. u \in (o + 2)..(n - 1) \cup {n + 1}
      BY <2>3 DEF FirstPair, n
    <3> HIDE DEF u
    <3>2. u = n + 1
      BY <1>1, <2>1, <3>1
    <3>3. QED
      BY <1>1, <3>2 DEF u, Places
  <2> HIDE DEF e
  <2>5. CodeFrom(t)[e] = {}
    BY <2>4, CodeFromIs DEF n
  <2>6. ~(p > n) /\ q > n /\ o - 1 = q - 1
    BY <1>1, <1>8, <2>1
  <2>7. QED
    BY <1>3, <1>4, <2>5, <2>6
<1>9. QED
  BY <1>1, <1>6, <1>7, <1>8 DEF n

LEMMA CodeOpens ==
    ASSUME NEW X, NEW t \in Seq(X), NEW p \in Places, PairAt(t, "/", "*", p)
    PROVE  CodeFrom(t)[p] = CodeFrom(t)[PairIn(t, "*", "/", p + 2) + 2]
<1>1. Len(t) \in Nat /\ p \in Nat \ {0} /\ p < Len(t)
  BY DEF Places, PairAt
<1>2. FirstPair(t, "/", "*", p, p)
  BY <1>1 DEF FirstPair
<1>3. FirstPair(t, "/", "*", p, PairIn(t, "/", "*", p))
  BY PairIs
<1>4. PairIn(t, "/", "*", p) = p
  BY <1>2, <1>3, FirstPairOne
<1>5. p..(p - 1) = {} /\ ~(p > Len(t))
  BY <1>1
<1> DEFINE u == PairIn(t, "/", "*", p)
<1>6. CodeFrom(t)[p] = IF p > Len(t) THEN {}
                       ELSE p..(u - 1) \cup CodeFrom(t)[PairIn(t, "*", "/", u + 2) + 2]
  BY CodeFromIs
<1>7. u = p
  BY <1>4
<1> HIDE DEF u
<1>8. QED
  BY <1>5, <1>6, <1>7

-----------------------------------------------------------------------------
\* The scanner at r, in a start condition s.

Left(t, s, r) ==
    IF s = "INITIAL" THEN CodeFrom(t)[r + 1]
    ELSE CodeFrom(t)[PairIn(t, "*", "/", r + 1) + 2]

\* What is not read of the code is what the start condition says.
Agrees(t, s, r) == InCode(t) \ (1..r) = Left(t, s, r)

LEMMA InCodeIs ==
    ASSUME NEW X, NEW t \in Seq(X)
    PROVE  InCode(t) \subseteq 1..Len(t) /\ Agrees(t, "INITIAL", 0)
<1>1. 1 \in Places /\ 0 + 1 = 1 /\ 1..0 = {}
  BY DEF Places
<1>2. QED
  BY <1>1, CodeFromIs DEF InCode, Agrees, Left

LEMMA OverCode ==
    ASSUME NEW X, NEW t \in Seq(X), NEW r \in Nat, NEW k \in Nat, r <= k, k <= Len(t),
           Agrees(t, "INITIAL", r), \A i \in (r + 1)..k : ~PairAt(t, "/", "*", i)
    PROVE  Agrees(t, "INITIAL", k) /\ (r + 1)..k \subseteq InCode(t)
<1>1. r + 1 \in Places /\ k + 1 \in Places /\ (k + 1) - 1 = k
      /\ r + 1 <= k + 1 /\ k + 1 <= Len(t) + 1
  BY DEF Places
<1>2. CodeFrom(t)[r + 1] = (r + 1)..k \cup CodeFrom(t)[k + 1]
  <2>1. \A i \in (r + 1)..((k + 1) - 1) : ~PairAt(t, "/", "*", i)
    BY <1>1
  <2>2. CodeFrom(t)[r + 1] = (r + 1)..((k + 1) - 1) \cup CodeFrom(t)[k + 1]
    BY <1>1, <2>1, CodeSkips
  <2>3. QED
    BY <1>1, <2>2
<1>3. CodeFrom(t)[k + 1] \subseteq (k + 1)..Len(t)
  BY <1>1, CodeFromIs
<1> DEFINE A == CodeFrom(t)[r + 1]
           B == CodeFrom(t)[k + 1]
<1>4. InCode(t) \ (1..r) = A
  BY DEF Agrees, Left
<1> HIDE DEF A, B
<1>5. InCode(t) \ (1..k) = B
  <2>1. (1..r) \subseteq 1..k /\ (1..k) \ (1..r) = (r + 1)..k /\ (1..k) \cap ((k + 1)..Len(t)) = {}
    OBVIOUS
  <2>2. A = (r + 1)..k \cup B /\ B \subseteq (k + 1)..Len(t)
    BY <1>2, <1>3 DEF A, B
  <2>3. QED
    BY <1>4, <2>1, <2>2, Zenon
<1>6. QED
  BY <1>2, <1>4, <1>5 DEF Agrees, Left, A, B

LEMMA OverComment ==
    ASSUME NEW X, NEW t \in Seq(X), NEW r \in Nat, NEW k \in Nat, r <= k, k <= Len(t),
           Agrees(t, "comment", r), \A i \in (r + 1)..k : ~PairAt(t, "*", "/", i)
    PROVE  Agrees(t, "comment", k) /\ (r + 1)..k \cap InCode(t) = {}
<1>1. r + 1 \in Places /\ k + 1 \in Places /\ (k + 1) - 1 = k
      /\ r + 1 <= k + 1 /\ k + 1 <= Len(t) + 1
  BY DEF Places
<1> DEFINE q == PairIn(t, "*", "/", k + 1)
           A == CodeFrom(t)[q + 2]
<1>2. PairIn(t, "*", "/", r + 1) = q
  BY <1>1, PairSkips
<1>3. InCode(t) \ (1..r) = A
  BY <1>2 DEF Agrees, Left
<1>4. FirstPair(t, "*", "/", k + 1, q)
  BY <1>1, PairIs
<1> HIDE DEF q
<1>5. q \in Nat /\ q >= k + 1 /\ q + 2 \in Places
  BY <1>4 DEF FirstPair, Places
<1>6. A \subseteq (q + 2)..Len(t)
  BY <1>5, CodeFromIs
<1> HIDE DEF A
<1>7. (1..r) \subseteq 1..k /\ (1..k) \ (1..r) = (r + 1)..k /\ (1..k) \cap ((q + 2)..Len(t)) = {}
  BY <1>5
<1>8. InCode(t) \ (1..k) = A /\ (r + 1)..k \cap InCode(t) = {}
  BY <1>3, <1>6, <1>7, Zenon
<1>9. QED
  BY <1>8 DEF Agrees, Left, A, q

LEMMA Opening ==
    ASSUME NEW X, NEW t \in Seq(X), NEW r \in Nat,
           Agrees(t, "INITIAL", r), PairAt(t, "/", "*", r + 1)
    PROVE  Agrees(t, "comment", r + 2) /\ (r + 1)..(r + 2) \cap InCode(t) = {}
<1>1. r + 1 \in Places /\ (r + 1) + 2 = (r + 2) + 1 /\ (r + 2) + 1 \in Places /\ r + 1 < Len(t)
  BY DEF Places, PairAt
<1> DEFINE q == PairIn(t, "*", "/", (r + 2) + 1)
           A == CodeFrom(t)[q + 2]
<1>2. CodeFrom(t)[r + 1] = A
  BY <1>1, CodeOpens
<1>3. InCode(t) \ (1..r) = A
  BY <1>2 DEF Agrees, Left
<1>4. FirstPair(t, "*", "/", (r + 2) + 1, q)
  BY <1>1, PairIs
<1> HIDE DEF q
<1>5. q \in Nat /\ q >= r + 2 /\ q + 2 \in Places
  BY <1>1, <1>4 DEF FirstPair, Places
<1>6. A \subseteq (q + 2)..Len(t)
  BY <1>5, CodeFromIs
<1> HIDE DEF A
<1>7. /\ (1..r) \subseteq 1..(r + 2) /\ (1..(r + 2)) \ (1..r) = (r + 1)..(r + 2)
      /\ (1..(r + 2)) \cap ((q + 2)..Len(t)) = {}
  BY <1>5
<1>8. InCode(t) \ (1..(r + 2)) = A /\ (r + 1)..(r + 2) \cap InCode(t) = {}
  BY <1>3, <1>6, <1>7, Zenon
<1>9. QED
  BY <1>8 DEF Agrees, Left, A, q

LEMMA Closing ==
    ASSUME NEW X, NEW t \in Seq(X), NEW r \in Nat, NEW q \in Nat, r < q,
           Agrees(t, "comment", r), PairAt(t, "*", "/", q),
           \A i \in (r + 1)..(q - 1) : ~PairAt(t, "*", "/", i)
    PROVE  Agrees(t, "INITIAL", q + 1) /\ (r + 1)..(q + 1) \cap InCode(t) = {}
<1>1. r + 1 \in Places /\ q + 2 \in Places /\ (q + 1) + 1 = q + 2 /\ q < Len(t) /\ Len(t) \in Nat
  BY DEF Places, PairAt
<1>2. FirstPair(t, "*", "/", r + 1, q)
  BY <1>1 DEF FirstPair
<1>3. FirstPair(t, "*", "/", r + 1, PairIn(t, "*", "/", r + 1))
  BY <1>1, PairIs
<1>4. PairIn(t, "*", "/", r + 1) = q
  BY <1>1, <1>2, <1>3, FirstPairOne
<1> DEFINE A == CodeFrom(t)[q + 2]
<1>5. InCode(t) \ (1..r) = A
  BY <1>4 DEF Agrees, Left
<1>6. A \subseteq (q + 2)..Len(t)
  BY <1>1, CodeFromIs
<1> HIDE DEF A
<1>7. /\ (1..r) \subseteq 1..(q + 1) /\ (1..(q + 1)) \ (1..r) = (r + 1)..(q + 1)
      /\ (1..(q + 1)) \cap ((q + 2)..Len(t)) = {}
  OBVIOUS
<1>8. InCode(t) \ (1..(q + 1)) = A /\ (r + 1)..(q + 1) \cap InCode(t) = {}
  BY <1>5, <1>6, <1>7, Zenon
<1>9. QED
  BY <1>1, <1>8 DEF Agrees, Left, A

-----------------------------------------------------------------------------
\* Tokens and lines, counted.

LEMMA LexCards == ASSUME NEW S PROVE L!Cardinality(S) = Cardinality(S)
  BY DEF L!Cardinality, Cardinality

LEMMA UpToFinite ==
    ASSUME NEW S, NEW m \in Nat
    PROVE  IsFiniteSet(S \cap 1..m) /\ Cardinality(S \cap 1..m) \in 0..m
<1>1. IsFiniteSet(1..m) /\ Cardinality(1..m) = m
  <2>1. m = 0 => 1..m = {}
    OBVIOUS
  <2>2. m # 0 => m \in Nat /\ 1 <= m
    OBVIOUS
  <2>3. QED
    BY FS_Interval
<1>2. QED
  BY <1>1, FS_Subset, FS_CardinalityType

LEMMA OneMore ==
    ASSUME NEW S, NEW m \in Nat, NEW k \in Nat, m < k,
           S \cap 1..k = (S \cap 1..m) \cup {m + 1}
    PROVE  /\ Cardinality(S \cap 1..k) = Cardinality(S \cap 1..m) + 1
           /\ S \cap 1..(m + 1) = S \cap 1..k
<1>1. m + 1 \notin S \cap 1..m
  OBVIOUS
<1>2. S \cap 1..(m + 1) = S \cap 1..k
  <2>1. 1..(m + 1) = 1..m \cup {m + 1} /\ 1..(m + 1) \subseteq 1..k
    OBVIOUS
  <2>2. QED
    BY <2>1
<1>3. QED
  BY <1>1, <1>2, UpToFinite, FS_AddElement

\* The i-th token of s is the i-th of those that begin at T, up to m.
Tally(t, T, m, s) ==
    /\ Len(s) = Cardinality(T \cap 1..m)
    /\ \A i \in T \cap 1..m : s[Cardinality(T \cap 1..i)] = L!Named(t[i])

LEMMA TallyAdds ==
    ASSUME NEW X, NEW t, NEW T, NEW s \in Seq(X), NEW m \in Nat, NEW k \in Nat, m < k,
           T \cap 1..k = (T \cap 1..m) \cup {m + 1}, Tally(t, T, m, s), L!Named(t[m + 1]) \in X
    PROVE  Tally(t, T, k, Append(s, L!Named(t[m + 1])))
<1> DEFINE v == L!Named(t[m + 1])
           d == Append(s, v)
<1>1. Len(s) \in Nat /\ Len(d) = Len(s) + 1 /\ d[Len(s) + 1] = v
      /\ \A j \in 1..Len(s) : d[j] = s[j]
  OBVIOUS
<1>2. Len(s) = Cardinality(T \cap 1..m)
  BY DEF Tally
<1> HIDE DEF v, d
<1>3. Cardinality(T \cap 1..k) = Len(d) /\ Cardinality(T \cap 1..(m + 1)) = Len(s) + 1
  <2>1. Cardinality(T \cap 1..k) = Cardinality(T \cap 1..m) + 1 /\ T \cap 1..(m + 1) = T \cap 1..k
    BY OneMore
  <2>2. QED
    BY <1>1, <1>2, <2>1
<1>4. ASSUME NEW i \in T \cap 1..m
      PROVE  Cardinality(T \cap 1..i) \in 1..Len(s)
  <2>1. i \in Nat /\ i <= m /\ i \in T \cap 1..i /\ T \cap 1..i \subseteq T \cap 1..m
    OBVIOUS
  <2>2. IsFiniteSet(T \cap 1..i) /\ IsFiniteSet(T \cap 1..m)
    BY <2>1, UpToFinite
  <2>3. Cardinality(T \cap 1..i) \in Nat /\ Cardinality(T \cap 1..i) <= Cardinality(T \cap 1..m)
    BY <2>1, <2>2, FS_Subset, FS_CardinalityType
  <2>4. Cardinality(T \cap 1..i) # 0
    BY <2>1, <2>2, FS_EmptySet
  <2>5. QED
    BY <1>1, <1>2, <2>3, <2>4
<1>5. ASSUME NEW i \in T \cap 1..k PROVE d[Cardinality(T \cap 1..i)] = L!Named(t[i])
  <2>1. CASE i = m + 1
    BY <1>1, <1>3, <2>1 DEF v
  <2>2. CASE i \in T \cap 1..m
    <3>1. s[Cardinality(T \cap 1..i)] = L!Named(t[i])
      BY <2>2 DEF Tally
    <3>2. QED
      BY <1>1, <1>4, <2>2, <3>1
  <2>3. QED
    BY <2>1, <2>2
<1>6. QED
  BY <1>3, <1>5 DEF Tally, d, v

LEMMA TallyKeeps ==
    ASSUME NEW t, NEW T, NEW s, NEW m, NEW k, T \cap 1..k = T \cap 1..m, Tally(t, T, m, s)
    PROVE  Tally(t, T, k, s)
  BY Zenon DEF Tally

\* Where a token begins in code without an error.
Starting(t) ==
    {i \in InCode(t) : \/ t[i] \in {"*", "/"}
                       \/ t[i] = "a" /\ ~(i - 1 \in InCode(t) /\ t[i - 1] = "a")}

Lines(t) == {i \in DOMAIN t : t[i] = L!LF \/ (t[i] = L!CR /\ i \in InCode(t))}

LexTypes ==
    /\ text \in Seq(L!Chars \cup {L!EOF}) /\ Len(text) <= MaxText
    /\ read \in 0..Len(text)
    /\ start \in {"INITIAL", "comment"}
    /\ tokens \in Seq({"ID", "STAR", "DIV"})
    /\ lex \in {"scan", "end", "exited"}

\* No name is cut in two.
Whole(t, s, r) ==
    s = "INITIAL" /\ r \in InCode(t) /\ t[r] = "a" /\ r < Len(t) => t[r + 1] # "a"

LexInv ==
    /\ LexTypes
    /\ Agrees(text, start, read)
    /\ Tally(text, Starting(text), read, tokens)
    /\ \A i \in InCode(text) \cap 1..read : text[i] # "#"
    /\ Whole(text, start, read)
    /\ line_num = 1 + Cardinality(Lines(text) \cap 1..read)
    /\ lex = "end" => read = Len(text)
    /\ lex = "exited" => start = "INITIAL" /\ read < Len(text) /\ text[read + 1] = "#"

LEMMA RunIs ==
    ASSUME LexTypes, NEW n \in Nat, read + n <= Len(text), NEW S
    PROVE  /\ L!Run(n, S) \in 0..(Len(text) - read - n)
           /\ \A i \in 1..L!Run(n, S) : text[read + n + i] \in S
           /\ read + n + L!Run(n, S) < Len(text) => text[read + n + L!Run(n, S) + 1] \notin S
<1> DEFINE m == Len(text) - read - n
           V == {i \in 0..m : read + n + i < Len(text) => text[read + n + i + 1] \notin S}
           Is(k) == /\ \A i \in 1..k : text[read + n + i] \in S
                    /\ read + n + k < Len(text) => text[read + n + k + 1] \notin S
<1>1. m \in Nat /\ read \in Nat /\ Len(text) \in Nat /\ read + n + m = Len(text)
  BY DEF LexTypes
<1>2. m \in V
  BY <1>1
<1>3. PICK k \in V : \A i \in V : k <= i
  <2>1. V \in SUBSET Nat /\ V # {}
    BY <1>2
  <2>2. QED
    BY <2>1, Smallest
<1>4. ASSUME NEW i \in 1..k PROVE text[read + n + i] \in S
  <2>1. i - 1 \in 0..m /\ ~(k <= i - 1) /\ read + n + (i - 1) + 1 = read + n + i
    BY <1>1, <1>3
  <2>2. i - 1 \notin V
    BY <1>3, <2>1
  <2>3. QED
    BY <2>1, <2>2
<1>5. k \in 0..m /\ Is(k)
  BY <1>3, <1>4
<1>6. L!Run(n, S) = CHOOSE j \in 0..m : Is(j)
  BY DEF L!Run
<1> HIDE DEF m, Is
<1>7. L!Run(n, S) \in 0..m /\ Is(L!Run(n, S))
  BY <1>5, <1>6
<1>8. QED
  BY <1>7 DEF m, Is

\* What a step of the scanner that goes on has to do.
LEMMA ReadOn ==
    ASSUME LexInv, lex = "scan",
           NEW k \in Nat, read < k, k <= Len(text),
           text' = text, read' = k, start' \in {"INITIAL", "comment"}, lex' = "scan",
           Agrees(text, start', k), Whole(text, start', k),
           \A i \in (read + 1)..k : i \in InCode(text) => text[i] # "#",
           \/ Starting(text) \cap (read + 1)..k = {} /\ tokens' = tokens
           \/ /\ Starting(text) \cap (read + 1)..k = {read + 1}
              /\ L!Named(text[read + 1]) \in {"ID", "STAR", "DIV"}
              /\ tokens' = Append(tokens, L!Named(text[read + 1])),
           \/ Lines(text) \cap (read + 1)..k = {} /\ line_num' = line_num
           \/ Lines(text) \cap (read + 1)..k = {read + 1} /\ line_num' = line_num + 1
    PROVE  LexInv'
<1>1. read \in Nat /\ read \in 0..Len(text) /\ Len(text) \in Nat
  BY DEF LexInv, LexTypes
<1>2. 1..k = 1..read \cup (read + 1)..k
  BY <1>1
<1>3. tokens \in Seq({"ID", "STAR", "DIV"}) /\ Tally(text, Starting(text), read, tokens)
  BY DEF LexInv, LexTypes
<1>4. Tally(text, Starting(text), k, tokens') /\ tokens' \in Seq({"ID", "STAR", "DIV"})
  <2>1. CASE Starting(text) \cap (read + 1)..k = {} /\ tokens' = tokens
    BY <1>2, <1>3, <2>1, TallyKeeps
  <2>2. CASE /\ Starting(text) \cap (read + 1)..k = {read + 1}
             /\ L!Named(text[read + 1]) \in {"ID", "STAR", "DIV"}
             /\ tokens' = Append(tokens, L!Named(text[read + 1]))
    <3>1. Starting(text) \cap 1..k = (Starting(text) \cap 1..read) \cup {read + 1}
      BY <1>2, <2>2
    <3>2. Tally(text, Starting(text), k, Append(tokens, L!Named(text[read + 1])))
      BY <1>1, <1>3, <2>2, <3>1, TallyAdds
    <3>3. QED
      BY <1>3, <2>2, <3>2
  <2>3. QED
    BY <2>1, <2>2
<1>5. line_num' = 1 + Cardinality(Lines(text) \cap 1..k)
  <2>1. line_num = 1 + Cardinality(Lines(text) \cap 1..read)
    BY DEF LexInv
  <2>2. CASE Lines(text) \cap (read + 1)..k = {} /\ line_num' = line_num
    <3>1. Lines(text) \cap 1..k = Lines(text) \cap 1..read
      BY <1>2, <2>2
    <3>2. QED
      BY <2>1, <2>2, <3>1
  <2>3. CASE Lines(text) \cap (read + 1)..k = {read + 1} /\ line_num' = line_num + 1
    <3>1. Lines(text) \cap 1..k = (Lines(text) \cap 1..read) \cup {read + 1}
      BY <1>2, <2>3
    <3>2. Cardinality(Lines(text) \cap 1..k) = Cardinality(Lines(text) \cap 1..read) + 1
      BY <1>1, <3>1, OneMore
    <3>3. Cardinality(Lines(text) \cap 1..read) \in Nat
      BY <1>1, UpToFinite
    <3>4. QED
      BY <2>1, <2>3, <3>2, <3>3
  <2>4. QED
    BY <2>2, <2>3
<1>6. \A i \in InCode(text) \cap 1..k : text[i] # "#"
  BY <1>2 DEF LexInv
<1>7. LexTypes'
  BY <1>1, <1>4 DEF LexInv, LexTypes
<1>8. QED
  BY <1>4, <1>5, <1>6, <1>7 DEF LexInv

LEMMA LexDomains ==
    LexInv => /\ read \in Nat /\ Len(text) \in Nat /\ read <= Len(text)
              /\ text \in Seq(L!Chars \cup {L!EOF}) /\ DOMAIN text = 1..Len(text)
              /\ InCode(text) \subseteq 1..Len(text)
<1> SUFFICES ASSUME LexInv
             PROVE  /\ read \in Nat /\ Len(text) \in Nat /\ read <= Len(text)
                    /\ text \in Seq(L!Chars \cup {L!EOF}) /\ DOMAIN text = 1..Len(text)
                    /\ InCode(text) \subseteq 1..Len(text)
  OBVIOUS
<1>1. text \in Seq(L!Chars \cup {L!EOF}) /\ read \in 0..Len(text)
  BY DEF LexInv, LexTypes
<1>2. InCode(text) \subseteq 1..Len(text)
  BY <1>1, InCodeIs
<1>3. QED
  BY <1>1, <1>2

LEMMA IdentifierStep == LexInv /\ L!Identifier => LexInv'
<1> SUFFICES ASSUME LexInv, L!Identifier PROVE LexInv'
  OBVIOUS
<1> DEFINE n == L!Run(0, {"a"})
           k == read + n
<1>1. /\ read \in Nat /\ Len(text) \in Nat /\ read <= Len(text)
      /\ text \in Seq(L!Chars \cup {L!EOF}) /\ DOMAIN text = 1..Len(text)
      /\ InCode(text) \subseteq 1..Len(text)
  BY LexDomains
<1>2. /\ lex = "scan" /\ start = "INITIAL" /\ n > 0 /\ read' = k /\ text' = text
      /\ lex' = "scan" /\ start' = "INITIAL" /\ line_num' = line_num
      /\ tokens' = Append(tokens, "ID")
  BY DEF L!Identifier, L!Matches, L!Token
<1>3. /\ n \in 0..(Len(text) - read - 0) /\ \A i \in 1..n : text[read + 0 + i] = "a"
      /\ read + 0 + n < Len(text) => text[read + 0 + n + 1] # "a"
  <2>1. LexTypes
    BY DEF LexInv
  <2>2. read + 0 <= Len(text)
    BY <1>1
  <2>3. QED
    BY <2>1, <2>2, RunIs
<1> HIDE DEF n
<1>4. /\ n \in Nat /\ k \in Nat /\ read < k /\ k <= Len(text)
      /\ \A i \in (read + 1)..k : text[i] = "a"
      /\ k < Len(text) => text[k + 1] # "a"
  <2>1. n \in Nat /\ k \in Nat /\ read < k /\ k <= Len(text)
    BY <1>1, <1>2, <1>3
  <2>2. ASSUME NEW i \in (read + 1)..k PROVE text[i] = "a"
    <3>1. i - read \in 1..n /\ read + 0 + (i - read) = i
      BY <1>1, <2>1
    <3>2. QED
      BY <1>3, <3>1
  <2>3. read + 0 + n = k /\ read + 0 + n + 1 = k + 1
    BY <1>1, <2>1
  <2>4. QED
    BY <1>3, <2>1, <2>2, <2>3
<1> HIDE DEF k
<1>5. Agrees(text, "INITIAL", k) /\ (read + 1)..k \subseteq InCode(text)
  <2>1. \A i \in (read + 1)..k : ~PairAt(text, "/", "*", i)
    BY <1>4 DEF PairAt
  <2>2. Agrees(text, "INITIAL", read)
    BY <1>2 DEF LexInv
  <2>3. QED
    BY <1>1, <1>4, <2>1, <2>2, OverCode
<1>6. Starting(text) \cap (read + 1)..k = {read + 1}
  <2>1. read + 1 \in (read + 1)..k /\ (read + 1) - 1 = read
    BY <1>1, <1>4
  <2>2. ~(read \in InCode(text) /\ text[read] = "a")
    <3>1. read < Len(text) /\ text[read + 1] = "a"
      BY <1>1, <1>4, <2>1
    <3>2. QED
      BY <1>2, <3>1 DEF LexInv, Whole
  <2>3. read + 1 \in Starting(text)
    BY <1>4, <1>5, <2>1, <2>2 DEF Starting
  <2>4. ASSUME NEW i \in (read + 1)..k, i # read + 1 PROVE i \notin Starting(text)
    <3>1. i - 1 \in (read + 1)..k
      BY <1>1, <1>4, <2>4
    <3>2. i - 1 \in InCode(text) /\ text[i - 1] = "a" /\ text[i] = "a"
      BY <1>4, <1>5, <3>1
    <3>3. QED
      BY <3>2 DEF Starting
  <2>5. QED
    BY <2>1, <2>3, <2>4
<1>7. Lines(text) \cap (read + 1)..k = {}
  BY <1>4 DEF Lines, L!LF, L!CR
<1>8. text[read + 1] = "a" /\ L!Named("a") = "ID"
  BY <1>1, <1>4 DEF L!Named
<1>9. Whole(text, "INITIAL", k)
  BY <1>4 DEF Whole
<1>10. QED
  BY <1>2, <1>4, <1>5, <1>6, <1>7, <1>8, <1>9, ReadOn

\* A character outside of comments that begins none and is no letter.
LEMMA OneOfCode ==
    ASSUME LexInv, start = "INITIAL", read < Len(text), ~PairAt(text, "/", "*", read + 1),
           text[read + 1] # "a"
    PROVE  /\ read + 1 \in Nat /\ read < read + 1 /\ read + 1 <= Len(text)
           /\ (read + 1)..(read + 1) = {read + 1}
           /\ Agrees(text, "INITIAL", read + 1) /\ read + 1 \in InCode(text)
           /\ Whole(text, "INITIAL", read + 1)
           /\ read + 1 \in Starting(text) <=> text[read + 1] \in {"*", "/"}
           /\ read + 1 \in Lines(text) <=> text[read + 1] \in {L!LF, L!CR}
<1>1. /\ read \in Nat /\ Len(text) \in Nat
      /\ text \in Seq(L!Chars \cup {L!EOF}) /\ DOMAIN text = 1..Len(text)
  BY LexDomains
<1>2. read + 1 \in Nat /\ read < read + 1 /\ read <= read + 1 /\ read + 1 <= Len(text)
      /\ (read + 1)..(read + 1) = {read + 1} /\ read + 1 \in 1..Len(text)
  BY <1>1
<1>3. Agrees(text, "INITIAL", read)
  BY DEF LexInv
<1>4. Agrees(text, "INITIAL", read + 1) /\ (read + 1)..(read + 1) \subseteq InCode(text)
  <2>1. \A i \in (read + 1)..(read + 1) : ~PairAt(text, "/", "*", i)
    BY <1>2
  <2>2. QED
    BY <1>1, <1>2, <1>3, <2>1, OverCode
<1>5. QED
  BY <1>1, <1>2, <1>4 DEF Whole, Starting, Lines

LEMMA OneOfComment ==
    ASSUME LexInv, start = "comment", read < Len(text), text[read + 1] # "*"
    PROVE  /\ read + 1 \in Nat /\ read < read + 1 /\ read + 1 <= Len(text)
           /\ (read + 1)..(read + 1) = {read + 1}
           /\ Agrees(text, "comment", read + 1) /\ read + 1 \notin InCode(text)
           /\ Whole(text, "comment", read + 1)
           /\ read + 1 \notin Starting(text)
           /\ read + 1 \in Lines(text) <=> text[read + 1] = L!LF
<1>1. /\ read \in Nat /\ Len(text) \in Nat
      /\ text \in Seq(L!Chars \cup {L!EOF}) /\ DOMAIN text = 1..Len(text)
  BY LexDomains
<1>2. read + 1 \in Nat /\ read < read + 1 /\ read <= read + 1 /\ read + 1 <= Len(text)
      /\ (read + 1)..(read + 1) = {read + 1} /\ read + 1 \in 1..Len(text)
  BY <1>1
<1>3. Agrees(text, "comment", read)
  BY DEF LexInv
<1>4. Agrees(text, "comment", read + 1) /\ (read + 1)..(read + 1) \cap InCode(text) = {}
  <2>1. \A i \in (read + 1)..(read + 1) : ~PairAt(text, "*", "/", i)
    BY <1>2 DEF PairAt
  <2>2. QED
    BY <1>1, <1>2, <1>3, <2>1, OverComment
<1>5. QED
  BY <1>1, <1>2, <1>4 DEF Whole, Starting, Lines

LEMMA OperatorStep == LexInv /\ L!Operator => LexInv'
<1> SUFFICES ASSUME LexInv, L!Operator PROVE LexInv'
  OBVIOUS
<1>1. /\ read \in Nat /\ Len(text) \in Nat
  BY LexDomains
<1>2. /\ lex = "scan" /\ start = "INITIAL" /\ read' = read + 1 /\ text' = text
      /\ lex' = "scan" /\ start' = "INITIAL" /\ line_num' = line_num
  BY DEF L!Operator, L!Matches
<1>3. /\ read < Len(text) /\ ~PairAt(text, "/", "*", read + 1)
      /\ \/ text[read + 1] = "*" /\ tokens' = Append(tokens, "STAR")
         \/ text[read + 1] = "/" /\ tokens' = Append(tokens, "DIV")
  <2>1. read + 0 = read /\ read + 0 + 1 = read + 1 /\ read + 1 + 1 = (read + 1) + 1
    BY <1>1
  <2>2. QED
    BY <2>1 DEF L!Operator, L!Follows, L!Token, PairAt
<1>4. tokens' = Append(tokens, L!Named(text[read + 1]))
      /\ L!Named(text[read + 1]) \in {"ID", "STAR", "DIV"}
  BY <1>3 DEF L!Named
<1>5. text[read + 1] \in {"*", "/"} /\ text[read + 1] # "a" /\ text[read + 1] # "#"
      /\ text[read + 1] # L!LF /\ text[read + 1] # L!CR
  BY <1>3 DEF L!LF, L!CR
<1>6. /\ read + 1 \in Nat /\ read < read + 1 /\ read + 1 <= Len(text)
      /\ (read + 1)..(read + 1) = {read + 1}
      /\ Agrees(text, "INITIAL", read + 1) /\ Whole(text, "INITIAL", read + 1)
      /\ read + 1 \in Starting(text) /\ read + 1 \notin Lines(text)
  BY <1>2, <1>3, <1>5, OneOfCode
<1>7. Starting(text) \cap (read + 1)..(read + 1) = {read + 1}
      /\ Lines(text) \cap (read + 1)..(read + 1) = {}
      /\ \A i \in (read + 1)..(read + 1) : i \in InCode(text) => text[i] # "#"
  BY <1>5, <1>6
<1>8. QED
  BY <1>2, <1>4, <1>6, <1>7, ReadOn

\* A new line, or the end of a file, wherever it is.
LEMMA BetweenStep ==
    ASSUME LexInv, lex = "scan", read < Len(text), read' = read + 1, text' = text, lex' = lex,
           start' = start, tokens' = tokens,
           \/ text[read + 1] = L!LF /\ line_num' = line_num + 1
           \/ text[read + 1] = L!CR /\ start = "INITIAL" /\ line_num' = line_num + 1
           \/ text[read + 1] = L!EOF /\ line_num' = line_num
    PROVE  LexInv'
<1>1. text[read + 1] \notin {"a", "*", "/", "#"} /\ L!LF # L!EOF /\ L!CR # L!EOF
  BY DEF L!LF, L!CR, L!EOF
<1>2. start \in {"INITIAL", "comment"}
  BY DEF LexInv, LexTypes
<1>3. /\ read + 1 \in Nat /\ read < read + 1 /\ read + 1 <= Len(text)
      /\ (read + 1)..(read + 1) = {read + 1}
      /\ Agrees(text, start, read + 1) /\ Whole(text, start, read + 1)
      /\ read + 1 \notin Starting(text)
      /\ read + 1 \in Lines(text) <=>
            text[read + 1] = L!LF \/ (text[read + 1] = L!CR /\ start = "INITIAL")
  <2>1. CASE start = "INITIAL"
    <3>1. ~PairAt(text, "/", "*", read + 1)
      BY <1>1 DEF PairAt
    <3>2. QED
      BY <1>1, <2>1, <3>1, OneOfCode
  <2>2. CASE start = "comment"
    BY <1>1, <2>2, OneOfComment
  <2>3. QED
    BY <1>2, <2>1, <2>2
<1>4. /\ Starting(text) \cap (read + 1)..(read + 1) = {}
      /\ \A i \in (read + 1)..(read + 1) : i \in InCode(text) => text[i] # "#"
  BY <1>1, <1>3
<1>5. \/ Lines(text) \cap (read + 1)..(read + 1) = {} /\ line_num' = line_num
      \/ Lines(text) \cap (read + 1)..(read + 1) = {read + 1} /\ line_num' = line_num + 1
  BY <1>1, <1>3
<1>6. QED
  BY <1>2, <1>3, <1>4, <1>5, ReadOn

LEMMA NewlineStep == LexInv /\ (L!Newline \/ L!NextFile) => LexInv'
<1> SUFFICES ASSUME LexInv, L!Newline \/ L!NextFile PROVE LexInv'
  OBVIOUS
<1>1. read \in Nat /\ read + 0 = read /\ read + 0 + 1 = read + 1
  BY LexDomains
<1>2. /\ lex = "scan" /\ read < Len(text) /\ read' = read + 1 /\ text' = text /\ lex' = lex
      /\ start' = start /\ tokens' = tokens
      /\ \/ text[read + 1] = L!LF /\ line_num' = line_num + 1
         \/ text[read + 1] = L!CR /\ start = "INITIAL" /\ line_num' = line_num + 1
         \/ text[read + 1] = L!EOF /\ line_num' = line_num
  BY <1>1 DEF L!Newline, L!NextFile, L!Matches, L!Follows
<1>3. QED
  BY <1>2, BetweenStep

LEMMA OpenStep == LexInv /\ L!OpenComment => LexInv'
<1> SUFFICES ASSUME LexInv, L!OpenComment PROVE LexInv'
  OBVIOUS
<1> DEFINE k == read + 2
<1>1. /\ read \in Nat /\ Len(text) \in Nat
      /\ text \in Seq(L!Chars \cup {L!EOF}) /\ DOMAIN text = 1..Len(text)
  BY LexDomains
<1>2. /\ lex = "scan" /\ start = "INITIAL" /\ read' = k /\ text' = text
      /\ lex' = "scan" /\ start' = "comment" /\ line_num' = line_num /\ tokens' = tokens
  BY DEF L!OpenComment, L!Matches
<1>3. PairAt(text, "/", "*", read + 1)
  <2>1. read + 0 = read /\ read + 0 + 1 = read + 1 /\ read + 1 + 1 = (read + 1) + 1
    BY <1>1
  <2>2. QED
    BY <2>1 DEF L!OpenComment, L!Follows, PairAt
<1>4. Agrees(text, "comment", k) /\ (read + 1)..k \cap InCode(text) = {}
  <2>1. Agrees(text, "INITIAL", read)
    BY <1>2 DEF LexInv
  <2>2. QED
    BY <1>1, <1>3, <2>1, Opening
<1>5. k \in Nat /\ read < k /\ k <= Len(text) /\ \A i \in (read + 1)..k : i = read + 1 \/ i = (read + 1) + 1
  BY <1>1, <1>3 DEF PairAt
<1>6. Starting(text) \cap (read + 1)..k = {}
  BY <1>4 DEF Starting
<1>7. Lines(text) \cap (read + 1)..k = {}
  BY <1>3, <1>5 DEF Lines, L!LF, L!CR, PairAt
<1>8. Whole(text, "comment", k)
  BY DEF Whole
<1> HIDE DEF k
<1>9. \A i \in (read + 1)..k : i \in InCode(text) => text[i] # "#"
  BY <1>4
<1>10. QED
  BY <1>2, <1>4, <1>5, <1>6, <1>7, <1>8, <1>9, ReadOn

\* The stars at read.
LEMMA StarsAre ==
    ASSUME LexInv, NEW n, n = L!Run(0, {"*"})
    PROVE  /\ n \in Nat /\ read + n <= Len(text)
           /\ \A i \in (read + 1)..(read + n) : text[i] = "*"
           /\ n = 0 /\ read < Len(text) => text[read + 1] # "*"
<1>1. /\ read \in Nat /\ Len(text) \in Nat /\ read <= Len(text)
  BY LexDomains
<1>2. /\ n \in 0..(Len(text) - read - 0) /\ \A i \in 1..n : text[read + 0 + i] \in {"*"}
      /\ read + 0 + n < Len(text) => text[read + 0 + n + 1] \notin {"*"}
  <2>1. LexTypes
    BY DEF LexInv
  <2>2. read + 0 <= Len(text)
    BY <1>1
  <2>3. QED
    BY <2>1, <2>2, RunIs
<1>3. n \in Nat /\ read + n <= Len(text)
  BY <1>1, <1>2
<1>4. ASSUME NEW i \in (read + 1)..(read + n) PROVE text[i] = "*"
  <2>1. i - read \in 1..n /\ read + 0 + (i - read) = i
    BY <1>1, <1>3
  <2>2. QED
    BY <1>2, <2>1
<1>5. n = 0 => read + 0 + n = read /\ read + 0 + n + 1 = read + 1
  BY <1>1
<1>6. QED
  BY <1>2, <1>3, <1>4, <1>5

\* Characters inside of a comment, no line end among them.
LEMMA CommentOn ==
    ASSUME LexInv, lex = "scan", NEW k \in Nat, read < k, k <= Len(text),
           text' = text, read' = k, lex' = lex, line_num' = line_num, tokens' = tokens,
           start' \in {"INITIAL", "comment"},
           Agrees(text, start', k), (read + 1)..k \cap InCode(text) = {},
           \A i \in (read + 1)..k : text[i] # L!LF
    PROVE  LexInv'
<1>1. read \in Nat /\ k \in (read + 1)..k
  BY LexDomains
<1>2. k \notin InCode(text)
  BY <1>1
<1>3. Whole(text, start', k)
  BY <1>2 DEF Whole
<1>4. Starting(text) \cap (read + 1)..k = {} /\ Lines(text) \cap (read + 1)..k = {}
      /\ \A i \in (read + 1)..k : i \in InCode(text) => text[i] # "#"
  BY DEF Starting, Lines
<1>5. lex' = "scan"
  OBVIOUS
<1>6. QED
  BY <1>3, <1>4, <1>5, ReadOn

LEMMA CloseStep == LexInv /\ L!CloseComment => LexInv'
<1> SUFFICES ASSUME LexInv, L!CloseComment PROVE LexInv'
  OBVIOUS
<1>1. /\ read \in Nat /\ Len(text) \in Nat /\ read <= Len(text)
      /\ text \in Seq(L!Chars \cup {L!EOF}) /\ DOMAIN text = 1..Len(text)
  BY LexDomains
<1>2. PICK n : n = L!Run(0, {"*"})
  OBVIOUS
<1>3. /\ lex = "scan" /\ start = "comment" /\ read' = read + (n + 1) /\ text' = text
      /\ lex' = lex /\ start' = "INITIAL" /\ line_num' = line_num /\ tokens' = tokens
      /\ n > 0 /\ read + n < Len(text) /\ text[read + n + 1] = "/"
  BY <1>2 DEF L!CloseComment, L!CommentEnds, L!Matches, L!Follows
<1>4. /\ n \in Nat /\ read + n <= Len(text)
      /\ \A i \in (read + 1)..(read + n) : text[i] = "*"
  BY <1>2, StarsAre
<1> DEFINE q == read + n
<1>5. /\ q \in Nat /\ read < q /\ q < Len(text) /\ read + (n + 1) = q + 1 /\ q + 1 \in Nat
      /\ read < q + 1 /\ q + 1 <= Len(text) /\ q \in (read + 1)..q
  BY <1>1, <1>3, <1>4
<1> HIDE DEF q
<1>6. PairAt(text, "*", "/", q)
  BY <1>3, <1>4, <1>5 DEF q, PairAt
<1>7. ASSUME NEW i \in (read + 1)..(q - 1) PROVE ~PairAt(text, "*", "/", i)
  <2>1. i + 1 \in (read + 1)..q
    BY <1>1, <1>5
  <2>2. QED
    BY <1>4, <2>1 DEF q, PairAt
<1>8. Agrees(text, "comment", read)
  BY <1>3 DEF LexInv
<1>9. Agrees(text, "INITIAL", q + 1) /\ (read + 1)..(q + 1) \cap InCode(text) = {}
  BY <1>1, <1>5, <1>6, <1>7, <1>8, Closing
<1>10. ASSUME NEW i \in (read + 1)..(q + 1) PROVE text[i] # L!LF
  <2>1. i \in (read + 1)..q \/ i = q + 1
    BY <1>1, <1>5
  <2>2. QED
    BY <1>4, <1>6, <2>1 DEF q, PairAt, L!LF
<1>11. read' = q + 1
  BY <1>3, <1>5
<1>12. QED
  BY <1>3, <1>5, <1>9, <1>10, <1>11, CommentOn

LEMMA CommentStep == LexInv /\ L!Comment => LexInv'
<1> SUFFICES ASSUME LexInv, L!Comment PROVE LexInv'
  OBVIOUS
<1>1. /\ read \in Nat /\ Len(text) \in Nat /\ read <= Len(text)
      /\ text \in Seq(L!Chars \cup {L!EOF}) /\ DOMAIN text = 1..Len(text)
  BY LexDomains
<1>2. LexTypes
  BY DEF LexInv
<1> DEFINE n == L!Run(0, {"*"})
           m == L!Run(n, L!Chars \ {"*", "/", L!LF})
           o == L!Run(0, L!Chars \ {"*", L!LF})
           w == IF n > 0 THEN n + m ELSE o
           k == read + w
<1>3. /\ lex = "scan" /\ start = "comment" /\ w > 0 /\ read' = k /\ text' = text
      /\ lex' = lex /\ start' = "comment" /\ line_num' = line_num /\ tokens' = tokens
      /\ ~(n > 0 /\ read + n < Len(text) /\ text[read + n + 1] = "/")
  BY DEF L!Comment, L!CommentEnds, L!Matches, L!Follows
<1>4. /\ n \in Nat /\ read + n <= Len(text)
      /\ \A i \in (read + 1)..(read + n) : text[i] = "*"
  BY StarsAre
<1>5. /\ m \in 0..(Len(text) - read - n)
      /\ \A i \in 1..m : text[read + n + i] \in L!Chars \ {"*", "/", L!LF}
  BY <1>2, <1>4, RunIs
<1>6. /\ o \in 0..(Len(text) - read - 0)
      /\ \A i \in 1..o : text[read + 0 + i] \in L!Chars \ {"*", L!LF}
  <2>1. read + 0 <= Len(text)
    BY <1>1
  <2>2. QED
    BY <1>2, <2>1, RunIs
<1> HIDE DEF n, m, o
<1>7. w \in Nat /\ k \in Nat /\ read < k /\ k <= Len(text) /\ read <= k
  BY <1>1, <1>3, <1>4, <1>5, <1>6
<1>8. ASSUME NEW i \in (read + 1)..k
      PROVE  ~PairAt(text, "*", "/", i) /\ text[i] # L!LF
  <2>1. CASE n > 0
    <3>1. i \in Nat /\ k = read + n + m /\ m \in Nat
      BY <1>1, <1>4, <1>5, <1>7, <2>1
    <3>2. CASE i < read + n
      <4>1. i + 1 \in (read + 1)..(read + n) /\ i \in (read + 1)..(read + n)
        BY <1>1, <1>4, <3>1, <3>2
      <4>2. text[i + 1] = "*" /\ text[i] = "*"
        BY <1>4, <4>1
      <4>3. QED
        BY <4>2 DEF PairAt, L!LF
    <3>3. CASE i = read + n
      <4>1. i \in (read + 1)..(read + n)
        BY <1>1, <1>4, <3>1, <3>3
      <4>2. text[i] = "*"
        BY <1>4, <4>1
      <4>3. QED
        BY <1>3, <2>1, <3>3, <4>2 DEF PairAt, L!LF
    <3>4. CASE i > read + n
      <4>1. i - read - n \in 1..m /\ read + n + (i - read - n) = i
        BY <1>1, <1>4, <3>1, <3>4
      <4>2. text[i] # "*" /\ text[i] # L!LF
        BY <1>5, <4>1
      <4>3. QED
        BY <4>2 DEF PairAt
    <3>5. QED
      BY <1>1, <1>4, <3>1, <3>2, <3>3, <3>4
  <2>2. CASE ~(n > 0)
    <3>1. i - read \in 1..o /\ read + 0 + (i - read) = i
      BY <1>1, <1>6, <1>7, <2>2
    <3>2. text[i] # "*" /\ text[i] # L!LF
      BY <1>6, <3>1
    <3>3. QED
      BY <3>2 DEF PairAt
  <2>3. QED
    BY <2>1, <2>2
<1> HIDE DEF k, w
<1>9. Agrees(text, "comment", read)
  BY <1>3 DEF LexInv
<1>10. Agrees(text, "comment", k) /\ (read + 1)..k \cap InCode(text) = {}
  BY <1>1, <1>7, <1>8, <1>9, OverComment
<1>11. QED
  BY <1>3, <1>7, <1>8, <1>10, CommentOn

LEMMA EndStep == LexInv /\ (L!Unmatched \/ L!End \/ UNCHANGED L!vars) => LexInv'
<1> SUFFICES ASSUME LexInv, L!Unmatched \/ L!End \/ UNCHANGED L!vars PROVE LexInv'
  OBVIOUS
<1>1. read \in Nat /\ read + 0 = read /\ read + 0 + 1 = read + 1
  BY LexDomains
<1>2. /\ text' = text /\ read' = read /\ start' = start /\ line_num' = line_num
      /\ tokens' = tokens /\ lex' \in {"scan", "end", "exited"}
      /\ lex' = "end" => read = Len(text)
      /\ lex' = "exited" => start = "INITIAL" /\ read < Len(text) /\ text[read + 1] = "#"
  BY <1>1 DEF L!Unmatched, L!End, L!vars, L!Follows, LexInv, LexTypes
<1>3. LexTypes'
  BY <1>2 DEF LexInv, LexTypes
<1>4. QED
  BY <1>2, <1>3 DEF LexInv

LEMMA LexInit == L!MiniCLexAssumption /\ L!Init => LexInv
<1> SUFFICES ASSUME L!MiniCLexAssumption, L!Init PROVE LexInv
  OBVIOUS
<1>1. PICK k \in 0..MaxText : text \in [1..k -> L!Chars \cup {L!EOF}]
  BY DEF L!Init
<1>2. MaxText \in Nat /\ read = 0 /\ start = "INITIAL" /\ line_num = 1 /\ tokens = << >>
      /\ lex = "scan"
  BY DEF L!Init, L!MiniCLexAssumption
<1>3. text \in Seq(L!Chars \cup {L!EOF}) /\ Len(text) = k /\ k \in Nat /\ k <= MaxText
  BY <1>1, <1>2
<1>4. LexTypes
  BY <1>2, <1>3 DEF LexTypes
<1>5. 1..0 = {} /\ Cardinality({}) = 0
  BY FS_EmptySet
<1>6. \A S : S \cap 1..0 = {} /\ Cardinality(S \cap 1..0) = 0
  BY <1>5
<1>7. Tally(text, Starting(text), read, tokens)
  BY <1>2, <1>6 DEF Tally
<1>8. Agrees(text, start, read) /\ InCode(text) \subseteq 1..Len(text)
  BY <1>2, <1>3, InCodeIs
<1>9. Whole(text, start, read)
  <2>1. read \notin InCode(text)
    BY <1>2, <1>3, <1>8
  <2>2. QED
    BY <2>1 DEF Whole
<1>10. line_num = 1 + Cardinality(Lines(text) \cap 1..read)
  BY <1>2, <1>6
<1>11. \A i \in InCode(text) \cap 1..read : text[i] # "#"
  BY <1>2, <1>5
<1>12. QED
  BY <1>2, <1>4, <1>7, <1>8, <1>9, <1>10, <1>11 DEF LexInv

LEMMA LexNext == LexInv /\ [L!Next]_(L!vars) => LexInv'
  BY IdentifierStep, OperatorStep, NewlineStep, OpenStep, CloseStep, CommentStep, EndStep
     DEF L!Next

LEMMA LexCounts == L!MiniCLexAssumption /\ LexInv => L!TypeOK /\ L!LineCounted
<1> SUFFICES ASSUME L!MiniCLexAssumption, LexInv PROVE L!TypeOK /\ L!LineCounted
  OBVIOUS
<1>1. /\ read \in Nat /\ Len(text) \in Nat /\ read <= Len(text)
      /\ text \in Seq(L!Chars \cup {L!EOF}) /\ DOMAIN text = 1..Len(text)
  BY LexDomains
<1>2. Lines(text) \cap 1..read =
          {i \in 1..read : text[i] = L!LF \/ (text[i] = L!CR /\ i \in L!Code)}
  BY <1>1, CodeIs DEF Lines
<1>3. line_num = 1 + Cardinality(Lines(text) \cap 1..read) /\ Len(text) <= MaxText
  BY DEF LexInv, LexTypes
<1>4. Cardinality(Lines(text) \cap 1..read) \in 0..read
  BY <1>1, UpToFinite
<1>5. L!LineCounted
  BY <1>2, <1>3, LexCards DEF L!LineCounted
<1>6. line_num \in 1..(MaxText + 1)
  BY <1>1, <1>3, <1>4 DEF L!MiniCLexAssumption
<1>7. QED
  BY <1>1, <1>3, <1>5, <1>6 DEF L!TypeOK, LexInv, LexTypes

\* When it has ended, what was read of the code is the code before the first
\* error.
LEMMA GoodIs ==
    ASSUME LexInv, lex # "scan"
    PROVE  /\ L!Good = InCode(text) \cap 1..read
           /\ lex = "exited" <=> L!Errors # {}
           /\ lex = "exited" => read + 1 \in L!Errors /\ \A e \in L!Errors : read + 1 <= e
<1>1. /\ read \in Nat /\ Len(text) \in Nat /\ read <= Len(text)
      /\ InCode(text) \subseteq 1..Len(text)
  BY LexDomains
<1>2. L!Errors = {i \in InCode(text) : text[i] = "#"}
  BY CodeIs DEF L!Errors
<1>3. L!Good = {i \in InCode(text) : \A e \in L!Errors : i < e}
  BY CodeIs DEF L!Good
<1>4. ASSUME NEW e \in L!Errors PROVE e \in Nat /\ read + 1 <= e
  <2>1. e \in InCode(text) /\ e \notin 1..read /\ e \in 1..Len(text)
    BY <1>1, <1>2 DEF LexInv
  <2>2. QED
    BY <1>1, <2>1
<1>5. CASE lex = "end"
  <2>1. read = Len(text)
    BY <1>5 DEF LexInv
  <2>2. L!Errors = {}
    BY <1>1, <1>2, <2>1 DEF LexInv
  <2>3. QED
    BY <1>1, <1>3, <1>5, <2>1, <2>2
<1>6. CASE lex = "exited"
  <2>1. start = "INITIAL" /\ read < Len(text) /\ text[read + 1] = "#"
    BY <1>6 DEF LexInv
  <2>2. read + 1 \in InCode(text)
    BY <2>1, OneOfCode DEF PairAt
  <2>3. read + 1 \in L!Errors
    BY <1>2, <2>1, <2>2
  <2>4. ASSUME NEW i \in InCode(text)
        PROVE  (\A e \in L!Errors : i < e) <=> i \in 1..read
    <3>1. i \in Nat /\ i >= 1
      BY <1>1
    <3>2. (\A e \in L!Errors : i < e) => i \in 1..read
      BY <1>1, <2>3, <3>1
    <3>3. ASSUME i \in 1..read, NEW e \in L!Errors PROVE i < e
      BY <1>1, <1>4, <3>1, <3>3
    <3>4. QED
      BY <3>2, <3>3
  <2>5. L!Good = InCode(text) \cap 1..read
    BY <1>3, <2>4
  <2>6. QED
    BY <1>4, <1>6, <2>3, <2>5
<1>7. QED
  BY <1>5, <1>6 DEF LexInv, LexTypes

LEMMA LexMeans == LexInv => L!TokensMeant
<1> SUFFICES ASSUME LexInv, lex # "scan" PROVE L!TokensMeant
  BY DEF L!TokensMeant
<1>1. /\ read \in Nat /\ Len(text) \in Nat /\ read <= Len(text)
      /\ InCode(text) \subseteq 1..Len(text)
  BY LexDomains
<1>2. /\ L!Good = InCode(text) \cap 1..read
      /\ lex = "exited" <=> L!Errors # {}
      /\ lex = "exited" => read + 1 \in L!Errors /\ \A e \in L!Errors : read + 1 <= e
  BY GoodIs
<1>3. ASSUME NEW i \in L!Good PROVE i - 1 \in L!Good <=> i - 1 \in InCode(text)
  <2>1. i \in 1..read
    BY <1>2
  <2>2. i - 1 \in InCode(text) => i - 1 \in 1..read
    BY <1>1, <2>1
  <2>3. QED
    BY <1>2, <2>2
<1>4. L!Begins = Starting(text) \cap 1..read
  <2>1. L!Begins = {i \in L!Good : \/ text[i] \in {"*", "/"}
                                   \/ text[i] = "a" /\ ~(i - 1 \in L!Good /\ text[i - 1] = "a")}
    BY DEF L!Begins
  <2>2. QED
    BY <1>2, <1>3, <2>1 DEF Starting
<1>5. ASSUME NEW i \in L!Begins
      PROVE  {j \in L!Begins : j <= i} = Starting(text) \cap 1..i
  <2>1. i \in 1..read
    BY <1>4
  <2>2. \A j \in 1..i : j \in 1..read /\ j <= i
    BY <1>1, <2>1
  <2>3. \A j \in 1..read : j <= i => j \in 1..i
    BY <1>1, <2>1
  <2>4. QED
    BY <1>4, <2>2, <2>3
<1>6. Tally(text, Starting(text), read, tokens)
  BY DEF LexInv
<1>7. ASSUME NEW i \in L!Begins
      PROVE  tokens[L!Cardinality({j \in L!Begins : j <= i})] = L!Named(text[i])
  <2>1. i \in Starting(text) \cap 1..read
    BY <1>4
  <2>2. tokens[Cardinality(Starting(text) \cap 1..i)] = L!Named(text[i])
    BY <1>6, <2>1, Zenon DEF Tally
  <2>3. L!Cardinality({j \in L!Begins : j <= i}) = Cardinality(Starting(text) \cap 1..i)
    BY <1>5, LexCards
  <2>4. QED
    BY <2>2, <2>3
<1>8. Len(tokens) = L!Cardinality(L!Begins)
  <2>1. Len(tokens) = Cardinality(Starting(text) \cap 1..read)
    BY <1>6 DEF Tally
  <2>2. QED
    BY <1>4, <2>1, LexCards
<1>9. QED
  BY <1>2, <1>7, <1>8 DEF L!TokensMeant

\* For files of every number and length: the parser is given the tokens outside
\* of comments, up to the first character without a rule, and line_num counts
\* the line feeds, and the carriage returns outside of comments, however comments
\* and files end in each other.
THEOREM LexThm == L!MiniCLexAssumption => (L!Spec => []LexSound)
<1> SUFFICES ASSUME L!MiniCLexAssumption PROVE L!Spec => []LexSound
  OBVIOUS
<1>1. L!Init => LexInv
  BY LexInit
<1>2. LexInv /\ [L!Next]_(L!vars) => LexInv'
  BY LexNext
<1>3. LexInv => LexSound
  BY LexCounts, LexMeans DEF LexSound, L!LexSound
<1>4. QED
  BY <1>1, <1>2, <1>3, PTL DEF L!Spec

-----------------------------------------------------------------------------
\* The words of the command line.  Functions defined by what they are before.

Bytes == Letters \cup {" "}
Room == YY_READ_BUF_SIZE
MatchedType == [words : Seq(Seq(Bytes)), token : Seq(Bytes)]
Nothing == [words |-> << >>, token |-> << >>]

Scans(f, x, t, n) == f = [i \in 0..n |-> IF i = 0 THEN x ELSE C!OneByte(f[i - 1], t[i])]
Scan(x, t) == CHOOSE f : Scans(f, x, t, Len(t))

LEMMA ScanExists ==
    ASSUME NEW x, NEW t, NEW n \in Nat
    PROVE  \E f : Scans(f, x, t, n)
<1> SUFFICES \E f : f = [i \in 0..n |-> IF i = 0 THEN x ELSE C!OneByte(f[i - 1], t[i])]
  BY DEF Scans
<1> DEFINE S == {m \in Nat : \E f :
                   f = [i \in 0..m |-> IF i = 0 THEN x ELSE C!OneByte(f[i - 1], t[i])]}
<1>1. 0 \in S
  <2> DEFINE e == [i \in 0..0 |-> x]
  <2>1. e = [i \in 0..0 |-> IF i = 0 THEN x ELSE C!OneByte(e[i - 1], t[i])]
    OBVIOUS
  <2> HIDE DEF e
  <2>2. QED
    BY <2>1
<1>2. ASSUME NEW m \in Nat, m \in S PROVE m + 1 \in S
  <2>1. PICK f : f = [i \in 0..m |-> IF i = 0 THEN x ELSE C!OneByte(f[i - 1], t[i])]
    BY <1>2
  <2> DEFINE e == [i \in 0..(m + 1) |-> IF i = m + 1 THEN C!OneByte(f[m], t[m + 1]) ELSE f[i]]
  <2>2. ASSUME NEW i \in 0..(m + 1)
        PROVE  e[i] = IF i = 0 THEN x ELSE C!OneByte(e[i - 1], t[i])
    <3>1. CASE i = m + 1
      <4>1. i # 0 /\ i - 1 = m /\ m \in 0..(m + 1) /\ m # m + 1
        BY <3>1
      <4>2. e[i - 1] = f[m] /\ e[i] = C!OneByte(f[m], t[m + 1])
        BY <3>1, <4>1
      <4>3. QED
        BY <3>1, <4>1, <4>2
    <3>2. CASE i # m + 1
      <4>1. i \in 0..m /\ (i # 0 => i - 1 \in 0..m /\ i - 1 # m + 1 /\ i - 1 \in 0..(m + 1))
        BY <3>2
      <4>2. e[i] = f[i] /\ (i # 0 => e[i - 1] = f[i - 1])
        BY <3>2, <4>1
      <4>3. f[i] = IF i = 0 THEN x ELSE C!OneByte(f[i - 1], t[i])
        BY <2>1, <4>1
      <4>4. QED
        BY <4>2, <4>3
    <3>3. QED
      BY <3>1, <3>2
  <2>3. e = [i \in 0..(m + 1) |-> IF i = 0 THEN x ELSE C!OneByte(e[i - 1], t[i])]
    BY <2>2
  <2> HIDE DEF e
  <2>4. QED
    BY <2>3
<1>3. QED
  BY <1>1, <1>2, UpFrom0

\* f goes on for n bytes of t behind place a; those of s behind b are the same.
Goes(f, t, a, n) == \A i \in 1..n : f[a + i] = C!OneByte(f[a + i - 1], t[a + i])
SameBytes(s, a, t, b, n) == \A i \in 1..n : s[a + i] = t[b + i]

LEMMA ScanIs ==
    ASSUME NEW x, NEW t, Len(t) \in Nat
    PROVE  /\ C!Scanned(x, t) = Scan(x, t)[Len(t)]
           /\ Scan(x, t)[0] = x
           /\ Goes(Scan(x, t), t, 0, Len(t))
<1> DEFINE f == Scan(x, t)
<1>1. f = [i \in 0..Len(t) |-> IF i = 0 THEN x ELSE C!OneByte(f[i - 1], t[i])]
  <2>1. \E g : Scans(g, x, t, Len(t))
    BY ScanExists
  <2>2. Scans(f, x, t, Len(t))
    BY <2>1, Zenon DEF Scan
  <2>3. QED
    BY <2>2 DEF Scans
<1>2. C!Scanned(x, t) = f[Len(t)]
  BY DEF C!Scanned, Scan, Scans
<1> HIDE DEF f
<1>3. f[0] = x /\ \A i \in 1..Len(t) : f[0 + i] = C!OneByte(f[0 + i - 1], t[0 + i])
  <2>1. f[0] = x
    BY <1>1
  <2>2. ASSUME NEW i \in 1..Len(t) PROVE f[0 + i] = C!OneByte(f[0 + i - 1], t[0 + i])
    <3>1. i \in 0..Len(t) /\ i # 0 /\ 0 + i = i
      OBVIOUS
    <3>2. f[i] = C!OneByte(f[i - 1], t[i])
      BY <1>1, <3>1
    <3>3. QED
      BY <3>1, <3>2
  <2>3. QED
    BY <2>1, <2>2
<1>4. QED
  BY <1>2, <1>3 DEF f, Goes

LEMMA ScanAlike ==
    ASSUME NEW f, NEW g, NEW s, NEW t, NEW a \in Nat, NEW b \in Nat, NEW n \in Nat,
           f[a] = g[b], Goes(f, s, a, n), Goes(g, t, b, n), SameBytes(s, a, t, b, n)
    PROVE  f[a + n] = g[b + n]
<1> DEFINE S == {m \in Nat : m <= n => f[a + m] = g[b + m]}
<1>1. 0 \in S
  OBVIOUS
<1>2. ASSUME NEW m \in Nat, m \in S PROVE m + 1 \in S
  <2>1. SUFFICES ASSUME m + 1 <= n PROVE f[a + (m + 1)] = g[b + (m + 1)]
    OBVIOUS
  <2>2. m + 1 \in 1..n /\ f[a + m] = g[b + m]
    BY <1>2, <2>1
  <2>3. a + (m + 1) - 1 = a + m /\ b + (m + 1) - 1 = b + m
    OBVIOUS
  <2>4. /\ f[a + (m + 1)] = C!OneByte(f[a + m], s[a + (m + 1)])
        /\ g[b + (m + 1)] = C!OneByte(g[b + m], t[b + (m + 1)])
        /\ s[a + (m + 1)] = t[b + (m + 1)]
    BY <2>2, <2>3 DEF Goes, SameBytes
  <2>5. QED
    BY <2>2, <2>4
<1>3. n \in S
  BY <1>1, <1>2, UpFrom0
<1>4. QED
  BY <1>3

LEMMA GoesOn ==
    ASSUME NEW f, NEW u, NEW a \in Nat, NEW n \in Nat, Goes(f, u, 0, a + n)
    PROVE  Goes(f, u, 0, a) /\ Goes(f, u, a, n)
<1>1. \A i \in 1..(a + n) : f[i] = C!OneByte(f[i - 1], u[i])
  BY DEF Goes
<1>2. Goes(f, u, 0, a)
  BY <1>1 DEF Goes
<1>3. Goes(f, u, a, n)
  <2>1. ASSUME NEW i \in 1..n PROVE a + i \in 1..(a + n)
    OBVIOUS
  <2>2. QED
    BY <1>1, <2>1 DEF Goes
<1>4. QED
  BY <1>2, <1>3

\* What is matched piece by piece is what is matched at once.
LEMMA ScannedMore ==
    ASSUME NEW x, NEW A, NEW s \in Seq(A), NEW t \in Seq(A)
    PROVE  C!Scanned(x, s \o t) = C!Scanned(C!Scanned(x, s), t)
<1>1. PICK u : u = s \o t
  OBVIOUS
<1>2. /\ Len(s) \in Nat /\ Len(t) \in Nat /\ Len(u) = Len(s) + Len(t) /\ Len(u) \in Nat
      /\ SameBytes(u, 0, s, 0, Len(s)) /\ SameBytes(u, Len(s), t, 0, Len(t))
  BY <1>1 DEF SameBytes
<1>3. PICK y : y = C!Scanned(x, s)
  OBVIOUS
<1>4. PICK f : f = Scan(x, u)
  OBVIOUS
<1>5. PICK g : g = Scan(x, s)
  OBVIOUS
<1>6. PICK h : h = Scan(y, t)
  OBVIOUS
<1>7. C!Scanned(x, u) = f[Len(u)] /\ f[0] = x /\ Goes(f, u, 0, Len(s) + Len(t))
  BY <1>2, <1>4, ScanIs
<1>8. y = g[Len(s)] /\ g[0] = x /\ Goes(g, s, 0, Len(s))
  BY <1>2, <1>3, <1>5, ScanIs
<1>9. C!Scanned(y, t) = h[Len(t)] /\ h[0] = y /\ Goes(h, t, 0, Len(t))
  BY <1>2, <1>6, ScanIs
<1>10. Goes(f, u, 0, Len(s)) /\ Goes(f, u, Len(s), Len(t))
  BY <1>2, <1>7, GoesOn
<1>11. f[0 + Len(s)] = g[0 + Len(s)]
  BY <1>2, <1>7, <1>8, <1>10, ScanAlike
<1>12. f[Len(s)] = h[0]
  BY <1>2, <1>8, <1>9, <1>11
<1>13. f[Len(s) + Len(t)] = h[0 + Len(t)]
  BY <1>2, <1>9, <1>10, <1>12, ScanAlike
<1>14. QED
  BY <1>1, <1>2, <1>3, <1>7, <1>9, <1>13

LEMMA MatchedIs ==
    ASSUME NEW A, NEW B, NEW w \in A, NEW k \in B
    PROVE  /\ [words |-> w, token |-> k] \in [words : A, token : B]
           /\ [words |-> w, token |-> k].words = w /\ [words |-> w, token |-> k].token = k
           /\ \A a : [[words |-> w, token |-> k] EXCEPT !.token = a] = [words |-> w, token |-> a]
  OBVIOUS

\* The bytes of a token are all blank or all not.
Even(tok) == \A i \in 1..Len(tok) : tok[i] = " " <=> tok[1] = " "

\* tok is the last token of the first n bytes of u.
LastRun(u, n, tok) ==
    /\ tok \in Seq(Bytes) /\ Len(tok) <= n
    /\ \A i \in 1..Len(tok) : tok[i] = u[n - Len(tok) + i]
    /\ Even(tok)
    /\ Len(tok) < n => tok # << >> /\ (u[n - Len(tok)] = " " <=> tok[1] # " ")

LEMMA RunNext ==
    ASSUME NEW u, NEW n \in Nat, NEW w \in Seq(Seq(Bytes)), NEW k \in Seq(Bytes),
           LastRun(u, n, k), NEW c \in Bytes, c = u[n + 1],
           NEW y, y = C!OneByte([words |-> w, token |-> k], c)
    PROVE  y \in MatchedType /\ LastRun(u, n + 1, y.token)
<1> DEFINE x == [words |-> w, token |-> k]
<1>1. /\ Len(k) \in Nat /\ (k # << >> => Len(k) >= 1)
      /\ x.words = w /\ x.token = k
  OBVIOUS
<1>2. CASE k = << >> \/ (k[1] = " " <=> c = " ")
  <2> HIDE DEF x
  <2>0. PICK a : a = Append(k, c)
    OBVIOUS
  <2>1. y = [words |-> w, token |-> a]
    <3>1. x.token = << >> \/ (C!Blank(x.token) <=> c = " ")
      BY <1>1, <1>2 DEF C!Blank
    <3>2. [x EXCEPT !.token = a] = [words |-> w, token |-> a]
      BY MatchedIs DEF x
    <3>3. y = [x EXCEPT !.token = Append(x.token, c)]
      BY <3>1 DEF C!OneByte, x
    <3>4. QED
      BY <1>1, <2>0, <3>2, <3>3
  <2>2. /\ a \in Seq(Bytes) /\ Len(a) = Len(k) + 1 /\ a[Len(k) + 1] = c
        /\ \A i \in 1..Len(k) : a[i] = k[i]
    BY <1>1, <2>0
  <2>3. y \in MatchedType /\ y.token = a
    BY <2>1, <2>2, MatchedIs DEF MatchedType
  <2>4. \A i \in 1..Len(a) : a[i] = u[(n + 1) - Len(a) + i]
    <3>1. ASSUME NEW i \in 1..Len(a) PROVE a[i] = u[(n + 1) - Len(a) + i]
      <4>1. (n + 1) - Len(a) + i = n - Len(k) + i
        BY <1>1, <2>2
      <4>2. CASE i = Len(k) + 1
        BY <1>1, <2>2, <4>1, <4>2
      <4>3. CASE i # Len(k) + 1
        <5>1. i \in 1..Len(k)
          BY <1>1, <2>2, <4>3
        <5>2. QED
          BY <2>2, <4>1, <5>1 DEF LastRun
      <4>4. QED
        BY <4>2, <4>3
    <3>2. QED
      BY <3>1
  <2>5. Even(a)
    <3>1. CASE k = << >>
      <4>1. Len(a) = 1
        BY <2>2, <3>1
      <4>2. \A i \in 1..Len(a) : i = 1
        BY <4>1
      <4>3. QED
        BY <4>2 DEF Even
    <3>2. CASE k # << >>
      <4>1. a[1] = k[1] /\ Len(k) >= 1
        BY <1>1, <2>2, <3>2
      <4>2. ASSUME NEW i \in 1..Len(a) PROVE a[i] = " " <=> a[1] = " "
        <5>1. CASE i = Len(k) + 1
          BY <1>2, <2>2, <3>2, <4>1, <5>1
        <5>2. CASE i # Len(k) + 1
          <6>1. i \in 1..Len(k)
            BY <1>1, <2>2, <5>2
          <6>2. QED
            BY <2>2, <4>1, <6>1 DEF LastRun, Even
        <5>3. QED
          BY <5>1, <5>2
      <4>3. QED
        BY <4>2 DEF Even
    <3>3. QED
      BY <3>1, <3>2
  <2>6. Len(a) <= n + 1
    <3>1. Len(k) <= n
      BY DEF LastRun
    <3>2. QED
      BY <1>1, <2>2, <3>1
  <2>7. ASSUME Len(a) < n + 1
        PROVE  a # << >> /\ (u[(n + 1) - Len(a)] = " " <=> a[1] # " ")
    <3>1. Len(k) < n /\ (n + 1) - Len(a) = n - Len(k)
      BY <1>1, <2>2, <2>7
    <3>2. k # << >> /\ (u[n - Len(k)] = " " <=> k[1] # " ")
      BY <3>1 DEF LastRun
    <3>3. a[1] = k[1] /\ a # << >>
      <4>1. 1 \in 1..Len(k) /\ Len(a) # 0
        <5>1. Len(k) >= 1
          BY <1>1, <3>2
        <5>2. Len(a) = Len(k) + 1
          BY <2>2
        <5>3. QED
          BY <1>1, <5>1, <5>2
      <4>2. QED
        BY <2>2, <4>1
    <3>4. QED
      BY <3>1, <3>2, <3>3
  <2>8. LastRun(u, n + 1, a)
    BY <2>2, <2>4, <2>5, <2>6, <2>7 DEF LastRun
  <2>9. QED
    BY <2>3, <2>8
<1>3. CASE ~(k = << >> \/ (k[1] = " " <=> c = " "))
  <2>1. y = [words |-> w \o C!Word(k), token |-> <<c>>]
    BY <1>1, <1>3 DEF C!OneByte, C!Blank
  <2>2. C!Word(k) \in Seq(Seq(Bytes))
    <3>1. <<k>> \in Seq(Seq(Bytes)) /\ << >> \in Seq(Seq(Bytes))
      BY <1>1
    <3>2. QED
      BY <3>1 DEF C!Word
  <2>3. w \o C!Word(k) \in Seq(Seq(Bytes)) /\ <<c>> \in Seq(Bytes)
    BY <1>1, <2>2
  <2>4. y \in MatchedType /\ y.token = <<c>>
    <3>1. PICK v \in Seq(Seq(Bytes)), d \in Seq(Bytes) : v = w \o C!Word(k) /\ d = <<c>>
      BY <2>3
    <3>2. y = [words |-> v, token |-> d]
      BY <2>1, <3>1
    <3>3. y \in MatchedType /\ y.token = d
      BY <3>2, MatchedIs DEF MatchedType
    <3>4. QED
      BY <3>1, <3>3
  <2>5. Len(<<c>>) = 1 /\ <<c>>[1] = c /\ <<c>> # << >>
    OBVIOUS
  <2>6. Len(k) >= 1 /\ Len(k) <= n /\ k[Len(k)] = u[n] /\ (k[Len(k)] = " " <=> k[1] = " ")
    <3>0. k # << >>
      BY <1>3
    <3>1. Len(k) >= 1 /\ Len(k) \in 1..Len(k)
      BY <1>1, <3>0
    <3>2. n - Len(k) + Len(k) = n
      BY <1>1
    <3>3. QED
      BY <3>1, <3>2 DEF LastRun, Even
  <2>7. u[n] = " " <=> c # " "
    BY <1>3, <2>6
  <2>8. LastRun(u, n + 1, <<c>>)
    <3>1. (n + 1) - 1 + 1 = n + 1 /\ (n + 1) - 1 = n /\ 1 <= n + 1
      OBVIOUS
    <3>2. \A i \in 1..1 : i = 1
      OBVIOUS
    <3>3. QED
      BY <2>3, <2>5, <2>7, <3>1, <3>2 DEF LastRun, Even
  <2>9. QED
    BY <2>4, <2>8
<1>4. QED
  BY <1>2, <1>3

\* The token is the last one of what has been matched, behind what there was.
LEMMA ScannedRun ==
    ASSUME NEW x \in MatchedType, NEW t \in Seq(Bytes),
           Even(x.token)
    PROVE  /\ C!Scanned(x, t) \in MatchedType
           /\ LastRun(x.token \o t, Len(x.token) + Len(t), C!Scanned(x, t).token)
<1>1. PICK w \in Seq(Seq(Bytes)), k \in Seq(Bytes) : x = [words |-> w, token |-> k]
  BY DEF MatchedType
<1>2. x.token = k /\ Len(k) \in Nat /\ Len(t) \in Nat
  BY <1>1
<1>3. PICK u : u = k \o t
  OBVIOUS
<1>4. /\ \A i \in 1..Len(k) : u[i] = k[i]
      /\ \A i \in 1..Len(t) : u[Len(k) + i] = t[i] /\ t[i] \in Bytes
  BY <1>3
<1>5. PICK f : f = Scan(x, t)
  OBVIOUS
<1>6. C!Scanned(x, t) = f[Len(t)] /\ f[0] = x /\ Goes(f, t, 0, Len(t))
  BY <1>2, <1>5, ScanIs
<1> DEFINE P(m) == f[m] \in MatchedType /\ LastRun(u, Len(k) + m, f[m].token)
           S == {m \in Nat : m <= Len(t) => P(m)}
<1>7. P(0)
  <2>1. Len(k) + 0 = Len(k) /\ \A i \in 1..Len(k) : Len(k) - Len(k) + i = i
    BY <1>2
  <2>2. Even(k)
    BY <1>2
  <2>3. LastRun(u, Len(k), k)
    <3>1. \A i \in 1..Len(k) : k[i] = u[Len(k) - Len(k) + i]
      BY <1>4, <2>1
    <3>2. Len(k) <= Len(k) /\ ~(Len(k) < Len(k))
      BY <1>2
    <3>3. QED
      BY <2>2, <3>1, <3>2 DEF LastRun
  <2>4. QED
    BY <1>2, <1>6, <2>1, <2>3
<1>8. ASSUME NEW m \in Nat, m + 1 <= Len(t), P(m) PROVE P(m + 1)
  <2>1. Len(k) + m \in Nat
    BY <1>2
  <2>2. m + 1 \in 1..Len(t) /\ Len(k) + (m + 1) = (Len(k) + m) + 1
    BY <1>2, <1>8
  <2>3. PICK c \in Bytes : c = t[m + 1] /\ c = u[(Len(k) + m) + 1]
    BY <1>4, <2>2
  <2>4. f[m + 1] = C!OneByte(f[m], c)
    <3>1. f[0 + (m + 1)] = C!OneByte(f[0 + (m + 1) - 1], t[0 + (m + 1)])
      BY <1>6, <2>2 DEF Goes
    <3>2. 0 + (m + 1) = m + 1 /\ 0 + (m + 1) - 1 = m
      OBVIOUS
    <3>3. QED
      BY <2>3, <3>1, <3>2
  <2>5. PICK v \in Seq(Seq(Bytes)), h \in Seq(Bytes) : f[m] = [words |-> v, token |-> h]
    BY <1>8 DEF MatchedType
  <2>6. LastRun(u, Len(k) + m, h)
    <3>1. f[m].token = h
      BY <2>5
    <3>2. QED
      BY <1>8, <3>1
  <2>7. PICK y : y = f[m + 1]
    OBVIOUS
  <2>8. y \in MatchedType /\ LastRun(u, (Len(k) + m) + 1, y.token)
    BY <2>1, <2>3, <2>4, <2>5, <2>6, <2>7, RunNext
  <2>9. QED
    BY <2>2, <2>7, <2>8
<1> HIDE DEF P
<1>9. Len(t) \in S
  <2>1. 0 \in S
    BY <1>7
  <2>2. ASSUME NEW m \in Nat, m \in S PROVE m + 1 \in S
    BY <1>2, <1>8, <2>2
  <2>3. QED
    BY <1>2, <2>1, <2>2, UpFrom0
<1>10. P(Len(t))
  BY <1>2, <1>9
<1>11. QED
  BY <1>1, <1>2, <1>3, <1>6, <1>10 DEF P

-----------------------------------------------------------------------------
\* The arguments with a blank behind each.

Ups(n) ==
    CHOOSE f : f = [i \in 0..n |-> IF i = 0 THEN << >> ELSE f[i - 1] \o args[i] \o <<" ">>]

LEMMA UpsExists ==
    ASSUME NEW n \in Nat
    PROVE  \E f : f = [i \in 0..n |-> IF i = 0 THEN << >> ELSE f[i - 1] \o args[i] \o <<" ">>]
<1> DEFINE V(y, i) == y \o args[i] \o <<" ">>
           S == {m \in Nat : \E f : f = [i \in 0..m |-> IF i = 0 THEN << >> ELSE V(f[i - 1], i)]}
<1> HIDE DEF V
<1>1. 0 \in S
  <2> DEFINE e == [i \in 0..0 |-> << >>]
  <2>1. e = [i \in 0..0 |-> IF i = 0 THEN << >> ELSE V(e[i - 1], i)]
    OBVIOUS
  <2> HIDE DEF e
  <2>2. QED
    BY <2>1
<1>2. ASSUME NEW m \in Nat, m \in S PROVE m + 1 \in S
  <2>1. PICK f : f = [i \in 0..m |-> IF i = 0 THEN << >> ELSE V(f[i - 1], i)]
    BY <1>2
  <2> DEFINE e == [i \in 0..(m + 1) |-> IF i = m + 1 THEN V(f[m], m + 1) ELSE f[i]]
  <2>2. ASSUME NEW i \in 0..(m + 1)
        PROVE  e[i] = IF i = 0 THEN << >> ELSE V(e[i - 1], i)
    <3>1. CASE i = m + 1
      <4>1. i # 0 /\ i - 1 = m /\ m \in 0..(m + 1) /\ m # m + 1
        BY <3>1
      <4>2. e[i - 1] = f[m] /\ e[i] = V(f[m], m + 1)
        BY <3>1, <4>1
      <4>3. QED
        BY <3>1, <4>1, <4>2
    <3>2. CASE i # m + 1
      <4>1. i \in 0..m /\ (i # 0 => i - 1 \in 0..m /\ i - 1 # m + 1 /\ i - 1 \in 0..(m + 1))
        BY <3>2
      <4>2. e[i] = f[i] /\ (i # 0 => e[i - 1] = f[i - 1])
        BY <3>2, <4>1
      <4>3. f[i] = IF i = 0 THEN << >> ELSE V(f[i - 1], i)
        BY <2>1, <4>1
      <4>4. QED
        BY <4>2, <4>3
    <3>3. QED
      BY <3>1, <3>2
  <2>3. e = [i \in 0..(m + 1) |-> IF i = 0 THEN << >> ELSE V(e[i - 1], i)]
    BY <2>2
  <2> HIDE DEF e
  <2>4. QED
    BY <2>3
<1>3. n \in S
  BY <1>1, <1>2, UpFrom0
<1>4. QED
  BY <1>3 DEF V

LEMMA UpsIs ==
    ASSUME NEW n \in Nat
    PROVE  /\ Ups(n)[0] = << >>
           /\ \A i \in 1..n : Ups(n)[i] = Ups(n)[i - 1] \o args[i] \o <<" ">>
<1> DEFINE f == Ups(n)
           V(y, i) == y \o args[i] \o <<" ">>
<1>1. f = [i \in 0..n |-> IF i = 0 THEN << >> ELSE V(f[i - 1], i)]
  BY UpsExists DEF Ups
<1> HIDE DEF f, V
<1>2. f[0] = << >> /\ \A i \in 1..n : f[i] = V(f[i - 1], i)
  BY <1>1
<1>3. QED
  BY <1>2 DEF f, V

LEMMA UpsAlike ==
    ASSUME NEW k \in Nat
    PROVE  \A m, n \in Nat : k <= m /\ k <= n => Ups(m)[k] = Ups(n)[k]
<1> DEFINE S == {j \in Nat : \A m, n \in Nat : j <= m /\ j <= n => Ups(m)[j] = Ups(n)[j]}
<1>1. 0 \in S
  BY UpsIs
<1>2. ASSUME NEW j \in Nat, j \in S PROVE j + 1 \in S
  <2>1. ASSUME NEW m \in Nat, NEW n \in Nat, j + 1 <= m, j + 1 <= n
        PROVE  Ups(m)[j + 1] = Ups(n)[j + 1]
    <3>1. j <= m /\ j <= n /\ j + 1 \in 1..m /\ j + 1 \in 1..n /\ (j + 1) - 1 = j
      BY <2>1
    <3>2. Ups(m)[j] = Ups(n)[j]
      BY <1>2, <3>1
    <3>3. /\ Ups(m)[j + 1] = Ups(m)[j] \o args[j + 1] \o <<" ">>
          /\ Ups(n)[j + 1] = Ups(n)[j] \o args[j + 1] \o <<" ">>
      BY <3>1, UpsIs
    <3>4. QED
      BY <3>2, <3>3
  <2>2. QED
    BY <2>1
<1>3. k \in S
  BY <1>1, <1>2, UpFrom0
<1>4. QED
  BY <1>3

LEMMA JoinedIs ==
    /\ C!Joined(0) = << >>
    /\ \A n \in Nat : C!Joined(n + 1) = C!Joined(n) \o args[n + 1] \o <<" ">>
<1>1. \A n : C!Joined(n) = Ups(n)[n]
  BY DEF C!Joined, Ups
<1>2. C!Joined(0) = << >>
  BY <1>1, UpsIs
<1>3. ASSUME NEW n \in Nat
      PROVE  C!Joined(n + 1) = C!Joined(n) \o args[n + 1] \o <<" ">>
  <2>1. n + 1 \in 1..(n + 1) /\ (n + 1) - 1 = n /\ n <= n + 1 /\ n <= n /\ n + 1 \in Nat
    OBVIOUS
  <2>2. Ups(n + 1)[n + 1] = Ups(n + 1)[n] \o args[n + 1] \o <<" ">>
    BY <2>1, UpsIs
  <2>3. Ups(n + 1)[n] = Ups(n)[n]
    BY <2>1, UpsAlike
  <2>4. QED
    BY <1>1, <2>2, <2>3
<1>4. QED
  BY <1>2, <1>3

Begins(s, t) == Len(s) <= Len(t) /\ \A i \in 1..Len(s) : s[i] = t[i]

LEMMA Concat ==
    ASSUME NEW X, NEW s \in Seq(X), NEW t \in Seq(X)
    PROVE  /\ s \o t \in Seq(X) /\ Len(s) \in Nat /\ Len(t) \in Nat
           /\ Len(s \o t) = Len(s) + Len(t)
           /\ \A i \in 1..Len(s) : (s \o t)[i] = s[i] /\ s[i] \in X
           /\ \A i \in 1..Len(t) : (s \o t)[Len(s) + i] = t[i] /\ t[i] \in X
  OBVIOUS

LEMMA ConcatThree ==
    ASSUME NEW X, NEW s \in Seq(X), NEW t \in Seq(X), NEW u \in Seq(X)
    PROVE  (s \o t) \o u = s \o (t \o u)
  OBVIOUS

LEMMA OneBlank == <<" ">> \in Seq(Bytes) /\ Len(<<" ">>) = 1 /\ <<" ">>[1] = " "
<1>1. " " \in Bytes
  BY DEF Bytes
<1>2. \A A : \A c \in A : <<c>> \in Seq(A) /\ Len(<<c>>) = 1 /\ <<c>>[1] = c
  OBVIOUS
<1>3. QED
  BY <1>1, <1>2

LEMMA BeginsFurther ==
    ASSUME NEW s, NEW t, NEW v, Len(s) \in Nat, Len(t) \in Nat, Len(v) \in Nat,
           Begins(s, t), Begins(t, v)
    PROVE  Begins(s, v)
<1>1. \A i \in 1..Len(s) : i \in 1..Len(t)
  BY DEF Begins
<1>2. QED
  BY <1>1 DEF Begins

LEMMA BeginsBoth ==
    ASSUME NEW s \in Seq(Bytes), NEW t \in Seq(Bytes)
    PROVE  s \o t \in Seq(Bytes) /\ Begins(s, s \o t)
<1>1. /\ s \o t \in Seq(Bytes) /\ Len(s \o t) = Len(s) + Len(t)
      /\ Len(s) \in Nat /\ Len(t) \in Nat
      /\ \A i \in 1..Len(s) : (s \o t)[i] = s[i]
  BY Concat
<1>2. QED
  BY <1>1 DEF Begins

EndsBlank(s) == s # << >> /\ s[Len(s)] = " "

LEMMA LenNat == \A X : \A s \in Seq(X) : Len(s) \in Nat
  OBVIOUS

LEMMA OneBehind ==
    ASSUME NEW X, NEW t \in Seq(X), NEW c \in X, NEW v, v = t \o <<c>>
    PROVE  v \in Seq(X) /\ v # << >> /\ v[Len(v)] = c
  OBVIOUS

LEMMA OneMoreArg ==
    ASSUME NEW s \in Seq(Bytes), NEW a \in Seq(Bytes), NEW v, v = s \o a \o <<" ">>
    PROVE  v \in Seq(Bytes) /\ Begins(s, v) /\ Begins(s \o a, v) /\ EndsBlank(v)
<1>1. PICK t : t = s \o a
  OBVIOUS
<1>2. t \in Seq(Bytes) /\ Begins(s, t)
  BY <1>1, BeginsBoth
<1>3. PICK b : b = <<" ">>
  OBVIOUS
<1>4. b \in Seq(Bytes)
  BY <1>3, OneBlank
<1>5. v = t \o b
  BY <1>1, <1>3
<1>6. v \in Seq(Bytes) /\ Begins(t, v)
  BY <1>2, <1>4, <1>5, BeginsBoth
<1>7. Len(s) \in Nat /\ Len(t) \in Nat /\ Len(v) \in Nat
  BY <1>2, <1>6, LenNat, Zenon
<1>8. Begins(s, v)
  BY <1>2, <1>6, <1>7, BeginsFurther
<1>9. EndsBlank(v)
  <2>1. " " \in Bytes
    BY DEF Bytes
  <2>2. v = t \o <<" ">>
    BY <1>3, <1>5
  <2>3. QED
    BY <1>2, <2>1, <2>2, OneBehind DEF EndsBlank
<1>10. QED
  BY <1>1, <1>6, <1>8, <1>9

JoinedWell(k) ==
    /\ C!Joined(k) \in Seq(Bytes)
    /\ k # 0 => EndsBlank(C!Joined(k))
    /\ \A m \in 0..k : C!Joined(m) \in Seq(Bytes) /\ Begins(C!Joined(m), C!Joined(k))

LEMMA JoinedBegins ==
    ASSUME args \in Seq(Seq(Bytes)), NEW n \in 0..Len(args)
    PROVE  JoinedWell(n)
<1> DEFINE S == {k \in Nat : k <= Len(args) => JoinedWell(k)}
<1>1. Len(args) \in Nat /\ \A i \in Nat : 1 <= i /\ i <= Len(args) => args[i] \in Seq(Bytes)
  OBVIOUS
<1>2. JoinedWell(0)
  <2>1. C!Joined(0) = << >>
    BY JoinedIs
  <2>2. /\ << >> \in Seq(Bytes) /\ Begins(<< >>, << >>) /\ \A m \in 0..0 : m = 0
    BY DEF Begins
  <2>3. QED
    BY <2>1, <2>2 DEF JoinedWell
<1>3. ASSUME NEW k \in Nat, k + 1 <= Len(args), JoinedWell(k) PROVE JoinedWell(k + 1)
  <2>1. PICK s \in Seq(Bytes) : s = C!Joined(k)
    BY <1>3 DEF JoinedWell
  <2>2. PICK a \in Seq(Bytes) : a = args[k + 1]
    <3>1. k + 1 \in Nat /\ 1 <= k + 1 /\ k + 1 <= Len(args)
      BY <1>3
    <3>2. QED
      BY <1>1, <3>1
  <2>3. PICK t : t = C!Joined(k + 1)
    OBVIOUS
  <2>5. t = C!Joined(k) \o args[k + 1] \o <<" ">>
    BY <2>3, JoinedIs
  <2>6. t = s \o a \o <<" ">>
    BY <2>1, <2>2, <2>5
  <2>7. t \in Seq(Bytes) /\ Begins(s, t) /\ EndsBlank(t)
    BY <2>6, OneMoreArg
  <2>8. ASSUME NEW m \in 0..(k + 1)
        PROVE  C!Joined(m) \in Seq(Bytes) /\ Begins(C!Joined(m), t)
    <3>1. CASE m = k + 1
      <4>1. C!Joined(m) = t
        BY <2>3, <3>1
      <4>2. Begins(t, t)
        BY <2>7 DEF Begins
      <4>3. QED
        BY <2>7, <4>1, <4>2
    <3>2. CASE m # k + 1
      <4>1. m \in 0..k
        BY <3>2
      <4>2. C!Joined(m) \in Seq(Bytes) /\ Begins(C!Joined(m), C!Joined(k))
        BY <1>3, <4>1 DEF JoinedWell
      <4>3. PICK d \in Seq(Bytes) : d = C!Joined(m)
        BY <4>2
      <4>4. Begins(d, s)
        BY <2>1, <4>2, <4>3
      <4>5. Len(d) \in Nat /\ Len(s) \in Nat /\ Len(t) \in Nat
        BY <2>1, <2>7, <4>3
      <4>6. Begins(d, t)
        BY <2>7, <4>4, <4>5, BeginsFurther
      <4>7. QED
        BY <4>3, <4>6
    <3>3. QED
      BY <3>1, <3>2
  <2>9. QED
    BY <2>3, <2>7, <2>8 DEF JoinedWell
<1>4. n \in S
  <2>1. 0 \in S
    BY <1>2
  <2>2. \A k \in Nat : k \in S => k + 1 \in S
    <3> SUFFICES ASSUME NEW k \in Nat, k \in S, k + 1 <= Len(args) PROVE JoinedWell(k + 1)
      OBVIOUS
    <3>1. k <= Len(args)
      BY <1>1
    <3>2. QED
      BY <1>3, <3>1
  <2> HIDE DEF S
  <2>3. Nat \subseteq S
    BY <2>1, <2>2, UpFrom0
  <2>4. QED
    BY <1>1, <2>3
<1>5. QED
  BY <1>1, <1>4

-----------------------------------------------------------------------------
\* The buffer: how it grows.

Grow(T) == CHOOSE f : f = [s \in Nat |-> IF s - T - 1 <= 0 THEN f[s * 2] ELSE s]
From(T, m) == {s \in Nat : s >= 1 /\ s + m >= T + 2}

LEMMA GrowExists ==
    ASSUME NEW T \in Nat
    PROVE  \E f : f = [s \in Nat |-> IF s - T - 1 <= 0 THEN f[s * 2] ELSE s]
<1> DEFINE S == {m \in Nat : \E g :
                    g = [s \in From(T, m) |-> IF s - T - 1 <= 0 THEN g[s * 2] ELSE s]}
<1>1. 0 \in S
  <2> DEFINE g == [s \in From(T, 0) |-> s]
  <2>1. \A s \in From(T, 0) : ~(s - T - 1 <= 0)
    BY DEF From
  <2>2. g = [s \in From(T, 0) |-> IF s - T - 1 <= 0 THEN g[s * 2] ELSE s]
    BY <2>1
  <2> HIDE DEF g
  <2>3. QED
    BY <2>2
<1>2. ASSUME NEW m \in Nat, m \in S PROVE m + 1 \in S
  <2>1. PICK g : g = [s \in From(T, m) |-> IF s - T - 1 <= 0 THEN g[s * 2] ELSE s]
    BY <1>2
  <2> DEFINE e == [s \in From(T, m + 1) |-> IF s \in From(T, m) THEN g[s] ELSE g[s * 2]]
  <2>2. ASSUME NEW s \in From(T, m + 1)
        PROVE  e[s] = IF s - T - 1 <= 0 THEN e[s * 2] ELSE s
    <3>1. s \in Nat /\ s * 2 \in Nat /\ s * 2 \in From(T, m) /\ s * 2 \in From(T, m + 1)
      BY DEF From
    <3>2. e[s * 2] = g[s * 2]
      BY <3>1
    <3>3. CASE s \in From(T, m)
      <4>1. e[s] = g[s]
        BY <3>3
      <4>2. g[s] = IF s - T - 1 <= 0 THEN g[s * 2] ELSE s
        BY <2>1, <3>3
      <4>3. QED
        BY <3>2, <4>1, <4>2
    <3>4. CASE s \notin From(T, m)
      <4>1. s - T - 1 <= 0
        BY <3>1, <3>4 DEF From
      <4>2. e[s] = g[s * 2]
        BY <3>4
      <4>3. QED
        BY <3>2, <4>1, <4>2
    <3>5. QED
      BY <3>3, <3>4
  <2>3. e = [s \in From(T, m + 1) |-> IF s - T - 1 <= 0 THEN e[s * 2] ELSE s]
    BY <2>2
  <2> HIDE DEF e
  <2>4. QED
    BY <2>3
<1>3. T + 1 \in S
  BY <1>1, <1>2, UpFrom0
<1>4. PICK g : g = [s \in From(T, T + 1) |-> IF s - T - 1 <= 0 THEN g[s * 2] ELSE s]
  BY <1>3
<1> DEFINE e == [s \in Nat |-> IF s = 0 THEN 0 ELSE g[s]]
<1>5. ASSUME NEW s \in Nat
      PROVE  e[s] = IF s - T - 1 <= 0 THEN e[s * 2] ELSE s
  <2>1. CASE s = 0
    BY <2>1
  <2>2. CASE s # 0
    <3>1. s \in From(T, T + 1) /\ s * 2 \in Nat /\ s * 2 # 0
      BY <2>2 DEF From
    <3>2. e[s] = g[s] /\ e[s * 2] = g[s * 2]
      BY <2>2, <3>1
    <3>3. g[s] = IF s - T - 1 <= 0 THEN g[s * 2] ELSE s
      BY <1>4, <3>1
    <3>4. QED
      BY <3>2, <3>3
  <2>3. QED
    BY <2>1, <2>2
<1>6. e = [s \in Nat |-> IF s - T - 1 <= 0 THEN e[s * 2] ELSE s]
  BY <1>5
<1> HIDE DEF e
<1>7. QED
  BY <1>6

LEMMA GrowIs ==
    ASSUME NEW T \in Nat, NEW s \in Nat \ {0}
    PROVE  /\ Grow(T)[s] \in Nat /\ Grow(T)[s] >= s /\ Grow(T)[s] >= T + 2
           /\ s >= T + 2 => Grow(T)[s] = s
<1> DEFINE f == Grow(T)
           P(r) == f[r] \in Nat /\ f[r] >= r /\ f[r] >= T + 2
           S == {m \in Nat : \A r \in From(T, m) : P(r)}
<1>1. f = [r \in Nat |-> IF r - T - 1 <= 0 THEN f[r * 2] ELSE r]
  BY GrowExists DEF Grow
<1> HIDE DEF f
<1>2. \A r \in Nat : f[r] = IF r - T - 1 <= 0 THEN f[r * 2] ELSE r
  BY <1>1
<1>3. 0 \in S
  BY <1>2 DEF From
<1>4. ASSUME NEW m \in Nat, m \in S PROVE m + 1 \in S
  <2>1. ASSUME NEW r \in From(T, m + 1) PROVE P(r)
    <3>1. CASE r \in From(T, m)
      BY <1>4, <3>1
    <3>2. CASE r \notin From(T, m)
      <4>1. r \in Nat /\ r >= 1 /\ r * 2 \in Nat /\ r - T - 1 <= 0 /\ r * 2 \in From(T, m)
        BY <3>2 DEF From
      <4>2. f[r] = f[r * 2]
        BY <1>2, <4>1
      <4>3. P(r * 2)
        BY <1>4, <4>1
      <4>4. QED
        BY <4>1, <4>2, <4>3
    <3>3. QED
      BY <3>1, <3>2
  <2>2. QED
    BY <2>1
<1>5. T + 1 \in S
  <2> HIDE DEF S
  <2>1. QED
    BY <1>3, <1>4, UpFrom0
<1>6. s \in From(T, T + 1)
  BY DEF From
<1>7. P(s)
  BY <1>5, <1>6
<1>8. s >= T + 2 => f[s] = s
  BY <1>2
<1>9. QED
  BY <1>7, <1>8 DEF f

LEMMA GrownIs ==
    ASSUME Len(token) \in Nat, NEW s \in Nat \ {0}
    PROVE  /\ C!Grown(s) \in Nat /\ C!Grown(s) >= s /\ C!Grown(s) >= Len(token) + 2
           /\ s >= Len(token) + 2 => C!Grown(s) = s
<1>1. PICK T \in Nat : T = Len(token)
  OBVIOUS
<1>2. C!Grown(s) = Grow(T)[s]
  BY <1>1 DEF C!Grown, Grow
<1>3. QED
  BY <1>1, <1>2, GrowIs

-----------------------------------------------------------------------------
\* Runs of blanks and of others.

\* A text has one last token.
LEMMA RunShorter ==
    ASSUME NEW u, NEW n \in Nat, NEW a, NEW b, LastRun(u, n, a), LastRun(u, n, b)
    PROVE  ~(Len(a) < Len(b))
<1>1. SUFFICES ASSUME Len(a) < Len(b) PROVE FALSE
  OBVIOUS
<1>2. a \in Seq(Bytes) /\ b \in Seq(Bytes) /\ Len(b) <= n
  BY DEF LastRun
<1>3. PICK p \in Nat, q \in Nat : p = Len(a) /\ q = Len(b)
  BY <1>2
<1>4. p < q /\ q <= n
  BY <1>1, <1>2, <1>3
<1>5. a # << >> /\ (u[n - Len(a)] = " " <=> a[1] # " ")
  <2>1. Len(a) < n
    BY <1>3, <1>4
  <2>2. QED
    BY <2>1 DEF LastRun
<1>6. p >= 1
  <2>1. a # << >>
    BY <1>5
  <2>2. QED
    BY <1>2, <1>3, <2>1
<1>7. /\ q - p \in 1..q /\ q - p + 1 \in 1..q /\ 1 \in 1..p
      /\ n - q + (q - p) = n - p /\ n - q + (q - p + 1) = n - p + 1
  BY <1>4, <1>6
<1>8. b[q - p] = u[n - p] /\ b[q - p + 1] = u[n - p + 1]
  <2>1. \A i \in 1..q : b[i] = u[n - q + i]
    BY <1>3 DEF LastRun
  <2>2. b[q - p] = u[n - q + (q - p)] /\ b[q - p + 1] = u[n - q + (q - p + 1)]
    BY <1>7, <2>1
  <2>3. QED
    BY <1>7, <2>2
<1>9. a[1] = u[n - p + 1]
  BY <1>3, <1>7 DEF LastRun
<1>10. b[q - p] = " " <=> b[q - p + 1] = " "
  BY <1>3, <1>7 DEF LastRun, Even
<1>11. QED
  BY <1>3, <1>5, <1>8, <1>9, <1>10

LEMMA SameSeq ==
    ASSUME NEW X, NEW a \in Seq(X), NEW b \in Seq(X), Len(a) = Len(b),
           \A i \in 1..Len(a) : a[i] = b[i]
    PROVE  a = b
  OBVIOUS

LEMMA RunUnique ==
    ASSUME NEW u, NEW n \in Nat, NEW a, NEW b, LastRun(u, n, a), LastRun(u, n, b)
    PROVE  a = b
<1>1. a \in Seq(Bytes) /\ b \in Seq(Bytes)
  BY DEF LastRun
<1>2. ~(Len(a) < Len(b)) /\ ~(Len(b) < Len(a))
  BY RunShorter
<1>3. Len(a) = Len(b)
  BY <1>1, <1>2
<1>4. \A i \in 1..Len(a) : a[i] = u[n - Len(a) + i]
  BY DEF LastRun
<1>5. \A i \in 1..Len(a) : b[i] = u[n - Len(a) + i]
  BY <1>3 DEF LastRun
<1>6. QED
  BY <1>1, <1>3, <1>4, <1>5, SameSeq

\* What ends a token, and is as long, is all blank or all not.
LEMMA TailEven ==
    ASSUME NEW s \in Seq(Bytes), NEW p \in Seq(Bytes), NEW tok,
           LastRun(s \o p, Len(s) + Len(p), tok), Len(tok) >= Len(p)
    PROVE  Even(p)
<1>1. PICK u : u = s \o p
  OBVIOUS
<1>2. PICK m \in Nat, n \in Nat, k \in Nat : m = Len(s) /\ n = Len(p) /\ k = Len(tok)
  <2>1. tok \in Seq(Bytes)
    BY DEF LastRun
  <2>2. Len(s) \in Nat /\ Len(p) \in Nat /\ Len(tok) \in Nat
    BY <2>1, LenNat
  <2>3. QED
    BY <2>2
<1>3. \A i \in 1..n : u[m + i] = p[i]
  BY <1>1, <1>2
<1>4. \A i \in 1..k : tok[i] = u[(m + n) - k + i]
  BY <1>1, <1>2 DEF LastRun
<1>5. n <= k
  BY <1>2
<1>6. ASSUME NEW i \in 1..n PROVE (k - n) + i \in 1..k /\ tok[(k - n) + i] = p[i]
  <2>1. (k - n) + i \in 1..k /\ (m + n) - k + ((k - n) + i) = m + i
    BY <1>5
  <2>2. QED
    BY <1>3, <1>4, <2>1
<1>7. \A j \in 1..k : tok[j] = " " <=> tok[1] = " "
  BY <1>2 DEF LastRun, Even
<1>8. ASSUME NEW i \in 1..n PROVE p[i] = " " <=> p[1] = " "
  <2>1. 1 \in 1..n
    BY <1>8
  <2>2. QED
    BY <1>6, <1>7, <2>1
<1>9. QED
  BY <1>2, <1>8 DEF Even

\* The whole of a text of one token.
LEMMA WholeRun ==
    ASSUME NEW p \in Seq(Bytes), Even(p)
    PROVE  LastRun(p, Len(p), p)
<1>1. Len(p) \in Nat
  OBVIOUS
<1>2. \A i \in 1..Len(p) : Len(p) - Len(p) + i = i
  BY <1>1
<1>3. \A i \in 1..Len(p) : p[i] = p[Len(p) - Len(p) + i]
  BY <1>2
<1>4. Len(p) <= Len(p) /\ ~(Len(p) < Len(p))
  BY <1>1
<1>5. QED
  BY <1>3, <1>4 DEF LastRun

LEMMA EvenTwice ==
    ASSUME NEW p \in Seq(Bytes), Even(p)
    PROVE  Even(p \o p)
<1>1. PICK q : q = p \o p
  OBVIOUS
<1>2. PICK n \in Nat : n = Len(p)
  OBVIOUS
<1>3. Len(q) = n + n /\ \A i \in 1..n : q[i] = p[i] /\ q[n + i] = p[i]
  BY <1>1, <1>2
<1>4. \A i \in 1..n : p[i] = " " <=> p[1] = " "
  BY <1>2 DEF Even
<1>5. ASSUME NEW i \in 1..(n + n) PROVE q[i] = " " <=> q[1] = " "
  <2>1. 1 \in 1..n
    BY <1>5
  <2>2. CASE i \in 1..n
    BY <1>3, <1>4, <2>1, <2>2
  <2>3. CASE i \notin 1..n
    <3>1. i - n \in 1..n /\ n + (i - n) = i
      BY <2>3
    <3>2. q[i] = p[i - n]
      BY <1>3, <3>1
    <3>3. QED
      BY <1>3, <1>4, <2>1, <3>1, <3>2
  <2>4. QED
    BY <2>2, <2>3
<1>6. QED
  BY <1>1, <1>3, <1>5 DEF Even

-----------------------------------------------------------------------------
\* What is read when no run of blanks takes the room of a read.

Blankless(u) == \A i \in 1..(Len(u) - Room + 1) : \E j \in i..(i + Room - 1) : u[j] # " "

UpTo == IF C!FirstLong > Len(args) THEN C!Joined(Len(args))
        ELSE C!Joined(C!FirstLong - 1) \o args[C!FirstLong]

BlankAt(s, i) == s[i] = " "

LEMMA FewBlanksIs == C!FewBlanks => Blankless(UpTo)
  BY DEF C!FewBlanks, Blankless, UpTo, Room

LEMMA FirstLongIs ==
    ASSUME args \in Seq(Seq(Bytes))
    PROVE  /\ C!FirstLong \in 1..(Len(args) + 1)
           /\ \A i \in 1..Len(args) : i < C!FirstLong => ~(Len(args[i]) >= Room)
           /\ C!FirstLong <= Len(args) => Len(args[C!FirstLong]) >= Room
<1> DEFINE long == {i \in 1..Len(args) : Len(args[i]) >= Room}
           F == C!FirstLong
<1>1. Len(args) \in Nat /\ DOMAIN args = 1..Len(args)
  OBVIOUS
<1>2. F = IF long = {} THEN Len(args) + 1 ELSE CHOOSE i \in long : \A j \in long : i <= j
  BY <1>1 DEF C!FirstLong, C!Long, Room
<1>3. CASE long = {}
  <2>1. F = Len(args) + 1
    BY <1>2, <1>3
  <2>2. QED
    BY <1>1, <1>3, <2>1, SMTT(60)
<1>4. CASE long # {}
  <2>1. long \subseteq Nat
    BY <1>1
  <2>2. \E i \in long : \A j \in long : i <= j
    BY <1>4, <2>1, Smallest
  <2>3. F \in long /\ \A j \in long : F <= j
    BY <1>2, <1>4, <2>2
  <2>4. F \in 1..Len(args) /\ Len(args[F]) >= Room
    BY <2>3
  <2>5. \A i \in 1..Len(args) : i < F => i \notin long
    BY <1>1, <2>3, <2>4
  <2>6. QED
    BY <1>1, <2>4, <2>5
<1>5. QED
  BY <1>3, <1>4

StartsBlank(s) == s = << >> \/ s[1] = " "

LEMMA NoRoomful ==
    ASSUME Room \in Nat \ {0}, NEW u \in Seq(Bytes), NEW s \in Seq(Bytes), Begins(s, u),
           Blankless(u), NEW tok, LastRun(s, Len(s), tok), StartsBlank(tok)
    PROVE  Len(tok) < Room
<1>1. SUFFICES ASSUME ~(Len(tok) < Room) PROVE FALSE
  OBVIOUS
<1>2. tok \in Seq(Bytes) /\ Len(tok) <= Len(s)
  BY DEF LastRun
<1>3. PICK k \in Nat, m \in Nat, n \in Nat, r \in Nat :
        k = Len(tok) /\ m = Len(s) /\ n = Len(u) /\ r = Room
  <2>1. Len(tok) \in Nat /\ Len(s) \in Nat /\ Len(u) \in Nat
    BY <1>2, LenNat
  <2>2. QED
    BY <2>1
<1>4. 1 <= r /\ r <= k /\ k <= m /\ m <= n
  <2>1. m <= n
    BY <1>3 DEF Begins
  <2>2. QED
    BY <1>1, <1>2, <1>3, <2>1
<1>5. m - r + 1 \in 1..(n - r + 1)
  BY <1>4
<1>6. PICK j \in (m - r + 1)..(m - r + 1 + r - 1) : ~BlankAt(u, j)
  BY <1>3, <1>5 DEF Blankless, BlankAt
<1>7. j \in 1..m /\ j - m + k \in 1..k /\ m - k + (j - m + k) = j
  BY <1>4, <1>6
<1>8. s[j] = u[j]
  BY <1>3, <1>7 DEF Begins
<1>9. tok[j - m + k] = s[j]
  <2>1. \A i \in 1..k : tok[i] = s[m - k + i]
    BY <1>3 DEF LastRun
  <2>2. tok[j - m + k] = s[m - k + (j - m + k)]
    BY <1>7, <2>1
  <2>3. QED
    BY <1>7, <2>2
<1>10. tok # << >>
  BY <1>2, <1>3, <1>4
<1>11. tok[j - m + k] = " "
  BY <1>3, <1>7, <1>10 DEF LastRun, Even, StartsBlank
<1>12. QED
  BY <1>6, <1>8, <1>9, <1>11 DEF BlankAt

LEMMA NoBlanksBehind ==
    ASSUME Room \in Nat \ {0}, NEW u \in Seq(Bytes), NEW s \in Seq(Bytes),
           NEW p \in Seq(Bytes), Begins(s \o p, u), Blankless(u), EndsBlank(s),
           Even(p), p # << >>, Len(p) = Room - 1
    PROVE  ~StartsBlank(p)
<1>1. SUFFICES ASSUME StartsBlank(p) PROVE FALSE
  OBVIOUS
<1>2. PICK m \in Nat, n \in Nat, r \in Nat : m = Len(s) /\ n = Len(u) /\ r = Room
  <2>1. Len(s) \in Nat /\ Len(u) \in Nat
    BY LenNat
  <2>2. QED
    BY <2>1
<1>3. PICK t : t = s \o p
  OBVIOUS
<1>4. /\ t \in Seq(Bytes) /\ Len(t) = m + (r - 1)
      /\ \A i \in 1..m : t[i] = s[i]
      /\ \A i \in 1..(r - 1) : t[m + i] = p[i]
  <2>1. t \in Seq(Bytes) /\ Len(t) = Len(s) + Len(p)
    BY <1>3, Concat
  <2>2. \A i \in 1..Len(s) : t[i] = s[i]
    BY <1>3, Concat
  <2>3. \A i \in 1..Len(p) : t[Len(s) + i] = p[i]
    BY <1>3, Concat
  <2>4. Len(p) = r - 1
    BY <1>2
  <2>5. QED
    BY <1>2, <2>1, <2>2, <2>3, <2>4
<1>5. m + (r - 1) <= n /\ \A i \in 1..(m + (r - 1)) : t[i] = u[i]
  BY <1>2, <1>3, <1>4 DEF Begins
<1>6. m >= 1 /\ BlankAt(s, m)
  <2>1. s # << >> /\ BlankAt(s, m)
    BY <1>2 DEF EndsBlank, BlankAt
  <2>2. m >= 1
    BY <1>2, <2>1
  <2>3. QED
    BY <2>1, <2>2
<1>7. m \in 1..(n - r + 1)
  BY <1>5, <1>6
<1>8. PICK j \in m..(m + r - 1) : ~BlankAt(u, j)
  BY <1>2, <1>7 DEF Blankless, BlankAt
<1>9. j \in 1..(m + (r - 1))
  BY <1>6, <1>8
<1>10. BlankAt(t, j)
  <2>1. CASE j = m
    <3>1. m \in 1..m
      BY <1>6
    <3>2. QED
      BY <1>4, <1>6, <2>1, <3>1 DEF BlankAt
  <2>2. CASE j # m
    <3>1. j - m \in 1..(r - 1) /\ m + (j - m) = j
      BY <1>8, <2>2
    <3>2. t[j] = p[j - m]
      BY <1>4, <3>1
    <3>3. p[j - m] = " "
      BY <1>1, <1>2, <3>1 DEF Even, StartsBlank
    <3>4. QED
      BY <3>2, <3>3 DEF BlankAt
  <2>3. QED
    BY <2>1, <2>2
<1>11. QED
  BY <1>5, <1>8, <1>9, <1>10 DEF BlankAt

LEMMA BeginsBehind ==
    ASSUME NEW s \in Seq(Bytes), NEW p \in Seq(Bytes), NEW a \in Seq(Bytes), Begins(p, a)
    PROVE  s \o a \in Seq(Bytes) /\ Begins(s \o p, s \o a)
<1>1. PICK t, v : t = s \o p /\ v = s \o a
  OBVIOUS
<1>2. PICK m \in Nat, n \in Nat, k \in Nat : m = Len(s) /\ n = Len(p) /\ k = Len(a)
  <2>1. Len(s) \in Nat /\ Len(p) \in Nat /\ Len(a) \in Nat
    BY LenNat
  <2>2. QED
    BY <2>1
<1>3. /\ Len(t) = m + n /\ Len(v) = m + k
      /\ \A i \in 1..m : t[i] = s[i] /\ v[i] = s[i]
      /\ \A i \in 1..n : t[m + i] = p[i]
      /\ \A i \in 1..k : v[m + i] = a[i]
  BY <1>1, <1>2, Concat
<1>4. n <= k /\ \A i \in 1..n : p[i] = a[i]
  BY <1>2 DEF Begins
<1>5. ASSUME NEW i \in 1..(m + n) PROVE t[i] = v[i]
  <2>1. CASE i <= m
    BY <1>3, <2>1
  <2>2. CASE ~(i <= m)
    <3>1. i - m \in 1..n /\ i - m \in 1..k /\ m + (i - m) = i
      BY <1>4, <2>2
    <3>2. QED
      BY <1>3, <1>4, <3>1, ZenonT(60)
  <2>3. QED
    BY <2>1, <2>2
<1>6. v \in Seq(Bytes)
  BY <1>1, Concat
<1>7. QED
  BY <1>1, <1>3, <1>4, <1>5, <1>6 DEF Begins

LEMMA UpToIs ==
    ASSUME args \in Seq(Seq(Bytes))
    PROVE  /\ UpTo \in Seq(Bytes)
           /\ \A n \in 0..(C!FirstLong - 1) : C!Joined(n) \in Seq(Bytes) /\ Begins(C!Joined(n), UpTo)
           /\ C!FirstLong <= Len(args) =>
                \A p \in Seq(Bytes) : Begins(p, args[C!FirstLong]) =>
                    Begins(C!Joined(C!FirstLong - 1) \o p, UpTo)
<1>1. PICK F \in Nat, n \in Nat : F = C!FirstLong /\ n = Len(args) /\ F - 1 \in 0..n
  <2>1. Len(args) \in Nat
    BY LenNat
  <2>2. QED
    BY <2>1, FirstLongIs
<1>2. JoinedWell(F - 1) /\ F - 1 \in Nat
  <2>1. F - 1 \in 0..Len(args)
    BY <1>1
  <2>2. QED
    BY <2>1, JoinedBegins
<1>3. PICK s \in Seq(Bytes) : s = C!Joined(F - 1)
  BY <1>2 DEF JoinedWell
<1>4. \A m \in 0..(F - 1) : C!Joined(m) \in Seq(Bytes) /\ Begins(C!Joined(m), s)
  BY <1>2, <1>3 DEF JoinedWell
<1>5. CASE F > n
  <2>1. F - 1 = n
    BY <1>1, <1>5
  <2>2. UpTo = s
    BY <1>1, <1>3, <1>5, <2>1 DEF UpTo
  <2>3. QED
    BY <1>1, <1>4, <1>5, <2>2
<1>6. CASE ~(F > n)
  <2>1. F \in 1..n
    BY <1>1, <1>6
  <2>2. PICK a \in Seq(Bytes) : a = args[F]
    BY <1>1, <2>1
  <2>3. UpTo = s \o a
    BY <1>1, <1>3, <1>6, <2>2 DEF UpTo
  <2>4. PICK v \in Seq(Bytes) : v = s \o a /\ Begins(s, v)
    BY BeginsBoth
  <2>5. ASSUME NEW m \in 0..(F - 1) PROVE C!Joined(m) \in Seq(Bytes) /\ Begins(C!Joined(m), v)
    <3>1. PICK d \in Seq(Bytes) : d = C!Joined(m) /\ Begins(d, s)
      BY <1>4
    <3>2. Len(d) \in Nat /\ Len(s) \in Nat /\ Len(v) \in Nat
      BY <1>3, <2>4, <3>1, LenNat
    <3>3. Begins(d, v)
      BY <2>4, <3>1, <3>2, BeginsFurther
    <3>4. QED
      BY <3>1, <3>3
  <2>6. ASSUME NEW p \in Seq(Bytes), Begins(p, a) PROVE Begins(s \o p, v)
    BY <1>3, <2>2, <2>4, <2>6, BeginsBehind
  <2>7. QED
    BY <1>1, <1>3, <2>2, <2>3, <2>4, <2>5, <2>6
<1>7. QED
  BY <1>5, <1>6

-----------------------------------------------------------------------------
\* What myinput copies.

LEMMA RoomIs ==
    ASSUME Room \in Nat \ {0}, token \in Seq(Bytes), buf_size \in Nat, buf_size >= 2 * Room
    PROVE  /\ C!Grown(buf_size) \in Nat /\ C!Grown(buf_size) >= 2 * Room
           /\ C!max \in 1..Room /\ Len(token) + C!max < C!Grown(buf_size)
           /\ buf_size = 2 * Room /\ Len(token) < Room =>
                C!Grown(buf_size) = 2 * Room /\ C!max = Room
           /\ buf_size = 2 * Room /\ Len(token) + 2 = 2 * Room => C!max = 1
<1>1. PICK k \in Nat, b \in Nat \ {0}, r \in Nat \ {0} : k = Len(token) /\ b = buf_size /\ r = Room
  BY LenNat
<1>2. PICK g : g = C!Grown(b)
  OBVIOUS
<1>3. g \in Nat /\ g >= b /\ g >= k + 2 /\ (b >= k + 2 => g = b)
  BY <1>1, <1>2, GrownIs
<1>4. C!max = IF g - k - 1 < r THEN g - k - 1 ELSE r
  BY <1>1, <1>2 DEF C!max, C!Smaller, Room
<1>5. b >= 2 * r
  BY <1>1
<1>6. PICK m : m = C!max
  OBVIOUS
<1>7. m \in 1..r /\ k + m < g
  BY <1>3, <1>4, <1>6
<1>8. b = 2 * r /\ k < r => g = 2 * r /\ m = r
  BY <1>3, <1>4, <1>6
<1>9. b = 2 * r /\ k + 2 = 2 * r => m = 1
  BY <1>3, <1>4, <1>6
<1>10. QED
  BY <1>1, <1>2, <1>3, <1>5, <1>6, <1>7, <1>8, <1>9

LEMMA PartIs ==
    ASSUME NEW X, NEW a \in Seq(X), NEW k \in 0..Len(a)
    PROVE  /\ SubSeq(a, 1, k) \in Seq(X) /\ Len(SubSeq(a, 1, k)) = k
           /\ \A i \in 1..k : SubSeq(a, 1, k)[i] = a[i]
  OBVIOUS

LEMMA WholeIs ==
    ASSUME NEW X, NEW a \in Seq(X)
    PROVE  SubSeq(a, 1, Len(a)) = a /\ a \o << >> = a
  OBVIOUS

LEMMA CopiedIs ==
    ASSUME Room \in Nat \ {0}, NEW a \in Seq(Bytes), a = args[arg], offset = 0,
           C!max \in 1..Room
    PROVE  /\ Len(a) < C!max => C!Copied = a \o <<" ">> /\ C!NextArg(C!copylen)
           /\ ~(Len(a) < C!max) => C!Copied = SubSeq(a, 1, C!max - 1) /\ ~C!NextArg(C!copylen)
<1>1. PICK n \in Nat, m \in Nat : n = Len(a) /\ m = C!max /\ m >= 1
  BY LenNat
<1>2. C!copylen = IF n >= m THEN m - 1 ELSE n
  <2>1. C!len = n
    BY <1>1 DEF C!len
  <2>2. QED
    BY <1>1, <2>1 DEF C!copylen
<1>3. PICK l \in 0..n : l = C!copylen /\ (n < m => l = n) /\ (~(n < m) => l = m - 1 /\ l # n)
  BY <1>1, <1>2
<1>4. C!NextArg(C!copylen) <=> l = n
  <2>1. 0 + l = l
    BY <1>3
  <2>2. QED
    BY <1>1, <1>3, <2>1 DEF C!NextArg
<1>5. C!Copied = SubSeq(a, 1, l) \o IF l = n THEN <<" ">> ELSE << >>
  <2>1. 0 + l = l /\ 0 + 1 = 1
    BY <1>3
  <2>2. QED
    BY <1>1, <1>3, <2>1 DEF C!Copied
<1>6. SubSeq(a, 1, l) \in Seq(Bytes)
  BY <1>1, <1>3, PartIs
<1>7. CASE n < m
  <2>1. l = n
    BY <1>3, <1>7
  <2>2. SubSeq(a, 1, l) = a
    BY <1>1, <2>1, WholeIs
  <2>3. C!Copied = a \o <<" ">>
    BY <1>5, <2>1, <2>2
  <2>4. QED
    BY <1>1, <1>4, <1>7, <2>1, <2>3
<1>8. CASE ~(n < m)
  <2>1. l = m - 1 /\ l # n
    BY <1>3, <1>8
  <2>2. SubSeq(a, 1, l) \o << >> = SubSeq(a, 1, l)
    BY <1>6, WholeIs
  <2>3. C!Copied = SubSeq(a, 1, l)
    BY <1>5, <2>1, <2>2
  <2>4. QED
    BY <1>1, <1>4, <1>8, <2>1, <2>3
<1>9. QED
  BY <1>7, <1>8

LEMMA CopiedTyped ==
    ASSUME Room \in Nat \ {0}, NEW a \in Seq(Bytes), a = args[arg], offset = 0,
           C!max \in 1..Room
    PROVE  C!Copied \in Seq(Bytes) /\ Len(C!Copied) <= C!max
<1>0. PICK c : c = C!Copied
  OBVIOUS
<1>1. PICK n \in Nat, m \in Nat : n = Len(a) /\ m = C!max /\ m >= 1 /\ c = C!Copied
  BY <1>0, LenNat
<1>2. CASE n < m
  <2>1. c = a \o <<" ">>
    BY <1>1, <1>2, CopiedIs
  <2>2. PICK b \in Seq(Bytes) : b = <<" ">> /\ Len(b) = 1
    BY OneBlank
  <2>3. c = a \o b
    BY <2>1, <2>2
  <2>4. c \in Seq(Bytes) /\ Len(c) = Len(a) + Len(b)
    BY <2>3, Concat
  <2>5. Len(b) = 1
    BY <2>2
  <2>6. QED
    BY <1>1, <1>2, <2>4, <2>5
<1>3. CASE ~(n < m)
  <2>1. c = SubSeq(a, 1, m - 1)
    BY <1>1, <1>3, CopiedIs
  <2>2. m - 1 \in 0..Len(a)
    BY <1>1, <1>3
  <2>3. c \in Seq(Bytes) /\ Len(c) = m - 1
    BY <2>1, <2>2, PartIs
  <2>4. QED
    BY <1>1, <2>3
<1>4. QED
  BY <1>2, <1>3

-----------------------------------------------------------------------------
\* S has been matched.  The arguments before the first long one are read as
\* they are; of that one the first bytes are read, read again, and what comes
\* then is taken for the end, unless they end a token: then again and again.

FL == C!FirstLong
Front == C!Joined(FL - 1)
Piece == C!Prefix(args[FL])

Clean(S, n) == n <= FL /\ S = C!Joined(n - 1)
Once(S, n, t) == n = FL /\ Room > 1 /\ Even(Piece) /\ S = Front \o Piece /\ t = Piece
Twice(S, n, t) == n = FL /\ Room > 1 /\ Even(Piece) /\ S = (Front \o Piece) \o Piece /\ t = Piece \o Piece
Ever(n, t) == n = FL /\ ~Even(Piece) /\ Len(t) + 2 <= Room

Where(S, n, b, t) ==
    /\ b = 2 * Room
    /\ Clean(S, n) \/ (FL <= Len(args) /\ (Once(S, n, t) \/ Twice(S, n, t) \/ Ever(n, t)))

Matched(S, n, b, w, t) ==
    /\ C!Scanned(Nothing, S) = [words |-> w, token |-> t]
    /\ C!FewBlanks => Where(S, n, b, t)

WTypes ==
    /\ args \in Seq(Seq(Bytes)) /\ arg \in 1..(Len(args) + 1) /\ offset = 0
    /\ buf_size \in Nat /\ buf_size >= 2 * Room
    /\ words \in Seq(Seq(Bytes)) /\ token \in Seq(Bytes) /\ Even(token)
    /\ Len(token) < buf_size
    /\ scan \in {"scan", "end"}

WInv ==
    /\ WTypes
    /\ scan = "scan" => \E S \in Seq(Bytes) : Matched(S, arg, buf_size, words, token)
    /\ C!WordsRight

LEMMA AssumeRoom == C!CmdInputAssumption => Room \in Nat \ {0}
  BY DEF C!CmdInputAssumption, Room

LEMMA NothingIs ==
    /\ Nothing \in MatchedType /\ Nothing.token = << >> /\ Nothing.words = << >>
    /\ C!Scanned(Nothing, << >>) = Nothing /\ Even(<< >>)
<1>1. << >> \in Seq(Bytes) /\ << >> \in Seq(Seq(Bytes)) /\ Len(<< >>) = 0
  OBVIOUS
<1>2. Nothing \in MatchedType /\ Nothing.token = << >> /\ Nothing.words = << >>
  BY <1>1 DEF Nothing, MatchedType
<1>3. C!Scanned(Nothing, << >>) = Nothing
  BY <1>1, ScanIs
<1>4. Even(<< >>)
  <2>1. \A i \in 1..Len(<< >>) : FALSE
    BY <1>1
  <2>2. QED
    BY <2>1 DEF Even
<1>5. QED
  BY <1>2, <1>3, <1>4

LEMMA WInit == C!CmdInputAssumption /\ C!Init => WInv
<1> SUFFICES ASSUME C!CmdInputAssumption, C!Init PROVE WInv
  OBVIOUS
<1>1. Room \in Nat \ {0}
  BY AssumeRoom
<1>2. args \in Seq(Seq(Bytes))
  <2>1. args \in C!Tuples(C!Tuples(Bytes, MaxLength), MaxArgs)
    BY DEF C!Init, Bytes
  <2>2. \A X, n : C!Tuples(X, n) \subseteq Seq(X)
    <3>1. ASSUME NEW X, NEW n, NEW t \in C!Tuples(X, n) PROVE t \in Seq(X)
      <4>1. PICK k \in 0..n : t \in [1..k -> X]
        BY DEF C!Tuples
      <4>2. QED
        BY <4>1
    <3>2. QED
      BY <3>1
  <2>3. \A X, Y : X \subseteq Y => Seq(X) \subseteq Seq(Y)
    OBVIOUS
  <2>4. QED
    BY <2>1, <2>2, <2>3
<1>3. /\ arg = 1 /\ offset = 0 /\ buf_size = 2 * Room /\ token = << >> /\ words = << >>
      /\ scan = "scan"
  BY DEF C!Init, Room
<1>4. WTypes
  <2>1. Len(args) \in Nat
    BY <1>2, LenNat
  <2>2. /\ << >> \in Seq(Bytes) /\ << >> \in Seq(Seq(Bytes)) /\ Len(<< >>) = 0
        /\ 2 * Room \in Nat /\ 0 < 2 * Room
    BY <1>1
  <2>3. QED
    BY <1>2, <1>3, <2>1, <2>2, NothingIs DEF WTypes
<1>5. Matched(<< >>, arg, buf_size, words, token)
  <2>1. C!Scanned(Nothing, << >>) = [words |-> words, token |-> token]
    BY <1>3, NothingIs DEF Nothing
  <2>2. 1 <= FL /\ C!Joined(1 - 1) = << >>
    <3>1. FL \in Nat /\ 1 <= FL
      BY <1>2, FirstLongIs, LenNat DEF FL
    <3>2. 1 - 1 = 0
      OBVIOUS
    <3>3. C!Joined(0) = << >>
      BY JoinedIs
    <3>4. QED
      BY <3>1, <3>2, <3>3
  <2>3. QED
    BY <1>3, <2>1, <2>2 DEF Matched, Where, Clean
<1>6. C!WordsRight
  BY <1>3 DEF C!WordsRight
<1>7. << >> \in Seq(Bytes)
  OBVIOUS
<1>8. QED
  BY <1>4, <1>5, <1>6, <1>7 DEF WInv

LEMMA PieceIs ==
    ASSUME Room \in Nat \ {0}, args \in Seq(Seq(Bytes)), FL <= Len(args)
    PROVE  /\ FL \in 1..Len(args) /\ args[FL] \in Seq(Bytes) /\ Len(args[FL]) >= Room
           /\ Piece = SubSeq(args[FL], 1, Room - 1)
           /\ Piece \in Seq(Bytes) /\ Len(Piece) = Room - 1 /\ Begins(Piece, args[FL])
<1>1. FL \in 1..Len(args) /\ Len(args[FL]) >= Room
  BY FirstLongIs, LenNat DEF FL
<1>2. PICK a \in Seq(Bytes) : a = args[FL]
  BY <1>1
<1>3. Piece = SubSeq(a, 1, Room - 1)
  BY <1>2 DEF Piece, C!Prefix, Room
<1>4. Room - 1 \in 0..Len(a) /\ Len(a) \in Nat
  BY <1>1, <1>2, LenNat
<1>5. /\ Piece \in Seq(Bytes) /\ Len(Piece) = Room - 1
      /\ \A i \in 1..(Room - 1) : Piece[i] = a[i]
  BY <1>3, <1>4, PartIs
<1>6. Begins(Piece, a)
  BY <1>4, <1>5 DEF Begins
<1>7. QED
  BY <1>1, <1>2, <1>3, <1>5, <1>6

\* What has been matched is nothing, or ends with a blank.
LEMMA CleanIs ==
    ASSUME Room \in Nat \ {0}, args \in Seq(Seq(Bytes)),
           NEW n \in 1..(Len(args) + 1), NEW S, Clean(S, n), Blankless(UpTo)
    PROVE  /\ S \in Seq(Bytes) /\ Begins(S, UpTo) /\ (n # 1 => EndsBlank(S))
           /\ n = 1 => S = << >>
           /\ \A tok : LastRun(S, Len(S), tok) => Len(tok) < Room
<1>1. S = C!Joined(n - 1) /\ n <= FL /\ n - 1 \in 0..Len(args) /\ n - 1 \in 0..(FL - 1)
  <2>1. Len(args) \in Nat /\ FL \in Nat
    BY FirstLongIs, LenNat DEF FL
  <2>2. QED
    BY <2>1 DEF Clean
<1>2. JoinedWell(n - 1)
  BY <1>1, JoinedBegins
<1>3. S \in Seq(Bytes) /\ (n # 1 => EndsBlank(S))
  BY <1>1, <1>2 DEF JoinedWell
<1>4. n = 1 => S = << >>
  <2>1. n = 1 => n - 1 = 0
    OBVIOUS
  <2>2. C!Joined(0) = << >>
    BY JoinedIs
  <2>3. QED
    BY <1>1, <2>1, <2>2
<1>5. UpTo \in Seq(Bytes) /\ Begins(S, UpTo)
  BY <1>1, UpToIs DEF FL
<1>6. ASSUME NEW tok, LastRun(S, Len(S), tok) PROVE Len(tok) < Room
  <2>1. tok \in Seq(Bytes) /\ Len(tok) <= Len(S)
    BY <1>6 DEF LastRun
  <2>2. StartsBlank(tok)
    <3>1. SUFFICES ASSUME tok # << >> PROVE tok[1] = " "
      BY DEF StartsBlank
    <3>2. PICK k \in Nat, m \in Nat : k = Len(tok) /\ m = Len(S)
      BY <1>3, <2>1, LenNat
    <3>3. k >= 1 /\ k \in 1..k /\ k <= m
      BY <2>1, <3>1, <3>2
    <3>4. EndsBlank(S)
      <4>1. S # << >>
        BY <3>2, <3>3
      <4>2. QED
        BY <1>3, <1>4, <4>1
    <3>5. m - k + k = m
      OBVIOUS
    <3>6. tok[k] = S[m]
      BY <1>6, <3>2, <3>3, <3>5 DEF LastRun
    <3>7. tok[k] = " " <=> tok[1] = " "
      BY <1>6, <3>2, <3>3 DEF LastRun, Even
    <3>8. QED
      BY <3>2, <3>4, <3>6, <3>7 DEF EndsBlank
  <2>3. QED
    BY <1>3, <1>5, <1>6, <2>2, NoRoomful
<1>7. QED
  BY <1>3, <1>4, <1>5, <1>6

LEMMA AllRun ==
    ASSUME NEW S \in Seq(Bytes), NEW w, NEW t,
           C!Scanned(Nothing, S) = [words |-> w, token |-> t]
    PROVE  w \in Seq(Seq(Bytes)) /\ t \in Seq(Bytes) /\ Even(t) /\ LastRun(S, Len(S), t)
<1>1. PICK x : x = C!Scanned(Nothing, S)
  OBVIOUS
<1>2. x.words = w /\ x.token = t
  BY <1>1
<1>3. x \in MatchedType /\ LastRun(<< >> \o S, Len(<< >>) + Len(S), x.token)
  BY <1>1, NothingIs, ScannedRun
<1>4. << >> \o S = S /\ Len(<< >>) + Len(S) = Len(S)
  OBVIOUS
<1>5. w \in Seq(Seq(Bytes)) /\ LastRun(S, Len(S), t)
  BY <1>2, <1>3, <1>4 DEF MatchedType
<1>6. QED
  BY <1>5 DEF LastRun

\* The first bytes of a long argument are a token of their own.
LEMMA PieceRun ==
    ASSUME Room \in Nat \ {0}, args \in Seq(Seq(Bytes)), FL <= Len(args), Clean(Front, FL),
           Blankless(UpTo), Even(Piece), Piece # << >>
    PROVE  LastRun(Front \o Piece, Len(Front \o Piece), Piece)
<1>0. PICK u : u = Front \o Piece
  OBVIOUS
<1>1. PICK s \in Seq(Bytes), p \in Seq(Bytes) : s = Front /\ p = Piece /\ u = s \o p
  <2>1. FL \in 1..(Len(args) + 1)
    BY FirstLongIs DEF FL
  <2>2. QED
    BY <1>0, <2>1, CleanIs, PieceIs
<1>2. Begins(u, UpTo) /\ UpTo \in Seq(Bytes)
  BY <1>1, PieceIs, UpToIs DEF FL, Front
<1>3. s = << >> \/ EndsBlank(s)
  <2>1. FL \in 1..(Len(args) + 1)
    BY FirstLongIs DEF FL
  <2>2. QED
    BY <1>1, <2>1, CleanIs
<1>4. EndsBlank(s) => ~StartsBlank(p)
  <2>1. Len(p) = Room - 1 /\ p # << >> /\ Even(p)
    BY <1>1, PieceIs
  <2>2. QED
    BY <1>1, <1>2, <2>1, NoBlanksBehind
<1>5. PICK m \in Nat, n \in Nat : m = Len(s) /\ n = Len(p)
  BY LenNat
<1>6. /\ Len(u) = m + n
      /\ \A i \in 1..m : u[i] = s[i]
      /\ \A i \in 1..n : u[m + i] = p[i]
  BY <1>1, <1>5, Concat
<1>7. \A i \in 1..n : p[i] = u[(m + n) - n + i]
  BY <1>6
<1>8. ASSUME n < m + n PROVE u[(m + n) - n] = " " <=> p[1] # " "
  <2>1. m \in 1..m /\ (m + n) - n = m /\ s # << >>
    BY <1>5, <1>8
  <2>2. s[m] = " "
    BY <1>3, <1>5, <2>1 DEF EndsBlank
  <2>3. p[1] # " "
    BY <1>3, <1>4, <2>1 DEF StartsBlank
  <2>4. QED
    BY <1>6, <2>1, <2>2, <2>3
<1>9. n <= m + n
  OBVIOUS
<1>10. LastRun(u, m + n, p)
  BY <1>1, <1>5, <1>7, <1>8, <1>9 DEF LastRun
<1>11. QED
  BY <1>1, <1>6, <1>10

\* c is what is copied of argument n when there is room for m bytes.
Copies(n, m, c) ==
    /\ Len(args[n]) < m => c = args[n] \o <<" ">>
    /\ ~(Len(args[n]) < m) => c = SubSeq(args[n], 1, m - 1)

After(n, m) == IF Len(args[n]) < m THEN n + 1 ELSE n

\* A short argument.
LEMMA ShortRead ==
    ASSUME Room \in Nat \ {0}, args \in Seq(Seq(Bytes)), NEW n \in 1..Len(args), n # FL,
           NEW S, Clean(S, n), NEW c, Copies(n, Room, c)
    PROVE  After(n, Room) = n + 1 /\ Clean(S \o c, n + 1)
<1>1. FL \in Nat /\ n < FL
  BY FirstLongIs, LenNat DEF FL, Clean
<1>2. PICK a \in Seq(Bytes) : a = args[n]
  OBVIOUS
<1>3. Len(a) \in Nat /\ Len(a) < Room
  <2>1. Len(a) \in Nat
    BY LenNat
  <2>2. ~(Len(a) >= Room)
    BY <1>1, <1>2, FirstLongIs DEF FL
  <2>3. QED
    BY <2>1, <2>2
<1>4. c = a \o <<" ">> /\ After(n, Room) = n + 1
  BY <1>2, <1>3 DEF Copies, After
<1>5. PICK k \in Nat : k = n - 1 /\ k + 1 = n /\ (n + 1) - 1 = n /\ k \in 0..Len(args)
  BY LenNat
<1>6. PICK s \in Seq(Bytes) : s = S /\ s = C!Joined(k)
  <2>1. C!Joined(k) \in Seq(Bytes)
    BY <1>5, JoinedBegins DEF JoinedWell
  <2>2. QED
    BY <1>5, <2>1 DEF Clean
<1>7. C!Joined(n) = s \o a \o <<" ">>
  <2>1. C!Joined(k + 1) = C!Joined(k) \o args[k + 1] \o <<" ">>
    BY JoinedIs
  <2>2. QED
    BY <1>2, <1>5, <1>6, <2>1
<1>8. s \o a \o <<" ">> = s \o (a \o <<" ">>)
  <2>1. PICK b \in Seq(Bytes) : b = <<" ">>
    BY OneBlank
  <2>2. s \in Seq(Bytes) /\ a \in Seq(Bytes) /\ b \in Seq(Bytes)
    OBVIOUS
  <2>3. (s \o a) \o b = s \o (a \o b)
    BY ONLY <2>2, ConcatThree
  <2>4. QED
    BY <2>1, <2>3
<1>9. S \o c = C!Joined((n + 1) - 1)
  BY <1>4, <1>5, <1>6, <1>7, <1>8
<1>10. n + 1 <= FL
  BY <1>1
<1>11. QED
  BY <1>4, <1>9, <1>10 DEF Clean

\* The first bytes of the long one.
LEMMA LongRead ==
    ASSUME Room \in Nat \ {0}, args \in Seq(Seq(Bytes)), FL \in 1..Len(args),
           NEW c, Copies(FL, Room, c)
    PROVE  After(FL, Room) = FL /\ c = Piece
<1>1. PICK a \in Seq(Bytes) : a = args[FL] /\ Len(a) \in Nat
  BY LenNat
<1>2. ~(Len(a) < Room)
  BY <1>1, FirstLongIs DEF FL
<1>3. c = SubSeq(a, 1, Room - 1) /\ After(FL, Room) = FL
  BY <1>1, <1>2 DEF Copies, After
<1>4. QED
  BY <1>1, <1>3 DEF Piece, C!Prefix, Room

LEMMA ReadOnce ==
    ASSUME Room \in Nat \ {0}, args \in Seq(Seq(Bytes)), FL \in 1..Len(args),
           Blankless(UpTo), NEW S, Clean(S, FL), Piece # << >>,
           NEW t, LastRun(S \o Piece, Len(S \o Piece), t)
    PROVE  Once(S \o Piece, FL, t) \/ Ever(FL, t)
<1>1. S = Front /\ Clean(Front, FL)
  BY DEF Clean, Front
<1>2. FL <= Len(args) /\ Len(args) \in Nat
  BY LenNat
<1>3. Piece \in Seq(Bytes) /\ Len(Piece) = Room - 1
  BY <1>2, PieceIs
<1>4. CASE Even(Piece)
  <2>1. LastRun(S \o Piece, Len(S \o Piece), Piece)
    BY <1>1, <1>2, <1>4, PieceRun
  <2>2. Front \in Seq(Bytes)
    BY <1>1, <1>2, CleanIs
  <2>3. Len(S \o Piece) \in Nat
    BY <1>1, <1>3, <2>2, Concat, LenNat
  <2>4. t = Piece
    BY <2>1, <2>3, RunUnique
  <2>5. Room > 1
    BY <1>3
  <2>6. QED
    BY <1>1, <1>4, <2>4, <2>5 DEF Once
<1>5. CASE ~Even(Piece)
  <2>1. Front \in Seq(Bytes)
    BY <1>1, <1>2, CleanIs
  <2>2. Len(S \o Piece) = Len(S) + Len(Piece)
    BY <1>1, <1>3, <2>1, Concat
  <2>3. ~(Len(t) >= Len(Piece))
    BY <1>1, <1>3, <1>5, <2>1, <2>2, TailEven
  <2>4. t \in Seq(Bytes) /\ Len(t) \in Nat
    BY LenNat DEF LastRun
  <2>5. Len(t) + 2 <= Room
    BY <1>3, <2>3, <2>4
  <2>6. QED
    BY <1>5, <2>5 DEF Ever
<1>6. QED
  BY <1>4, <1>5

LEMMA ReadTwice ==
    ASSUME Room \in Nat \ {0}, args \in Seq(Seq(Bytes)), FL \in 1..Len(args),
           NEW S, NEW t, Once(S, FL, t), NEW t2, LastRun(t \o Piece, Len(t) + Len(Piece), t2)
    PROVE  Twice(S \o Piece, FL, t2)
<1>1. t = Piece /\ Even(Piece) /\ Room > 1 /\ S = Front \o Piece
  BY DEF Once
<1>2. PICK p \in Seq(Bytes) : p = Piece
  <2>1. FL <= Len(args)
    BY LenNat
  <2>2. QED
    BY <2>1, PieceIs
<1>3. LastRun(p \o p, Len(p \o p), t2)
  <2>1. Len(p \o p) = Len(p) + Len(p)
    BY Concat
  <2>2. QED
    BY <1>1, <1>2, <2>1
<1>4. p \o p \in Seq(Bytes) /\ Even(p \o p) /\ Len(p \o p) \in Nat
  BY <1>1, <1>2, Concat, EvenTwice, LenNat
<1>5. LastRun(p \o p, Len(p \o p), p \o p)
  BY <1>4, WholeRun
<1>6. t2 = p \o p
  BY <1>3, <1>4, <1>5, RunUnique
<1>7. QED
  BY <1>1, <1>2, <1>6 DEF Twice

LEMMA ReadEver ==
    ASSUME Room \in Nat \ {0}, args \in Seq(Seq(Bytes)), FL \in 1..Len(args),
           NEW t \in Seq(Bytes), Ever(FL, t),
           NEW t2, LastRun(t \o Piece, Len(t) + Len(Piece), t2)
    PROVE  Ever(FL, t2)
<1>1. FL <= Len(args)
  BY LenNat
<1>2. Piece \in Seq(Bytes) /\ Len(Piece) = Room - 1 /\ ~Even(Piece)
  BY <1>1, PieceIs DEF Ever
<1>3. ~(Len(t2) >= Len(Piece))
  BY <1>2, TailEven
<1>4. t2 \in Seq(Bytes) /\ Len(t2) \in Nat
  BY LenNat DEF LastRun
<1>5. Len(t2) + 2 <= Room
  BY <1>2, <1>3, <1>4
<1>6. QED
  BY <1>2, <1>5 DEF Ever

\* With t to be kept, there is room for m bytes.
Fits(t, m) ==
    /\ m \in 1..Room
    /\ Len(t) < Room => m = Room
    /\ Len(t) + 2 = 2 * Room => m = 1

LEMMA TwiceFits ==
    ASSUME Room \in Nat \ {0}, args \in Seq(Seq(Bytes)), FL <= Len(args),
           NEW S, NEW t, Twice(S, FL, t), NEW m, Fits(t, m), NEW c, Copies(FL, m, c)
    PROVE  Len(c) = 0
<1>1. PICK p \in Seq(Bytes) : p = Piece /\ Len(p) = Room - 1
  BY PieceIs
<1>2. t = p \o p /\ Len(p \o p) = Len(p) + Len(p)
  <2>1. t = Piece \o Piece
    BY DEF Twice
  <2>2. Len(p \o p) = Len(p) + Len(p)
    BY Concat
  <2>3. QED
    BY <1>1, <2>1, <2>2
<1>3. Len(t) + 2 = 2 * Room
  BY <1>1, <1>2
<1>4. m = 1
  BY <1>3 DEF Fits
<1>5. PICK a \in Seq(Bytes) : a = args[FL] /\ ~(Len(a) < 1) /\ 0 \in 0..Len(a)
  <2>1. args[FL] \in Seq(Bytes) /\ Len(args[FL]) >= Room
    BY PieceIs
  <2>2. Len(args[FL]) \in Nat
    BY <2>1, LenNat
  <2>3. QED
    BY <2>1, <2>2
<1>6. c = SubSeq(a, 1, 0)
  <2>1. c = SubSeq(a, 1, 1 - 1)
    BY <1>4, <1>5 DEF Copies
  <2>2. QED
    BY <2>1
<1>7. QED
  BY <1>5, <1>6, PartIs

LEMMA OnceFits ==
    ASSUME Room \in Nat \ {0}, args \in Seq(Seq(Bytes)), FL <= Len(args),
           NEW S, NEW t \in Seq(Bytes), Once(S, FL, t) \/ Ever(FL, t), NEW m, Fits(t, m)
    PROVE  m = Room
<1>1. Len(Piece) = Room - 1
  BY PieceIs
<1>2. Len(t) < Room
  BY <1>1, LenNat DEF Once, Ever
<1>3. QED
  BY <1>2 DEF Fits

LEMMA WhereNext ==
    ASSUME Room \in Nat \ {0}, args \in Seq(Seq(Bytes)), Blankless(UpTo),
           NEW n \in 1..Len(args), NEW b, NEW S \in Seq(Bytes), NEW w, NEW t,
           C!Scanned(Nothing, S) = [words |-> w, token |-> t], Where(S, n, b, t),
           NEW m, Fits(t, m), NEW c \in Seq(Bytes), Copies(n, m, c), Len(c) # 0,
           NEW w2, NEW t2, C!Scanned([words |-> w, token |-> t], c) = [words |-> w2, token |-> t2]
    PROVE  Where(S \o c, After(n, m), 2 * Room, t2)
<1>1. w \in Seq(Seq(Bytes)) /\ t \in Seq(Bytes) /\ Even(t) /\ LastRun(S, Len(S), t)
  BY AllRun
<1>2. C!Scanned(Nothing, S \o c) = [words |-> w2, token |-> t2]
  BY ScannedMore
<1>3. S \o c \in Seq(Bytes)
  BY Concat
<1>4. LastRun(S \o c, Len(S \o c), t2)
  BY <1>2, <1>3, AllRun
<1>5. LastRun(t \o c, Len(t) + Len(c), t2)
  <2>1. PICK x : x = [words |-> w, token |-> t]
    OBVIOUS
  <2>2. x \in MatchedType /\ x.token = t
    BY <1>1, <2>1 DEF MatchedType
  <2>3. C!Scanned(x, c).token = t2
    BY <2>1
  <2>4. LastRun(x.token \o c, Len(x.token) + Len(c), C!Scanned(x, c).token)
    BY <1>1, <2>2, ScannedRun
  <2>5. QED
    BY <2>2, <2>3, <2>4
<1>6. Len(args) \in Nat /\ n <= Len(args)
  BY LenNat
<1>7. CASE Clean(S, n)
  <2>1. n \in 1..(Len(args) + 1)
    BY <1>6
  <2>2. Len(t) < Room
    BY <1>1, <1>7, <2>1, CleanIs
  <2>3. m = Room
    BY <2>2 DEF Fits
  <2>4. CASE n # FL
    <3>1. After(n, m) = n + 1 /\ Clean(S \o c, n + 1)
      BY <1>7, <2>3, <2>4, ShortRead
    <3>2. QED
      BY <3>1 DEF Where
  <2>5. CASE n = FL
    <3>1. After(FL, m) = FL /\ c = Piece
      BY <2>3, <2>5, LongRead
    <3>2. Piece # << >>
      BY <3>1
    <3>3. Once(S \o Piece, FL, t2) \/ Ever(FL, t2)
      BY <1>4, <1>7, <2>5, <3>1, <3>2, ReadOnce
    <3>4. FL <= Len(args)
      BY <1>6, <2>5
    <3>5. QED
      BY <2>5, <3>1, <3>3, <3>4 DEF Where
  <2>6. QED
    BY <2>4, <2>5
<1>8. ASSUME FL <= Len(args), Once(S, n, t) \/ Ever(n, t)
      PROVE  Where(S \o c, After(n, m), 2 * Room, t2)
  <2>1. n = FL
    BY <1>8 DEF Once, Ever
  <2>2. m = Room
    BY <1>1, <1>8, <2>1, OnceFits
  <2>3. After(FL, m) = FL /\ c = Piece
    BY <2>1, <2>2, LongRead
  <2>4. CASE Once(S, FL, t)
    <3>1. Twice(S \o Piece, FL, t2)
      BY <1>5, <2>1, <2>3, <2>4, ReadTwice
    <3>2. QED
      BY <1>8, <2>1, <2>3, <3>1 DEF Where
  <2>5. CASE Ever(FL, t)
    <3>1. Ever(FL, t2)
      BY <1>1, <1>5, <2>1, <2>3, <2>5, ReadEver
    <3>2. QED
      BY <1>8, <2>1, <2>3, <3>1 DEF Where
  <2>6. QED
    BY <1>8, <2>1, <2>4, <2>5
<1>9. ASSUME FL <= Len(args), Twice(S, n, t) PROVE FALSE
  <2>1. n = FL
    BY <1>9 DEF Twice
  <2>2. Len(c) = 0
    BY <1>9, <2>1, TwiceFits
  <2>3. QED
    BY <2>2
<1>10. QED
  BY <1>7, <1>8, <1>9 DEF Where

LEMMA WhereLast ==
    ASSUME Room \in Nat \ {0}, args \in Seq(Seq(Bytes)), Blankless(UpTo),
           NEW n \in 1..(Len(args) + 1), NEW b, NEW S \in Seq(Bytes), NEW w, NEW t,
           C!Scanned(Nothing, S) = [words |-> w, token |-> t], Where(S, n, b, t),
           NEW m, Fits(t, m), NEW c,
           n <= Len(args) => Copies(n, m, c) /\ Len(c) = 0
    PROVE  /\ FL > Len(args) => S = C!Joined(Len(args))
           /\ FL <= Len(args) => S = (Front \o Piece) \o Piece
<1>1. w \in Seq(Seq(Bytes)) /\ t \in Seq(Bytes) /\ Even(t) /\ LastRun(S, Len(S), t)
  BY AllRun
<1>2. Len(args) \in Nat /\ FL \in 1..(Len(args) + 1)
  BY FirstLongIs, LenNat DEF FL
<1>3. CASE Clean(S, n)
  <2>1. Len(t) < Room
    BY <1>1, <1>3, CleanIs
  <2>2. m = Room
    BY <2>1 DEF Fits
  <2>3. CASE n > Len(args)
    <3>1. n = Len(args) + 1 /\ FL = Len(args) + 1 /\ n - 1 = Len(args)
      BY <1>2, <1>3, <2>3 DEF Clean
    <3>2. S = C!Joined(Len(args))
      BY <1>3, <3>1 DEF Clean
    <3>3. QED
      BY <1>2, <3>1, <3>2
  <2>4. CASE n <= Len(args)
    <3>1. n \in 1..Len(args) /\ Copies(n, Room, c) /\ Len(c) = 0
      BY <1>2, <2>2, <2>4
    <3>2. n = FL
      <4>1. SUFFICES ASSUME n # FL PROVE FALSE
        OBVIOUS
      <4>2. PICK a \in Seq(Bytes) : a = args[n] /\ Len(a) \in Nat
        BY <3>1, LenNat
      <4>3. n < FL
        BY <1>2, <1>3, <4>1 DEF Clean
      <4>4. Len(a) < Room
        <5>1. ~(Len(a) >= Room)
          BY <3>1, <4>2, <4>3, FirstLongIs DEF FL
        <5>2. QED
          BY <4>2, <5>1
      <4>5. c = a \o <<" ">>
        BY <3>1, <4>2, <4>4 DEF Copies
      <4>6. a \in Seq(Bytes)
        BY <4>2
      <4>7. PICK x \in Bytes : x = " "
        BY DEF Bytes
      <4>8. c = a \o <<x>>
        BY <4>5, <4>7
      <4>9. c # << >> /\ c \in Seq(Bytes)
        BY <4>6, <4>8, OneBehind
      <4>10. QED
        BY <3>1, <4>9
    <3>3. c = Piece
      BY <3>1, <3>2, LongRead
    <3>4. Piece = << >>
      <4>1. Piece \in Seq(Bytes)
        BY <2>4, <3>2, PieceIs
      <4>2. QED
        BY <3>1, <3>3, <4>1
    <3>5. S = Front /\ S \in Seq(Bytes)
      BY <1>3, <3>2 DEF Clean, Front
    <3>6. (Front \o << >>) \o << >> = Front
      <4>1. \A s \in Seq(Bytes) : s \o << >> = s
        BY WholeIs
      <4>2. QED
        BY <3>5, <4>1
    <3>7. FL <= Len(args)
      BY <2>4, <3>2
    <3>8. QED
      BY <1>2, <3>4, <3>5, <3>6, <3>7
  <2>5. QED
    BY <1>2, <2>3, <2>4
<1>4. ASSUME FL <= Len(args), Once(S, n, t) \/ Ever(n, t) PROVE FALSE
  <2>1. n = FL /\ FL \in 1..Len(args)
    BY <1>2, <1>4 DEF Once, Ever
  <2>2. m = Room
    BY <1>1, <1>4, <2>1, OnceFits
  <2>3. Len(c) = 0 /\ Copies(FL, Room, c)
    BY <1>2, <2>1, <2>2
  <2>4. c = Piece
    BY <2>1, <2>3, LongRead
  <2>5. Len(Piece) = Room - 1 /\ Piece \in Seq(Bytes)
    BY <1>4, PieceIs
  <2>6. Room = 1 /\ Piece = << >>
    BY <2>3, <2>4, <2>5
  <2>7. Even(Piece)
    BY <2>6, NothingIs
  <2>8. Room > 1
    BY <1>4, <2>7 DEF Once, Ever
  <2>9. QED
    BY <2>6, <2>8
<1>5. ASSUME FL <= Len(args), Twice(S, n, t) PROVE S = (Front \o Piece) \o Piece
  BY <1>5 DEF Twice
<1>6. QED
  BY <1>2, <1>3, <1>4, <1>5 DEF Where

\* The arguments stay, and what is said of them.
LEMMA ArgsStay ==
    ASSUME args' = args
    PROVE  /\ (C!FewBlanks' <=> C!FewBlanks) /\ C!FirstLong' = C!FirstLong
           /\ \A n : C!Joined(n)' = C!Joined(n)
<1>1. C!FewBlanks' <=> C!FewBlanks
  BY DEF C!FirstLong, C!Long, C!FewBlanks, C!Joined
<1>2. C!FirstLong' = C!FirstLong
  BY DEF C!FirstLong, C!Long
<1>3. ASSUME NEW CONSTANT n PROVE C!Joined(n)' = C!Joined(n)
  BY DEF C!Joined
<1>4. QED
  BY <1>1, <1>2, <1>3

LEMMA PlacesStay ==
    ASSUME args' = args, NEW CONSTANT S, NEW CONSTANT n, NEW CONSTANT b,
           NEW CONSTANT w, NEW CONSTANT t
    PROVE  Matched(S, n, b, w, t)' <=> Matched(S, n, b, w, t)
<1>1. FL' = FL
  BY ArgsStay DEF FL
<1>2. Piece' = Piece
  BY <1>1 DEF Piece, C!Prefix
<1>3. PICK k : k = FL
  OBVIOUS
<1>4. Front' = Front
  <2>1. C!Joined(k - 1)' = C!Joined(k - 1)
    BY ArgsStay
  <2>2. QED
    BY <1>1, <1>3, <2>1 DEF Front
<1>5. Clean(S, n)' <=> Clean(S, n)
  <2>1. C!Joined(n - 1)' = C!Joined(n - 1)
    BY ArgsStay
  <2>2. QED
    BY <1>1, <2>1 DEF Clean
<1>6. Where(S, n, b, t)' <=> Where(S, n, b, t)
  BY <1>1, <1>2, <1>4, <1>5 DEF Where, Once, Twice, Ever
<1>7. QED
  BY <1>6, ArgsStay DEF Matched

LEMMA RoomFits ==
    ASSUME Room \in Nat \ {0}, WTypes
    PROVE  /\ C!Grown(buf_size) \in Nat /\ C!Grown(buf_size) >= 2 * Room
           /\ C!max \in 1..Room /\ Len(token) + C!max < C!Grown(buf_size)
           /\ buf_size = 2 * Room => Fits(token, C!max)
           /\ buf_size = 2 * Room /\ Len(token) < Room => C!Grown(buf_size) = 2 * Room
  BY RoomIs DEF WTypes, Fits

LEMMA KeptShort ==
    ASSUME Room \in Nat \ {0}, args \in Seq(Seq(Bytes)), Blankless(UpTo),
           NEW n \in 1..(Len(args) + 1), NEW b, NEW S \in Seq(Bytes), NEW w, NEW t,
           C!Scanned(Nothing, S) = [words |-> w, token |-> t], Where(S, n, b, t)
    PROVE  Len(t) + 2 <= 2 * Room
<1>1. t \in Seq(Bytes) /\ LastRun(S, Len(S), t)
  BY AllRun
<1>2. Len(t) \in Nat
  BY <1>1, LenNat
<1>3. CASE Clean(S, n)
  <2>1. Len(t) < Room
    BY <1>1, <1>3, CleanIs
  <2>2. QED
    BY <1>2, <2>1
<1>4. ASSUME FL <= Len(args), Once(S, n, t) PROVE Len(t) + 2 <= 2 * Room
  <2>1. Len(t) = Room - 1
    BY <1>4, PieceIs DEF Once
  <2>2. QED
    BY <2>1
<1>5. ASSUME FL <= Len(args), Twice(S, n, t) PROVE Len(t) + 2 <= 2 * Room
  <2>1. PICK p \in Seq(Bytes) : p = Piece /\ Len(p) = Room - 1
    BY <1>5, PieceIs
  <2>2. t = p \o p
    BY <1>5, <2>1 DEF Twice
  <2>3. Len(t) = Len(p) + Len(p)
    BY <2>2, Concat
  <2>4. QED
    BY <2>1, <2>3
<1>6. CASE Ever(n, t)
  BY <1>2, <1>6 DEF Ever
<1>7. QED
  BY <1>3, <1>4, <1>5, <1>6 DEF Where

LEMMA GrownStays ==
    ASSUME Room \in Nat \ {0}, token \in Seq(Bytes), buf_size = 2 * Room,
           Len(token) + 2 <= 2 * Room
    PROVE  C!Grown(buf_size) = 2 * Room
<1>1. Len(token) \in Nat /\ 2 * Room \in Nat \ {0}
  BY LenNat
<1>2. QED
  BY <1>1, GrownIs

LEMMA WRead ==
    ASSUME C!CmdInputAssumption, WInv, C!Read
    PROVE  WInv'
<1>1. Room \in Nat \ {0}
  BY AssumeRoom
<1>2. scan = "scan" /\ arg <= Len(args) /\ Len(C!Copied) > 0 /\ args' = args /\ scan' = scan
  BY DEF C!Read
<1>3. WTypes
  BY DEF WInv
<1>4. arg \in 1..Len(args) /\ Len(args) \in Nat
  BY <1>2, <1>3, LenNat DEF WTypes
<1>5. PICK a \in Seq(Bytes) : a = args[arg]
  BY <1>3, <1>4 DEF WTypes
<1>6. PICK m, g : m = C!max /\ g = C!Grown(buf_size)
  OBVIOUS
<1>7. g \in Nat /\ g >= 2 * Room /\ m \in 1..Room /\ Len(token) + m < g
  BY <1>1, <1>3, <1>6, RoomFits
<1>8. PICK c \in Seq(Bytes) : c = C!Copied /\ Len(c) <= m
  BY <1>1, <1>3, <1>5, <1>6, <1>7, CopiedTyped DEF WTypes
<1>9. Len(c) \in Nat /\ Len(c) # 0
  BY <1>2, <1>8, LenNat
<1>10. Copies(arg, m, c)
  BY <1>1, <1>3, <1>5, <1>6, <1>7, <1>8, CopiedIs DEF WTypes, Copies
<1>11. C!NextArg(C!copylen) <=> Len(a) < m
  BY <1>1, <1>3, <1>5, <1>6, <1>7, CopiedIs DEF WTypes
<1>12. arg' = After(arg, m) /\ offset' = 0 /\ buf_size' = g
  BY <1>3, <1>5, <1>6, <1>11 DEF C!Read, WTypes, After
<1>13. PICK w \in Seq(Seq(Bytes)), t \in Seq(Bytes) : w = words /\ t = token /\ Even(t)
  BY <1>3 DEF WTypes
<1>14. PICK x : x = C!Scanned([words |-> w, token |-> t], c)
  OBVIOUS
<1>15. words' = x.words /\ token' = x.token
  BY <1>8, <1>13, <1>14 DEF C!Read
<1>16. x \in MatchedType /\ LastRun(t \o c, Len(t) + Len(c), x.token)
  <2>1. PICK y : y = [words |-> w, token |-> t]
    OBVIOUS
  <2>2. y \in MatchedType /\ y.token = t
    BY <2>1 DEF MatchedType
  <2>3. QED
    BY <1>13, <1>14, <2>1, <2>2, ScannedRun
<1>17. PICK w2 \in Seq(Seq(Bytes)), t2 \in Seq(Bytes) :
         w2 = words' /\ t2 = token' /\ x = [words |-> w2, token |-> t2]
  BY <1>15, <1>16 DEF MatchedType
<1>18. Even(t2) /\ Len(t2) <= Len(t) + Len(c)
  BY <1>15, <1>16, <1>17 DEF LastRun
<1>19. PICK n2 : n2 = arg' /\ n2 = After(arg, m)
  BY <1>12
<1>20. WTypes'
  <2>1. n2 \in 1..(Len(args) + 1)
    BY <1>4, <1>19 DEF After
  <2>2. Len(t2) < g
    <3>1. Len(t) \in Nat /\ Len(t2) \in Nat /\ m \in Nat /\ Len(t) + m < g
      BY <1>7, <1>13, LenNat
    <3>2. QED
      BY <1>7, <1>8, <1>9, <1>18, <3>1
  <2>3. Even(token)'
    BY <1>17, <1>18 DEF Even
  <2>4. QED
    BY <1>2, <1>3, <1>7, <1>12, <1>17, <1>19, <2>1, <2>2, <2>3 DEF WTypes
<1>21. PICK S \in Seq(Bytes) : Matched(S, arg, buf_size, words, token)
  BY <1>2 DEF WInv
<1>22. C!Scanned(Nothing, S) = [words |-> w, token |-> t]
  BY <1>13, <1>21 DEF Matched
<1>23. S \o c \in Seq(Bytes)
  BY Concat
<1>24. C!Scanned(Nothing, S \o c) = [words |-> w2, token |-> t2]
  BY <1>14, <1>17, <1>22, ScannedMore
<1>25. ASSUME C!FewBlanks PROVE Where(S \o c, n2, g, t2)
  <2>1. Blankless(UpTo)
    BY <1>25, FewBlanksIs
  <2>2. Where(S, arg, buf_size, token)
    BY <1>21, <1>25 DEF Matched
  <2>3. buf_size = 2 * Room
    BY <2>2 DEF Where
  <2>4. Fits(t, m)
    BY <1>1, <1>3, <1>6, <1>13, <2>3, RoomFits
  <2>5. PICK n \in 1..Len(args) : n = arg
    BY <1>4
  <2>6. Where(S \o c, After(n, m), 2 * Room, t2)
    <3>1. args \in Seq(Seq(Bytes)) /\ Copies(n, m, c) /\ Where(S, n, buf_size, t)
      BY <1>3, <1>10, <1>13, <2>2, <2>5 DEF WTypes
    <3>2. C!Scanned([words |-> w, token |-> t], c) = [words |-> w2, token |-> t2]
      BY <1>14, <1>17
    <3>3. QED
      BY <1>1, <1>9, <1>22, <2>1, <2>4, <3>1, <3>2, WhereNext
  <2>7. g = 2 * Room
    <3>1. Len(t) + 2 <= 2 * Room
      <4>1. n \in 1..(Len(args) + 1) /\ args \in Seq(Seq(Bytes)) /\ Where(S, n, buf_size, t)
        BY <1>3, <1>4, <1>13, <2>2, <2>5 DEF WTypes
      <4>2. QED
        BY <1>1, <1>22, <2>1, <4>1, KeptShort
    <3>2. QED
      BY <1>1, <1>3, <1>6, <1>13, <2>3, <3>1, GrownStays DEF WTypes
  <2>8. QED
    BY <1>19, <2>5, <2>6, <2>7
<1>26. Matched(S \o c, n2, g, w2, t2)
  BY <1>24, <1>25 DEF Matched
<1>27. Matched(S \o c, n2, g, w2, t2)'
  BY <1>2, <1>26, PlacesStay
<1>28. Matched(S \o c, arg, buf_size, words, token)'
  BY <1>12, <1>17, <1>19, <1>27
<1>29. C!WordsRight'
  BY <1>2 DEF C!WordsRight
<1>30. QED
  BY <1>20, <1>23, <1>28, <1>29 DEF WInv

LEMMA WEnd ==
    ASSUME C!CmdInputAssumption, WInv, C!End
    PROVE  WInv'
<1>1. Room \in Nat \ {0} /\ WTypes
  BY AssumeRoom DEF WInv
<1>2. /\ scan = "scan" /\ args' = args /\ scan' = "end" /\ arg' = arg /\ offset' = offset
      /\ token' = << >> /\ words' = words \o C!Word(token)
      /\ buf_size' = C!Grown(buf_size)
  BY DEF C!End
<1>3. arg > Len(args) \/ Len(C!Copied) = 0
  BY DEF C!End
<1>4. PICK m, g : m = C!max /\ g = C!Grown(buf_size)
  OBVIOUS
<1>5. g \in Nat /\ g >= 2 * Room /\ m \in 1..Room
  BY <1>1, <1>4, RoomFits
<1>6. PICK w \in Seq(Seq(Bytes)), t \in Seq(Bytes) : w = words /\ t = token /\ Even(t)
  BY <1>1 DEF WTypes
<1>7. PICK k \in Seq(Seq(Bytes)) : k = C!Word(t)
  <2>1. <<t>> \in Seq(Seq(Bytes)) /\ << >> \in Seq(Seq(Bytes))
    OBVIOUS
  <2>2. QED
    BY <2>1 DEF C!Word
<1>8. words' = w \o k /\ w \o k \in Seq(Seq(Bytes))
  BY <1>2, <1>6, <1>7, Concat
<1>9. WTypes'
  <2>1. /\ << >> \in Seq(Bytes) /\ Len(<< >>) = 0
    OBVIOUS
  <2>2. 0 < g
    BY <1>1, <1>5
  <2>3. Even(token)'
    BY <1>2, NothingIs DEF Even
  <2>4. QED
    BY <1>1, <1>2, <1>4, <1>5, <1>8, <2>1, <2>2, <2>3 DEF WTypes
<1>10. PICK S \in Seq(Bytes) : Matched(S, arg, buf_size, words, token)
  BY <1>2 DEF WInv
<1>11. C!Scanned(Nothing, S) = [words |-> w, token |-> t]
  BY <1>6, <1>10 DEF Matched
<1>12. C!Words(S) = w \o k
  <2>1. PICK x : x = C!Scanned(Nothing, S)
    OBVIOUS
  <2>2. x.words = w /\ x.token = t
    BY <1>11, <2>1
  <2>3. C!Words(S) = x.words \o C!Word(x.token)
    BY <2>1 DEF C!Words, Nothing
  <2>4. QED
    BY <1>7, <2>2, <2>3
<1>13. ASSUME C!FewBlanks
       PROVE  /\ FL > Len(args) => S = C!Joined(Len(args))
              /\ FL <= Len(args) => S = (Front \o Piece) \o Piece
  <2>1. Blankless(UpTo)
    BY <1>13, FewBlanksIs
  <2>2. Where(S, arg, buf_size, token)
    BY <1>10, <1>13 DEF Matched
  <2>3. buf_size = 2 * Room
    BY <2>2 DEF Where
  <2>4. Fits(t, m)
    BY <1>1, <1>4, <1>6, <2>3, RoomFits
  <2>5. PICK n \in 1..(Len(args) + 1) : n = arg
    BY <1>1 DEF WTypes
  <2>6. PICK c : c = C!Copied
    OBVIOUS
  <2>7. ASSUME n <= Len(args) PROVE Copies(n, m, c) /\ Len(c) = 0
    <3>1. n \in 1..Len(args)
      BY <2>7, <1>1, LenNat DEF WTypes
    <3>2. PICK a \in Seq(Bytes) : a = args[arg]
      BY <1>1, <2>5, <3>1 DEF WTypes
    <3>3. Copies(n, m, c)
      BY <1>1, <1>4, <1>5, <2>5, <2>6, <3>2, CopiedIs DEF WTypes, Copies
    <3>4. ~(n > Len(args))
      BY <2>7, <1>1, <3>1, LenNat DEF WTypes
    <3>5. QED
      BY <1>3, <2>5, <2>6, <3>3, <3>4
  <2>8. args \in Seq(Seq(Bytes)) /\ Where(S, n, buf_size, t)
    BY <1>1, <1>6, <2>2, <2>5 DEF WTypes
  <2>9. QED
    BY <1>1, <1>11, <2>1, <2>4, <2>7, <2>8, WhereLast
<1>14. FL \in Nat /\ Len(args) \in Nat
  BY <1>1, FirstLongIs, LenNat DEF WTypes, FL
<1>15. C!WordsRight'
  <2>1. SUFFICES ASSUME C!FewBlanks'
        PROVE IF C!FirstLong' > Len(args') THEN words' = C!Words(C!Joined(Len(args)))'
              ELSE words' = C!Words(C!Joined(C!FirstLong - 1) \o C!Prefix(args[C!FirstLong])
                                                 \o C!Prefix(args[C!FirstLong]))'
    BY DEF C!WordsRight
  <2>2. C!FewBlanks /\ C!FirstLong' = C!FirstLong /\ Len(args') = Len(args)
    BY <1>2, <2>1, ArgsStay
  <2>3. PICK n, f : n = Len(args) /\ f = FL
    OBVIOUS
  <2>4. CASE FL > Len(args)
    <3>1. words' = C!Words(C!Joined(n))
      BY <1>8, <1>12, <1>13, <2>2, <2>3, <2>4
    <3>2. C!Joined(n)' = C!Joined(n)
      BY <1>2, ArgsStay
    <3>3. C!Joined(Len(args))' = C!Joined(n)
      BY <1>2, <2>3, <3>2
    <3>4. C!Words(C!Joined(Len(args)))' = C!Words(C!Joined(n))
      BY <3>3 DEF C!Words, C!Scanned
    <3>5. QED
      BY <2>2, <2>4, <3>1, <3>4 DEF FL
  <2>5. CASE ~(FL > Len(args))
    <3>0. FL <= Len(args)
      BY <1>14, <2>5
    <3>1. words' = C!Words((Front \o Piece) \o Piece)
      <4>1. S = (Front \o Piece) \o Piece
        BY <1>13, <2>2, <3>0
      <4>2. QED
        BY <1>8, <1>12, <4>1
    <3>2. C!Joined(f - 1)' = C!Joined(f - 1)
      BY <1>2, ArgsStay
    <3>3. C!Joined(C!FirstLong - 1)' = Front
      BY <2>2, <2>3, <3>2 DEF Front, FL
    <3>4. C!Prefix(args[C!FirstLong])' = Piece
      BY <1>2, <2>2 DEF Piece, FL, C!Prefix
    <3>5. C!Words(C!Joined(C!FirstLong - 1) \o C!Prefix(args[C!FirstLong])
                                             \o C!Prefix(args[C!FirstLong]))'
            = C!Words((Front \o Piece) \o Piece)
      BY <3>3, <3>4 DEF C!Words, C!Scanned
    <3>6. QED
      BY <2>2, <2>5, <3>1, <3>5 DEF FL
  <2>6. QED
    BY <2>4, <2>5
<1>16. QED
  BY <1>2, <1>9, <1>15 DEF WInv

LEMMA WNext ==
    ASSUME C!CmdInputAssumption, WInv, [C!Next]_(C!vars)
    PROVE  WInv'
<1>1. CASE C!Read
  BY <1>1, WRead
<1>2. CASE C!End
  BY <1>2, WEnd
<1>3. CASE UNCHANGED C!vars
  <2>1. /\ args' = args /\ arg' = arg /\ offset' = offset /\ buf_size' = buf_size
        /\ token' = token /\ words' = words /\ scan' = scan
    BY <1>3 DEF C!vars
  <2>2. WTypes'
    BY <2>1 DEF WInv, WTypes, Even
  <2>3. ASSUME scan = "scan"
        PROVE  \E S \in Seq(Bytes) : Matched(S, arg, buf_size, words, token)'
    <3>1. PICK S \in Seq(Bytes) : Matched(S, arg, buf_size, words, token)
      BY <2>3 DEF WInv
    <3>2. PICK n, b, w, t : n = arg /\ b = buf_size /\ w = words /\ t = token
      OBVIOUS
    <3>3. Matched(S, n, b, w, t)'
      BY <2>1, <3>1, <3>2, PlacesStay
    <3>4. Matched(S, arg, buf_size, words, token)'
      BY <2>1, <3>2, <3>3
    <3>5. QED
      BY <3>4
  <2>4. C!WordsRight'
    <3>1. PICK n, f : n = Len(args) /\ f = C!FirstLong
      OBVIOUS
    <3>2. C!Joined(n)' = C!Joined(n) /\ C!Joined(f - 1)' = C!Joined(f - 1)
      BY <2>1, ArgsStay
    <3>3. C!FirstLong' = C!FirstLong /\ (C!FewBlanks' <=> C!FewBlanks)
      BY <2>1, ArgsStay
    <3>4. C!Joined(Len(args))' = C!Joined(Len(args))
      BY <2>1, <3>1, <3>2
    <3>5. C!Joined(C!FirstLong - 1)' = C!Joined(C!FirstLong - 1)
      BY <3>1, <3>2, <3>3
    <3>6. C!Prefix(args[C!FirstLong])' = C!Prefix(args[C!FirstLong])
      BY <2>1, <3>3 DEF C!Prefix
    <3>7. C!Words(C!Joined(Len(args)))' = C!Words(C!Joined(Len(args)))
      BY <3>4 DEF C!Words, C!Scanned
    <3>8. C!Words(C!Joined(C!FirstLong - 1) \o C!Prefix(args[C!FirstLong])
                                             \o C!Prefix(args[C!FirstLong]))'
            = C!Words(C!Joined(C!FirstLong - 1) \o C!Prefix(args[C!FirstLong])
                                                 \o C!Prefix(args[C!FirstLong]))
      BY <3>5, <3>6 DEF C!Words, C!Scanned
    <3>9. C!WordsRight
      BY DEF WInv
    <3>10. QED
      BY <2>1, <3>3, <3>7, <3>8, <3>9 DEF C!WordsRight
  <2>5. QED
    BY <2>1, <2>2, <2>3, <2>4 DEF WInv
<1>4. QED
  BY <1>1, <1>2, <1>3 DEF C!Next

LEMMA WKeeps == C!CmdInputAssumption /\ WInv => C!WordsSound
<1> SUFFICES ASSUME C!CmdInputAssumption, WInv PROVE C!WordsSound
  OBVIOUS
<1>1. Room \in Nat \ {0} /\ WTypes /\ C!WordsRight
  BY AssumeRoom DEF WInv
<1>2. C!OneToken(token)
  <2>0. token \in Seq(Bytes) /\ DOMAIN token = 1..Len(token)
    BY <1>1 DEF WTypes
  <2>1. \A i \in DOMAIN token : token[i] = " " <=> token[1] = " "
    BY <1>1, <2>0 DEF WTypes, Even
  <2>2. QED
    BY <2>1 DEF C!OneToken
<1>3. arg <= Len(args) => Len(C!Copied) <= C!max
  <2>1. SUFFICES ASSUME arg <= Len(args) PROVE Len(C!Copied) <= C!max
    OBVIOUS
  <2>2. arg \in 1..Len(args) /\ args \in Seq(Seq(Bytes)) /\ offset = 0
    BY <1>1, <2>1, LenNat DEF WTypes
  <2>3. PICK a \in Seq(Bytes) : a = args[arg]
    BY <2>2
  <2>4. C!max \in 1..Room
    BY <1>1, RoomFits
  <2>5. QED
    BY <1>1, <2>2, <2>3, <2>4, CopiedTyped
<1>4. C!TypeOK
  BY <1>1, <1>2, <1>3 DEF C!TypeOK, WTypes, Room
<1>5. QED
  BY <1>1, <1>4 DEF C!WordsSound

\* What myinput hands to the scanner of the command line never takes more than
\* the room there is, and the words are those of the arguments, up to the first
\* that is as long as a read (cmdline.lex:61-70), whatever they are.
THEOREM WordsThm == C!CmdInputAssumption => (C!Spec => []WordsSound)
<1> SUFFICES ASSUME C!CmdInputAssumption PROVE C!Spec => []WordsSound
  OBVIOUS
<1>1. C!Init => WInv
  BY WInit
<1>2. WInv /\ [C!Next]_(C!vars) => WInv'
  BY WNext
<1>3. WInv => WordsSound
  BY WKeeps DEF WordsSound
<1>4. QED
  BY <1>1, <1>2, <1>3, PTL DEF C!Spec

\* The automaton as a function of the pairs of a state and a class.
Pairs(t) == (DOMAIN t.def) \X (DOMAIN t.meta)
FitsAt(t, p) == t.chk[t.base[p[1]] + p[2]] = p[1]
LeadsTo(t, p) == t.nxt[t.base[p[1]] + p[2]]
Default(t, p) == <<t.def[p[1]], IF t.def[p[1]] > t.jam THEN t.meta[p[2]] ELSE p[2]>>

IsRow(t, f) ==
    f = [p \in Pairs(t) |-> IF FitsAt(t, p) THEN LeadsTo(t, p) ELSE f[Default(t, p)]]

Step(t, s, c) == (CHOOSE f : IsRow(t, f))[<<s, c>>]

LEMMA TransIs == \A s, c : Fx!Trans(s, c) = Step(Tables[scanner], s, c)
  BY DEF Fx!Trans, Fx!T, Step, IsRow, Pairs, FitsAt, LeadsTo, Default

LEMMA RowAt ==
    ASSUME NEW t, NEW f, IsRow(t, f), NEW p \in Pairs(t)
    PROVE  f[p] = IF FitsAt(t, p) THEN LeadsTo(t, p) ELSE f[Default(t, p)]
  BY DEF IsRow

\* Defaults lead to a place of its own in two steps, or nowhere from state 0.
Settles(t) ==
    \A p \in Pairs(t) :
        /\ Default(t, p) \in Pairs(t)
        /\ \/ FitsAt(t, p) \/ FitsAt(t, Default(t, p)) \/ FitsAt(t, Default(t, Default(t, p)))
           \/ Default(t, p) = p

LEMMA RowExists ==
    ASSUME NEW t, Settles(t)
    PROVE  \E f : IsRow(t, f)
<1> DEFINE D(p) == Default(t, p)
           H(p) == FitsAt(t, p)
           N(p) == LeadsTo(t, p)
           e == [p \in Pairs(t) |-> IF H(p) THEN N(p) ELSE IF H(D(p)) THEN N(D(p))
                                    ELSE IF H(D(D(p))) THEN N(D(D(p))) ELSE 0]
<1>1. \A p \in Pairs(t) : /\ D(p) \in Pairs(t)
                          /\ H(p) \/ H(D(p)) \/ H(D(D(p))) \/ D(p) = p
  BY DEF Settles
<1> HIDE DEF D, H, N
<1>2. ASSUME NEW p \in Pairs(t) PROVE e[p] = IF H(p) THEN N(p) ELSE e[D(p)]
  <2>1. /\ e[p] = IF H(p) THEN N(p) ELSE IF H(D(p)) THEN N(D(p))
                  ELSE IF H(D(D(p))) THEN N(D(D(p))) ELSE 0
        /\ e[D(p)] = IF H(D(p)) THEN N(D(p)) ELSE IF H(D(D(p))) THEN N(D(D(p)))
                     ELSE IF H(D(D(D(p)))) THEN N(D(D(D(p)))) ELSE 0
    BY <1>1
  <2> HIDE DEF e
  <2>2. H(p) \/ H(D(p)) \/ H(D(D(p))) \/ D(p) = p
    BY <1>1
  <2>3. QED
    BY <2>1, <2>2
<1>3. e = [p \in Pairs(t) |-> IF H(p) THEN N(p) ELSE e[D(p)]]
  BY <1>2
<1>4. QED
  BY <1>3 DEF IsRow, D, H, N

\* A step is that of the first place that fits.
LEMMA StepIs ==
    ASSUME NEW t, Settles(t), NEW s \in DOMAIN t.def, NEW c \in DOMAIN t.meta
    PROVE  LET p == <<s, c>> d == Default(t, p) e == Default(t, d) IN
           /\ FitsAt(t, p) => Step(t, s, c) = LeadsTo(t, p)
           /\ ~FitsAt(t, p) /\ FitsAt(t, d) => Step(t, s, c) = LeadsTo(t, d)
           /\ ~FitsAt(t, p) /\ ~FitsAt(t, d) /\ FitsAt(t, e) => Step(t, s, c) = LeadsTo(t, e)
<1> DEFINE f == CHOOSE f : IsRow(t, f)
           p == <<s, c>>
           d == Default(t, p)
           e == Default(t, d)
<1>1. IsRow(t, f)
  BY RowExists
<1>2. p \in Pairs(t) /\ d \in Pairs(t) /\ e \in Pairs(t)
  BY DEF Settles, Pairs
<1>3. Step(t, s, c) = f[p]
  BY DEF Step
<1> HIDE DEF f, p, d, e
<1>4. /\ f[p] = IF FitsAt(t, p) THEN LeadsTo(t, p) ELSE f[Default(t, p)]
      /\ f[d] = IF FitsAt(t, d) THEN LeadsTo(t, d) ELSE f[Default(t, d)]
      /\ f[e] = IF FitsAt(t, e) THEN LeadsTo(t, e) ELSE f[Default(t, e)]
  BY <1>1, <1>2, RowAt
<1>5. Default(t, p) = d /\ Default(t, d) = e
  BY DEF p, d, e
<1>6. QED
  BY <1>3, <1>4, <1>5 DEF p, d, e

LEMMA CalcDomains ==
    /\ DOMAIN CalcTables.accept = 0..16 /\ DOMAIN CalcTables.def = 0..16
    /\ DOMAIN CalcTables.meta = 0..10
    /\ CalcTables.jam = 16 /\ CalcTables.jamBase = 15 /\ CalcTables.endOfBuffer = 12
  BY DEF CalcTables, Array

LEMMA CalcBase ==
    /\ \A s \in 0..2 : CalcTables.base[s] = 0
    /\ CalcTables.base[3] = 14 /\ CalcTables.base[11] = 5 /\ CalcTables.base[13] = 2
    /\ CalcTables.base[15] = 1
    /\ \A s \in {4, 5, 6, 7, 8, 9, 10, 12, 14, 16} : CalcTables.base[s] = 15
  BY DEF CalcTables, Array

LEMMA CalcDef ==
    /\ CalcTables.def[0] = 0 /\ CalcTables.def[2] = 1 /\ CalcTables.def[16] = 0
    /\ CalcTables.def[1] = 16 /\ \A s \in 3..15 : CalcTables.def[s] = 16
  BY DEF CalcTables, Array

LEMMA CalcChk ==
    /\ CalcTables.chk[0] = 0 /\ \A i \in 1..10 : CalcTables.chk[i] = 1
    /\ CalcTables.chk[11] = 15 /\ CalcTables.chk[12] = 13 /\ CalcTables.chk[13] = 11
    /\ CalcTables.chk[14] = 3 /\ \A i \in 15..25 : CalcTables.chk[i] = 16
  BY DEF CalcTables, Array

LEMMA CalcNxt ==
    /\ CalcTables.nxt[0] = 0 /\ \A i \in 1..10 : CalcTables.nxt[i] = i + 3
    /\ CalcTables.nxt[11] = 15 /\ CalcTables.nxt[12] = 15 /\ CalcTables.nxt[13] = 14
    /\ CalcTables.nxt[14] = 16 /\ CalcTables.nxt[15] = 3
    /\ \A i \in 16..25 : CalcTables.nxt[i] = 16
  BY DEF CalcTables, Array

LEMMA CalcAccept ==
    /\ CalcTables.accept[1] = 0 /\ CalcTables.accept[3] = 12 /\ CalcTables.accept[16] = 0
    /\ CalcTables.accept[4] = 11 /\ CalcTables.accept[5] = 1 /\ CalcTables.accept[6] = 2
    /\ CalcTables.accept[7] = 9 /\ CalcTables.accept[8] = 10 /\ CalcTables.accept[9] = 5
    /\ CalcTables.accept[10] = 7 /\ CalcTables.accept[11] = 8 /\ CalcTables.accept[12] = 6
    /\ CalcTables.accept[13] = 3 /\ CalcTables.accept[14] = 4 /\ CalcTables.accept[15] = 3
  BY DEF CalcTables, Array

LEMMA CalcSettles == Settles(CalcTables)
<1> DEFINE t == CalcTables
           K(p) == /\ Default(t, p) \in Pairs(t)
                   /\ \/ FitsAt(t, p) \/ FitsAt(t, Default(t, p))
                      \/ FitsAt(t, Default(t, Default(t, p))) \/ Default(t, p) = p
<1>1. Pairs(t) = (0..16) \X (0..10)
  BY CalcDomains DEF Pairs
<1>2. \A s \in 0..16 : t.def[s] \in {0, 1, 16}
  BY CalcDef
<1>3. \A c \in 0..10 : FitsAt(t, <<16, c>>)
  BY CalcBase, CalcChk DEF FitsAt
<1>4. \A s \in 0..16, c \in 0..10 : Default(t, <<s, c>>) = <<t.def[s], c>>
  BY <1>2, CalcDomains DEF Default
<1>5. ASSUME NEW s \in 0..16, NEW c \in 0..10
      PROVE  K(<<s, c>>)
  <2>0. t.def[s] \in 0..16
    BY <1>2
  <2>1. Default(t, <<s, c>>) = <<t.def[s], c>>
    BY <1>4, Zenon
  <2>2. CASE s = 0
    BY <1>1, <2>0, <2>1, <2>2, CalcDef
  <2>3. CASE s = 16
    BY <1>1, <1>3, <2>0, <2>1, <2>3
  <2>4. CASE s = 2
    <3>0. 1 \in 0..16 /\ t.def[2] = 1 /\ t.def[1] = 16
      BY CalcDef
    <3>1. Default(t, <<s, c>>) = <<1, c>> /\ Default(t, <<1, c>>) = <<16, c>>
      BY <1>4, <2>4, <3>0, Zenon
    <3>2. QED
      BY <1>1, <1>3, <3>1
  <2>5. CASE s \notin {0, 2, 16}
    <3>1. Default(t, <<s, c>>) = <<16, c>>
      BY <2>1, <2>5, CalcDef
    <3>2. QED
      BY <1>1, <1>3, <3>1
  <2>6. QED
    BY <2>2, <2>3, <2>4, <2>5
<1>6. ASSUME NEW p \in Pairs(t) PROVE \E s \in 0..16, c \in 0..10 : p = <<s, c>>
  BY <1>1
<1>7. \A p \in Pairs(t) : K(p)
  <2> HIDE DEF K
  <2>1. QED
    BY <1>5, <1>6
<1>8. QED
  BY <1>7, Zenon DEF Settles

\* The steps of a state s whose row begins at b.
CalcRow(s, c, b) ==
    Step(CalcTables, s, c) =
        IF CalcTables.chk[b + c] = s THEN CalcTables.nxt[b + c] ELSE IF c = 0 THEN 3 ELSE 16

LEMMA CalcOther ==
    ASSUME NEW s \in {1} \cup 3..15, NEW c \in 0..10, NEW b, CalcTables.base[s] = b
    PROVE  CalcRow(s, c, b)
<1> DEFINE t == CalcTables
           p == <<s, c>>
           d == Default(t, p)
<1>1. t.def[s] = 16
  BY CalcDef
<1>2. d = <<16, c>>
  BY <1>1, CalcDomains DEF Default
<1>3. FitsAt(t, <<16, c>>) /\ LeadsTo(t, <<16, c>>) = IF c = 0 THEN 3 ELSE 16
  BY CalcBase, CalcChk, CalcNxt DEF FitsAt, LeadsTo
<1>4. FitsAt(t, p) <=> t.chk[t.base[s] + c] = s
  BY DEF FitsAt
<1>5. LeadsTo(t, p) = t.nxt[t.base[s] + c]
  BY DEF LeadsTo
<1>6. s \in DOMAIN t.def /\ c \in DOMAIN t.meta
  BY CalcDomains
<1>7. /\ FitsAt(t, p) => Step(t, s, c) = LeadsTo(t, p)
      /\ ~FitsAt(t, p) /\ FitsAt(t, d) => Step(t, s, c) = LeadsTo(t, d)
  BY <1>6, CalcSettles, StepIs
<1> HIDE DEF p, d, t
<1>8. QED
  BY <1>2, <1>3, <1>4, <1>5, <1>7 DEF t, CalcRow

LEMMA CalcSteps ==
    ASSUME NEW c \in 0..10
    PROVE  /\ Step(CalcTables, 1, c) = c + 3
           /\ Step(CalcTables, 3, c) = 16
           /\ \A s \in 4..15 : Step(CalcTables, s, c) =
                 IF c = 0 THEN 3
                 ELSE IF s = 11 /\ c = 8 THEN 14
                 ELSE IF s \in {13, 15} /\ c = 10 THEN 15 ELSE 16
<1>1. Step(CalcTables, 1, c) = c + 3
  <2>1. CalcRow(1, c, 0)
    BY CalcOther, CalcBase
  <2>2. QED
    BY <2>1, CalcChk, CalcNxt DEF CalcRow
<1>2. Step(CalcTables, 3, c) = 16
  <2>1. CalcRow(3, c, 14)
    BY CalcOther, CalcBase
  <2>2. QED
    BY <2>1, CalcChk, CalcNxt DEF CalcRow
<1>3. ASSUME NEW s \in {4, 5, 6, 7, 8, 9, 10, 12, 14}
      PROVE  Step(CalcTables, s, c) = IF c = 0 THEN 3 ELSE 16
  <2>1. CalcRow(s, c, 15)
    BY CalcOther, CalcBase
  <2>2. QED
    BY <2>1, CalcChk, CalcNxt DEF CalcRow
<1>4. Step(CalcTables, 11, c) = IF c = 0 THEN 3 ELSE IF c = 8 THEN 14 ELSE 16
  <2>1. CalcRow(11, c, 5)
    BY CalcOther, CalcBase
  <2>2. QED
    BY <2>1, CalcChk, CalcNxt DEF CalcRow
<1>5. Step(CalcTables, 13, c) = IF c = 0 THEN 3 ELSE IF c = 10 THEN 15 ELSE 16
  <2>1. CalcRow(13, c, 2)
    BY CalcOther, CalcBase
  <2>2. QED
    BY <2>1, CalcChk, CalcNxt DEF CalcRow
<1>6. Step(CalcTables, 15, c) = IF c = 0 THEN 3 ELSE IF c = 10 THEN 15 ELSE 16
  <2>1. CalcRow(15, c, 1)
    BY CalcOther, CalcBase
  <2>2. QED
    BY <2>1, CalcChk, CalcNxt DEF CalcRow
<1>7. QED
  BY <1>1, <1>2, <1>3, <1>4, <1>5, <1>6

-----------------------------------------------------------------------------
LEMMA WordsDomains ==
    /\ DOMAIN WordsTables.accept = 0..9 /\ DOMAIN WordsTables.def = 0..11
    /\ DOMAIN WordsTables.meta = 0..3
    /\ WordsTables.jam = 9 /\ WordsTables.jamBase = 7 /\ WordsTables.endOfBuffer = 5
  BY DEF WordsTables, Array

LEMMA WordsEntries ==
    /\ WordsTables.base[0] = 0 /\ WordsTables.base[1] = 0 /\ WordsTables.base[2] = 0
    /\ WordsTables.base[3] = 6 /\ WordsTables.base[4] = 7 /\ WordsTables.base[5] = 0
    /\ WordsTables.base[6] = 0 /\ WordsTables.base[7] = 0 /\ WordsTables.base[8] = 0
    /\ WordsTables.base[9] = 7 /\ WordsTables.base[10] = 3 /\ WordsTables.base[11] = 1
    /\ WordsTables.def[0] = 0 /\ WordsTables.def[1] = 9 /\ WordsTables.def[2] = 1
    /\ WordsTables.def[3] = 9 /\ WordsTables.def[4] = 9 /\ WordsTables.def[5] = 10
    /\ WordsTables.def[6] = 11 /\ WordsTables.def[7] = 10 /\ WordsTables.def[8] = 11
    /\ WordsTables.def[9] = 0 /\ WordsTables.def[10] = 9 /\ WordsTables.def[11] = 9
    /\ WordsTables.meta[0] = 0 /\ WordsTables.meta[1] = 1 /\ WordsTables.meta[2] = 2
    /\ WordsTables.meta[3] = 3
  BY SMTT(60) DEF WordsTables, Array

LEMMA WordsLinks ==
    /\ WordsTables.chk[0] = 0 /\ WordsTables.chk[1] = 1 /\ WordsTables.chk[2] = 1
    /\ WordsTables.chk[3] = 1 /\ WordsTables.chk[4] = 11 /\ WordsTables.chk[5] = 10
    /\ WordsTables.chk[6] = 3 /\ \A i \in 7..10 : WordsTables.chk[i] = 9
    /\ WordsTables.nxt[0] = 0 /\ WordsTables.nxt[1] = 4 /\ WordsTables.nxt[2] = 5
    /\ WordsTables.nxt[3] = 6 /\ WordsTables.nxt[4] = 8 /\ WordsTables.nxt[5] = 7
    /\ WordsTables.nxt[6] = 9 /\ WordsTables.nxt[7] = 3
    /\ \A i \in 8..10 : WordsTables.nxt[i] = 9
  BY DEF WordsTables, Array

LEMMA WordsAccept ==
    /\ WordsTables.accept[1] = 0 /\ WordsTables.accept[3] = 5 /\ WordsTables.accept[4] = 1
    /\ WordsTables.accept[5] = 2 /\ WordsTables.accept[6] = 1 /\ WordsTables.accept[7] = 2
    /\ WordsTables.accept[8] = 3 /\ WordsTables.accept[9] = 0
  BY DEF WordsTables, Array

\* Where the table leads from a state, and from its default.
LEMMA WordsAt ==
    ASSUME NEW s \in 0..11, NEW c \in 0..3
    PROVE  LET t == WordsTables IN
           /\ Default(t, <<s, c>>) = <<t.def[s], c>>
           /\ FitsAt(t, <<s, c>>) <=> t.chk[t.base[s] + c] = s
           /\ LeadsTo(t, <<s, c>>) = t.nxt[t.base[s] + c]
<1>1. WordsTables.meta[c] = c
  BY WordsEntries
<1>2. Default(WordsTables, <<s, c>>) = <<WordsTables.def[s], c>>
  BY <1>1 DEF Default
<1>3. QED
  BY <1>2 DEF FitsAt, LeadsTo

LEMMA WordsJam ==
    ASSUME NEW c \in 0..3
    PROVE  /\ FitsAt(WordsTables, <<9, c>>)
           /\ LeadsTo(WordsTables, <<9, c>>) = IF c = 0 THEN 3 ELSE 9
<1>1. /\ FitsAt(WordsTables, <<9, c>>) <=> WordsTables.chk[WordsTables.base[9] + c] = 9
      /\ LeadsTo(WordsTables, <<9, c>>) = WordsTables.nxt[WordsTables.base[9] + c]
  <2>1. 9 \in 0..11
    OBVIOUS
  <2>2. QED
    BY <2>1, WordsAt, Zenon
<1>2. WordsTables.base[9] = 7
  BY WordsEntries
<1>3. QED
  BY <1>1, <1>2, WordsLinks

LEMMA WordsSettles == Settles(WordsTables)
<1> DEFINE t == WordsTables
           K(p) == /\ Default(t, p) \in Pairs(t)
                   /\ \/ FitsAt(t, p) \/ FitsAt(t, Default(t, p))
                      \/ FitsAt(t, Default(t, Default(t, p))) \/ Default(t, p) = p
<1>1. Pairs(t) = (0..11) \X (0..3)
  BY WordsDomains DEF Pairs
<1>2. ASSUME NEW s \in 0..11, NEW c \in 0..3
      PROVE  K(<<s, c>>)
  <2>0. t.def[s] \in 0..11 /\ t.def[t.def[s]] \in 0..11
    BY WordsEntries
  <2>1. Default(t, <<s, c>>) = <<t.def[s], c>>
    BY WordsAt
  <2>2. Default(t, <<t.def[s], c>>) = <<t.def[t.def[s]], c>>
    BY <2>0, WordsAt
  <2>3. FitsAt(t, <<9, c>>)
    BY WordsJam
  <2>4. s \in {0, 9} \/ t.def[s] = 9 \/ t.def[t.def[s]] = 9
    BY WordsEntries
  <2>5. s = 0 => t.def[s] = s
    BY WordsEntries
  <2>6. Default(t, <<s, c>>) \in Pairs(t)
    BY <1>1, <2>0, <2>1
  <2>7. QED
    BY <2>1, <2>2, <2>3, <2>4, <2>5, <2>6
<1>3. ASSUME NEW p \in Pairs(t) PROVE \E s \in 0..11, c \in 0..3 : p = <<s, c>>
  BY <1>1
<1>4. \A p \in Pairs(t) : K(p)
  <2> HIDE DEF K
  <2>1. QED
    BY <1>2, <1>3
<1>5. QED
  BY <1>4, Zenon DEF Settles

\* The steps of a state s whose row begins at b, and that of its default d at e.
WordsRow(s, c, b, d, e) ==
    LET fits == WordsTables.chk[b + c] = s
        fitsNext == WordsTables.chk[e + c] = d
    IN  /\ fits => Step(WordsTables, s, c) = WordsTables.nxt[b + c]
        /\ ~fits /\ fitsNext => Step(WordsTables, s, c) = WordsTables.nxt[e + c]
        /\ ~fits /\ ~fitsNext => Step(WordsTables, s, c) = IF c = 0 THEN 3 ELSE 9

LEMMA WordsOther ==
    ASSUME NEW s \in {1} \cup 3..8, NEW c \in 0..3, NEW b, NEW d, NEW e,
           WordsTables.base[s] = b, WordsTables.def[s] = d, WordsTables.base[d] = e
    PROVE  WordsRow(s, c, b, d, e)
<1> DEFINE t == WordsTables
           p == <<s, c>>
           q == <<d, c>>
           r == <<t.def[d], c>>
<1>1. s \in 0..11 /\ d \in 0..11 /\ (d = 9 \/ t.def[d] = 9)
  BY WordsEntries
<1>2. Default(t, p) = q /\ Default(t, q) = r
  BY <1>1, WordsAt
<1>3. /\ FitsAt(t, p) <=> t.chk[t.base[s] + c] = s
      /\ FitsAt(t, q) <=> t.chk[t.base[d] + c] = d
      /\ LeadsTo(t, p) = t.nxt[t.base[s] + c]
      /\ LeadsTo(t, q) = t.nxt[t.base[d] + c]
  BY <1>1, WordsAt
<1>4. s \in DOMAIN t.def /\ c \in DOMAIN t.meta
  BY <1>1, WordsDomains
<1>5. /\ FitsAt(t, p) => Step(t, s, c) = LeadsTo(t, p)
      /\ ~FitsAt(t, p) /\ FitsAt(t, q) => Step(t, s, c) = LeadsTo(t, q)
      /\ ~FitsAt(t, p) /\ ~FitsAt(t, q) /\ FitsAt(t, r) => Step(t, s, c) = LeadsTo(t, r)
  BY <1>2, <1>4, WordsSettles, StepIs
<1>6. ~FitsAt(t, q) => FitsAt(t, r) /\ LeadsTo(t, r) = IF c = 0 THEN 3 ELSE 9
  <2>1. d = 9 => FitsAt(t, q)
    BY WordsJam
  <2>2. t.def[d] = 9 => FitsAt(t, r) /\ LeadsTo(t, r) = IF c = 0 THEN 3 ELSE 9
    BY WordsJam
  <2>3. QED
    BY <1>1, <2>1, <2>2
<1> HIDE DEF p, q, r
<1>7. QED
  BY <1>3, <1>5, <1>6 DEF WordsRow

LEMMA WordsSteps ==
    ASSUME NEW c \in 0..3
    PROVE  /\ Step(WordsTables, 1, c) = c + 3
           /\ Step(WordsTables, 3, c) = 9
           /\ \A s \in 4..8 : Step(WordsTables, s, c) =
                 IF c = 0 THEN 3
                 ELSE IF s \in {5, 7} /\ c = 2 THEN 7
                 ELSE IF s \in {6, 8} /\ c = 3 THEN 8 ELSE 9
<1>0. c = 0 \/ c = 1 \/ c = 2 \/ c = 3
  OBVIOUS
<1>1. Step(WordsTables, 1, c) = c + 3
  <2>1. WordsRow(1, c, 0, 9, 7)
    BY WordsEntries, WordsOther
  <2>2. QED
    BY <1>0, <2>1, WordsLinks DEF WordsRow
<1>2. Step(WordsTables, 3, c) = 9
  <2>1. WordsRow(3, c, 6, 9, 7)
    BY WordsEntries, WordsOther
  <2>2. QED
    BY <1>0, <2>1, WordsLinks DEF WordsRow
<1>3. Step(WordsTables, 4, c) = IF c = 0 THEN 3 ELSE 9
  <2>1. WordsRow(4, c, 7, 9, 7)
    BY WordsEntries, WordsOther
  <2>2. QED
    BY <1>0, <2>1, WordsLinks DEF WordsRow
<1>4. Step(WordsTables, 5, c) = IF c = 0 THEN 3 ELSE IF c = 2 THEN 7 ELSE 9
  <2>1. WordsRow(5, c, 0, 10, 3)
    BY WordsEntries, WordsOther
  <2>2. QED
    BY <1>0, <2>1, WordsLinks DEF WordsRow
<1>5. Step(WordsTables, 6, c) = IF c = 0 THEN 3 ELSE IF c = 3 THEN 8 ELSE 9
  <2>1. WordsRow(6, c, 0, 11, 1)
    BY WordsEntries, WordsOther
  <2>2. QED
    BY <1>0, <2>1, WordsLinks DEF WordsRow
<1>6. Step(WordsTables, 7, c) = IF c = 0 THEN 3 ELSE IF c = 2 THEN 7 ELSE 9
  <2>1. WordsRow(7, c, 0, 10, 3)
    BY WordsEntries, WordsOther
  <2>2. QED
    BY <1>0, <2>1, WordsLinks DEF WordsRow
<1>7. Step(WordsTables, 8, c) = IF c = 0 THEN 3 ELSE IF c = 3 THEN 8 ELSE 9
  <2>1. WordsRow(8, c, 0, 11, 1)
    BY WordsEntries, WordsOther
  <2>2. QED
    BY <1>0, <2>1, WordsLinks DEF WordsRow
<1>8. QED
  BY <1>1, <1>2, <1>3, <1>4, <1>5, <1>6, <1>7

-----------------------------------------------------------------------------
(***************************************************************************)
(* The states of the automaton.  A token of more than one byte repeats its *)
(* first; so the state after k bytes follows from the first and k.         *)
(***************************************************************************)
Kinds == {"calc", "words"}
ClassesOf(x) == IF x = "calc" THEN 0..10 ELSE 0..3
ClassOf(b) == IF b = 0 THEN 1 ELSE b

\* A class of which k bytes, more than one, may be a token or its beginning.
Repeats(x, c, k) == IF x = "calc" THEN c = 10 \/ (c = 8 /\ k = 2) ELSE c \in {2, 3}

StateAfter(x, c, k) ==
    IF k = 0 THEN 1
    ELSE IF k = 1 THEN ClassOf(c) + 3
    ELSE IF x = "calc" THEN (IF c = 8 THEN 14 ELSE 15) ELSE (IF c = 2 THEN 7 ELSE 8)

\* The states behind a byte.
Live(x) == IF x = "calc" THEN 4..15 ELSE 4..8


\* Bytes k of the same class c can have been read as part of one token.
Possible(x, c, k) == k <= 1 \/ Repeats(x, c, k)

\* What the engine has of its tables.
LEMMA CalcStates ==
    ASSUME NEW c \in 0..10, NEW k \in Nat, Possible("calc", c, k)
    PROVE  LET t == CalcTables s == StateAfter("calc", c, k) IN
           /\ s \in DOMAIN t.accept
           /\ k # 0 => s \in Live("calc") /\ t.accept[s] # 0 /\ t.accept[s] # t.endOfBuffer
           /\ k = 0 => t.accept[s] = 0
           /\ Step(t, s, 0) = 3
           /\ t.base[s] = t.jamBase => k # 0 /\ ~Repeats("calc", c, k + 1)
<1> DEFINE t == CalcTables
           s == StateAfter("calc", c, k)
<1>1. /\ s \in 1..15 /\ s # 2 /\ s # 3
      /\ k # 0 => s \in 4..15
      /\ k = 0 => s = 1
      /\ s = 1 => k = 0
      /\ s = 15 => c = 10
      /\ s = 13 => c = 10 /\ k = 1
      /\ s = 11 => c = 8 /\ k = 1
      /\ s \notin {1, 11, 13, 15} => k # 0 /\ ~Repeats("calc", c, k + 1)
  BY DEF StateAfter, Possible, Repeats, ClassOf
<1> HIDE DEF s
<1>2. t.accept[1] = 0 /\ \A i \in 4..15 : t.accept[i] \in 1..11
  BY CalcAccept
<1>3. Step(t, s, 0) = 3
  <2>1. s = 1 \/ s \in 4..15
    BY <1>1
  <2>2. QED
    BY <2>1, CalcSteps
<1>4. t.base[s] = t.jamBase => s \notin {1, 11, 13, 15}
  BY CalcBase, CalcDomains
<1>5. s \in DOMAIN t.accept /\ t.endOfBuffer = 12
  BY <1>1, CalcDomains
<1>6. k # 0 => s \in Live("calc")
  BY <1>1 DEF Live
<1>7. QED
  BY <1>1, <1>2, <1>3, <1>4, <1>5, <1>6 DEF s

LEMMA CalcOn ==
    ASSUME NEW c \in 0..10, NEW k \in Nat, Possible("calc", c, k), NEW b \in 0..10
    PROVE  Step(CalcTables, StateAfter("calc", c, k), ClassOf(b)) =
              IF k = 0 THEN StateAfter("calc", b, 1)
              ELSE IF b = c /\ Repeats("calc", c, k + 1) THEN StateAfter("calc", c, k + 1) ELSE 16
<1>1. ClassOf(b) \in 1..10
  BY DEF ClassOf
<1>2. /\ Step(CalcTables, 1, ClassOf(b)) = ClassOf(b) + 3
      /\ \A s \in 4..15 : Step(CalcTables, s, ClassOf(b)) =
             IF s = 11 /\ ClassOf(b) = 8 THEN 14
             ELSE IF s \in {13, 15} /\ ClassOf(b) = 10 THEN 15 ELSE 16
  BY <1>1, CalcSteps
<1>3. CASE k = 0
  BY <1>2, <1>3 DEF StateAfter
<1>4. CASE k = 1
  <2>1. StateAfter("calc", c, k) = ClassOf(c) + 3 /\ ClassOf(c) + 3 \in 4..15
    BY <1>4 DEF StateAfter, ClassOf
  <2>2. k + 1 = 2
    BY <1>4
  <2>3. QED
    BY <1>2, <1>4, <2>1, <2>2 DEF StateAfter, Repeats, ClassOf
<1>5. CASE k >= 2
  <2>1. k # 0 /\ k # 1 /\ k + 1 # 2 /\ k + 1 # 0 /\ k + 1 # 1
    BY <1>5
  <2>2. (c = 8 /\ StateAfter("calc", c, k) = 14) \/ (c = 10 /\ StateAfter("calc", c, k) = 15)
    BY <1>5, <2>1 DEF Possible, Repeats, StateAfter
  <2>3. QED
    BY <1>2, <2>1, <2>2 DEF StateAfter, Repeats, ClassOf
<1>6. QED
  BY <1>3, <1>4, <1>5

LEMMA WordsStates ==
    ASSUME NEW c \in 0..3, NEW k \in Nat, Possible("words", c, k)
    PROVE  LET t == WordsTables s == StateAfter("words", c, k) IN
           /\ s \in DOMAIN t.accept
           /\ k # 0 => s \in Live("words") /\ t.accept[s] # 0 /\ t.accept[s] # t.endOfBuffer
           /\ k = 0 => t.accept[s] = 0
           /\ Step(t, s, 0) = 3
           /\ t.base[s] = t.jamBase => k # 0 /\ ~Repeats("words", c, k + 1)
<1> DEFINE t == WordsTables
           s == StateAfter("words", c, k)
<1>1. /\ s \in 1..8 /\ s # 2 /\ s # 3
      /\ k # 0 => s \in 4..8
      /\ k = 0 => s = 1
      /\ s = 4 => k # 0 /\ ~Repeats("words", c, k + 1)
  BY DEF StateAfter, Possible, Repeats, ClassOf
<1> HIDE DEF s
<1>2. t.accept[1] = 0 /\ \A i \in 4..8 : t.accept[i] \in 1..4
  BY WordsAccept
<1>3. Step(t, s, 0) = 3
  <2>1. s = 1 \/ s \in 4..8
    BY <1>1
  <2>2. QED
    BY <2>1, WordsSteps
<1>4. t.base[s] = t.jamBase => s = 4
  BY <1>1, WordsEntries, WordsDomains
<1>5. s \in DOMAIN t.accept /\ t.endOfBuffer = 5
  BY <1>1, WordsDomains
<1>6. k # 0 => s \in Live("words")
  BY <1>1 DEF Live
<1>7. QED
  BY <1>1, <1>2, <1>3, <1>4, <1>5, <1>6 DEF s

LEMMA WordsOn ==
    ASSUME NEW c \in 0..3, NEW k \in Nat, Possible("words", c, k), NEW b \in 0..3
    PROVE  Step(WordsTables, StateAfter("words", c, k), ClassOf(b)) =
              IF k = 0 THEN StateAfter("words", b, 1)
              ELSE IF b = c /\ Repeats("words", c, k + 1) THEN StateAfter("words", c, k + 1) ELSE 9
<1>1. ClassOf(b) \in 1..3
  BY DEF ClassOf
<1>2. /\ Step(WordsTables, 1, ClassOf(b)) = ClassOf(b) + 3
      /\ \A s \in 4..8 : Step(WordsTables, s, ClassOf(b)) =
             IF s \in {5, 7} /\ ClassOf(b) = 2 THEN 7
             ELSE IF s \in {6, 8} /\ ClassOf(b) = 3 THEN 8 ELSE 9
  BY <1>1, WordsSteps
<1>3. CASE k = 0
  BY <1>2, <1>3 DEF StateAfter
<1>4. CASE k = 1
  <2>1. StateAfter("words", c, k) = ClassOf(c) + 3 /\ ClassOf(c) + 3 \in 4..8
    BY <1>4 DEF StateAfter, ClassOf
  <2>2. k + 1 = 2
    BY <1>4
  <2>3. QED
    BY <1>2, <1>4, <2>1, <2>2 DEF StateAfter, Repeats, ClassOf
<1>5. CASE k >= 2
  <2>1. k # 0 /\ k # 1 /\ k + 1 # 0 /\ k + 1 # 1
    BY <1>5
  <2>2. (c = 2 /\ StateAfter("words", c, k) = 7) \/ (c = 3 /\ StateAfter("words", c, k) = 8)
    BY <1>5, <2>1 DEF Possible, Repeats, StateAfter
  <2>3. QED
    BY <1>2, <2>1, <2>2 DEF StateAfter, Repeats, ClassOf
<1>6. QED
  BY <1>3, <1>4, <1>5

\* Both automata.
LEMMA TablesOf == Tables["calc"] = CalcTables /\ Tables["words"] = WordsTables
  BY DEF Tables

LEMMA States ==
    ASSUME NEW x \in Kinds, NEW c \in ClassesOf(x), NEW k \in Nat, Possible(x, c, k)
    PROVE  LET t == Tables[x] s == StateAfter(x, c, k) IN
           /\ s \in DOMAIN t.accept
           /\ k # 0 => s \in Live(x) /\ t.accept[s] # 0 /\ t.accept[s] # t.endOfBuffer
           /\ k = 0 => t.accept[s] = 0
           /\ Step(t, s, 0) = 3
           /\ t.base[s] = t.jamBase => k # 0 /\ ~Repeats(x, c, k + 1)
<1>1. CASE x = "calc"
  <2>1. c \in 0..10 /\ Possible("calc", c, k)
    BY <1>1 DEF ClassesOf
  <2>2. QED
    BY <1>1, <2>1, CalcStates, TablesOf
<1>2. CASE x = "words"
  <2>1. c \in 0..3 /\ Possible("words", c, k)
    BY <1>2 DEF ClassesOf
  <2>2. QED
    BY <1>2, <2>1, WordsStates, TablesOf
<1>3. QED
  BY <1>1, <1>2 DEF Kinds

LEMMA Onward ==
    ASSUME NEW x \in Kinds, NEW c \in ClassesOf(x), NEW k \in Nat, Possible(x, c, k),
           NEW b \in ClassesOf(x)
    PROVE  Step(Tables[x], StateAfter(x, c, k), ClassOf(b)) =
              IF k = 0 THEN StateAfter(x, b, 1)
              ELSE IF b = c /\ Repeats(x, c, k + 1) THEN StateAfter(x, c, k + 1)
              ELSE Tables[x].jam
<1>1. CASE x = "calc"
  <2>1. c \in 0..10 /\ b \in 0..10 /\ Possible("calc", c, k)
    BY <1>1 DEF ClassesOf
  <2>2. QED
    BY <1>1, <2>1, CalcOn, TablesOf, CalcDomains
<1>2. CASE x = "words"
  <2>1. c \in 0..3 /\ b \in 0..3 /\ Possible("words", c, k)
    BY <1>2 DEF ClassesOf
  <2>2. QED
    BY <1>2, <2>1, WordsOn, TablesOf, WordsDomains
<1>3. QED
  BY <1>1, <1>2 DEF Kinds

\* The states at the end of the buffer and where nothing fits.
LEMMA Ends ==
    ASSUME NEW x \in Kinds
    PROVE  LET t == Tables[x] IN
           /\ {3, t.jam} \subseteq DOMAIN t.accept /\ DOMAIN t.meta = ClassesOf(x)
           /\ t.accept[3] = t.endOfBuffer /\ t.endOfBuffer # 0 /\ t.accept[t.jam] = 0
           /\ t.base[3] # t.jamBase /\ t.base[t.jam] = t.jamBase
           /\ t.jam # 3 /\ t.jam # 1 /\ {1, 3, t.jam} \cap Live(x) = {}
           /\ \A c \in ClassesOf(x) : Step(t, 3, c) = t.jam
<1>1. CASE x = "calc"
  BY <1>1, TablesOf, CalcDomains, CalcAccept, CalcBase, CalcSteps DEF Live, ClassesOf
<1>2. CASE x = "words"
  BY <1>2, TablesOf, WordsDomains, WordsAccept, WordsEntries, WordsSteps DEF Live, ClassesOf
<1>3. QED
  BY <1>1, <1>2 DEF Kinds

-----------------------------------------------------------------------------
\* The k bytes of w from p on may be a token or its beginning; they are one.
Begun(x, w, p, k) ==
    /\ p + k - 1 <= Len(w)
    /\ \A i \in 1..(k - 1) : w[p + i] = w[p]
    /\ Possible(x, w[p], k)
WholeToken(x, w, p, k) == k # 0 /\ Begun(x, w, p, k) /\ ~Begun(x, w, p, k + 1)

LEMMA BegunNext ==
    ASSUME NEW x \in Kinds, NEW w \in Seq(ClassesOf(x)), NEW p \in Nat \ {0}, NEW k \in Nat,
           Begun(x, w, p, k)
    PROVE  /\ Begun(x, w, p, k + 1) <=>
                 p + k <= Len(w) /\ (k = 0 \/ (w[p + k] = w[p] /\ Repeats(x, w[p], k + 1)))
           /\ k # 0 => p \in 1..Len(w) /\ w[p] \in ClassesOf(x)
<1>0. Len(w) \in Nat
  OBVIOUS
<1>1. k # 0 => p \in 1..Len(w) /\ w[p] \in ClassesOf(x)
  BY <1>0 DEF Begun
<1>2. p + (k + 1) - 1 = p + k /\ (k + 1) - 1 = k
  OBVIOUS
<1>3. k = 0 => Possible(x, w[p], k + 1) /\ \A i \in 1..k : w[p + i] = w[p]
  BY DEF Possible
<1>4. k # 0 => (Possible(x, w[p], k + 1) <=> Repeats(x, w[p], k + 1))
  BY DEF Possible
<1>5. k # 0 => ((\A i \in 1..k : w[p + i] = w[p]) <=> w[p + k] = w[p])
  <2>1. k # 0 => k \in 1..k
    OBVIOUS
  <2>2. \A i \in 1..k : i = k \/ i \in 1..(k - 1)
    OBVIOUS
  <2>3. \A i \in 1..(k - 1) : w[p + i] = w[p]
    BY DEF Begun
  <2>4. QED
    BY <2>1, <2>2, <2>3
<1>6. Begun(x, w, p, k + 1) <=> p + k <= Len(w) /\ (\A i \in 1..k : w[p + i] = w[p])
                                /\ Possible(x, w[p], k + 1)
  BY <1>2 DEF Begun
<1>7. QED
  BY <1>1, <1>3, <1>4, <1>5, <1>6

LEMMA TokenState ==
    ASSUME NEW x \in Kinds, NEW w \in Seq(ClassesOf(x)), NEW p \in Nat \ {0}, NEW k \in Nat,
           Begun(x, w, p, k)
    PROVE  LET t == Tables[x] s == StateAfter(x, w[p], k) IN
           /\ s \in DOMAIN t.accept
           /\ k # 0 => s \in Live(x) /\ t.accept[s] # 0 /\ t.accept[s] # t.endOfBuffer
           /\ k = 0 => s = 1 /\ t.accept[s] = 0
           /\ Step(t, s, 0) = 3
           /\ t.base[s] = t.jamBase => WholeToken(x, w, p, k)
<1> DEFINE c == IF k = 0 THEN 0 ELSE w[p]
<1>1. k # 0 => p \in 1..Len(w) /\ w[p] \in ClassesOf(x)
  BY BegunNext
<1>2. c \in ClassesOf(x) /\ Possible(x, c, k) /\ StateAfter(x, c, k) = StateAfter(x, w[p], k)
  BY <1>1 DEF ClassesOf, Possible, StateAfter, Begun
<1>3. k = 0 => StateAfter(x, c, k) = 1
  BY DEF StateAfter
<1>4. k # 0 => c = w[p]
  OBVIOUS
<1> HIDE DEF c
<1>5. LET t == Tables[x] s == StateAfter(x, c, k) IN
           /\ s \in DOMAIN t.accept
           /\ k # 0 => s \in Live(x) /\ t.accept[s] # 0 /\ t.accept[s] # t.endOfBuffer
           /\ k = 0 => t.accept[s] = 0
           /\ Step(t, s, 0) = 3
           /\ t.base[s] = t.jamBase => k # 0 /\ ~Repeats(x, c, k + 1)
  BY <1>2, States
<1>6. k # 0 /\ ~Repeats(x, c, k + 1) => WholeToken(x, w, p, k)
  BY <1>4, BegunNext DEF WholeToken
<1>7. QED
  BY <1>2, <1>3, <1>5, <1>6

LEMMA TokenStep ==
    ASSUME NEW x \in Kinds, NEW w \in Seq(ClassesOf(x)), NEW p \in Nat \ {0}, NEW k \in Nat,
           Begun(x, w, p, k), p + k <= Len(w)
    PROVE  /\ Step(Tables[x], StateAfter(x, w[p], k), ClassOf(w[p + k])) =
                 IF Begun(x, w, p, k + 1) THEN StateAfter(x, w[p], k + 1) ELSE Tables[x].jam
           /\ w[p + k] \in ClassesOf(x)
<1>1. w[p] \in ClassesOf(x) /\ w[p + k] \in ClassesOf(x)
  OBVIOUS
<1>2. Possible(x, w[p], k)
  BY DEF Begun
<1>3. Step(Tables[x], StateAfter(x, w[p], k), ClassOf(w[p + k])) =
              IF k = 0 THEN StateAfter(x, w[p + k], 1)
              ELSE IF w[p + k] = w[p] /\ Repeats(x, w[p], k + 1) THEN StateAfter(x, w[p], k + 1)
              ELSE Tables[x].jam
  BY <1>1, <1>2, Onward
<1>4. Begun(x, w, p, k + 1) <=> k = 0 \/ (w[p + k] = w[p] /\ Repeats(x, w[p], k + 1))
  BY BegunNext
<1>5. k = 0 => p + k = p /\ k + 1 = 1
  OBVIOUS
<1>6. QED
  BY <1>1, <1>3, <1>4, <1>5

-----------------------------------------------------------------------------
(***************************************************************************)
(* The rules, of an x and a text w.                                        *)
(***************************************************************************)
SameRun(w, p, S) == {k \in 1..(Len(w) - p + 1) : \A i \in p..(p + k - 1) : w[i] \in S}

LengthOf(x, w, r, p) ==
    LET longest == Cardinality(SameRun(w, p, AllRules[x][r].of))
    IN  CASE AllRules[x][r].kind = "one" -> Fx!Smaller(longest, 1)
          [] AllRules[x][r].kind = "two" -> IF longest >= 2 THEN 2 ELSE 0
          [] OTHER -> longest

RuleOf(x, w, p) ==
    CHOOSE r \in DOMAIN AllRules[x] :
        \A q \in DOMAIN AllRules[x] :
            \/ LengthOf(x, w, q, p) < LengthOf(x, w, r, p)
            \/ LengthOf(x, w, q, p) = LengthOf(x, w, r, p) /\ r <= q

LEMMA SameCardinality == \A S : Fx!Cardinality(S) = Cardinality(S)
  BY DEF Fx!Cardinality, Cardinality

LEMMA LengthIs == \A r, p : Fx!MatchLength(r, p) = LengthOf(scanner, input, r, p)
<1>1. \A S, p : Fx!RunsOf(S, p) = SameRun(input, p, S)
  BY DEF Fx!RunsOf, SameRun
<1> TAKE r, p
<1>2. Fx!Rules[r] = AllRules[scanner][r]
  BY DEF Fx!Rules
<1>3. Fx!RunsOf(Fx!Rules[r].of, p) = SameRun(input, p, AllRules[scanner][r].of)
  BY <1>1, <1>2
<1> HIDE DEF Fx!Rules
<1>4. QED
  BY <1>2, <1>3, SameCardinality DEF Fx!MatchLength, LengthOf

LEMMA RuleIs == \A p : Fx!RuleAt(p) = RuleOf(scanner, input, p)
  BY LengthIs DEF Fx!RuleAt, RuleOf, Fx!Rules

\* A run is as long as its last byte says.
LEMMA RunLength ==
    ASSUME NEW X, NEW w \in Seq(X), NEW p \in 1..Len(w), NEW S, NEW m \in Nat,
           m <= Len(w) - p + 1, \A i \in p..(p + m - 1) : w[i] \in S,
           m = Len(w) - p + 1 \/ w[p + m] \notin S
    PROVE  Cardinality(SameRun(w, p, S)) = m
<1>0. Len(w) \in Nat
  OBVIOUS
<1>1. SameRun(w, p, S) = 1..m
  <2>1. ASSUME NEW k \in 1..m PROVE k \in SameRun(w, p, S)
    <3>1. \A i \in p..(p + k - 1) : i \in p..(p + m - 1)
      BY <1>0
    <3>2. k \in 1..(Len(w) - p + 1)
      BY <1>0
    <3>3. QED
      BY <3>1, <3>2 DEF SameRun
  <2>2. ASSUME NEW k \in SameRun(w, p, S), k \notin 1..m PROVE FALSE
    <3>1. k \in 1..(Len(w) - p + 1) /\ \A i \in p..(p + k - 1) : w[i] \in S
      BY DEF SameRun
    <3>2. k > m /\ m # Len(w) - p + 1
      BY <1>0, <2>2, <3>1
    <3>3. p + m \in p..(p + k - 1)
      BY <1>0, <3>1, <3>2
    <3>4. QED
      BY <3>1, <3>2, <3>3
  <2>3. QED
    BY <2>1, <2>2
<1>2. Cardinality(1..m) = m
  <2>1. Cardinality(1..m) = IF 1 > m THEN 0 ELSE m - 1 + 1
    BY FS_Interval
  <2>2. QED
    BY <2>1
<1>3. QED
  BY <1>1, <1>2

\* It is empty if the first byte is another, and has that byte at least if not.
LEMMA RunBegins ==
    ASSUME NEW X, NEW w \in Seq(X), NEW p \in 1..Len(w), NEW S
    PROVE  /\ Cardinality(SameRun(w, p, S)) \in Nat
           /\ w[p] \notin S => Cardinality(SameRun(w, p, S)) = 0
           /\ w[p] \in S => Cardinality(SameRun(w, p, S)) >= 1
           /\ w[p] \in S /\ p < Len(w) /\ w[p + 1] \in S => Cardinality(SameRun(w, p, S)) >= 2
<1>0. Len(w) \in Nat
  OBVIOUS
<1> DEFINE Stop == {m \in Nat : m = Len(w) - p + 1 \/ (m < Len(w) - p + 1 /\ w[p + m] \notin S)}
<1>1. Len(w) - p + 1 \in Stop
  BY <1>0
<1>2. PICK m \in Stop : \A k \in Stop : m <= k
  BY <1>1, Smallest
<1>3. m \in Nat /\ m <= Len(w) - p + 1 /\ (m = Len(w) - p + 1 \/ w[p + m] \notin S)
  BY <1>0
<1>4. ASSUME NEW i \in p..(p + m - 1) PROVE w[i] \in S
  <2>1. i - p \in Nat /\ i - p < m /\ i - p < Len(w) - p + 1 /\ p + (i - p) = i
    BY <1>0, <1>3
  <2>2. i - p \notin Stop
    BY <1>2, <1>3, <2>1
  <2>3. QED
    BY <2>1, <2>2
<1>5. Cardinality(SameRun(w, p, S)) = m
  BY <1>3, <1>4, RunLength
<1>6. m >= 1 => p \in p..(p + m - 1)
  BY <1>0, <1>3
<1>7. w[p] \notin S => m = 0
  BY <1>3, <1>4, <1>6
<1>8. w[p] \in S => m # 0
  <2>1. p + 0 = p /\ 0 # Len(w) - p + 1
    BY <1>0
  <2>2. QED
    BY <1>3, <2>1
<1>9. w[p] \in S /\ p < Len(w) /\ w[p + 1] \in S => m # 1
  <2>1. p < Len(w) => 1 # Len(w) - p + 1
    BY <1>0
  <2>2. QED
    BY <1>3, <2>1
<1> HIDE DEF Stop
<1>10. QED
  BY <1>3, <1>5, <1>7, <1>8, <1>9

\* The longest rule, and of equally long ones the first, is one alone.
LEMMA BestRule ==
    ASSUME NEW x, NEW w, NEW p, NEW r \in DOMAIN AllRules[x],
           DOMAIN AllRules[x] \subseteq Nat,
           \A q \in DOMAIN AllRules[x] : LengthOf(x, w, q, p) \in Nat,
           \A q \in DOMAIN AllRules[x] :
               \/ LengthOf(x, w, q, p) < LengthOf(x, w, r, p)
               \/ LengthOf(x, w, q, p) = LengthOf(x, w, r, p) /\ r <= q
    PROVE  RuleOf(x, w, p) = r
<1> DEFINE D == DOMAIN AllRules[x]
           Lg(q) == LengthOf(x, w, q, p)
           Best(s) == \A q \in D : Lg(q) < Lg(s) \/ (Lg(q) = Lg(s) /\ s <= q)
<1>1. Best(r)
  OBVIOUS
<1>2. ASSUME NEW s \in D, Best(s) PROVE s = r
  <2>1. Lg(r) < Lg(s) \/ (Lg(r) = Lg(s) /\ s <= r)
    BY <1>2
  <2>2. Lg(s) < Lg(r) \/ (Lg(s) = Lg(r) /\ r <= s)
    BY <1>1
  <2>3. Lg(r) \in Nat /\ Lg(s) \in Nat /\ r \in Nat /\ s \in Nat
    OBVIOUS
  <2> HIDE DEF Lg
  <2>4. QED
    BY <2>1, <2>2, <2>3
<1>3. RuleOf(x, w, p) = CHOOSE s \in D : Best(s)
  BY DEF RuleOf
<1> HIDE DEF Best, D
<1>4. QED
  BY <1>1, <1>2, <1>3 DEF D

LEMMA CalcRules ==
    LET R == AllRules["calc"] IN
    /\ DOMAIN R = 1..11
    /\ \A r \in (1..11) \ {3, 4} : R[r].kind = "one"
    /\ R[3].kind = "run" /\ R[4].kind = "two"
    /\ R[1].of = {2} /\ R[2].of = {3} /\ R[3].of = {10} /\ R[4].of = {8}
    /\ R[5].of = {6} /\ R[6].of = {9} /\ R[7].of = {7} /\ R[8].of = {8}
    /\ R[9].of = {4} /\ R[10].of = {5} /\ R[11].of = 0..10
  BY DEF AllRules, One, Two, Run

LEMMA WordsRules ==
    LET R == AllRules["words"] IN
    /\ DOMAIN R = 1..4
    /\ R[1].kind = "one" /\ R[2].kind = "run" /\ R[3].kind = "run" /\ R[4].kind = "one"
    /\ R[1].of = {0, 1, 3} /\ R[2].of = {2} /\ R[3].of = {3} /\ R[4].of = 0..3
  BY DEF AllRules, One, Two, Run

\* How long a rule is that is for one byte, for two, or for any number.
LEMMA LengthOne ==
    ASSUME NEW x, NEW X, NEW w \in Seq(X), NEW p \in 1..Len(w), NEW r,
           AllRules[x][r].kind = "one"
    PROVE  LengthOf(x, w, r, p) = IF w[p] \in AllRules[x][r].of THEN 1 ELSE 0
<1> DEFINE n == Cardinality(SameRun(w, p, AllRules[x][r].of))
<1>1. /\ n \in Nat
      /\ w[p] \notin AllRules[x][r].of => n = 0
      /\ w[p] \in AllRules[x][r].of => n >= 1
  BY RunBegins
<1>2. LengthOf(x, w, r, p) = Fx!Smaller(n, 1)
  BY DEF LengthOf
<1> HIDE DEF n
<1>3. QED
  BY <1>1, <1>2 DEF Fx!Smaller

LEMMA LengthTwo ==
    ASSUME NEW x, NEW X, NEW w \in Seq(X), NEW p \in 1..Len(w), NEW r,
           AllRules[x][r].kind = "two"
    PROVE  LengthOf(x, w, r, p) =
              IF w[p] \in AllRules[x][r].of /\ p < Len(w) /\ w[p + 1] \in AllRules[x][r].of
              THEN 2 ELSE 0
<1> DEFINE S == AllRules[x][r].of
           n == Cardinality(SameRun(w, p, S))
<1>0. Len(w) \in Nat
  OBVIOUS
<1>1. /\ n \in Nat
      /\ w[p] \notin S => n = 0
      /\ w[p] \in S /\ p < Len(w) /\ w[p + 1] \in S => n >= 2
  BY RunBegins
<1>2. LengthOf(x, w, r, p) = IF n >= 2 THEN 2 ELSE 0
  BY DEF LengthOf
<1>3. ASSUME w[p] \in S, ~(p < Len(w) /\ w[p + 1] \in S) PROVE n = 1
  <2>1. 1 <= Len(w) - p + 1 /\ (1 = Len(w) - p + 1 \/ w[p + 1] \notin S)
    BY <1>0, <1>3
  <2>2. \A i \in p..(p + 1 - 1) : w[i] \in S
    BY <1>0, <1>3
  <2>3. QED
    BY <2>1, <2>2, RunLength
<1> HIDE DEF n, S
<1>4. QED
  BY <1>1, <1>2, <1>3 DEF S

RunHere(w, p, c, k) ==
    /\ p + k - 1 <= Len(w)
    /\ \A i \in p..(p + k - 1) : w[i] = c
    /\ p + k > Len(w) \/ w[p + k] # c

LEMMA LengthRun ==
    ASSUME NEW x, NEW X, NEW w \in Seq(X), NEW p \in 1..Len(w), NEW r, NEW c,
           AllRules[x][r].kind = "run", AllRules[x][r].of = {c}, NEW k \in Nat,
           RunHere(w, p, c, k)
    PROVE  LengthOf(x, w, r, p) = k
<1> DEFINE n == Cardinality(SameRun(w, p, {c}))
<1>0. Len(w) \in Nat
  OBVIOUS
<1>1. k <= Len(w) - p + 1 /\ (k = Len(w) - p + 1 \/ w[p + k] \notin {c})
  BY <1>0 DEF RunHere
<1>2. \A i \in p..(p + k - 1) : w[i] \in {c}
  BY DEF RunHere
<1>3. n = k
  BY <1>1, <1>2, RunLength
<1>4. LengthOf(x, w, r, p) = n
  BY DEF LengthOf
<1>5. QED
  BY <1>3, <1>4

\* A byte that may be repeated has been repeated as often as it is there.
LEMMA WholeBytes ==
    ASSUME NEW x \in Kinds, NEW w \in Seq(ClassesOf(x)), NEW p \in Nat \ {0}, NEW k \in Nat,
           WholeToken(x, w, p, k)
    PROVE  /\ p \in 1..Len(w) /\ w[p] \in ClassesOf(x) /\ p + k - 1 <= Len(w)
           /\ \A i \in p..(p + k - 1) : w[i] = w[p]
           /\ k = 1 \/ Repeats(x, w[p], k)
           /\ Repeats(x, w[p], k + 1) => p + k > Len(w) \/ w[p + k] # w[p]
<1>0. Len(w) \in Nat
  OBVIOUS
<1>1. k # 0 /\ Begun(x, w, p, k) /\ ~Begun(x, w, p, k + 1)
  BY DEF WholeToken
<1>2. p \in 1..Len(w) /\ w[p] \in ClassesOf(x)
  BY <1>1, BegunNext
<1>3. p + k - 1 <= Len(w) /\ (k = 1 \/ Repeats(x, w[p], k))
  BY <1>1 DEF Begun, Possible
<1>4. ASSUME NEW i \in p..(p + k - 1) PROVE w[i] = w[p]
  <2>1. \A j \in 1..(k - 1) : w[p + j] = w[p]
    BY <1>1 DEF Begun
  <2>2. i = p \/ (i - p \in 1..(k - 1) /\ p + (i - p) = i)
    OBVIOUS
  <2>3. QED
    BY <2>1, <2>2
<1>5. ~(p + k <= Len(w)) \/ w[p + k] # w[p] \/ ~Repeats(x, w[p], k + 1)
  BY <1>1, BegunNext
<1>6. QED
  BY <1>0, <1>2, <1>3, <1>4, <1>5

\* What the scanner has found when nothing longer is possible is the longest
\* match of the first rule that has it.
LEMMA CalcToken ==
    ASSUME NEW w \in Seq(0..10), NEW p \in Nat \ {0}, NEW k \in Nat, WholeToken("calc", w, p, k)
    PROVE  LET r == CalcTables.accept[StateAfter("calc", w[p], k)] IN
           RuleOf("calc", w, p) = r /\ LengthOf("calc", w, r, p) = k
<1> DEFINE Lg(r) == LengthOf("calc", w, r, p)
           c == w[p]
<1>0. Len(w) \in Nat /\ "calc" \in Kinds /\ w \in Seq(ClassesOf("calc"))
  BY DEF Kinds, ClassesOf
<1>1. /\ p \in 1..Len(w) /\ c \in ClassesOf("calc") /\ p + k - 1 <= Len(w)
      /\ \A i \in p..(p + k - 1) : w[i] = c
      /\ k = 1 \/ Repeats("calc", c, k)
      /\ Repeats("calc", c, k + 1) => p + k > Len(w) \/ w[p + k] # c
  BY <1>0, WholeBytes
<1>2. c \in 0..10
  BY <1>1 DEF ClassesOf
<1>3. k = 1 \/ (c = 10 /\ k > 1) \/ (c = 8 /\ k = 2)
  <2>1. k # 0
    BY DEF WholeToken
  <2>2. QED
    BY <1>1, <2>1 DEF Repeats
<1>a. p \in 1..Len(w) /\ w \in Seq(0..10)
  BY <1>1
<1>4. ASSUME NEW r \in (1..11) \ {3, 4}
      PROVE  Lg(r) = IF c \in AllRules["calc"][r].of THEN 1 ELSE 0
  <2>1. AllRules["calc"][r].kind = "one"
    BY CalcRules
  <2>2. QED
    BY <1>a, <2>1, LengthOne
<1>5. Lg(3) = IF c = 10 THEN k ELSE 0
  <2>1. c = 10 => Repeats("calc", c, k + 1)
    BY DEF Repeats
  <2>2. AllRules["calc"][3].kind = "run" /\ AllRules["calc"][3].of = {10}
    BY CalcRules
  <2>3. ASSUME NEW j \in Nat, RunHere(w, p, 10, j) PROVE Lg(3) = j
    BY <1>a, <2>2, <2>3, LengthRun
  <2>4. CASE c = 10
    <3>1. RunHere(w, p, 10, k)
      BY <1>1, <2>1, <2>4 DEF RunHere
    <3>2. QED
      BY <2>3, <2>4, <3>1
  <2>5. CASE c # 10
    <3>1. RunHere(w, p, 10, 0)
      BY <1>0, <1>a, <2>5 DEF RunHere
    <3>2. QED
      BY <2>3, <2>5, <3>1
  <2>6. QED
    BY <2>4, <2>5
<1>6. Lg(4) = IF c = 8 /\ k = 2 THEN 2 ELSE 0
  <2>1. AllRules["calc"][4].kind = "two" /\ AllRules["calc"][4].of = {8}
    BY CalcRules
  <2>a. ASSUME NEW r, AllRules["calc"][r].kind = "two"
        PROVE  Lg(r) = IF c \in AllRules["calc"][r].of /\ p < Len(w)
                         /\ w[p + 1] \in AllRules["calc"][r].of THEN 2 ELSE 0
    BY <1>a, <2>a, LengthTwo
  <2>2. Lg(4) = IF c \in {8} /\ p < Len(w) /\ w[p + 1] \in {8} THEN 2 ELSE 0
    BY <2>1, <2>a
  <2>3. k = 2 => p < Len(w) /\ w[p + 1] = c
    BY <1>0, <1>1
  <2>4. k = 1 /\ c = 8 => ~(p < Len(w)) \/ w[p + 1] # 8
    <3>1. k = 1 /\ c = 8 => Repeats("calc", c, k + 1)
      BY DEF Repeats
    <3>2. QED
      BY <1>0, <1>1, <3>1
  <2>5. QED
    BY <1>3, <2>2, <2>3, <2>4
<1> HIDE DEF Lg
<1>7. /\ Lg(1) = IF c = 2 THEN 1 ELSE 0
      /\ Lg(2) = IF c = 3 THEN 1 ELSE 0
      /\ Lg(5) = IF c = 6 THEN 1 ELSE 0
      /\ Lg(6) = IF c = 9 THEN 1 ELSE 0
      /\ Lg(7) = IF c = 7 THEN 1 ELSE 0
      /\ Lg(8) = IF c = 8 THEN 1 ELSE 0
      /\ Lg(9) = IF c = 4 THEN 1 ELSE 0
      /\ Lg(10) = IF c = 5 THEN 1 ELSE 0
      /\ Lg(11) = 1
  <2>1. ASSUME NEW r \in (1..11) \ {3, 4}, NEW S, AllRules["calc"][r].of = S
        PROVE  Lg(r) = IF c \in S THEN 1 ELSE 0
    BY <1>4, <2>1
  <2>2. Lg(1) = IF c \in {2} THEN 1 ELSE 0
    BY <2>1, CalcRules
  <2>3. Lg(2) = IF c \in {3} THEN 1 ELSE 0
    BY <2>1, CalcRules
  <2>4. Lg(5) = IF c \in {6} THEN 1 ELSE 0
    BY <2>1, CalcRules
  <2>5. Lg(6) = IF c \in {9} THEN 1 ELSE 0
    BY <2>1, CalcRules
  <2>6. Lg(7) = IF c \in {7} THEN 1 ELSE 0
    BY <2>1, CalcRules
  <2>7. Lg(8) = IF c \in {8} THEN 1 ELSE 0
    BY <2>1, CalcRules
  <2>8. Lg(9) = IF c \in {4} THEN 1 ELSE 0
    BY <2>1, CalcRules
  <2>9. Lg(10) = IF c \in {5} THEN 1 ELSE 0
    BY <2>1, CalcRules
  <2>10. Lg(11) = IF c \in 0..10 THEN 1 ELSE 0
    BY <2>1, CalcRules
  <2> HIDE DEF c
  <2>11. QED
    BY <1>2, <2>2, <2>3, <2>4, <2>5, <2>6, <2>7, <2>8, <2>9, <2>10
<1> DEFINE r == CalcTables.accept[StateAfter("calc", c, k)]
<1>8. /\ c \in {0, 1} => k = 1 /\ r = 11
      /\ c = 2 => k = 1 /\ r = 1
      /\ c = 3 => k = 1 /\ r = 2
      /\ c = 4 => k = 1 /\ r = 9
      /\ c = 5 => k = 1 /\ r = 10
      /\ c = 6 => k = 1 /\ r = 5
      /\ c = 7 => k = 1 /\ r = 7
      /\ c = 9 => k = 1 /\ r = 6
      /\ c = 10 => k >= 1 /\ r = 3
      /\ c = 8 => (k = 1 /\ r = 8) \/ (k = 2 /\ r = 4)
  <2>1. k = 1 => StateAfter("calc", c, k) = (IF c = 0 THEN 4 ELSE c + 3)
    BY <1>2 DEF StateAfter, ClassOf
  <2>2. k > 1 => StateAfter("calc", c, k) = IF c = 8 THEN 14 ELSE 15
    BY DEF StateAfter
  <2>3. QED
    <3> HIDE DEF c
    <3>1. k = 1 \/ k = 2 \/ k > 1
      BY <1>3
    <3>2. CASE k = 1
      BY <1>2, <1>3, <2>1, <3>2, CalcAccept, SMTT(120)
    <3>3. CASE k > 1
      BY <1>2, <1>3, <2>2, <3>3, CalcAccept, SMTT(60)
    <3>4. QED
      BY <3>1, <3>2, <3>3
<1>9. r \in 1..11 /\ Lg(r) = k
  BY <1>2, <1>5, <1>6, <1>7, <1>8
<1> HIDE DEF r, c
<1>10. ASSUME NEW q \in 1..11
       PROVE  Lg(q) \in Nat /\ q \in Nat /\ (Lg(q) < Lg(r) \/ (Lg(q) = Lg(r) /\ r <= q))
  <2>1. q = 1 \/ q = 2 \/ q = 3 \/ q = 4 \/ q = 5 \/ q = 6 \/ q = 7 \/ q = 8 \/ q = 9 \/ q = 10 \/ q = 11
    OBVIOUS
  <2>2. QED
    BY <1>2, <1>5, <1>6, <1>7, <1>8, <1>9, <2>1, SMTT(60)
<1>11. DOMAIN AllRules["calc"] = 1..11
  BY CalcRules
<1>12. RuleOf("calc", w, p) = r
  BY <1>9, <1>10, <1>11, BestRule DEF Lg
<1>13. QED
  BY <1>9, <1>12 DEF Lg, r, c

LEMMA WordsToken ==
    ASSUME NEW w \in Seq(0..3), NEW p \in Nat \ {0}, NEW k \in Nat, WholeToken("words", w, p, k)
    PROVE  LET r == WordsTables.accept[StateAfter("words", w[p], k)] IN
           RuleOf("words", w, p) = r /\ LengthOf("words", w, r, p) = k
<1> DEFINE Lg(r) == LengthOf("words", w, r, p)
           c == w[p]
<1>0. Len(w) \in Nat /\ "words" \in Kinds /\ w \in Seq(ClassesOf("words")) /\ "words" # "calc"
  BY DEF Kinds, ClassesOf
<1>1. /\ p \in 1..Len(w) /\ c \in ClassesOf("words") /\ p + k - 1 <= Len(w)
      /\ \A i \in p..(p + k - 1) : w[i] = c
      /\ k = 1 \/ Repeats("words", c, k)
      /\ Repeats("words", c, k + 1) => p + k > Len(w) \/ w[p + k] # c
  BY <1>0, WholeBytes
<1>2. c \in 0..3
  BY <1>0, <1>1 DEF ClassesOf
<1>3. k >= 1 /\ (k = 1 \/ c \in {2, 3})
  <2>1. k # 0
    BY DEF WholeToken
  <2>2. QED
    BY <1>0, <1>1, <2>1 DEF Repeats
<1>a. p \in 1..Len(w) /\ w \in Seq(0..3)
  BY <1>1
<1>4. \A d : c = d /\ d \in {2, 3} => Repeats("words", c, k + 1)
  BY <1>0 DEF Repeats
<1>5. ASSUME NEW r, NEW d \in {2, 3}, AllRules["words"][r].kind = "run",
             AllRules["words"][r].of = {d}
      PROVE  Lg(r) = IF c = d THEN k ELSE 0
  <2>3. ASSUME NEW j \in Nat, RunHere(w, p, d, j) PROVE Lg(r) = j
    BY <1>a, <1>5, <2>3, LengthRun
  <2>4. CASE c = d
    <3>1. RunHere(w, p, d, k)
      BY <1>1, <1>4, <2>4 DEF RunHere
    <3>2. QED
      BY <2>3, <2>4, <3>1
  <2>5. CASE c # d
    <3>1. RunHere(w, p, d, 0)
      BY <1>0, <1>a, <2>5 DEF RunHere
    <3>2. QED
      BY <2>3, <2>5, <3>1
  <2>6. QED
    BY <2>4, <2>5
<1>6. /\ Lg(1) = IF c \in {0, 1, 3} THEN 1 ELSE 0
      /\ Lg(2) = IF c = 2 THEN k ELSE 0
      /\ Lg(3) = IF c = 3 THEN k ELSE 0
      /\ Lg(4) = 1
  <2>1. Lg(2) = (IF c = 2 THEN k ELSE 0) /\ Lg(3) = IF c = 3 THEN k ELSE 0
    BY <1>5, WordsRules
  <2>a. ASSUME NEW r, AllRules["words"][r].kind = "one"
        PROVE  Lg(r) = IF c \in AllRules["words"][r].of THEN 1 ELSE 0
    BY <1>a, <2>a, LengthOne
  <2>2. Lg(1) = IF c \in {0, 1, 3} THEN 1 ELSE 0
    BY <2>a, WordsRules
  <2>3. Lg(4) = IF c \in 0..3 THEN 1 ELSE 0
    BY <2>a, WordsRules
  <2>4. QED
    BY <1>2, <2>1, <2>2, <2>3
<1> HIDE DEF Lg
<1> DEFINE r == WordsTables.accept[StateAfter("words", c, k)]
<1>8. /\ c \in {0, 1} => k = 1 /\ r = 1
      /\ c = 2 => r = 2
      /\ c = 3 => (k = 1 /\ r = 1) \/ (k > 1 /\ r = 3)
  <2>1. k = 1 => StateAfter("words", c, k) = (IF c = 0 THEN 4 ELSE c + 3)
    BY <1>2 DEF StateAfter, ClassOf
  <2>2. k > 1 => StateAfter("words", c, k) = IF c = 2 THEN 7 ELSE 8
    BY <1>0 DEF StateAfter
  <2>3. QED
    BY <1>2, <1>3, <2>1, <2>2, WordsAccept
<1>9. r \in 1..4 /\ Lg(r) = k
  BY <1>2, <1>6, <1>8
<1> HIDE DEF r, c
<1>10. ASSUME NEW q \in 1..4
       PROVE  Lg(q) \in Nat /\ q \in Nat /\ (Lg(q) < Lg(r) \/ (Lg(q) = Lg(r) /\ r <= q))
  <2>1. q = 1 \/ q = 2 \/ q = 3 \/ q = 4
    OBVIOUS
  <2>2. QED
    BY <1>2, <1>3, <1>6, <1>8, <1>9, <2>1
<1>11. DOMAIN AllRules["words"] = 1..4
  BY WordsRules
<1>12. RuleOf("words", w, p) = r
  BY <1>9, <1>10, <1>11, BestRule DEF Lg
<1>13. QED
  BY <1>9, <1>12 DEF Lg, r, c

LEMMA TokenRule ==
    ASSUME NEW x \in Kinds, NEW w \in Seq(ClassesOf(x)), NEW p \in Nat \ {0}, NEW k \in Nat,
           WholeToken(x, w, p, k)
    PROVE  LET r == Tables[x].accept[StateAfter(x, w[p], k)] IN
           RuleOf(x, w, p) = r /\ LengthOf(x, w, r, p) = k
<1>1. CASE x = "calc"
  BY <1>1, CalcToken, TablesOf DEF ClassesOf
<1>2. CASE x = "words"
  BY <1>2, WordsToken, TablesOf DEF ClassesOf
<1>3. QED
  BY <1>1, <1>2 DEF Kinds

-----------------------------------------------------------------------------
\* A recursion that gets nearer to its end with every step has a solution.
Solves(f, D, Stop, base, op, next) ==
    f = [d \in D |-> IF d \in Stop THEN base[d] ELSE op[d][f[next[d]]]]

LEMMA SolutionExists ==
    ASSUME NEW D, NEW V, NEW Stop, NEW base \in [D -> V], NEW op \in [D -> [V -> V]],
           NEW next \in [D -> D], NEW rank \in [D -> Nat], NEW n \in Nat,
           \A d \in D : rank[d] <= n /\ (d \notin Stop => rank[next[d]] < rank[d])
    PROVE  \E f \in [D -> V] : Solves(f, D, Stop, base, op, next)
<1> DEFINE E(f, d) == f[d] = IF d \in Stop THEN base[d] ELSE op[d][f[next[d]]]
           S == {k \in Nat : \E f \in [D -> V] : \A d \in D : rank[d] < k => E(f, d)}
<1>1. 0 \in S
  <2>1. \A d \in D : ~(rank[d] < 0)
    OBVIOUS
  <2>2. QED
    BY <2>1
<1>2. ASSUME NEW k \in Nat, k \in S PROVE k + 1 \in S
  <2>1. PICK f \in [D -> V] : \A d \in D : rank[d] < k => E(f, d)
    BY <1>2
  <2> DEFINE W(d) == IF d \in Stop THEN base[d] ELSE op[d][f[next[d]]]
             g == [d \in D |-> IF rank[d] < k THEN f[d] ELSE W(d)]
  <2>2. \A d \in D : W(d) \in V
    OBVIOUS
  <2>3. \A d \in D : E(f, d) <=> f[d] = W(d)
    OBVIOUS
  <2>4. g \in [D -> V]
    <3> HIDE DEF W
    <3>1. QED
      BY <2>2
  <2>5. ASSUME NEW d \in D, rank[d] < k + 1 PROVE E(g, d)
    <3>1. g[d] = W(d)
      <4>1. rank[d] < k => f[d] = W(d)
        BY <2>1, <2>3
      <4> HIDE DEF W
      <4>2. QED
        BY <4>1
    <3>2. CASE d \in Stop
      BY <3>1, <3>2
    <3>3. CASE d \notin Stop
      <4>1. rank[next[d]] < k
        BY <2>5, <3>3
      <4>2. g[next[d]] = f[next[d]]
        <5> HIDE DEF W
        <5>1. QED
          BY <4>1
      <4> HIDE DEF g
      <4>3. QED
        BY <3>1, <3>3, <4>2
    <3>4. QED
      BY <3>2, <3>3
  <2> HIDE DEF E, g
  <2>6. QED
    BY <2>4, <2>5
<1>3. n + 1 \in S
  <2> HIDE DEF S
  <2>1. QED
    BY <1>1, <1>2, UpFrom0
<1>4. PICK f \in [D -> V] : \A d \in D : rank[d] < n + 1 => E(f, d)
  BY <1>3
<1>5. \A d \in D : E(f, d)
  <2>1. \A d \in D : rank[d] < n + 1
    OBVIOUS
  <2> HIDE DEF E
  <2>2. QED
    BY <1>4, <2>1
<1>6. QED
  BY <1>5 DEF Solves

-----------------------------------------------------------------------------
\* Each place of the text has a token.
LEMMA SomeToken ==
    ASSUME NEW x \in Kinds, NEW w \in Seq(ClassesOf(x)), NEW p \in 1..Len(w)
    PROVE  \E k \in 1..(Len(w) - p + 1) : WholeToken(x, w, p, k)
<1>0. Len(w) \in Nat
  OBVIOUS
<1> DEFINE T == {k \in Nat : ~Begun(x, w, p, k + 1)}
<1>1. Len(w) - p + 1 \in T
  BY <1>0 DEF Begun
<1>2. PICK k \in T : \A j \in T : k <= j
  BY <1>1, Smallest
<1>3. Begun(x, w, p, 1)
  BY <1>0 DEF Begun, Possible
<1>4. k # 0
  BY <1>3
<1>5. k - 1 \in Nat /\ k - 1 \notin T /\ (k - 1) + 1 = k
  BY <1>2, <1>4
<1>6. Begun(x, w, p, k)
  BY <1>5
<1>7. k \in 1..(Len(w) - p + 1)
  BY <1>0, <1>4, <1>6 DEF Begun
<1>8. QED
  BY <1>4, <1>6, <1>7 DEF WholeToken

SizeOf(x, w, p) == LengthOf(x, w, RuleOf(x, w, p), p)
TokenOf(x, w, p) == [rule |-> RuleOf(x, w, p), text |-> SubSeq(w, p, p + SizeOf(x, w, p) - 1)]

IsFrom(x, w, f) ==
    f = [p \in 1..(Len(w) + 1) |->
            IF p > Len(w) THEN << >> ELSE <<TokenOf(x, w, p)>> \o f[p + SizeOf(x, w, p)]]

\* The tokens from each place on.
Lexed(x, w) == CHOOSE f : IsFrom(x, w, f)

\* What the scanner may give.
Outs(x) == [rule : Nat \cup {"eof"}, text : Seq(ClassesOf(x))]

LEMMA AcceptNat ==
    ASSUME NEW x \in Kinds, NEW s \in Live(x)
    PROVE  Tables[x].accept[s] \in Nat
<1>1. CASE x = "calc"
  BY <1>1, TablesOf, CalcAccept DEF Live
<1>2. CASE x = "words"
  BY <1>2, TablesOf, WordsAccept DEF Live
<1>3. QED
  BY <1>1, <1>2 DEF Kinds

LEMMA SubSeqIs ==
    ASSUME NEW X, NEW w \in Seq(X), NEW p \in Nat \ {0}, NEW k \in Nat, p + k - 1 <= Len(w)
    PROVE  /\ SubSeq(w, p, p + k - 1) \in Seq(X) /\ Len(SubSeq(w, p, p + k - 1)) = k
           /\ SubSeq(w, p, p + k - 1) = [i \in 1..k |-> w[p + i - 1]]
<1>1. Len(w) \in Nat /\ (p + k - 1) - p + 1 = k
  OBVIOUS
<1>2. SubSeq(w, p, p + k - 1) = [i \in 1..k |-> w[p + i - 1]]
  BY <1>1
<1>3. \A i \in 1..k : p + i - 1 \in 1..Len(w)
  BY <1>1
<1>4. QED
  BY <1>2, <1>3

LEMMA TokenAt ==
    ASSUME NEW x \in Kinds, NEW w \in Seq(ClassesOf(x)), NEW p \in Nat \ {0}, NEW k \in Nat,
           WholeToken(x, w, p, k)
    PROVE  /\ SizeOf(x, w, p) = k /\ p + k - 1 <= Len(w)
           /\ TokenOf(x, w, p) = [rule |-> Tables[x].accept[StateAfter(x, w[p], k)],
                                  text |-> SubSeq(w, p, p + k - 1)]
           /\ TokenOf(x, w, p) \in Outs(x)
           /\ Len(TokenOf(x, w, p).text) = k
<1> DEFINE r == Tables[x].accept[StateAfter(x, w[p], k)]
<1>1. RuleOf(x, w, p) = r /\ LengthOf(x, w, r, p) = k
  BY TokenRule
<1>2. Begun(x, w, p, k) /\ k # 0 /\ p + k - 1 <= Len(w)
  BY DEF WholeToken, Begun
<1>3. r \in Nat
  <2>1. StateAfter(x, w[p], k) \in Live(x)
    BY <1>2, TokenState
  <2>2. QED
    BY <2>1, AcceptNat
<1>4. SizeOf(x, w, p) = k
  BY <1>1 DEF SizeOf
<1>5. SubSeq(w, p, p + k - 1) \in Seq(ClassesOf(x)) /\ Len(SubSeq(w, p, p + k - 1)) = k
  BY <1>2, SubSeqIs
<1> HIDE DEF r
<1>6. TokenOf(x, w, p) = [rule |-> r, text |-> SubSeq(w, p, p + k - 1)]
  BY <1>1, <1>4 DEF TokenOf
<1>7. QED
  BY <1>2, <1>3, <1>4, <1>5, <1>6 DEF Outs, r

SeqOuts(x) == Seq(Outs(x))

LEMMA FromExists ==
    ASSUME NEW x \in Kinds, NEW w \in Seq(ClassesOf(x))
    PROVE  \E f \in [1..(Len(w) + 1) -> SeqOuts(x)] : IsFrom(x, w, f)
<1> DEFINE N == Len(w)
           D == 1..(N + 1)
           V == SeqOuts(x)
           Stop == {N + 1}
           a(p) == TokenOf(x, w, p)
           base == [p \in D |-> << >>]
           op == [p \in D |-> [y \in V |-> IF p \in Stop THEN y ELSE <<a(p)>> \o y]]
           next == [p \in D |-> IF p \in Stop THEN p ELSE p + SizeOf(x, w, p)]
           rank == [p \in D |-> N + 1 - p]
<1>0. N \in Nat
  OBVIOUS
<1>1. ASSUME NEW p \in D, p \notin Stop
      PROVE  /\ a(p) \in Outs(x) /\ p + SizeOf(x, w, p) \in D
             /\ SizeOf(x, w, p) \in Nat /\ p + SizeOf(x, w, p) > p
  <2>1. p \in 1..N
    BY <1>0, <1>1
  <2>2. PICK k \in 1..(N - p + 1) : WholeToken(x, w, p, k)
    BY <2>1, SomeToken
  <2>3. k \in Nat /\ p \in Nat \ {0}
    BY <1>0, <2>1
  <2>4. SizeOf(x, w, p) = k /\ TokenOf(x, w, p) \in Outs(x)
    BY <2>2, <2>3, TokenAt
  <2>5. QED
    BY <1>0, <2>1, <2>2, <2>4
<1>2. << >> \in V /\ \A y \in V : \A o \in Outs(x) : <<o>> \o y \in V
  BY DEF SeqOuts
<1>3. base \in [D -> V]
  BY <1>2
<1>4. op \in [D -> [V -> V]]
  <2>1. ASSUME NEW p \in D PROVE op[p] \in [V -> V]
    <3>1. ASSUME NEW y \in V PROVE (IF p \in Stop THEN y ELSE <<a(p)>> \o y) \in V
      <4> HIDE DEF V, a, Stop, D
      <4>1. QED
        BY <1>1, <1>2
    <3> HIDE DEF V, a, Stop
    <3>2. QED
      BY <3>1
  <2>2. QED
    BY <2>1
<1>5. next \in [D -> D]
  BY <1>1
<1>6. rank \in [D -> Nat] /\ \A p \in D : rank[p] <= N
  BY <1>0
<1>7. ASSUME NEW p \in D, p \notin Stop PROVE rank[next[p]] < rank[p]
  <2>1. next[p] = p + SizeOf(x, w, p) /\ next[p] \in D
    BY <1>1, <1>7
  <2>2. next[p] > p
    BY <1>0, <1>1, <1>7, <2>1
  <2> HIDE DEF next
  <2>3. rank[next[p]] = N + 1 - next[p] /\ rank[p] = N + 1 - p
    BY <2>1
  <2>4. QED
    BY <1>0, <2>1, <2>2, <2>3
<1>8. PICK f \in [D -> V] : Solves(f, D, Stop, base, op, next)
  <2> HIDE DEF D, V, Stop, base, op, next, rank
  <2>1. QED
    BY <1>0, <1>3, <1>4, <1>5, <1>6, <1>7, SolutionExists
<1>9. ASSUME NEW p \in D
      PROVE  (IF p \in Stop THEN base[p] ELSE op[p][f[next[p]]]) =
             IF p > N THEN << >> ELSE <<a(p)>> \o f[p + SizeOf(x, w, p)]
  <2>1. p > N <=> p \in Stop
    BY <1>0
  <2>2. base[p] = << >>
    OBVIOUS
  <2>3. p \notin Stop => next[p] = p + SizeOf(x, w, p) /\ f[next[p]] \in V
    BY <1>5
  <2>4. ASSUME NEW y \in V, p \notin Stop PROVE op[p][y] = <<a(p)>> \o y
    BY <2>4
  <2> HIDE DEF D, V, Stop, base, op, next, a, N
  <2>5. QED
    BY <2>1, <2>2, <2>3, <2>4
<1>10. f = [p \in D |-> IF p > N THEN << >> ELSE <<a(p)>> \o f[p + SizeOf(x, w, p)]]
  <2>1. f = [p \in D |-> IF p \in Stop THEN base[p] ELSE op[p][f[next[p]]]]
    BY <1>8 DEF Solves
  <2> HIDE DEF D, V, Stop, base, op, next, a, N
  <2>2. QED
    BY <1>9, <2>1
<1>11. QED
  BY <1>10 DEF IsFrom

LEMMA FromUnique ==
    ASSUME NEW x \in Kinds, NEW w \in Seq(ClassesOf(x)), NEW f, IsFrom(x, w, f),
           NEW g, IsFrom(x, w, g)
    PROVE  f = g
<1> DEFINE N == Len(w)
           D == 1..(N + 1)
           n(p) == p + SizeOf(x, w, p)
           S == {m \in Nat : \A p \in D : N + 1 - p <= m => f[p] = g[p]}
<1>0. N \in Nat
  OBVIOUS
<1>1. \A p \in D : /\ f[p] = IF p > N THEN << >> ELSE <<TokenOf(x, w, p)>> \o f[n(p)]
                   /\ g[p] = IF p > N THEN << >> ELSE <<TokenOf(x, w, p)>> \o g[n(p)]
  BY DEF IsFrom
<1>2. ASSUME NEW p \in 1..N PROVE n(p) \in D /\ n(p) > p
  <2>1. PICK k \in 1..(N - p + 1) : WholeToken(x, w, p, k)
    BY SomeToken
  <2>2. k \in Nat /\ p \in Nat \ {0}
    BY <1>0
  <2>3. SizeOf(x, w, p) = k
    BY <2>1, <2>2, TokenAt
  <2>4. QED
    BY <1>0, <2>1, <2>3
<1> HIDE DEF n
<1>3. 0 \in S
  <2>1. ASSUME NEW p \in D, N + 1 - p <= 0 PROVE f[p] = g[p]
    <3>1. p > N
      BY <1>0, <2>1
    <3>2. QED
      BY <1>1, <3>1
  <2>2. QED
    BY <2>1
<1>4. ASSUME NEW m \in Nat, m \in S PROVE m + 1 \in S
  <2>1. ASSUME NEW p \in D, N + 1 - p <= m + 1 PROVE f[p] = g[p]
    <3>1. CASE p > N
      BY <1>1, <3>1
    <3>2. CASE ~(p > N)
      <4>1. p \in 1..N
        BY <1>0, <3>2
      <4>2. n(p) \in D /\ N + 1 - n(p) <= m
        BY <1>0, <1>2, <2>1, <4>1
      <4>3. f[n(p)] = g[n(p)]
        BY <1>4, <4>2
      <4>4. QED
        BY <1>1, <3>2, <4>3
    <3>3. QED
      BY <3>1, <3>2
  <2>2. QED
    BY <2>1
<1>5. N \in S
  <2> HIDE DEF S
  <2>1. QED
    BY <1>0, <1>3, <1>4, UpFrom0
<1>6. \A p \in D : f[p] = g[p]
  BY <1>0, <1>5
<1>7. f = [p \in D |-> f[p]] /\ g = [p \in D |-> g[p]]
  BY DEF IsFrom
<1>8. QED
  BY <1>6, <1>7

LEMMA LexedIs ==
    ASSUME NEW x \in Kinds, NEW w \in Seq(ClassesOf(x))
    PROVE  /\ IsFrom(x, w, Lexed(x, w))
           /\ \A p \in 1..(Len(w) + 1) : Lexed(x, w)[p] \in Seq(Outs(x))
           /\ Lexed(x, w)[Len(w) + 1] = << >>
           /\ \A p \in 1..Len(w), k \in Nat : WholeToken(x, w, p, k) =>
                  Lexed(x, w)[p] = <<TokenOf(x, w, p)>> \o Lexed(x, w)[p + k]
<1>1. PICK f \in [1..(Len(w) + 1) -> SeqOuts(x)] : IsFrom(x, w, f)
  BY FromExists
<1>2. IsFrom(x, w, Lexed(x, w))
  BY <1>1 DEF Lexed
<1>3. Lexed(x, w) = f
  BY <1>1, <1>2, FromUnique
<1>4. Len(w) \in Nat
  OBVIOUS
<1>5. f[Len(w) + 1] = << >>
  <2>1. Len(w) + 1 \in 1..(Len(w) + 1) /\ Len(w) + 1 > Len(w)
    BY <1>4
  <2>2. QED
    BY <1>1, <2>1 DEF IsFrom
<1>6. ASSUME NEW p \in 1..Len(w), NEW k \in Nat, WholeToken(x, w, p, k)
      PROVE  f[p] = <<TokenOf(x, w, p)>> \o f[p + k]
  <2>1. p \in 1..(Len(w) + 1) /\ ~(p > Len(w)) /\ p \in Nat \ {0}
    BY <1>4
  <2>2. SizeOf(x, w, p) = k
    BY <1>6, <2>1, TokenAt
  <2>3. f[p] = <<TokenOf(x, w, p)>> \o f[p + SizeOf(x, w, p)]
    BY <1>1, <2>1 DEF IsFrom
  <2>4. QED
    BY <2>2, <2>3
<1>7. \A p \in 1..(Len(w) + 1) : f[p] \in Seq(Outs(x))
  BY <1>1 DEF SeqOuts
<1>8. QED
  BY <1>2, <1>3, <1>5, <1>6, <1>7

\* What the rules say of the input.
Later(f) ==
    f = [p \in 1..(Len(input) + 1) |->
            IF p > Len(input) THEN << >>
            ELSE LET n == Fx!MatchLength(Fx!RuleAt(p), p) IN
                 <<[rule |-> Fx!RuleAt(p), text |-> SubSeq(input, p, p + n - 1)]>> \o f[p + n]]

LEMMA TokensAre ==
    ASSUME scanner \in Kinds, input \in Seq(ClassesOf(scanner))
    PROVE  Fx!Tokens = Lexed(scanner, input)[1]
<1>1. Fx!Tokens = (CHOOSE f : Later(f))[1]
  BY DEF Fx!Tokens, Later
<1>2. \A f : Later(f) <=> IsFrom(scanner, input, f)
  BY LengthIs, RuleIs DEF Later, IsFrom, TokenOf, SizeOf
<1>3. IsFrom(scanner, input, Lexed(scanner, input))
  BY LexedIs
<1>4. IsFrom(scanner, input, CHOOSE f : Later(f))
  <2> HIDE DEF Later
  <2>1. Later(Lexed(scanner, input))
    BY <1>2, <1>3
  <2>2. Later(CHOOSE f : Later(f))
    BY <2>1
  <2>3. QED
    BY <1>2, <2>2
<1>5. QED
  BY <1>1, <1>3, <1>4, FromUnique

LEMMA BegunShorter ==
    ASSUME NEW x \in Kinds, NEW w \in Seq(ClassesOf(x)), NEW p \in Nat \ {0}, NEW k \in Nat,
           Begun(x, w, p, k), NEW j \in 0..k
    PROVE  Begun(x, w, p, j)
<1>1. Len(w) \in Nat /\ j \in Nat
  OBVIOUS
<1>2. p + j - 1 <= Len(w)
  BY <1>1 DEF Begun
<1>3. \A i \in 1..(j - 1) : i \in 1..(k - 1)
  OBVIOUS
<1>4. Possible(x, w[p], j)
  BY <1>1 DEF Begun, Possible, Repeats
<1>5. QED
  BY <1>2, <1>3, <1>4 DEF Begun

\* The state that is found again is the one that was left.
Found(f, buf, b, q) ==
    f = [i \in b..q |->
            IF i = b THEN [state |-> 1, last |-> yy_last_accepting]
            ELSE LET x == f[i - 1] IN
                 [state |-> Fx!Trans(x.state, Fx!NulClass(buf[i - 1])),
                  last |-> Fx!Accepting(x.state, x.last, i - 1)]]

\* The k bytes from place b on are those of the text from place p on.
TextBytes(buf, b, w, p, k) == \A i \in 0..(k - 1) : buf[b + i] = w[p + i]

LEMMA PreviousState ==
    ASSUME scanner \in Kinds, input \in Seq(ClassesOf(scanner)), NEW buf, NEW b \in Nat,
           NEW k \in Nat, NEW p \in Nat \ {0}, Begun(scanner, input, p, k),
           TextBytes(buf, b, input, p, k)
    PROVE  Fx!yy_get_previous_state(buf, b, b + k).state = StateAfter(scanner, input[p], k)
<1> DEFINE t == Tables[scanner]
           A(j) == StateAfter(scanner, input[p], j)
           last == yy_last_accepting
<1>1. \A s, c : Fx!Trans(s, c) = Step(t, s, c)
  BY TransIs
<1>2. \A s, l, q : Fx!Accepting(s, l, q) = IF t.accept[s] # 0 THEN [state |-> s, cpos |-> q] ELSE l
  BY DEF Fx!Accepting, Fx!T
<1>3. \A c : Fx!NulClass(c) = ClassOf(c)
  BY DEF Fx!NulClass, ClassOf, Fx!NUL
<1>4. ASSUME NEW j \in 0..k
      PROVE  /\ Begun(scanner, input, p, j)
             /\ j # 0 => t.accept[A(j)] # 0
             /\ j = 0 => A(j) = 1 /\ t.accept[A(j)] = 0
             /\ j < k => Step(t, A(j), ClassOf(input[p + j])) = A(j + 1)
  <2>1. Begun(scanner, input, p, j) /\ j \in Nat
    BY BegunShorter
  <2>2. /\ j # 0 => t.accept[A(j)] # 0
        /\ j = 0 => A(j) = 1 /\ t.accept[A(j)] = 0
    BY <2>1, TokenState
  <2>3. ASSUME j < k PROVE Step(t, A(j), ClassOf(input[p + j])) = A(j + 1)
    <3>1. j + 1 \in 0..k
      BY <2>3
    <3>2. Begun(scanner, input, p, j + 1)
      BY <3>1, BegunShorter
    <3>3. p + j <= Len(input)
      BY <2>1, <3>2 DEF Begun
    <3>4. QED
      BY <2>1, <3>2, <3>3, TokenStep
  <2>4. QED
    BY <2>1, <2>2, <2>3
<1> HIDE DEF A, t
<1> DEFINE Lg(i) == IF i - b <= 1 THEN last ELSE [state |-> A(i - 1 - b), cpos |-> i - 1]
           e == [i \in b..(b + k) |-> [state |-> A(i - b), last |-> Lg(i)]]
           G(i, y) == IF i = b THEN [state |-> 1, last |-> last]
                      ELSE [state |-> Step(t, y.state, ClassOf(buf[i - 1])),
                            last |-> IF t.accept[y.state] # 0
                                     THEN [state |-> y.state, cpos |-> i - 1] ELSE y.last]
<1>5. ASSUME NEW i \in b..(b + k)
      PROVE  e[i] = G(i, e[i - 1])
  <2>1. CASE i = b
    <3>1. i - b = 0 /\ 0 \in 0..k /\ i - b <= 1
      BY <2>1
    <3>2. A(i - b) = 1
      BY <1>4, <3>1
    <3>3. Lg(i) = last
      BY <3>1
    <3>4. QED
      BY <2>1, <3>2, <3>3
  <2>2. CASE i # b
    <3>1. /\ i - 1 \in b..(b + k) /\ (i - 1) - b \in 0..k /\ (i - 1) - b < k
          /\ ((i - 1) - b) + 1 = i - b /\ i - 1 - b = (i - 1) - b
          /\ p + ((i - 1) - b) \in Nat /\ (i - 1) - b \in 0..(k - 1)
          /\ b + ((i - 1) - b) = i - 1
      BY <2>2, SMTT(60)
    <3>2. e[i - 1] = [state |-> A((i - 1) - b), last |-> Lg(i - 1)]
      BY <3>1
    <3>3. buf[i - 1] = input[p + ((i - 1) - b)]
      BY <3>1 DEF TextBytes
    <3>4. Step(t, A((i - 1) - b), ClassOf(buf[i - 1])) = A(i - b)
      BY <1>4, <3>1, <3>3
    <3>5. (IF t.accept[A((i - 1) - b)] # 0
           THEN [state |-> A((i - 1) - b), cpos |-> i - 1] ELSE Lg(i - 1)) = Lg(i)
      <4>1. CASE (i - 1) - b = 0
        <5>1. i - b <= 1 /\ (i - 1) - b <= 1
          BY <3>1, <4>1
        <5>2. t.accept[A((i - 1) - b)] = 0
          BY <1>4, <3>1, <4>1
        <5>3. QED
          BY <5>1, <5>2
      <4>2. CASE (i - 1) - b # 0
        <5>1. ~(i - b <= 1) /\ t.accept[A((i - 1) - b)] # 0
          BY <1>4, <3>1, <4>2, SMTT(60)
        <5>2. QED
          BY <3>1, <5>1
      <4>3. QED
        BY <4>1, <4>2
    <3>6. e[i] = [state |-> A(i - b), last |-> Lg(i)]
      OBVIOUS
    <3> HIDE DEF e, Lg
    <3>7. QED
      BY <2>2, <3>2, <3>4, <3>5, <3>6
  <2>3. QED
    BY <2>1, <2>2
<1>6. \A f : Found(f, buf, b, b + k) <=> f = [i \in b..(b + k) |-> G(i, f[i - 1])]
  BY <1>1, <1>2, <1>3 DEF Found
<1>7. e = [i \in b..(b + k) |-> G(i, e[i - 1])]
  <2>1. e = [i \in b..(b + k) |-> e[i]]
    OBVIOUS
  <2> HIDE DEF e, G
  <2>2. QED
    BY <1>5, <2>1
<1> DEFINE f == CHOOSE f : Found(f, buf, b, b + k)
<1>8. Fx!yy_get_previous_state(buf, b, b + k) = f[b + k]
  BY DEF Fx!yy_get_previous_state, Found
<1>9. f = [i \in b..(b + k) |-> G(i, f[i - 1])]
  <2> HIDE DEF e, G
  <2>1. Found(e, buf, b, b + k)
    BY <1>6, <1>7
  <2> HIDE DEF Found
  <2>2. Found(f, buf, b, b + k)
    BY <2>1
  <2>3. QED
    BY <1>6, <2>2
<1> HIDE DEF f, e
<1> DEFINE S == {j \in Nat : j <= k => f[b + j].state = A(j)}
<1>10. 0 \in S
  <2>1. b \in b..(b + k) /\ b + 0 = b
    OBVIOUS
  <2>2. f[b] = [state |-> 1, last |-> last]
    BY <1>9, <2>1
  <2>3. A(0) = 1
    BY <1>4
  <2>4. QED
    BY <2>1, <2>2, <2>3
<1>11. ASSUME NEW j \in Nat, j \in S PROVE j + 1 \in S
  <2>1. SUFFICES ASSUME j + 1 <= k PROVE f[b + (j + 1)].state = A(j + 1)
    OBVIOUS
  <2>2. /\ b + (j + 1) \in b..(b + k) /\ b + (j + 1) # b /\ (b + (j + 1)) - 1 = b + j
        /\ j \in 0..k /\ j < k /\ j \in 0..(k - 1)
    BY <2>1
  <2>3. f[b + j].state = A(j)
    BY <1>11, <2>1
  <2>4. f[b + (j + 1)].state = Step(t, f[b + j].state, ClassOf(buf[b + j]))
    <3>1. f[b + (j + 1)] = G(b + (j + 1), f[b + j])
      <4> HIDE DEF G
      <4>1. QED
        BY <1>9, <2>2
    <3>2. QED
      BY <2>2, <3>1
  <2>5. QED
    BY <1>4, <2>2, <2>3, <2>4 DEF TextBytes
<1>12. k \in S
  <2> HIDE DEF S
  <2>1. QED
    BY <1>10, <1>11, UpFrom0
<1>13. QED
  BY <1>8, <1>12 DEF A

\* The buffer is doubled until there is room behind what has been moved, and
\* not once more.
Doubles(f, move) == f = [s \in Nat |-> IF s - move - 1 <= 0 THEN f[s * 2] ELSE s]

LEMMA DoublesExists ==
    ASSUME NEW move \in Nat
    PROVE  \E f \in [Nat -> Nat] : Doubles(f, move)
<1> DEFINE Stop == {s \in Nat : s > move + 1} \cup {0}
           base == [s \in Nat |-> s]
           op == [s \in Nat |-> [y \in Nat |-> y]]
           next == [s \in Nat |-> s * 2]
           rank == [s \in Nat |-> IF s > move + 1 THEN 0 ELSE move + 2 - s]
<1>1. base \in [Nat -> Nat] /\ op \in [Nat -> [Nat -> Nat]] /\ next \in [Nat -> Nat]
  OBVIOUS
<1>2. rank \in [Nat -> Nat] /\ \A s \in Nat : rank[s] <= move + 2
  OBVIOUS
<1>3. ASSUME NEW s \in Nat, s \notin Stop PROVE rank[next[s]] < rank[s]
  <2>1. s # 0 /\ ~(s > move + 1) /\ next[s] = s * 2 /\ s * 2 \in Nat /\ s * 2 > s
    BY <1>3
  <2>2. /\ rank[s] = move + 2 - s
        /\ rank[s * 2] = IF s * 2 > move + 1 THEN 0 ELSE move + 2 - s * 2
    BY <2>1
  <2>3. QED
    BY <2>1, <2>2
<1>4. PICK f \in [Nat -> Nat] : Solves(f, Nat, Stop, base, op, next)
  <2> HIDE DEF Stop, base, op, next, rank
  <2>1. move + 2 \in Nat
    OBVIOUS
  <2>2. QED
    BY <1>1, <1>2, <1>3, <2>1, SolutionExists
<1>5. ASSUME NEW s \in Nat
      PROVE  f[s] = IF s - move - 1 <= 0 THEN f[s * 2] ELSE s
  <2>1. f[s] = IF s \in Stop THEN base[s] ELSE op[s][f[next[s]]]
    BY <1>4 DEF Solves
  <2>2. base[s] = s /\ op[s][f[next[s]]] = f[s * 2]
    OBVIOUS
  <2> HIDE DEF base, op, next
  <2>3. CASE s = 0
    <3>1. s * 2 = s /\ s - move - 1 <= 0
      BY <2>3
    <3>2. QED
      BY <3>1
  <2>4. CASE s # 0
    <3>1. s \in Stop <=> ~(s - move - 1 <= 0)
      BY <2>4
    <3>2. QED
      BY <2>1, <2>2, <3>1
  <2>5. QED
    BY <2>3, <2>4
<1>6. QED
  BY <1>5 DEF Doubles

LEMMA GrownTo ==
    ASSUME NEW z \in Nat \ {0}, NEW move \in Nat
    PROVE  LET g == Fx!Grown(z, move) IN
           g \in Nat /\ g >= z /\ g > move + 1 /\ (g = z \/ g <= 2 * (move + 1))
<1> DEFINE f == CHOOSE f : Doubles(f, move)
           Q(s) == /\ f[s] \in Nat /\ f[s] >= s /\ f[s] > move + 1
                   /\ (f[s] = s \/ f[s] <= 2 * (move + 1))
           S == {k \in Nat : \A s \in Nat \ {0} : move + 2 - s <= k => Q(s)}
<1>1. Fx!Grown(z, move) = f[z]
  BY DEF Fx!Grown, Doubles
<1>2. Doubles(f, move)
  <2>1. \E g : Doubles(g, move)
    BY DoublesExists
  <2> HIDE DEF Doubles
  <2>2. QED
    BY <2>1
<1>3. \A s \in Nat : f[s] = IF s - move - 1 <= 0 THEN f[s * 2] ELSE s
  BY <1>2 DEF Doubles
<1> HIDE DEF f
<1>4. 0 \in S
  <2>1. ASSUME NEW s \in Nat \ {0}, move + 2 - s <= 0 PROVE Q(s)
    <3>1. ~(s - move - 1 <= 0) /\ s > move + 1
      BY <2>1
    <3>2. QED
      BY <1>3, <3>1
  <2>2. QED
    BY <2>1
<1>5. ASSUME NEW k \in Nat, k \in S PROVE k + 1 \in S
  <2>1. ASSUME NEW s \in Nat \ {0}, move + 2 - s <= k + 1 PROVE Q(s)
    <3>1. CASE s - move - 1 <= 0
      <4>1. s * 2 \in Nat \ {0} /\ move + 2 - s * 2 <= k
        BY <2>1
      <4>2. Q(s * 2)
        BY <1>5, <4>1
      <4>3. f[s] = f[s * 2] /\ s * 2 <= 2 * (move + 1)
        BY <1>3, <3>1
      <4>4. QED
        BY <4>1, <4>2, <4>3
    <3>2. CASE ~(s - move - 1 <= 0)
      <4>1. f[s] = s /\ s > move + 1
        BY <1>3, <3>2
      <4>2. QED
        BY <4>1
    <3>3. QED
      BY <3>1, <3>2
  <2> HIDE DEF Q
  <2>2. QED
    BY <2>1
<1>6. move + 2 \in S
  <2> HIDE DEF S
  <2>1. QED
    BY <1>4, <1>5, UpFrom0
<1>7. Q(z)
  <2>1. move + 2 - z <= move + 2
    OBVIOUS
  <2> HIDE DEF Q
  <2>2. QED
    BY <1>6, <2>1
<1>8. QED
  BY <1>1, <1>7

\* A read gives something unless there is nothing.
LEMMA InputIs ==
    ASSUME NEW X, input \in Seq(X), yy_n_read \in 0..Len(input), NEW room \in Nat \ {0}
    PROVE  LET g == Fx!YY_INPUT(room) IN
           g \in Nat /\ g <= room /\ yy_n_read + g <= Len(input)
           /\ (g = 0 <=> yy_n_read = Len(input))
<1> DEFINE most == Fx!Smaller(room, Len(input) - yy_n_read)
           lines == {k \in 1..most : input[yy_n_read + k] = Fx!NewLine}
           first == CHOOSE k \in lines : \A l \in lines : k <= l
<1>0. Len(input) \in Nat
  OBVIOUS
<1>1. /\ most \in Nat /\ most <= room /\ yy_n_read + most <= Len(input)
      /\ most = 0 <=> yy_n_read = Len(input)
  BY <1>0 DEF Fx!Smaller
<1>2. Fx!YY_INPUT(room) = IF interactive /\ lines # {} THEN first ELSE most
  BY DEF Fx!YY_INPUT
<1> HIDE DEF most
<1>3. lines \in SUBSET Nat
  BY <1>1
<1>4. lines # {} => first \in 1..most
  <2>1. SUFFICES ASSUME lines # {} PROVE first \in 1..most
    OBVIOUS
  <2>2. \E k \in lines : \A l \in lines : k <= l
    BY <1>3, <2>1, Smallest
  <2>3. first \in lines
    BY <2>2
  <2>4. QED
    BY <2>3
<1> HIDE DEF lines, first
<1>5. QED
  BY <1>0, <1>1, <1>2, <1>4

-----------------------------------------------------------------------------
(***************************************************************************)
(* The buffer.  Of the text w, r bytes have been read and the last n of    *)
(* them are in it, with two NULs behind them; a token begins at b.         *)
(***************************************************************************)
Byte(w, r, n, i) == IF i < n THEN w[(r - n) + i + 1] ELSE 0

Holds(buf, w, r, n) == \A i \in 0..(n + 1) : buf[i] = Byte(w, r, n, i)

\* The byte at place c is not in the buffer but h.
HoldsBut(buf, h, c, w, r, n) ==
    /\ c \in 0..(n + 1) /\ h = Byte(w, r, n, c)
    /\ \A i \in 0..(n + 1) : i # c => buf[i] = Byte(w, r, n, i)

\* k bytes of the token have been matched; they are one; a NUL is behind them.
Reach(x, w, r, n, b, k) == b + k <= n /\ Begun(x, w, (r - n) + b + 1, k)
Ready(x, w, r, n, b, k) == b + k <= n /\ WholeToken(x, w, (r - n) + b + 1, k)
NulAt(x, w, r, n, b, k) == Reach(x, w, r, n, b, k) /\ Byte(w, r, n, b + k) = 0

StateAt(x, w, r, n, b, k) == StateAfter(x, w[(r - n) + b + 1], k)

Matching(x, w, r, n, b, c, s) ==
    \E k \in Nat :
        \/ Reach(x, w, r, n, b, k) /\ c = b + k /\ s = StateAt(x, w, r, n, b, k)
        \/ NulAt(x, w, r, n, b, k) /\ c = b + k + 1 /\ s = 3

Finding(x, w, r, n, b, c, s, l) ==
    \E k \in Nat :
        \/ /\ Ready(x, w, r, n, b, k)
           /\ \/ s = Tables[x].jam /\ l = [state |-> StateAt(x, w, r, n, b, k), cpos |-> b + k]
              \/ s = StateAt(x, w, r, n, b, k) /\ c = b + k
        \/ /\ NulAt(x, w, r, n, b, k)
           /\ s = Tables[x].jam /\ l = [state |-> 3, cpos |-> b + k + 1]

Acting(x, w, r, n, b, c, s) ==
    \E k \in Nat : Ready(x, w, r, n, b, k) /\ c = b + k /\ s = StateAt(x, w, r, n, b, k)

Ending(x, w, r, n, b, c) == \E k \in Nat : NulAt(x, w, r, n, b, k) /\ c = b + k + 1

Sizes(buf, z, n) == z \in Nat \ {0} /\ DOMAIN buf = 0..(z + 1) /\ n < z

BufRoom(buf) == Cardinality(DOMAIN buf) - 2

Typed ==
    /\ scanner \in Kinds /\ input \in Seq(ByteClasses[scanner])
    /\ yy_n_read \in 0..Len(input) /\ yy_n_chars \in 0..yy_n_read
    /\ Sizes(yy_ch_buf, BufRoom(yy_ch_buf), yy_n_chars)
    /\ yy_buffer_status \in {"new", "normal", "eof pending"}
    /\ yy_buffer_status = "eof pending" => yy_n_read = Len(input)
    /\ {yytext_ptr, yy_c_buf_p, yy_cp, yy_bp} \subseteq 0..(BufRoom(yy_ch_buf) + 1)
    /\ yy_hold_char \in ByteClasses[scanner] \cup {0}
    /\ yy_current_state \in DOMAIN Tables[scanner].accept
    /\ yylex_at \in {"call", "match", "find", "act", "end"}

BufferBytes ==
    /\ yylex_at \in {"match", "find"} => Holds(yy_ch_buf, input, yy_n_read, yy_n_chars)
    /\ yylex_at \in {"call", "act", "end"} =>
          HoldsBut(yy_ch_buf, yy_hold_char, yy_c_buf_p, input, yy_n_read, yy_n_chars)
    /\ yylex_at \in {"act", "end"} => yytext_ptr = yy_bp /\ yy_cp = yy_c_buf_p

Engine ==
    /\ yylex_at = "call" => yy_c_buf_p <= yy_n_chars
    /\ yylex_at = "match" =>
          Matching(scanner, input, yy_n_read, yy_n_chars, yy_bp, yy_cp, yy_current_state)
    /\ yylex_at = "find" =>
          Finding(scanner, input, yy_n_read, yy_n_chars, yy_bp, yy_cp, yy_current_state,
                  yy_last_accepting)
    /\ yylex_at = "act" =>
          Acting(scanner, input, yy_n_read, yy_n_chars, yy_bp, yy_cp, yy_current_state)
    /\ yylex_at = "end" => Ending(scanner, input, yy_n_read, yy_n_chars, yy_bp, yy_cp)

Running == Typed /\ BufferBytes /\ Engine

\* The place in the input of the token that is looked for.
TokenStart == (yy_n_read - yy_n_chars) + (IF yylex_at = "call" THEN yy_c_buf_p ELSE yy_bp) + 1

\* What a step does to the tokens, and to the size of the buffer.
Stays == TokenStart' = TokenStart /\ yylex_out' = yylex_out
Gives ==
    \E k \in Nat : /\ WholeToken(scanner, input, TokenStart, k) /\ TokenStart' = TokenStart + k
                   /\ yylex_out' = Append(yylex_out, TokenOf(scanner, input, TokenStart))
Stops ==
    /\ TokenStart = Len(input) + 1 /\ TokenStart' = TokenStart
    /\ yylex_out' = Append(yylex_out, Fx!EOF)
BufferFits ==
    \/ BufRoom(yy_ch_buf') = BufRoom(yy_ch_buf)
    \/ \E k \in Nat : /\ Begun(scanner, input, TokenStart, k)
                      /\ BufRoom(yy_ch_buf') <= 2 * (k + 1)
Moves == (Stays \/ Gives \/ Stops) /\ BufferFits /\ scanner' = scanner /\ input' = input

-----------------------------------------------------------------------------
LEMMA RoomOf ==
    ASSUME NEW buf, NEW z \in Nat, DOMAIN buf = 0..(z + 1)
    PROVE  BufRoom(buf) = z
<1>1. Cardinality(0..(z + 1)) = IF 0 > z + 1 THEN 0 ELSE (z + 1) - 0 + 1
  BY FS_Interval
<1>2. QED
  BY <1>1 DEF BufRoom

LEMMA SizeIs == Fx!buf_size = BufRoom(yy_ch_buf)
  BY SameCardinality DEF Fx!buf_size, BufRoom

LEMMA TIs == Fx!T = Tables[scanner] /\ Fx!NUL = 0
  BY DEF Fx!T, Fx!NUL

LEMMA ByteIn ==
    ASSUME NEW X, NEW w \in Seq(X), NEW r \in 0..Len(w), NEW n \in 0..r, NEW i \in Nat
    PROVE  /\ Byte(w, r, n, i) \in X \cup {0}
           /\ i < n => Byte(w, r, n, i) = w[(r - n) + i + 1] /\ (r - n) + i + 1 \in 1..Len(w)
           /\ i >= n => Byte(w, r, n, i) = 0
<1>1. Len(w) \in Nat
  OBVIOUS
<1>2. i < n => (r - n) + i + 1 \in 1..Len(w)
  BY <1>1
<1>3. QED
  BY <1>2 DEF Byte

\* A value written at one place.
Written(buf, c, h) == [buf EXCEPT ![c] = h]

LEMMA WriteAt ==
    ASSUME NEW buf, NEW z, NEW n, Sizes(buf, z, n), NEW c \in 0..(z + 1), NEW h
    PROVE  /\ Sizes(Written(buf, c, h), z, n) /\ BufRoom(Written(buf, c, h)) = z
           /\ Written(buf, c, h)[c] = h
           /\ \A i \in 0..(z + 1) : i # c => Written(buf, c, h)[i] = buf[i]
<1>1. DOMAIN Written(buf, c, h) = DOMAIN buf /\ z \in Nat
  BY DEF Sizes, Written
<1>2. QED
  BY <1>1, RoomOf DEF Sizes, Written

LEMMA InputClasses ==
    ASSUME Fx!ScannerAssumption, NEW x \in Kinds, NEW w \in Seq(ByteClasses[x])
    PROVE  w \in Seq(ClassesOf(x)) /\ ByteClasses[x] \subseteq ClassesOf(x)
<1>1. ByteClasses[x] \subseteq {0} \cup DOMAIN Tables[x].meta
  <2>1. x \in Fx!Scanners
    BY DEF Fx!ScannerAssumption, Kinds
  <2>2. QED
    BY <2>1 DEF Fx!ScannerAssumption, Fx!NUL
<1>2. DOMAIN Tables[x].meta = ClassesOf(x)
  BY Ends
<1>3. ByteClasses[x] \subseteq ClassesOf(x)
  BY <1>1, <1>2 DEF ClassesOf
<1>4. QED
  BY <1>3

LEMMA StartState ==
    ASSUME NEW x \in Kinds
    PROVE  1 \in DOMAIN Tables[x].accept
<1>1. 0 \in ClassesOf(x) /\ Possible(x, 0, 0) /\ StateAfter(x, 0, 0) = 1
  BY DEF ClassesOf, Possible, StateAfter
<1>2. QED
  BY <1>1, States

LEMMA BegunNone ==
    ASSUME NEW x, NEW w, NEW p \in Nat, p <= Len(w) + 1, Len(w) \in Nat
    PROVE  Begun(x, w, p, 0)
  BY DEF Begun, Possible

LEMMA CallRuns ==
    ASSUME Fx!ScannerAssumption, Running, Fx!Call
    PROVE  Running' /\ Moves
<1> DEFINE z == BufRoom(yy_ch_buf)
           w == input
           r == yy_n_read
           n == yy_n_chars
           c == yy_c_buf_p
<1>1. /\ yylex_at = "call" /\ yylex_at' = "match"
      /\ yy_ch_buf' = Written(yy_ch_buf, c, yy_hold_char)
      /\ yy_cp' = c /\ yy_bp' = c /\ yy_current_state' = 1
      /\ scanner' = scanner /\ input' = w /\ yy_n_read' = r /\ yy_n_chars' = n
      /\ yy_buffer_status' = yy_buffer_status /\ yytext_ptr' = yytext_ptr /\ yy_c_buf_p' = c
      /\ yy_hold_char' = yy_hold_char /\ yylex_out' = yylex_out
  BY DEF Fx!Call, Written
<1>2. Typed /\ BufferBytes /\ Engine
  BY DEF Running
<1>3. HoldsBut(yy_ch_buf, yy_hold_char, c, w, r, n) /\ c <= n /\ c \in Nat
  BY <1>1, <1>2 DEF BufferBytes, Engine, HoldsBut
<1>4. Sizes(yy_ch_buf, z, n) /\ r \in 0..Len(w) /\ n \in 0..r /\ Len(w) \in Nat
  <2>1. Sizes(yy_ch_buf, z, n) /\ r \in 0..Len(w) /\ n \in 0..r /\ w \in Seq(ByteClasses[scanner])
    BY <1>2 DEF Typed
  <2>2. QED
    BY <2>1, LenNat
<1>5. /\ Sizes(yy_ch_buf', z, n) /\ BufRoom(yy_ch_buf') = z
      /\ yy_ch_buf'[c] = yy_hold_char
      /\ \A i \in 0..(z + 1) : i # c => yy_ch_buf'[i] = yy_ch_buf[i]
  <2>1. c \in 0..(z + 1)
    BY <1>3, <1>4 DEF Sizes
  <2>2. QED
    BY <1>1, <1>4, <2>1, WriteAt
<1>6. Holds(yy_ch_buf', w, r, n)
  <2>1. \A i \in 0..(n + 1) : i \in 0..(z + 1)
    BY <1>4 DEF Sizes
  <2>2. QED
    BY <1>3, <1>5, <2>1 DEF Holds, HoldsBut
<1>7. Matching(scanner, w, r, n, c, c, 1)
  <2>1. Begun(scanner, w, (r - n) + c + 1, 0)
    BY <1>3, <1>4, BegunNone
  <2>2. c + 0 = c /\ StateAt(scanner, w, r, n, c, 0) = 1
    BY <1>3 DEF StateAt, StateAfter
  <2>3. Reach(scanner, w, r, n, c, 0)
    BY <1>3, <2>1, <2>2 DEF Reach
  <2>4. QED
    BY <2>2, <2>3 DEF Matching
<1>8. 1 \in DOMAIN Tables[scanner].accept
  BY <1>2, StartState DEF Typed
<1>9. Typed'
  BY <1>1, <1>2, <1>5, <1>8 DEF Typed
<1>10. BufferBytes' /\ Engine'
  BY <1>1, <1>6, <1>7 DEF BufferBytes, Engine
<1>11. TokenStart' = TokenStart /\ BufferFits
  BY <1>1, <1>5 DEF TokenStart, BufferFits
<1>12. QED
  BY <1>1, <1>9, <1>10, <1>11 DEF Running, Moves, Stays

\* What is known of the buffer at every place of the engine.
LEMMA BufferFacts ==
    ASSUME Fx!ScannerAssumption, Typed
    PROVE  /\ scanner \in Kinds /\ input \in Seq(ClassesOf(scanner)) /\ Len(input) \in Nat
           /\ Sizes(yy_ch_buf, BufRoom(yy_ch_buf), yy_n_chars)
           /\ BufRoom(yy_ch_buf) \in Nat \ {0}
           /\ yy_n_read \in 0..Len(input) /\ yy_n_chars \in 0..yy_n_read
           /\ \A i \in Nat :
                 /\ Byte(input, yy_n_read, yy_n_chars, i) \in ClassesOf(scanner)
                 /\ Byte(input, yy_n_read, yy_n_chars, i) \in ByteClasses[scanner] \cup {0}
<1>1. /\ scanner \in Kinds /\ input \in Seq(ByteClasses[scanner])
      /\ Sizes(yy_ch_buf, BufRoom(yy_ch_buf), yy_n_chars)
      /\ yy_n_read \in 0..Len(input) /\ yy_n_chars \in 0..yy_n_read
  BY DEF Typed
<1>2. input \in Seq(ClassesOf(scanner)) /\ ByteClasses[scanner] \subseteq ClassesOf(scanner)
  BY <1>1, InputClasses
<1>3. Len(input) \in Nat
  BY <1>1, LenNat
<1>4. 0 \in ClassesOf(scanner)
  BY DEF ClassesOf
<1>5. \A i \in Nat : Byte(input, yy_n_read, yy_n_chars, i) \in ByteClasses[scanner] \cup {0}
  BY <1>1, ByteIn
<1>6. BufRoom(yy_ch_buf) \in Nat \ {0}
  BY <1>1 DEF Sizes
<1>7. QED
  BY <1>1, <1>2, <1>3, <1>4, <1>5, <1>6

\* The byte behind those that have been matched.
LEMMA NextByte ==
    ASSUME NEW x \in Kinds, NEW w \in Seq(ClassesOf(x)), NEW r \in 0..Len(w), NEW n \in 0..r,
           NEW b \in Nat, NEW k \in Nat, Reach(x, w, r, n, b, k)
    PROVE  LET p == (r - n) + b + 1
               B == Byte(w, r, n, b + k)
           IN  /\ p \in Nat \ {0} /\ b + k \in 0..n
               /\ b + k = n => B = 0
               /\ b + k < n => p + k <= Len(w) /\ B = w[p + k] /\ p + k = (r - n) + (b + k) + 1
               /\ B # 0 => b + k < n
<1>1. Len(w) \in Nat
  BY LenNat
<1>2. b + k <= n
  BY DEF Reach
<1>3. QED
  BY <1>1, <1>2 DEF Byte

\* One byte more is matched, or what has been matched is a token.
MatchesOn(x, w, r, n, b, c, s, l) ==
    LET t == Tables[x] IN
    /\ s \in DOMAIN t.accept
    /\ t.base[s] # t.jamBase => Matching(x, w, r, n, b, c, s)
    /\ t.base[s] = t.jamBase => Finding(x, w, r, n, b, c, s, l)

LastOf(x, s, l, c) == IF Tables[x].accept[s] # 0 THEN [state |-> s, cpos |-> c] ELSE l

LEMMA ByteMatched ==
    ASSUME NEW x \in Kinds, NEW w \in Seq(ClassesOf(x)), NEW r \in 0..Len(w), NEW n \in 0..r,
           NEW b \in Nat, NEW k \in Nat, Reach(x, w, r, n, b, k), NEW l
    PROVE  LET c == b + k
               s == StateAt(x, w, r, n, b, k)
           IN  MatchesOn(x, w, r, n, b, c + 1, Step(Tables[x], s, Byte(w, r, n, c)), LastOf(x, s, l, c))
<1> DEFINE p == (r - n) + b + 1
           t == Tables[x]
           c == b + k
           B == Byte(w, r, n, c)
           s == StateAt(x, w, r, n, b, k)
           s2 == Step(t, s, B)
           l2 == LastOf(x, s, l, c)
<1>1. /\ p \in Nat \ {0} /\ c \in 0..n
      /\ c = n => B = 0
      /\ c < n => p + k <= Len(w) /\ B = w[p + k]
      /\ B # 0 => c < n
  BY NextByte
<1>2. Begun(x, w, p, k) /\ s = StateAfter(x, w[p], k)
  BY DEF Reach, StateAt
<1>3. /\ s \in DOMAIN t.accept
      /\ k # 0 => t.accept[s] # 0
      /\ Step(t, s, 0) = 3
  BY <1>1, <1>2, TokenState
<1>4. /\ {3, t.jam} \subseteq DOMAIN t.accept
      /\ t.base[3] # t.jamBase /\ t.base[t.jam] = t.jamBase
  BY Ends
<1>5. CASE B = 0
  <2>1. s2 = 3
    BY <1>3, <1>5
  <2>2. NulAt(x, w, r, n, b, k)
    BY <1>5 DEF NulAt
  <2>3. Matching(x, w, r, n, b, c + 1, 3)
    BY <2>2 DEF Matching
  <2>4. QED
    BY <1>4, <2>1, <2>3 DEF MatchesOn
<1>6. CASE B # 0
  <2>1. c < n /\ p + k <= Len(w) /\ B = w[p + k] /\ ClassOf(w[p + k]) = B
    BY <1>1, <1>6 DEF ClassOf
  <2>2. s2 = IF Begun(x, w, p, k + 1) THEN StateAfter(x, w[p], k + 1) ELSE t.jam
    <3>1. Step(t, StateAfter(x, w[p], k), ClassOf(w[p + k])) =
             IF Begun(x, w, p, k + 1) THEN StateAfter(x, w[p], k + 1) ELSE t.jam
      BY <1>1, <1>2, <2>1, TokenStep
    <3>2. QED
      BY <1>2, <2>1, <3>1
  <2>3. CASE Begun(x, w, p, k + 1)
    <3>1. s2 = StateAt(x, w, r, n, b, k + 1)
      BY <2>2, <2>3 DEF StateAt
    <3>2. /\ s2 \in DOMAIN t.accept
          /\ t.base[s2] = t.jamBase => WholeToken(x, w, p, k + 1)
      <4>1. s2 = StateAfter(x, w[p], k + 1) /\ k + 1 \in Nat
        BY <2>2, <2>3
      <4>2. QED
        BY <1>1, <2>3, <4>1, TokenState, SMTT(60)
    <3>3. k + 1 \in Nat /\ b + (k + 1) = c + 1 /\ b + (k + 1) <= n
      BY <1>1, <2>1
    <3>4. Matching(x, w, r, n, b, c + 1, s2)
      <4>1. Reach(x, w, r, n, b, k + 1)
        BY <2>3, <3>3 DEF Reach
      <4>2. QED
        BY <3>1, <3>3, <4>1 DEF Matching
    <3>5. t.base[s2] = t.jamBase => Finding(x, w, r, n, b, c + 1, s2, l2)
      <4>1. SUFFICES ASSUME t.base[s2] = t.jamBase PROVE Finding(x, w, r, n, b, c + 1, s2, l2)
        OBVIOUS
      <4>2. Ready(x, w, r, n, b, k + 1)
        BY <3>2, <3>3, <4>1 DEF Ready
      <4> HIDE DEF s2, l2
      <4>3. QED
        BY <3>1, <3>3, <4>2 DEF Finding
    <3>6. QED
      BY <3>2, <3>4, <3>5 DEF MatchesOn
  <2>4. CASE ~Begun(x, w, p, k + 1)
    <3>1. s2 = t.jam
      BY <2>2, <2>4
    <3>2. k # 0
      <4>1. k = 0 => Begun(x, w, p, k + 1)
        BY <1>1, <1>2, <2>1, BegunNext
      <4>2. QED
        BY <2>4, <4>1
    <3>3. Ready(x, w, r, n, b, k)
      BY <1>1, <1>2, <2>4, <3>2 DEF Ready, WholeToken
    <3>4. l2 = [state |-> s, cpos |-> b + k]
      BY <1>3, <3>2 DEF LastOf
    <3>5. Finding(x, w, r, n, b, c + 1, s2, l2)
      <4> HIDE DEF s2, l2
      <4>1. QED
        BY <3>1, <3>3, <3>4 DEF Finding
    <3>6. QED
      BY <1>4, <3>1, <3>5 DEF MatchesOn
  <2>5. QED
    BY <2>3, <2>4
<1>7. QED
  BY <1>5, <1>6

LEMMA NulMatched ==
    ASSUME NEW x \in Kinds, NEW w \in Seq(ClassesOf(x)), NEW r \in 0..Len(w), NEW n \in 0..r,
           NEW b \in Nat, NEW k \in Nat, NulAt(x, w, r, n, b, k), NEW l, NEW B \in ClassesOf(x)
    PROVE  LET c == b + k + 1 IN
           MatchesOn(x, w, r, n, b, c + 1, Step(Tables[x], 3, B), LastOf(x, 3, l, c))
<1> DEFINE t == Tables[x]
           c == b + k + 1
<1>1. /\ {3, t.jam} \subseteq DOMAIN t.accept /\ t.accept[3] # 0
      /\ t.base[t.jam] = t.jamBase /\ Step(t, 3, B) = t.jam
  BY Ends
<1>2. LastOf(x, 3, l, c) = [state |-> 3, cpos |-> c]
  BY <1>1 DEF LastOf
<1>3. Finding(x, w, r, n, b, c + 1, t.jam, [state |-> 3, cpos |-> c])
  BY DEF Finding
<1>4. QED
  BY <1>1, <1>2, <1>3 DEF MatchesOn

LEMMA MatchRuns ==
    ASSUME Fx!ScannerAssumption, Running, Fx!Match
    PROVE  Running' /\ Moves
<1> DEFINE z == BufRoom(yy_ch_buf)
           x == scanner
           t == Tables[scanner]
           w == input
           r == yy_n_read
           n == yy_n_chars
           b == yy_bp
           c == yy_cp
           s == yy_current_state
           l == yy_last_accepting
<1>1. /\ yylex_at = "match" /\ yy_ch_buf' = yy_ch_buf
      /\ yy_last_accepting' = LastOf(x, s, l, c)
      /\ yy_current_state' = Step(t, s, yy_ch_buf[c])
      /\ yy_cp' = c + 1 /\ yy_bp' = b
      /\ yylex_at' = IF t.base[yy_current_state'] = t.jamBase THEN "find" ELSE "match"
      /\ scanner' = scanner /\ input' = w /\ yy_n_read' = r /\ yy_n_chars' = n
      /\ yy_buffer_status' = yy_buffer_status /\ yytext_ptr' = yytext_ptr
      /\ yy_c_buf_p' = yy_c_buf_p
      /\ yy_hold_char' = yy_hold_char /\ yylex_out' = yylex_out
  BY TransIs, TIs DEF Fx!Match, Fx!Accepting, LastOf, Fx!buffer
<1>2. Typed /\ BufferBytes /\ Engine
  BY DEF Running
<1>3. /\ x \in Kinds /\ w \in Seq(ClassesOf(x)) /\ r \in 0..Len(w) /\ n \in 0..r
      /\ Sizes(yy_ch_buf, z, n) /\ z \in Nat \ {0} /\ Len(w) \in Nat
      /\ \A i \in Nat : Byte(w, r, n, i) \in ClassesOf(x)
  BY <1>2, BufferFacts
<1>4. Holds(yy_ch_buf, w, r, n) /\ Matching(x, w, r, n, b, c, s)
  BY <1>1, <1>2 DEF BufferBytes, Engine
<1>5. b \in Nat /\ n < z
  <2>1. b \in 0..(z + 1)
    BY <1>2 DEF Typed
  <2>2. QED
    BY <1>3, <2>1 DEF Sizes
<1>6. /\ c \in 0..(n + 1)
      /\ MatchesOn(x, w, r, n, b, c + 1, Step(t, s, yy_ch_buf[c]), LastOf(x, s, l, c))
  <2>1. PICK k \in Nat :
        \/ Reach(x, w, r, n, b, k) /\ c = b + k /\ s = StateAt(x, w, r, n, b, k)
        \/ NulAt(x, w, r, n, b, k) /\ c = b + k + 1 /\ s = 3
    BY <1>4 DEF Matching
  <2>2. b + k \in 0..n /\ Reach(x, w, r, n, b, k)
    BY <1>5, <2>1 DEF NulAt, Reach
  <2>3. c \in 0..(n + 1) /\ c \in Nat
    BY <1>3, <1>5, <2>1, <2>2
  <2>4. yy_ch_buf[c] = Byte(w, r, n, c)
    BY <1>4, <2>3 DEF Holds
  <2>5. CASE c = b + k /\ s = StateAt(x, w, r, n, b, k)
    <3>1. LET d == b + k
              y == StateAt(x, w, r, n, b, k)
           IN  MatchesOn(x, w, r, n, b, d + 1, Step(Tables[x], y, Byte(w, r, n, d)), LastOf(x, y, l, d))
      BY <1>3, <1>5, <2>2, ByteMatched
    <3>2. QED
      BY <2>3, <2>4, <2>5, <3>1
  <2>6. CASE NulAt(x, w, r, n, b, k) /\ c = b + k + 1 /\ s = 3
    <3>1. Byte(w, r, n, c) \in ClassesOf(x)
      BY <1>3, <2>3
    <3>2. LET d == b + k + 1 IN
           MatchesOn(x, w, r, n, b, d + 1, Step(Tables[x], 3, Byte(w, r, n, c)), LastOf(x, 3, l, d))
      BY <1>3, <1>5, <2>6, <3>1, NulMatched
    <3>3. QED
      BY <2>3, <2>4, <2>6, <3>2
  <2>7. QED
    BY <2>1, <2>5, <2>6
<1>7. /\ yy_current_state' \in DOMAIN t.accept
      /\ yylex_at' = "match" => Matching(x, w, r, n, b, yy_cp', yy_current_state')
      /\ yylex_at' = "find" => Finding(x, w, r, n, b, yy_cp', yy_current_state', yy_last_accepting')
      /\ yylex_at' \in {"match", "find"}
  BY <1>1, <1>6 DEF MatchesOn
<1>8. yy_cp' \in 0..(z + 1)
  BY <1>1, <1>3, <1>5, <1>6
<1>9. Typed'
  BY <1>1, <1>2, <1>7, <1>8 DEF Typed
<1>10. BufferBytes' /\ Engine'
  BY <1>1, <1>4, <1>7 DEF BufferBytes, Engine
<1>11. TokenStart' = TokenStart /\ BufferFits
  <2>1. yylex_at # "call" /\ yylex_at' # "call"
    BY <1>1, <1>7
  <2>2. QED
    BY <1>1, <2>1 DEF TokenStart, BufferFits
<1>12. QED
  BY <1>1, <1>9, <1>10, <1>11 DEF Running, Moves, Stays

\* What is found, for a token and at the end of the buffer.
Reported(x, w, r, n, b, f) ==
    LET t == Tables[x] IN
    /\ f.cpos \in 0..(n + 1) /\ f.state \in DOMAIN t.accept
    /\ t.accept[f.state] # t.endOfBuffer => Acting(x, w, r, n, b, f.cpos, f.state)
    /\ t.accept[f.state] = t.endOfBuffer => Ending(x, w, r, n, b, f.cpos)

LEMMA ActionFound ==
    ASSUME NEW x \in Kinds, NEW w \in Seq(ClassesOf(x)), NEW r \in 0..Len(w), NEW n \in 0..r,
           NEW b \in Nat, NEW c, NEW s, NEW l, Finding(x, w, r, n, b, c, s, l)
    PROVE  Reported(x, w, r, n, b,
                    IF Tables[x].accept[s] = 0 THEN l ELSE [state |-> s, cpos |-> c])
<1> DEFINE t == Tables[x]
           f == IF t.accept[s] = 0 THEN l ELSE [state |-> s, cpos |-> c]
           Token(k) == /\ Ready(x, w, r, n, b, k)
                       /\ \/ s = t.jam /\ l = [state |-> StateAt(x, w, r, n, b, k), cpos |-> b + k]
                          \/ s = StateAt(x, w, r, n, b, k) /\ c = b + k
           End(k) == NulAt(x, w, r, n, b, k) /\ s = t.jam /\ l = [state |-> 3, cpos |-> b + k + 1]
<1>1. PICK k \in Nat : Token(k) \/ End(k)
  BY DEF Finding
<1>2. /\ 3 \in DOMAIN t.accept /\ t.accept[3] = t.endOfBuffer /\ t.accept[t.jam] = 0
  BY Ends
<1>3. Len(w) \in Nat
  BY LenNat
<1>4. CASE Token(k)
  <2> DEFINE y == StateAt(x, w, r, n, b, k)
  <2>1. b + k \in 0..(n + 1) /\ k # 0 /\ Begun(x, w, (r - n) + b + 1, k)
    BY <1>3, <1>4 DEF Ready, WholeToken
  <2>2. (r - n) + b + 1 \in Nat \ {0}
    BY <1>3
  <2>3. y \in DOMAIN t.accept /\ t.accept[y] # 0 /\ t.accept[y] # t.endOfBuffer
    <3>1. y = StateAfter(x, w[(r - n) + b + 1], k)
      BY DEF StateAt
    <3>2. QED
      BY <2>1, <2>2, <3>1, TokenState
  <2>4. f = [state |-> y, cpos |-> b + k]
    BY <1>2, <1>4, <2>3
  <2>5. f.state = y /\ f.cpos = b + k
    BY <2>4
  <2>6. Acting(x, w, r, n, b, b + k, y)
    BY <1>4 DEF Acting
  <2> HIDE DEF f, y
  <2>7. QED
    BY <2>1, <2>3, <2>5, <2>6 DEF Reported, f
<1>5. CASE End(k)
  <2>1. b + k + 1 \in 0..(n + 1)
    BY <1>3, <1>5 DEF NulAt, Reach
  <2>2. f = [state |-> 3, cpos |-> b + k + 1]
    BY <1>2, <1>5
  <2>3. Ending(x, w, r, n, b, b + k + 1)
    BY <1>5 DEF Ending
  <2>4. f.state = 3 /\ f.cpos = b + k + 1
    BY <2>2
  <2> HIDE DEF f
  <2>5. QED
    BY <1>2, <2>1, <2>3, <2>4 DEF Reported, f
<1> HIDE DEF Token, End, f
<1>6. QED
  BY <1>1, <1>4, <1>5 DEF f

LEMMA FindRuns ==
    ASSUME Fx!ScannerAssumption, Running, Fx!Find
    PROVE  Running' /\ Moves
<1> DEFINE z == BufRoom(yy_ch_buf)
           x == scanner
           t == Tables[scanner]
           w == input
           r == yy_n_read
           n == yy_n_chars
           b == yy_bp
           c == yy_cp
           s == yy_current_state
           l == yy_last_accepting
           f == IF t.accept[s] = 0 THEN l ELSE [state |-> s, cpos |-> c]
<1>1. /\ yylex_at = "find" /\ yy_ch_buf' = Written(yy_ch_buf, f.cpos, 0)
      /\ yy_current_state' = f.state
      /\ yy_cp' = f.cpos /\ yy_bp' = b /\ yytext_ptr' = b /\ yy_c_buf_p' = f.cpos
      /\ yy_hold_char' = yy_ch_buf[f.cpos]
      /\ yylex_at' = IF t.accept[f.state] = t.endOfBuffer THEN "end" ELSE "act"
      /\ scanner' = scanner /\ input' = w /\ yy_n_read' = r /\ yy_n_chars' = n
      /\ yy_buffer_status' = yy_buffer_status
      /\ yylex_out' = yylex_out
  BY TIs DEF Fx!Find, Fx!Backed, Written
<1>2. Typed /\ BufferBytes /\ Engine
  BY DEF Running
<1>3. /\ x \in Kinds /\ w \in Seq(ClassesOf(x)) /\ r \in 0..Len(w) /\ n \in 0..r
      /\ Sizes(yy_ch_buf, z, n) /\ z \in Nat \ {0} /\ Len(w) \in Nat
      /\ \A i \in Nat : Byte(w, r, n, i) \in ByteClasses[x] \cup {0}
  BY <1>2, BufferFacts
<1>4. Holds(yy_ch_buf, w, r, n) /\ Finding(x, w, r, n, b, c, s, l)
  BY <1>1, <1>2 DEF BufferBytes, Engine
<1>5. b \in 0..(z + 1) /\ b \in Nat /\ n < z
  <2>1. b \in 0..(z + 1)
    BY <1>2 DEF Typed
  <2>2. QED
    BY <1>3, <2>1 DEF Sizes
<1>6. Reported(x, w, r, n, b, f)
  BY <1>3, <1>4, <1>5, ActionFound
<1> HIDE DEF f
<1>7. f.cpos \in 0..(n + 1) /\ f.cpos \in 0..(z + 1) /\ f.cpos \in Nat
  BY <1>3, <1>5, <1>6 DEF Reported
<1>8. yy_ch_buf[f.cpos] = Byte(w, r, n, f.cpos)
  BY <1>4, <1>7 DEF Holds
<1>9. /\ Sizes(yy_ch_buf', z, n) /\ BufRoom(yy_ch_buf') = z
      /\ \A i \in 0..(z + 1) : i # f.cpos => yy_ch_buf'[i] = yy_ch_buf[i]
  BY <1>1, <1>3, <1>7, WriteAt
<1>10. HoldsBut(yy_ch_buf', yy_hold_char', f.cpos, w, r, n)
  <2>1. \A i \in 0..(n + 1) : i \in 0..(z + 1)
    BY <1>3, <1>5
  <2>2. QED
    BY <1>1, <1>4, <1>7, <1>8, <1>9, <2>1 DEF Holds, HoldsBut
<1>11. /\ yylex_at' = "act" => Acting(x, w, r, n, b, f.cpos, f.state)
       /\ yylex_at' = "end" => Ending(x, w, r, n, b, f.cpos)
       /\ f.state \in DOMAIN t.accept /\ yylex_at' \in {"act", "end"}
  BY <1>1, <1>6 DEF Reported
<1>12. yy_hold_char' \in ByteClasses[x] \cup {0}
  BY <1>1, <1>3, <1>7, <1>8
<1>13. Typed'
  BY <1>1, <1>2, <1>5, <1>7, <1>9, <1>11, <1>12 DEF Typed
<1>14. BufferBytes' /\ Engine'
  BY <1>1, <1>10, <1>11 DEF BufferBytes, Engine
<1>15. TokenStart' = TokenStart /\ BufferFits
  <2>1. yylex_at # "call" /\ yylex_at' # "call"
    BY <1>1, <1>11
  <2>2. QED
    BY <1>1, <1>9, <2>1 DEF TokenStart, BufferFits
<1>16. QED
  BY <1>1, <1>13, <1>14, <1>15 DEF Running, Moves, Stays

\* The text of a token, while the byte behind it is held.
Held(buf, b, c) == [i \in 1..(c - b) |-> buf[b + i - 1]]

Cut(w, p, k) == SubSeq(w, p, p + k - 1)

LEMMA TextHeld ==
    ASSUME NEW x \in Kinds, NEW w \in Seq(ClassesOf(x)), NEW r \in 0..Len(w), NEW n \in 0..r,
           NEW b \in Nat, NEW k \in Nat, NEW c \in 0..n, c = b + k, NEW buf, NEW h,
           HoldsBut(buf, h, c, w, r, n), NEW p \in Nat, p = (r - n) + b + 1
    PROVE  Held(buf, b, c) = Cut(w, p, k)
<1>1. Len(w) \in Nat
  BY LenNat
<1>2. p \in Nat \ {0} /\ p + k - 1 <= Len(w) /\ c - b = k
  BY <1>1
<1>3. ASSUME NEW i \in 1..k PROVE buf[b + i - 1] = w[p + i - 1]
  <2>1. b + i - 1 \in 0..(n + 1) /\ b + i - 1 # c /\ b + i - 1 < n
        /\ (r - n) + (b + i - 1) + 1 = p + i - 1
    BY <1>1
  <2>2. buf[b + i - 1] = Byte(w, r, n, b + i - 1)
    BY <2>1 DEF HoldsBut
  <2>3. QED
    BY <2>1, <2>2 DEF Byte
<1>4. SubSeq(w, p, p + k - 1) = [i \in 1..k |-> w[p + i - 1]]
  BY <1>2, SubSeqIs
<1>5. QED
  BY <1>2, <1>3, <1>4 DEF Held, Cut

LEMMA RuleRuns ==
    ASSUME Fx!ScannerAssumption, Running, Fx!Rule
    PROVE  Running' /\ Moves
<1> DEFINE z == BufRoom(yy_ch_buf)
           x == scanner
           t == Tables[scanner]
           w == input
           r == yy_n_read
           n == yy_n_chars
           b == yy_bp
           c == yy_cp
           s == yy_current_state
           p == (r - n) + b + 1
           a == [rule |-> t.accept[s], text |-> Held(yy_ch_buf, yytext_ptr, c)]
<1>1. /\ yylex_at = "act" /\ yylex_at' = "call"
      /\ yylex_out' = Append(yylex_out, a)
      /\ yy_ch_buf' = yy_ch_buf /\ yy_current_state' = s /\ yy_cp' = c /\ yy_bp' = b
      /\ scanner' = scanner /\ input' = w /\ yy_n_read' = r /\ yy_n_chars' = n
      /\ yy_buffer_status' = yy_buffer_status /\ yytext_ptr' = yytext_ptr
      /\ yy_c_buf_p' = yy_c_buf_p /\ yy_hold_char' = yy_hold_char
  BY TIs DEF Fx!Rule, Fx!buffer, Held
<1>2. Typed /\ BufferBytes /\ Engine
  BY DEF Running
<1>3. /\ x \in Kinds /\ w \in Seq(ClassesOf(x)) /\ r \in 0..Len(w) /\ n \in 0..r
      /\ Sizes(yy_ch_buf, z, n) /\ z \in Nat \ {0} /\ Len(w) \in Nat
  BY <1>2, BufferFacts
<1>4. /\ HoldsBut(yy_ch_buf, yy_hold_char, yy_c_buf_p, w, r, n)
      /\ yytext_ptr = b /\ c = yy_c_buf_p /\ Acting(x, w, r, n, b, c, s)
  BY <1>1, <1>2 DEF BufferBytes, Engine
<1>5. b \in Nat
  <2>1. b \in 0..(z + 1)
    BY <1>2 DEF Typed
  <2>2. QED
    BY <1>3, <2>1
<1>6. PICK k \in Nat : Ready(x, w, r, n, b, k) /\ c = b + k /\ s = StateAt(x, w, r, n, b, k)
  BY <1>4 DEF Acting
<1>7. p \in Nat \ {0} /\ b + k <= n /\ WholeToken(x, w, p, k) /\ s = StateAfter(x, w[p], k)
  BY <1>3, <1>5, <1>6 DEF Ready, StateAt
<1>8. a = TokenOf(x, w, p)
  <2>1. Held(yy_ch_buf, b, c) = Cut(w, p, k)
    <3>1. HoldsBut(yy_ch_buf, yy_hold_char, c, w, r, n)
      BY <1>4
    <3>2. c \in 0..n
      BY <1>3, <1>5, <1>6, <1>7
    <3>3. /\ p \in Nat /\ c = b + k /\ p = (r - n) + b + 1 /\ x \in Kinds
          /\ w \in Seq(ClassesOf(x)) /\ r \in 0..Len(w) /\ n \in 0..r /\ b \in Nat /\ k \in Nat
      BY <1>3, <1>5, <1>6, <1>7
    <3> HIDE DEF p, c, x, w, r, n, b
    <3>4. QED
      BY <3>1, <3>2, <3>3, TextHeld
  <2>2. a = [rule |-> t.accept[s], text |-> Held(yy_ch_buf, b, c)]
    BY <1>4
  <2>3. TokenOf(x, w, p) = [rule |-> t.accept[StateAfter(x, w[p], k)], text |-> SubSeq(w, p, p + k - 1)]
    BY <1>3, <1>7, TokenAt
  <2> HIDE DEF a
  <2>4. QED
    BY <1>7, <2>1, <2>2, <2>3 DEF Cut
<1> HIDE DEF a
<1>9. TokenStart = p /\ TokenStart' = p + k
  BY <1>1, <1>3, <1>4, <1>5, <1>6 DEF TokenStart
<1>10. Gives
  BY <1>1, <1>7, <1>8, <1>9 DEF Gives
<1>11. Typed'
  BY <1>1, <1>2 DEF Typed
<1>12. BufferBytes' /\ Engine'
  BY <1>1, <1>4, <1>6, <1>7 DEF BufferBytes, Engine
<1>13. BufferFits
  BY <1>1 DEF BufferFits
<1>14. QED
  BY <1>1, <1>10, <1>11, <1>12, <1>13 DEF Running, Moves

\* The byte that was held is put back.
LEMMA PutBack ==
    ASSUME NEW buf, NEW z, NEW n \in Nat, Sizes(buf, z, n), NEW h, NEW c, NEW w, NEW r,
           HoldsBut(buf, h, c, w, r, n)
    PROVE  Holds(Written(buf, c, h), w, r, n) /\ Sizes(Written(buf, c, h), z, n)
           /\ BufRoom(Written(buf, c, h)) = z
<1>1. /\ c \in 0..(n + 1) /\ h = Byte(w, r, n, c)
      /\ \A i \in 0..(n + 1) : i # c => buf[i] = Byte(w, r, n, i)
  BY DEF HoldsBut
<1>2. z \in Nat /\ \A i \in 0..(n + 1) : i \in 0..(z + 1)
  BY DEF Sizes
<1>3. /\ Sizes(Written(buf, c, h), z, n) /\ BufRoom(Written(buf, c, h)) = z
      /\ Written(buf, c, h)[c] = h
      /\ \A i \in 0..(z + 1) : i # c => Written(buf, c, h)[i] = buf[i]
  BY <1>1, <1>2, WriteAt
<1>4. ASSUME NEW i \in 0..(n + 1)
      PROVE  Written(buf, c, h)[i] = Byte(w, r, n, i)
  BY <1>1, <1>2, <1>3
<1>5. QED
  BY <1>3, <1>4 DEF Holds

\* What has been matched is in the buffer as it is in the text.
LEMMA MatchedBytes ==
    ASSUME NEW X, NEW w \in Seq(X), NEW r \in 0..Len(w), NEW n \in 0..r,
           NEW b \in Nat, NEW k \in Nat, b + k <= n, NEW buf, Holds(buf, w, r, n)
    PROVE  TextBytes(buf, b, w, (r - n) + b + 1, k)
<1>1. Len(w) \in Nat
  BY LenNat
<1>2. ASSUME NEW i \in 0..(k - 1) PROVE buf[b + i] = w[((r - n) + b + 1) + i]
  <2>1. b + i \in 0..(n + 1) /\ b + i < n /\ (r - n) + (b + i) + 1 = ((r - n) + b + 1) + i
    BY <1>1
  <2>2. buf[b + i] = Byte(w, r, n, b + i)
    BY <2>1 DEF Holds
  <2>3. QED
    BY <2>1, <2>2 DEF Byte
<1>3. QED
  BY <1>2 DEF TextBytes

\* A NUL of the text is matched as a byte is, or ends the token before it.
LEMMA NulTaken ==
    ASSUME NEW x \in Kinds, NEW w \in Seq(ClassesOf(x)), NEW r \in 0..Len(w), NEW n \in 0..r,
           NEW b \in Nat, NEW k \in Nat, NulAt(x, w, r, n, b, k), b + k < n, NEW l,
           NEW y, y = Step(Tables[x], StateAt(x, w, r, n, b, k), 1)
    PROVE  /\ y # Tables[x].jam =>
                 y \in DOMAIN Tables[x].accept /\ Matching(x, w, r, n, b, b + k + 1, y)
           /\ y = Tables[x].jam =>
                 /\ StateAt(x, w, r, n, b, k) \in DOMAIN Tables[x].accept
                 /\ Finding(x, w, r, n, b, b + k, StateAt(x, w, r, n, b, k), l)
<1> DEFINE p == (r - n) + b + 1
           t == Tables[x]
           s == StateAt(x, w, r, n, b, k)
<1>1. Reach(x, w, r, n, b, k) /\ Byte(w, r, n, b + k) = 0
  BY DEF NulAt
<1>2. /\ p \in Nat \ {0} /\ p + k <= Len(w) /\ w[p + k] = 0
  BY <1>1, NextByte
<1>3. Begun(x, w, p, k) /\ s = StateAfter(x, w[p], k)
  BY <1>1 DEF Reach, StateAt
<1>4. y = IF Begun(x, w, p, k + 1) THEN StateAfter(x, w[p], k + 1) ELSE t.jam
  <2>1. Step(t, StateAfter(x, w[p], k), ClassOf(w[p + k])) =
             IF Begun(x, w, p, k + 1) THEN StateAfter(x, w[p], k + 1) ELSE t.jam
    BY <1>2, <1>3, TokenStep
  <2>2. ClassOf(w[p + k]) = 1
    BY <1>2 DEF ClassOf
  <2>3. QED
    BY <1>3, <2>1, <2>2
<1>5. CASE Begun(x, w, p, k + 1)
  <2>1. y = StateAt(x, w, r, n, b, k + 1)
    BY <1>4, <1>5 DEF StateAt
  <2>2. y \in Live(x) /\ y \in DOMAIN t.accept
    <3>1. y = StateAfter(x, w[p], k + 1) /\ k + 1 \in Nat /\ k + 1 # 0
      BY <1>4, <1>5
    <3>2. QED
      BY <1>2, <1>5, <3>1, TokenState
  <2>3. y # t.jam
    BY <2>2, Ends
  <2>4. k + 1 \in Nat /\ b + (k + 1) = b + k + 1 /\ b + (k + 1) <= n
    OBVIOUS
  <2>5. Reach(x, w, r, n, b, k + 1)
    BY <1>5, <2>4 DEF Reach
  <2>6. Matching(x, w, r, n, b, b + k + 1, y)
    BY <2>1, <2>4, <2>5 DEF Matching
  <2>7. QED
    BY <2>2, <2>3, <2>6
<1>6. CASE ~Begun(x, w, p, k + 1)
  <2>1. y = t.jam
    BY <1>4, <1>6
  <2>2. k # 0
    <3>1. k = 0 => Begun(x, w, p, k + 1)
      BY <1>2, <1>3, BegunNext
    <3>2. QED
      BY <1>6, <3>1
  <2>3. Ready(x, w, r, n, b, k)
    BY <1>3, <1>6, <2>2 DEF Ready, WholeToken
  <2>4. s \in DOMAIN t.accept
    BY <1>2, <1>3, TokenState
  <2>5. Finding(x, w, r, n, b, b + k, s, l)
    BY <2>3 DEF Finding
  <2>6. QED
    BY <2>1, <2>4, <2>5
<1>7. QED
  BY <1>5, <1>6

\* The state that is found again, with the names of the engine.
LEMMA Again ==
    ASSUME scanner \in Kinds, input \in Seq(ClassesOf(scanner)), NEW r \in 0..Len(input),
           NEW n \in 0..r, NEW b \in Nat, NEW k \in Nat, Reach(scanner, input, r, n, b, k),
           NEW buf, Holds(buf, input, r, n), NEW q, q = b + k
    PROVE  Fx!yy_get_previous_state(buf, b, q).state = StateAt(scanner, input, r, n, b, k)
<1> DEFINE p == (r - n) + b + 1
<1>1. b + k <= n /\ Begun(scanner, input, p, k)
  BY DEF Reach
<1>2. TextBytes(buf, b, input, p, k)
  BY <1>1, MatchedBytes
<1>3. p \in Nat \ {0}
  BY LenNat
<1>4. Fx!yy_get_previous_state(buf, b, b + k).state = StateAfter(scanner, input[p], k)
  <2> HIDE DEF p
  <2>1. QED
    BY <1>1, <1>2, <1>3, PreviousState
<1>5. QED
  BY <1>4 DEF StateAt

LEMMA NulRuns ==
    ASSUME Fx!ScannerAssumption, Running, Fx!NulInText
    PROVE  Running' /\ Moves
<1> DEFINE z == BufRoom(yy_ch_buf)
           x == scanner
           t == Tables[scanner]
           w == input
           r == yy_n_read
           n == yy_n_chars
           b == yy_bp
           c == yy_cp
           buf == Written(yy_ch_buf, c, yy_hold_char)
           here == b + (c - b - 1)
           before == Fx!yy_get_previous_state(buf, b, here)
           next == Step(t, before.state, 1)
<1>2. Typed /\ BufferBytes /\ Engine
  BY DEF Running
<1>3. /\ x \in Kinds /\ w \in Seq(ClassesOf(x)) /\ r \in 0..Len(w) /\ n \in 0..r
      /\ Sizes(yy_ch_buf, z, n) /\ z \in Nat \ {0} /\ Len(w) \in Nat
  BY <1>2, BufferFacts
<1>0. yylex_at = "end" /\ yy_c_buf_p <= n
  BY DEF Fx!NulInText, Fx!InText
<1>4. /\ HoldsBut(yy_ch_buf, yy_hold_char, c, w, r, n)
      /\ yytext_ptr = b /\ c = yy_c_buf_p /\ Ending(x, w, r, n, b, c)
  BY <1>0, <1>2 DEF BufferBytes, Engine
<1>1. /\ yylex_at = "end" /\ c <= n
      /\ yy_buffer_status' \in {yy_buffer_status, "normal"}
      /\ yy_ch_buf' = buf /\ yy_bp' = b /\ yy_c_buf_p' = yy_cp' /\ yytext_ptr' = b
      /\ \/ next # t.jam /\ yy_cp' = here + 1 /\ yy_current_state' = next /\ yylex_at' = "match"
         \/ /\ next = t.jam /\ yy_cp' = here /\ yy_current_state' = before.state
            /\ yylex_at' = "find"
      /\ scanner' = scanner /\ input' = w /\ yy_n_read' = r /\ yy_n_chars' = n
      /\ yy_hold_char' = yy_hold_char /\ yylex_out' = yylex_out
  BY <1>0, <1>4, TransIs, TIs DEF Fx!NulInText, Fx!InText, Fx!Restored, Fx!Matched, Written
<1>5. b \in 0..(z + 1) /\ b \in Nat /\ n < z
  <2>1. b \in 0..(z + 1)
    BY <1>2 DEF Typed
  <2>2. QED
    BY <1>3, <2>1 DEF Sizes
<1>6. PICK k \in Nat : NulAt(x, w, r, n, b, k) /\ c = b + k + 1
  BY <1>4 DEF Ending
<1>7. here = b + k /\ here + 1 = b + k + 1 /\ b + k < n
  BY <1>1, <1>3, <1>5, <1>6
<1>8. Holds(buf, w, r, n) /\ Sizes(buf, z, n) /\ BufRoom(buf) = z
  <2>1. n \in Nat
    BY <1>3
  <2>2. QED
    BY <1>3, <1>4, <2>1, PutBack
<1>9. before.state = StateAt(x, w, r, n, b, k)
  <2>1. Reach(x, w, r, n, b, k)
    BY <1>6 DEF NulAt
  <2> HIDE DEF buf, here
  <2>2. QED
    BY <1>3, <1>5, <1>7, <1>8, <2>1, Again
<1>10. /\ next # t.jam =>
             next \in DOMAIN t.accept /\ Matching(x, w, r, n, b, b + k + 1, next)
       /\ next = t.jam =>
             /\ StateAt(x, w, r, n, b, k) \in DOMAIN t.accept
             /\ Finding(x, w, r, n, b, b + k, StateAt(x, w, r, n, b, k), yy_last_accepting')
  <2>1. next = Step(t, StateAt(x, w, r, n, b, k), 1)
    BY <1>9
  <2> HIDE DEF next, before
  <2>2. QED
    BY <1>3, <1>5, <1>6, <1>7, <2>1, NulTaken
<1> HIDE DEF next, before, buf, here
<1>11. /\ yylex_at' = "match" => Matching(x, w, r, n, b, yy_cp', yy_current_state')
       /\ yylex_at' = "find" => Finding(x, w, r, n, b, yy_cp', yy_current_state', yy_last_accepting')
       /\ yy_current_state' \in DOMAIN t.accept /\ yylex_at' \in {"match", "find"}
       /\ yy_cp' \in 0..(z + 1)
  <2>1. here \in 0..(z + 1) /\ here + 1 \in 0..(z + 1)
    BY <1>3, <1>5, <1>7
  <2>2. QED
    BY <1>1, <1>7, <1>9, <1>10, <2>1
<1>12. Typed'
  BY <1>1, <1>2, <1>5, <1>8, <1>11 DEF Typed
<1>13. BufferBytes' /\ Engine'
  BY <1>1, <1>8, <1>11 DEF BufferBytes, Engine
<1>14. TokenStart' = TokenStart /\ BufferFits
  <2>1. yylex_at # "call" /\ yylex_at' # "call"
    BY <1>1, <1>11
  <2>2. QED
    BY <1>1, <1>8, <2>1 DEF TokenStart, BufferFits
<1>15. QED
  BY <1>1, <1>12, <1>13, <1>14 DEF Running, Moves, Stays

\* What the buffer is filled with: k bytes of it, g of the file, two NULs.
FilledWith(k, g, old, b, w, r, v, i) ==
    CASE i < k -> old[b + i]
      [] i >= k /\ i < k + g -> w[r + i - k + 1]
      [] i = k + g \/ i = k + g + 1 -> 0
      [] OTHER -> v

LEMMA FilledHolds ==
    ASSUME NEW X, NEW w \in Seq(X), NEW r \in 0..Len(w), NEW n \in 0..r, NEW b \in Nat,
           NEW k \in Nat, b + k = n, NEW old, Holds(old, w, r, n), NEW g \in Nat, r + g <= Len(w),
           NEW buf,
           \A i \in 0..(k + g + 1) : \E v : buf[i] = FilledWith(k, g, old, b, w, r, v, i)
    PROVE  Holds(buf, w, r + g, k + g)
<1>1. Len(w) \in Nat
  BY LenNat
<1>2. ASSUME NEW i \in 0..(k + g + 1)
      PROVE  buf[i] = Byte(w, r + g, k + g, i)
  <2>0. PICK v : buf[i] = FilledWith(k, g, old, b, w, r, v, i)
    OBVIOUS
  <2>1. CASE i < k
    <3>0. b + i \in 0..(n + 1) /\ b + i < n /\ ~(i >= k /\ i < k + g) /\ ~(i = k + g \/ i = k + g + 1)
      BY <2>1
    <3>1. buf[i] = old[b + i]
      BY <2>0, <2>1, <3>0, Zenon DEF FilledWith
    <3>2. old[b + i] = w[(r - n) + (b + i) + 1]
      BY <3>0 DEF Holds, Byte
    <3>3. (r - n) + (b + i) + 1 = ((r + g) - (k + g)) + i + 1 /\ i < k + g
      BY <1>1, <2>1
    <3>4. QED
      BY <3>1, <3>2, <3>3 DEF Byte
  <2>2. CASE i >= k /\ i < k + g
    <3>0. ~(i < k) /\ ~(i = k + g \/ i = k + g + 1)
      BY <2>2
    <3>1. buf[i] = w[r + i - k + 1]
      BY <2>0, <2>2, <3>0, Zenon DEF FilledWith
    <3>2. r + i - k + 1 = ((r + g) - (k + g)) + i + 1
      BY <1>1
    <3>3. QED
      BY <2>2, <3>1, <3>2 DEF Byte
  <2>3. CASE i >= k + g
    <3>1. ~(i < k) /\ ~(i >= k /\ i < k + g) /\ (i = k + g \/ i = k + g + 1)
      BY <2>3
    <3>2. buf[i] = 0
      BY <2>0, <3>1, Zenon DEF FilledWith
    <3>3. QED
      BY <2>3, <3>2 DEF Byte
  <2>4. QED
    BY <2>1, <2>2, <2>3
<1>3. QED
  BY <1>2 DEF Holds

\* The buffer before and after, for a token of which there are k bytes.
Filled(k, g) ==
    /\ yylex_at = "end" /\ g \in Nat /\ g = Fx!Got /\ Fx!number_to_move = k
    /\ yy_c_buf_p = k + 1 + yy_bp /\ yy_cp = yy_c_buf_p /\ yytext_ptr = yy_bp
    /\ yy_bp + k = yy_n_chars /\ yy_bp \in Nat
    /\ Begun(scanner, input, TokenStart, k)
    /\ g = 0 => yy_n_read = Len(input)
    /\ yy_n_read' = yy_n_read + g /\ yy_n_chars' = k + g /\ yy_n_read + g \in 0..Len(input)
    /\ k + g \in 0..(yy_n_read + g)
    /\ Sizes(yy_ch_buf', BufRoom(yy_ch_buf'), k + g) /\ BufRoom(yy_ch_buf') >= BufRoom(yy_ch_buf)
    /\ BufRoom(yy_ch_buf') = BufRoom(yy_ch_buf) \/ BufRoom(yy_ch_buf') <= 2 * (k + 1)
    /\ Holds(yy_ch_buf', input, yy_n_read + g, k + g)
    /\ TokenStart = yy_n_read - k + 1 /\ Reach(scanner, input, yy_n_read + g, k + g, 0, k)
    /\ yytext_ptr' = 0 /\ yy_bp' = 0 /\ scanner' = scanner /\ input' = input

LEMMA NextBuffer ==
    ASSUME Fx!ScannerAssumption, Running, Fx!yy_get_next_buffer
    PROVE  \E k, g \in Nat : Filled(k, g)
<1> DEFINE z == BufRoom(yy_ch_buf)
           x == scanner
           w == input
           r == yy_n_read
           n == yy_n_chars
           b == yy_bp
           c == yy_cp
           buf == Written(yy_ch_buf, c, yy_hold_char)
           pending == yy_buffer_status = "eof pending"
           move == yy_c_buf_p - yytext_ptr - 1
           size == IF pending THEN Fx!buf_size ELSE Fx!Grown(Fx!buf_size, move)
           g == Fx!Got
           Other(i) == IF i \in DOMAIN yy_ch_buf THEN buf[i] ELSE 0
<1>2. Typed /\ BufferBytes /\ Engine
  BY DEF Running
<1>3. /\ x \in Kinds /\ w \in Seq(ClassesOf(x)) /\ r \in 0..Len(w) /\ n \in 0..r
      /\ Sizes(yy_ch_buf, z, n) /\ z \in Nat \ {0} /\ Len(w) \in Nat
  BY <1>2, BufferFacts
<1>0. yylex_at = "end" /\ ~(yy_c_buf_p <= n)
  BY DEF Fx!yy_get_next_buffer, Fx!InText
<1>4. /\ HoldsBut(yy_ch_buf, yy_hold_char, c, w, r, n)
      /\ yytext_ptr = b /\ c = yy_c_buf_p /\ Ending(x, w, r, n, b, c)
  BY <1>0, <1>2 DEF BufferBytes, Engine
<1>5. b \in Nat /\ n < z
  <2>1. b \in 0..(z + 1)
    BY <1>2 DEF Typed
  <2>2. QED
    BY <1>3, <2>1 DEF Sizes
<1>6. PICK k \in Nat : NulAt(x, w, r, n, b, k) /\ c = b + k + 1
  BY <1>4 DEF Ending
<1>7. /\ b + k = n /\ move = k /\ c = k + 1 + b
      /\ (r - n) + b + 1 = r - k + 1 /\ Begun(x, w, r - k + 1, k)
  <2>1. b + k <= n /\ Begun(x, w, (r - n) + b + 1, k)
    BY <1>6 DEF NulAt, Reach
  <2>2. b + k = n /\ move = k /\ c = k + 1 + b /\ (r - n) + b + 1 = r - k + 1
    BY <1>0, <1>3, <1>4, <1>5, <1>6, <2>1
  <2>3. QED
    BY <2>1, <2>2
<1>8. Fx!number_to_move = k /\ Fx!buf_size = z /\ move = k
  BY <1>7, SizeIs DEF Fx!number_to_move
<1>9. /\ size \in Nat \ {0} /\ size >= z /\ size > k /\ (size = z \/ size <= 2 * (k + 1))
      /\ ~pending => size > k + 1
  <2>1. CASE pending
    <3>1. size = z
      BY <1>8, <2>1
    <3>2. z \in Nat \ {0} /\ k < z
      BY <1>3, <1>5, <1>7
    <3> HIDE DEF size, pending, z
    <3>3. QED
      BY <2>1, <3>1, <3>2
  <2>2. CASE ~pending
    <3>1. LET a == Fx!Grown(z, k) IN
           a \in Nat /\ a >= z /\ a > k + 1 /\ (a = z \/ a <= 2 * (k + 1))
      BY <1>3, GrownTo
    <3>2. size = Fx!Grown(z, k)
      BY <1>8, <2>2
    <3>3. z \in Nat \ {0}
      BY <1>3
    <3> HIDE DEF size, pending, z
    <3>4. QED
      BY <2>2, <3>1, <3>2, <3>3
  <2>3. QED
    BY <2>1, <2>2
<1>10. g \in Nat /\ k + g < size /\ r + g <= Len(w) /\ (g = 0 => r = Len(w))
  <2>1. CASE pending
    <3>1. g = 0 /\ r = Len(w)
      BY <1>2, <2>1 DEF Typed, Fx!Got
    <3>2. r + 0 = r /\ r \in Nat
      BY <1>3
    <3> HIDE DEF size, g, pending
    <3>3. QED
      BY <1>9, <3>1, <3>2
  <2>2. CASE ~pending
    <3> DEFINE room == Fx!num_to_read(size, k)
    <3>1. room \in Nat \ {0} /\ room <= size - k - 1
      <4>1. ReadAtMost \in Nat \ {0}
        BY DEF Fx!ScannerAssumption
      <4>2. size \in Nat /\ size > k + 1
        BY <1>9, <2>2
      <4> HIDE DEF size
      <4>3. QED
        BY <4>1, <4>2 DEF Fx!num_to_read, Fx!Smaller
    <3>2. g = Fx!YY_INPUT(room)
      BY <1>8, <2>2 DEF Fx!Got
    <3>5. r \in Nat /\ Len(w) \in Nat
      BY <1>3
    <3> HIDE DEF room, size, g, pending
    <3>3. LET a == Fx!YY_INPUT(room) IN
           a \in Nat /\ a <= room /\ r + a <= Len(w) /\ (a = 0 <=> r = Len(w))
      BY <1>3, <3>1, InputIs
    <3>4. QED
      BY <1>9, <3>1, <3>2, <3>3, <3>5
  <2>3. QED
    BY <2>1, <2>2
<1>11. /\ yy_ch_buf' = [i \in 0..(size + 1) |-> FilledWith(move, g, buf, yytext_ptr, w, r, Other(i), i)]
       /\ yy_n_chars' = move + g /\ yy_n_read' = r + g
       /\ yytext_ptr' = 0 /\ yy_bp' = 0 /\ scanner' = scanner /\ input' = input
  BY Zenon DEF Fx!yy_get_next_buffer, Fx!number_to_move, Fx!Restored, Written, FilledWith, Fx!NUL
<1>12. Holds(buf, w, r, n)
  <2>1. n \in Nat
    BY <1>3
  <2>2. QED
    BY <1>3, <1>4, <2>1, PutBack
<1>13. k \in Nat /\ k + g \in Nat /\ r \in Nat /\ n \in Nat
  <2> HIDE DEF g, size
  <2>1. k \in Nat /\ r \in Nat /\ n \in Nat
    BY <1>3
  <2>2. g \in Nat
    BY <1>10
  <2>3. QED
    BY <2>1, <2>2
<1>14. DOMAIN yy_ch_buf' = 0..(size + 1)
  <2> HIDE DEF g, size, move, buf, Other
  <2>1. QED
    BY <1>11
<1>15. Sizes(yy_ch_buf', size, k + g) /\ BufRoom(yy_ch_buf') = size
  <2> HIDE DEF g, size
  <2>1. size \in Nat
    BY <1>9
  <2>2. BufRoom(yy_ch_buf') = size
    BY <1>14, <2>1, RoomOf
  <2>3. QED
    BY <1>9, <1>10, <1>14, <2>2 DEF Sizes
<1>16. \A i \in 0..(k + g + 1) : \E v : yy_ch_buf'[i] = FilledWith(k, g, buf, b, w, r, v, i)
  <2> HIDE DEF g, size, buf, Other, move
  <2>1. \A i \in 0..(k + g + 1) : i \in 0..(size + 1)
    <3>1. size \in Nat /\ g \in Nat /\ k + g < size
      BY <1>9, <1>10
    <3>2. QED
      BY <3>1
  <2>2. \A i \in 0..(size + 1) :
            yy_ch_buf'[i] = FilledWith(move, g, buf, yytext_ptr, w, r, Other(i), i)
    BY <1>11
  <2>3. QED
    BY <1>4, <1>7, <2>1, <2>2
<1>17. Holds(yy_ch_buf', w, r + g, k + g)
  <2> HIDE DEF g, size, buf, Other, move
  <2>1. w \in Seq(ClassesOf(x)) /\ r \in 0..Len(w) /\ n \in 0..r /\ b + k = n /\ g \in Nat
        /\ r + g <= Len(w) /\ b \in Nat
    BY <1>3, <1>5, <1>7, <1>10
  <2>2. QED
    BY <1>12, <1>16, <2>1, FilledHolds
<1>18. Reach(x, w, r + g, k + g, 0, k)
  <2> HIDE DEF g
  <2>1. ((r + g) - (k + g)) + 0 + 1 = r - k + 1 /\ 0 + k <= k + g
    <3>1. g \in Nat
      BY <1>10
    <3>2. QED
      BY <1>13, <3>1
  <2>2. QED
    BY <1>7, <2>1 DEF Reach
<1>19. TokenStart = r - k + 1
  <2>1. TokenStart = (r - n) + b + 1
    BY <1>0 DEF TokenStart
  <2>2. QED
    BY <1>7, <2>1
<1> HIDE DEF g, size, move, buf, Other
<1>20. r + g \in 0..Len(w) /\ k + g \in 0..(r + g)
  BY <1>3, <1>5, <1>7, <1>10, <1>13
<1>21. Filled(k, g)
  BY <1>0, <1>4, <1>5, <1>7, <1>8, <1>9, <1>10, <1>11, <1>15, <1>17, <1>18, <1>19, <1>20
     DEF Filled, g
<1>22. QED
  BY <1>10, <1>21

\* What of the invariant follows from the new buffer alone.
LEMMA NewBuffer ==
    ASSUME Fx!ScannerAssumption, Typed, NEW k \in Nat, NEW g \in Nat, Filled(k, g)
    PROVE  /\ scanner \in Kinds /\ input \in Seq(ClassesOf(scanner)) /\ Len(input) \in Nat
           /\ scanner' = scanner /\ input' = input
           /\ yy_n_read' \in 0..Len(input) /\ yy_n_chars' \in 0..yy_n_read'
           /\ Sizes(yy_ch_buf', BufRoom(yy_ch_buf'), yy_n_chars')
           /\ BufRoom(yy_ch_buf') \in Nat \ {0} /\ k + g < BufRoom(yy_ch_buf')
           /\ BufRoom(yy_ch_buf') >= BufRoom(yy_ch_buf) /\ BufRoom(yy_ch_buf) \in Nat
           /\ TokenStart = (yy_n_read' - yy_n_chars') + 1
           /\ BufferFits
<1>1. /\ scanner \in Kinds /\ input \in Seq(ClassesOf(scanner)) /\ Len(input) \in Nat
      /\ BufRoom(yy_ch_buf) \in Nat \ {0} /\ yy_n_read \in 0..Len(input)
  BY BufferFacts
<1>2. /\ g \in Nat
      /\ Begun(scanner, input, TokenStart, k)
      /\ yy_n_read' = yy_n_read + g /\ yy_n_chars' = k + g /\ yy_n_read + g \in 0..Len(input)
      /\ k + g \in 0..(yy_n_read + g)
      /\ Sizes(yy_ch_buf', BufRoom(yy_ch_buf'), k + g) /\ BufRoom(yy_ch_buf') >= BufRoom(yy_ch_buf)
      /\ BufRoom(yy_ch_buf') = BufRoom(yy_ch_buf) \/ BufRoom(yy_ch_buf') <= 2 * (k + 1)
      /\ TokenStart = yy_n_read - k + 1
      /\ scanner' = scanner /\ input' = input
  BY DEF Filled
<1>3. BufRoom(yy_ch_buf') \in Nat \ {0} /\ k + g < BufRoom(yy_ch_buf')
  BY <1>2 DEF Sizes
<1>4. TokenStart = (yy_n_read' - yy_n_chars') + 1
  BY <1>1, <1>2
<1>5. BufferFits
  BY <1>2 DEF BufferFits
<1>6. QED
  BY <1>1, <1>2, <1>3, <1>4, <1>5

LEMMA ContinueRuns ==
    ASSUME Fx!ScannerAssumption, Running, Fx!ContinueScan
    PROVE  Running' /\ Moves
<1> DEFINE x == scanner
           t == Tables[scanner]
           w == input
           r == yy_n_read
<1>1. PICK k, g \in Nat : Filled(k, g)
  <2>1. Fx!yy_get_next_buffer
    BY DEF Fx!ContinueScan
  <2>2. QED
    BY <2>1, NextBuffer
<1>2. Typed
  BY DEF Running
<1>3. /\ x \in Kinds /\ w \in Seq(ClassesOf(x)) /\ Len(w) \in Nat
      /\ scanner' = scanner /\ input' = input
      /\ yy_n_read' \in 0..Len(w) /\ yy_n_chars' \in 0..yy_n_read'
      /\ Sizes(yy_ch_buf', BufRoom(yy_ch_buf'), yy_n_chars')
      /\ BufRoom(yy_ch_buf') \in Nat \ {0} /\ k + g < BufRoom(yy_ch_buf')
      /\ TokenStart = (yy_n_read' - yy_n_chars') + 1 /\ BufferFits
  BY <1>1, <1>2, NewBuffer
<1>4. /\ yy_c_buf_p = k + 1 + yy_bp /\ yy_cp = yy_c_buf_p /\ yytext_ptr = yy_bp /\ yy_bp \in Nat
      /\ yy_n_read' = r + g /\ yy_n_chars' = k + g
      /\ Holds(yy_ch_buf', w, r + g, k + g) /\ Reach(x, w, r + g, k + g, 0, k)
      /\ yytext_ptr' = 0 /\ yy_bp' = 0
  BY <1>1 DEF Filled
<1>5. Fx!Matched = k
  BY <1>4 DEF Fx!Matched
<1>6. /\ yy_buffer_status' = "normal" /\ yylex_at' = "match"
      /\ yy_c_buf_p' = k /\ yy_cp' = k /\ yy_hold_char' = yy_hold_char /\ yylex_out' = yylex_out
      /\ yy_current_state' = Fx!yy_get_previous_state(yy_ch_buf', 0, k).state
  BY <1>5, Zenon DEF Fx!ContinueScan, Fx!Resume
<1>7. yy_current_state' = StateAt(x, w, r + g, k + g, 0, k)
  <2>1. PICK buf : buf = yy_ch_buf'
    OBVIOUS
  <2>2. yy_current_state' = Fx!yy_get_previous_state(buf, 0, k).state
    BY <1>6, <2>1, Zenon
  <2>3. Holds(buf, w, r + g, k + g) /\ r + g \in 0..Len(w) /\ k + g \in 0..(r + g) /\ k = 0 + k
        /\ 0 \in Nat
    BY <1>3, <1>4, <2>1
  <2>4. Fx!yy_get_previous_state(buf, 0, k).state = StateAt(x, w, r + g, k + g, 0, k)
    BY <1>3, <1>4, <2>3, Again
  <2>5. QED
    BY <2>2, <2>4
<1>8. yy_current_state' \in DOMAIN t.accept
  <2>1. ((r + g) - (k + g)) + 0 + 1 \in Nat \ {0}
    BY <1>3, <1>4
  <2>2. Begun(x, w, ((r + g) - (k + g)) + 0 + 1, k)
    BY <1>4 DEF Reach
  <2>3. yy_current_state' = StateAfter(x, w[((r + g) - (k + g)) + 0 + 1], k)
    BY <1>7 DEF StateAt
  <2>4. QED
    BY <1>3, <2>1, <2>2, <2>3, TokenState
<1>9. Matching(x, w, r + g, k + g, 0, k, yy_current_state')
  <2>1. k = 0 + k
    OBVIOUS
  <2>2. QED
    BY <1>4, <1>7, <2>1 DEF Matching
<1>10. k \in 0..(BufRoom(yy_ch_buf') + 1) /\ 0 \in 0..(BufRoom(yy_ch_buf') + 1)
  BY <1>3
<1>11. Typed'
  BY <1>2, <1>3, <1>4, <1>6, <1>8, <1>10 DEF Typed
<1>12. BufferBytes' /\ Engine'
  BY <1>3, <1>4, <1>6, <1>9 DEF BufferBytes, Engine
<1>13. TokenStart' = TokenStart
  BY <1>3, <1>4, <1>6 DEF TokenStart
<1>14. QED
  BY <1>3, <1>6, <1>11, <1>12, <1>13 DEF Running, Moves, Stays

LEMMA LastRuns ==
    ASSUME Fx!ScannerAssumption, Running, Fx!LastMatch
    PROVE  Running' /\ Moves
<1> DEFINE x == scanner
           t == Tables[scanner]
           w == input
           r == yy_n_read
<1>1. PICK k, g \in Nat : Filled(k, g)
  <2>1. Fx!yy_get_next_buffer
    BY DEF Fx!LastMatch
  <2>2. QED
    BY <2>1, NextBuffer
<1>2. Typed
  BY DEF Running
<1>3. /\ x \in Kinds /\ w \in Seq(ClassesOf(x)) /\ Len(w) \in Nat
      /\ scanner' = scanner /\ input' = input
      /\ yy_n_read' \in 0..Len(w) /\ yy_n_chars' \in 0..yy_n_read'
      /\ Sizes(yy_ch_buf', BufRoom(yy_ch_buf'), yy_n_chars')
      /\ BufRoom(yy_ch_buf') \in Nat \ {0} /\ k + g < BufRoom(yy_ch_buf')
      /\ TokenStart = (yy_n_read' - yy_n_chars') + 1 /\ BufferFits
  BY <1>1, <1>2, NewBuffer
<1>4. /\ g = Fx!Got /\ Fx!number_to_move = k /\ (g = 0 => r = Len(w))
      /\ yy_n_read' = r + g /\ yy_n_chars' = k + g /\ Begun(x, w, TokenStart, k)
      /\ Holds(yy_ch_buf', w, r + g, k + g) /\ Reach(x, w, r + g, k + g, 0, k)
      /\ yytext_ptr' = 0 /\ yy_bp' = 0 /\ TokenStart = r - k + 1
  BY <1>1 DEF Filled
<1>5. g = 0 /\ k # 0 /\ r = Len(w) /\ k + g = k /\ r + g = r
  <2>1. Fx!Got = 0 /\ Fx!number_to_move # 0
    BY DEF Fx!LastMatch
  <2>2. g = 0 /\ k # 0 /\ r = Len(w)
    BY <1>4, <2>1
  <2>3. QED
    BY <1>3, <2>2
<1>6. /\ yy_buffer_status' = "eof pending" /\ yylex_at' = "find"
      /\ yy_c_buf_p' = k /\ yy_cp' = k /\ yy_hold_char' = yy_hold_char /\ yylex_out' = yylex_out
      /\ yy_current_state' = Fx!yy_get_previous_state(yy_ch_buf', 0, k).state
  <2>1. yy_n_chars' = k
    BY <1>4, <1>5
  <2>2. QED
    BY <2>1, Zenon DEF Fx!LastMatch, Fx!Resume, Fx!goto_last
<1>7. yy_current_state' = StateAt(x, w, r, k, 0, k)
  <2>1. PICK buf : buf = yy_ch_buf'
    OBVIOUS
  <2>2. yy_current_state' = Fx!yy_get_previous_state(buf, 0, k).state
    BY <1>6, <2>1, Zenon
  <2>3. Holds(buf, w, r, k) /\ Reach(x, w, r, k, 0, k)
    BY <1>4, <1>5, <2>1
  <2>4. r \in 0..Len(w) /\ k \in 0..r /\ k = 0 + k /\ 0 \in Nat
    BY <1>3, <1>4, <1>5
  <2>5. Fx!yy_get_previous_state(buf, 0, k).state = StateAt(x, w, r, k, 0, k)
    BY <1>3, <2>3, <2>4, Again
  <2>6. QED
    BY <2>2, <2>5
<1>8. /\ r \in Nat /\ k <= r /\ (r - k) + 0 + 1 = TokenStart
      /\ TokenStart \in Nat \ {0} /\ TokenStart + k > Len(w)
  BY <1>3, <1>4, <1>5
<1>9. yy_current_state' \in DOMAIN t.accept
  <2>1. yy_current_state' = StateAfter(x, w[TokenStart], k)
    BY <1>7, <1>8 DEF StateAt
  <2>2. QED
    BY <1>3, <1>4, <1>8, <2>1, TokenState
<1>10. Finding(x, w, r, k, 0, k, yy_current_state', yy_last_accepting')
  <2>1. ~Begun(x, w, TokenStart, k + 1)
    BY <1>3, <1>4, <1>8, BegunNext
  <2>2. 0 + k <= k /\ k = 0 + k
    OBVIOUS
  <2>3. Ready(x, w, r, k, 0, k)
    BY <1>4, <1>5, <1>8, <2>1, <2>2 DEF Ready, WholeToken
  <2>4. QED
    BY <1>7, <2>2, <2>3 DEF Finding
<1>11. k \in 0..(BufRoom(yy_ch_buf') + 1) /\ 0 \in 0..(BufRoom(yy_ch_buf') + 1)
  BY <1>3
<1>12. Typed'
  BY <1>2, <1>3, <1>4, <1>5, <1>6, <1>9, <1>11 DEF Typed
<1>13. BufferBytes' /\ Engine'
  BY <1>3, <1>4, <1>5, <1>6, <1>10 DEF BufferBytes, Engine
<1>14. TokenStart' = TokenStart
  <2>1. TokenStart' = (yy_n_read' - yy_n_chars') + 0 + 1
    BY <1>4, <1>6 DEF TokenStart
  <2>2. yy_n_read' \in Nat /\ yy_n_chars' \in Nat
    BY <1>3
  <2>3. QED
    BY <1>3, <2>1, <2>2
<1>15. QED
  BY <1>3, <1>6, <1>12, <1>13, <1>14 DEF Running, Moves, Stays

LEMMA EndRuns ==
    ASSUME Fx!ScannerAssumption, Running, Fx!EndOfFile
    PROVE  Running' /\ Moves
<1> DEFINE x == scanner
           w == input
           r == yy_n_read
<1>1. PICK k, g \in Nat : Filled(k, g)
  <2>1. Fx!yy_get_next_buffer
    BY DEF Fx!EndOfFile
  <2>2. QED
    BY <2>1, NextBuffer
<1>2. Typed
  BY DEF Running
<1>3. /\ x \in Kinds /\ w \in Seq(ClassesOf(x)) /\ Len(w) \in Nat
      /\ scanner' = scanner /\ input' = input
      /\ yy_n_read' \in 0..Len(w) /\ yy_n_chars' \in 0..yy_n_read'
      /\ Sizes(yy_ch_buf', BufRoom(yy_ch_buf'), yy_n_chars')
      /\ BufRoom(yy_ch_buf') \in Nat \ {0}
      /\ BufRoom(yy_ch_buf') >= BufRoom(yy_ch_buf) /\ BufRoom(yy_ch_buf) \in Nat
      /\ TokenStart = (yy_n_read' - yy_n_chars') + 1 /\ BufferFits
  BY <1>1, <1>2, NewBuffer
<1>4. /\ g = Fx!Got /\ Fx!number_to_move = k /\ (g = 0 => r = Len(w))
      /\ yy_n_read' = r + g /\ yy_n_chars' = k + g
      /\ Holds(yy_ch_buf', w, r + g, k + g)
      /\ yytext_ptr' = 0 /\ yy_bp' = 0 /\ TokenStart = r - k + 1
  BY <1>1 DEF Filled
<1>5. g = 0 /\ k = 0 /\ r = Len(w) /\ k + g = 0 /\ r + g = r /\ TokenStart = Len(w) + 1
  <2>1. Fx!Got = 0 /\ Fx!number_to_move = 0
    BY DEF Fx!EndOfFile
  <2>2. g = 0 /\ k = 0 /\ r = Len(w)
    BY <1>4, <2>1
  <2>3. QED
    BY <1>3, <1>4, <2>2
<1>6. /\ yy_buffer_status' = "new" /\ yylex_at' = "call" /\ yy_c_buf_p' = 0 /\ yy_hold_char' = 0
      /\ yylex_out' = Append(yylex_out, Fx!EOF)
      /\ yy_cp' = yy_cp /\ yy_current_state' = yy_current_state
  BY TIs DEF Fx!EndOfFile
<1>7. HoldsBut(yy_ch_buf', 0, 0, w, r, 0)
  <2>1. Holds(yy_ch_buf', w, r, 0)
    BY <1>4, <1>5
  <2>2. Byte(w, r, 0, 0) = 0
    BY DEF Byte
  <2>3. QED
    BY <2>1, <2>2 DEF Holds, HoldsBut
<1>8. {0, yy_cp} \subseteq 0..(BufRoom(yy_ch_buf') + 1)
  <2>1. yy_cp \in 0..(BufRoom(yy_ch_buf) + 1)
    BY <1>2 DEF Typed
  <2>2. QED
    BY <1>3, <2>1
<1>9. Typed'
  BY <1>2, <1>3, <1>4, <1>6, <1>8 DEF Typed
<1>10. BufferBytes' /\ Engine'
  BY <1>3, <1>4, <1>5, <1>6, <1>7 DEF BufferBytes, Engine
<1>11. TokenStart' = TokenStart
  BY <1>3, <1>4, <1>5, <1>6 DEF TokenStart
<1>12. QED
  BY <1>3, <1>5, <1>6, <1>9, <1>10, <1>11 DEF Running, Moves, Stops

\* The engine starts, and every step keeps to it.
LEMMA RunningInit ==
    ASSUME Fx!ScannerAssumption, Fx!Init
    PROVE  Running /\ TokenStart = 1 /\ yylex_out = << >> /\ BufRoom(yy_ch_buf) \in YY_BUF_SIZES
<1> DEFINE x == scanner
           w == input
<1>1. PICK size \in YY_BUF_SIZES : yy_ch_buf = [i \in 0..(size + 1) |-> 0]
  BY TIs DEF Fx!Init
<1>2. /\ scanner \in Fx!Scanners
      /\ input \in Fx!Tuples(ByteClasses[scanner], MaxFile[scanner])
      /\ yy_n_read = 0 /\ yy_n_chars = 0 /\ yy_buffer_status = "new"
      /\ yytext_ptr = 0 /\ yy_c_buf_p = 0 /\ yy_hold_char = 0 /\ yy_cp = 0 /\ yy_bp = 0
      /\ yy_current_state = 1 /\ yylex_at = "call" /\ yylex_out = << >>
  BY TIs DEF Fx!Init
<1>3. x \in Kinds
  BY <1>2 DEF Fx!ScannerAssumption, Kinds
<1>4. w \in Seq(ByteClasses[x]) /\ Len(w) \in Nat
  <2>1. PICK m \in 0..MaxFile[scanner] : input \in [1..m -> ByteClasses[scanner]]
    BY <1>2 DEF Fx!Tuples
  <2>2. MaxFile[scanner] \in Nat
    BY <1>2 DEF Fx!ScannerAssumption
  <2>3. m \in Nat
    BY <2>1, <2>2
  <2>4. QED
    BY <2>1, <2>3
<1>5. size \in Nat \ {0}
  BY <1>1 DEF Fx!ScannerAssumption
<1>6. DOMAIN yy_ch_buf = 0..(size + 1) /\ BufRoom(yy_ch_buf) = size
  <2>1. DOMAIN yy_ch_buf = 0..(size + 1)
    BY <1>1
  <2>2. QED
    BY <1>5, <2>1, RoomOf
<1>7. HoldsBut(yy_ch_buf, 0, 0, w, 0, 0)
  <2>1. \A i \in 0..1 : yy_ch_buf[i] = 0
    BY <1>1, <1>5
  <2>2. \A i \in Nat : Byte(w, 0, 0, i) = 0
    BY DEF Byte
  <2>3. QED
    BY <2>1, <2>2 DEF HoldsBut
<1>8. Sizes(yy_ch_buf, size, 0)
  BY <1>5, <1>6 DEF Sizes
<1>9. 1 \in DOMAIN Tables[x].accept
  BY <1>3, StartState
<1>10. Typed
  <2>1. 0 \in 0..(size + 1) /\ 0 \in 0..Len(w) /\ 0 \in 0..0
    BY <1>4, <1>5
  <2>2. QED
    BY <1>2, <1>3, <1>4, <1>6, <1>8, <1>9, <2>1 DEF Typed
<1>11. BufferBytes /\ Engine
  BY <1>2, <1>7 DEF BufferBytes, Engine
<1>12. TokenStart = 1
  BY <1>2 DEF TokenStart
<1>13. QED
  BY <1>1, <1>2, <1>6, <1>10, <1>11, <1>12 DEF Running

LEMMA RunningStep ==
    ASSUME Fx!ScannerAssumption, Running, [Fx!Next]_(Fx!vars)
    PROVE  Running' /\ Moves
<1>1. CASE Fx!Call
  BY <1>1, CallRuns
<1>2. CASE Fx!Match
  BY <1>2, MatchRuns
<1>3. CASE Fx!Find
  BY <1>3, FindRuns
<1>4. CASE Fx!Rule
  BY <1>4, RuleRuns
<1>5. CASE Fx!NulInText
  BY <1>5, NulRuns
<1>6. CASE Fx!ContinueScan
  BY <1>6, ContinueRuns
<1>7. CASE Fx!LastMatch
  BY <1>7, LastRuns
<1>8. CASE Fx!EndOfFile
  BY <1>8, EndRuns
<1>9. CASE UNCHANGED Fx!vars
  <2>1. /\ scanner' = scanner /\ input' = input /\ yy_n_read' = yy_n_read
        /\ yy_ch_buf' = yy_ch_buf /\ yy_n_chars' = yy_n_chars
        /\ yy_buffer_status' = yy_buffer_status /\ yytext_ptr' = yytext_ptr
        /\ yy_c_buf_p' = yy_c_buf_p /\ yy_hold_char' = yy_hold_char
        /\ yy_cp' = yy_cp /\ yy_bp' = yy_bp /\ yy_current_state' = yy_current_state
        /\ yy_last_accepting' = yy_last_accepting /\ yylex_at' = yylex_at
        /\ yylex_out' = yylex_out
    BY <1>9 DEF Fx!vars, Fx!buffer
  <2>2. Typed' /\ BufferBytes' /\ Engine'
    BY <2>1 DEF Running, Typed, BufferBytes, Engine
  <2>3. TokenStart' = TokenStart /\ BufferFits
    BY <2>1 DEF TokenStart, BufferFits
  <2>4. QED
    BY <2>1, <2>2, <2>3 DEF Running, Moves, Stays
<1>10. QED
  BY <1>1, <1>2, <1>3, <1>4, <1>5, <1>6, <1>7, <1>8, <1>9 DEF Fx!Next

-----------------------------------------------------------------------------
\* The texts of the tokens, one behind the other.
IsCat(f, ts) == f = [i \in 0..Len(ts) |-> IF i = 0 THEN << >> ELSE f[i - 1] \o ts[i].text]

LEMMA CatIs == \A ts : Fx!TextOf(ts) = (CHOOSE f : IsCat(f, ts))[Len(ts)]
  BY DEF Fx!TextOf, IsCat

LEMMA CatExists ==
    ASSUME NEW x, NEW ts \in Seq(Outs(x))
    PROVE  \E f \in [0..Len(ts) -> Seq(ClassesOf(x))] : IsCat(f, ts)
<1> DEFINE n == Len(ts)
           D == 0..n
           V == Seq(ClassesOf(x))
           Stop == {0}
           base == [i \in D |-> << >>]
           op == [i \in D |-> [y \in V |-> IF i = 0 THEN y ELSE y \o ts[i].text]]
           next == [i \in D |-> IF i = 0 THEN 0 ELSE i - 1]
           rank == [i \in D |-> i]
<1>1. n \in Nat
  BY LenNat
<1>2. \A i \in 1..n : ts[i].text \in V
  <2>1. \A i \in 1..n : ts[i] \in Outs(x)
    OBVIOUS
  <2>2. QED
    BY <2>1 DEF Outs
<1>3. base \in [D -> V] /\ next \in [D -> D] /\ rank \in [D -> Nat]
  BY <1>1
<1>4. op \in [D -> [V -> V]]
  <2>1. ASSUME NEW i \in D, NEW y \in V
        PROVE  (IF i = 0 THEN y ELSE y \o ts[i].text) \in V
    <3>1. CASE i = 0
      BY <3>1
    <3>2. CASE i # 0
      <4>1. ts[i].text \in V
        BY <1>1, <1>2, <3>2
      <4>2. QED
        BY <3>2, <4>1
    <3>3. QED
      BY <3>1, <3>2
  <2>2. QED
    BY <2>1
<1>5. \A d \in D : rank[d] <= n /\ (d \notin Stop => rank[next[d]] < rank[d])
  BY <1>1
<1>6. PICK f \in [D -> V] : Solves(f, D, Stop, base, op, next)
  <2> HIDE DEF D, V, Stop, base, op, next, rank
  <2>1. QED
    BY <1>1, <1>3, <1>4, <1>5, SolutionExists
<1>7. ASSUME NEW i \in D
      PROVE  (IF i \in Stop THEN base[i] ELSE op[i][f[next[i]]]) =
             IF i = 0 THEN << >> ELSE f[i - 1] \o ts[i].text
  <2>1. CASE i = 0
    BY <2>1
  <2>2. CASE i # 0
    <3>1. next[i] = i - 1 /\ i - 1 \in D
      BY <1>1, <2>2
    <3>2. f[i - 1] \in V
      BY <3>1
    <3>3. op[i][f[i - 1]] = f[i - 1] \o ts[i].text
      BY <2>2, <3>2
    <3>4. QED
      BY <2>2, <3>1, <3>3
  <2>3. QED
    BY <2>1, <2>2
<1>8. f = [i \in D |-> IF i = 0 THEN << >> ELSE f[i - 1] \o ts[i].text]
  <2>1. f = [i \in D |-> IF i \in Stop THEN base[i] ELSE op[i][f[next[i]]]]
    BY <1>6 DEF Solves
  <2> HIDE DEF Stop, base, op, next, D
  <2>2. QED
    BY <1>7, <2>1
<1>9. QED
  BY <1>8 DEF IsCat

LEMMA CatAppend ==
    ASSUME NEW x, NEW ts \in Seq(Outs(x)), NEW e \in Outs(x)
    PROVE  Fx!TextOf(Append(ts, e)) = Fx!TextOf(ts) \o e.text
<1> DEFINE n == Len(ts)
           us == Append(ts, e)
           f == CHOOSE f : IsCat(f, ts)
           g == CHOOSE g : IsCat(g, us)
<1>1. n \in Nat
  BY LenNat
<1>2. us \in Seq(Outs(x)) /\ Len(us) = n + 1 /\ us[n + 1] = e /\ \A i \in 1..n : us[i] = ts[i]
  OBVIOUS
<1>3. IsCat(f, ts)
  BY CatExists
<1>4. IsCat(g, us)
  <2> HIDE DEF us
  <2>1. \E h : IsCat(h, us)
    BY <1>2, CatExists
  <2>2. QED
    BY <2>1
<1> HIDE DEF f, g, us
<1>5. \A i \in 0..n : f[i] = IF i = 0 THEN << >> ELSE f[i - 1] \o ts[i].text
  BY <1>3 DEF IsCat
<1>6. \A i \in 0..(n + 1) : g[i] = IF i = 0 THEN << >> ELSE g[i - 1] \o us[i].text
  BY <1>2, <1>4 DEF IsCat
<1> DEFINE S == {i \in Nat : i <= n => f[i] = g[i]}
<1>7. 0 \in S
  BY <1>1, <1>5, <1>6
<1>8. ASSUME NEW i \in Nat, i \in S PROVE i + 1 \in S
  <2>1. SUFFICES ASSUME i + 1 <= n PROVE f[i + 1] = g[i + 1]
    OBVIOUS
  <2>2. i + 1 \in 0..n /\ i + 1 \in 0..(n + 1) /\ i + 1 # 0 /\ (i + 1) - 1 = i /\ i + 1 \in 1..n
    BY <1>1, <2>1
  <2>3. f[i] = g[i]
    BY <1>8, <2>1
  <2>4. us[i + 1] = ts[i + 1]
    BY <1>2, <2>2
  <2>5. f[i + 1] = f[i] \o ts[i + 1].text
    BY <1>5, <2>2
  <2>6. g[i + 1] = g[i] \o us[i + 1].text
    BY <1>6, <2>2
  <2>7. QED
    BY <2>3, <2>4, <2>5, <2>6
<1>9. f[n] = g[n]
  <2> HIDE DEF S
  <2>1. n \in S
    BY <1>1, <1>7, <1>8, UpFrom0
  <2>2. QED
    BY <2>1 DEF S
<1>10. g[n + 1] = g[n] \o e.text
  <2>1. n + 1 \in 0..(n + 1) /\ n + 1 # 0 /\ (n + 1) - 1 = n
    BY <1>1
  <2>2. g[n + 1] = g[n] \o us[n + 1].text
    BY <1>6, <2>1
  <2>3. QED
    BY <1>2, <2>2
<1>11. Fx!TextOf(ts) = f[n] /\ Fx!TextOf(us) = g[n + 1]
  BY <1>2, CatIs DEF f, g
<1>12. QED
  BY <1>9, <1>10, <1>11 DEF us

LEMMA CatNone == Fx!TextOf(<< >>) = << >>
<1> DEFINE f == CHOOSE f : IsCat(f, << >>)
<1>1. << >> \in Seq(Outs("calc"))
  OBVIOUS
<1>2. IsCat(f, << >>)
  BY <1>1, CatExists
<1> HIDE DEF f
<1>3. f[0] = << >>
  BY <1>2 DEF IsCat
<1>4. QED
  BY <1>3, CatIs DEF f

-----------------------------------------------------------------------------
(***************************************************************************)
(* The tokens so far, o, when the next one begins at p.                    *)
(***************************************************************************)
Given(x, w, o, p) ==
    \E a \in Seq(Outs(x)) :
        /\ Len(a) <= Len(o) /\ Lexed(x, w)[1] = a \o Lexed(x, w)[p]
        /\ \A i \in 1..Len(a) : o[i] = a[i] /\ Len(a[i].text) # 0
        /\ \A i \in (Len(a) + 1)..Len(o) : o[i] = Fx!EOF
        /\ Len(a) < Len(o) => p = Len(w) + 1

Consumed(w, o, p) == Fx!TextOf(o) = SubSeq(w, 1, p - 1)

\* The size of the buffer is one that it may have, or there is a long token.
Roomy(x, w, z) ==
    \/ z \in YY_BUF_SIZES \/ z <= 2
    \/ \E j \in 1..Len(Lexed(x, w)[1]) : z <= 2 * (Len(Lexed(x, w)[1][j].text) + 1)

LEMMA EofIs ==
    ASSUME NEW x
    PROVE  Fx!EOF \in Outs(x) /\ Fx!EOF.text = << >> /\ Len(Fx!EOF.text) = 0
  BY DEF Fx!EOF, Outs

LEMMA GivenNext ==
    ASSUME NEW x \in Kinds, NEW w \in Seq(ClassesOf(x)), NEW p \in Nat \ {0}, NEW k \in Nat,
           WholeToken(x, w, p, k), NEW o \in Seq(Outs(x)), Given(x, w, o, p)
    PROVE  Given(x, w, Append(o, TokenOf(x, w, p)), p + k)
<1> DEFINE e == TokenOf(x, w, p)
           v == Append(o, e)
           f == Lexed(x, w)
<1>1. PICK a \in Seq(Outs(x)) :
        /\ Len(a) <= Len(o) /\ f[1] = a \o f[p]
        /\ \A i \in 1..Len(a) : o[i] = a[i] /\ Len(a[i].text) # 0
        /\ \A i \in (Len(a) + 1)..Len(o) : o[i] = Fx!EOF
        /\ Len(a) < Len(o) => p = Len(w) + 1
  BY DEF Given
<1>2. Len(w) \in Nat /\ Len(a) \in Nat /\ Len(o) \in Nat
  BY LenNat
<1>3. p \in 1..Len(w) /\ k # 0 /\ p + k - 1 <= Len(w)
  BY WholeBytes DEF WholeToken
<1>4. e \in Outs(x) /\ Len(e.text) = k
  BY TokenAt
<1>5. Len(a) = Len(o)
  BY <1>1, <1>2, <1>3
<1>6. f[p] = <<e>> \o f[p + k]
  BY <1>3, LexedIs
<1>7. f[p + k] \in Seq(Outs(x))
  <2>1. p + k \in 1..(Len(w) + 1)
    BY <1>2, <1>3
  <2>2. QED
    BY <2>1, LexedIs
<1> HIDE DEF e, f
<1> DEFINE c == Append(a, e)
<1>8. c \in Seq(Outs(x)) /\ Len(c) = Len(a) + 1 /\ Len(v) = Len(o) + 1
      /\ c[Len(a) + 1] = e /\ v[Len(o) + 1] = e
      /\ (\A i \in 1..Len(a) : c[i] = a[i]) /\ (\A i \in 1..Len(o) : v[i] = o[i])
  BY <1>4
<1>9. f[1] = c \o f[p + k]
  <2> DEFINE y == f[p + k]
  <2>1. c = a \o <<e>> /\ <<e>> \in Seq(Outs(x))
    BY <1>4
  <2>2. y \in Seq(Outs(x)) /\ f[1] = a \o (<<e>> \o y)
    BY <1>1, <1>6, <1>7
  <2> HIDE DEF y
  <2>3. (a \o <<e>>) \o y = a \o (<<e>> \o y)
    BY <2>1, <2>2, ConcatThree
  <2>4. f[1] = c \o y
    BY <2>1, <2>2, <2>3, Zenon
  <2>5. QED
    BY <2>4 DEF y
<1> HIDE DEF c, v
<1>10. \A i \in 1..Len(c) : v[i] = c[i] /\ Len(c[i].text) # 0
  <2>1. ASSUME NEW i \in 1..Len(c) PROVE v[i] = c[i] /\ Len(c[i].text) # 0
    <3>1. CASE i = Len(a) + 1
      BY <1>3, <1>4, <1>5, <1>8, <3>1
    <3>2. CASE i # Len(a) + 1
      <4>1. i \in 1..Len(a) /\ i \in 1..Len(o)
        BY <1>2, <1>5, <1>8, <3>2
      <4>2. QED
        BY <1>1, <1>8, <4>1
    <3>3. QED
      BY <3>1, <3>2
  <2>2. QED
    BY <2>1
<1>11. /\ Len(c) <= Len(v) /\ ~(Len(c) < Len(v))
       /\ \A i \in (Len(c) + 1)..Len(v) : v[i] = Fx!EOF
  <2>1. Len(c) = Len(v) /\ Len(v) \in Nat /\ (Len(c) + 1)..Len(v) = {}
    BY <1>2, <1>5, <1>8
  <2>2. QED
    BY <2>1
<1>12. Given(x, w, v, p + k)
  BY <1>8, <1>9, <1>10, <1>11, Zenon DEF Given, f
<1>13. QED
  BY <1>12 DEF v, e

LEMMA GivenEof ==
    ASSUME NEW x \in Kinds, NEW w \in Seq(ClassesOf(x)), NEW o \in Seq(Outs(x)),
           NEW p, p = Len(w) + 1, Given(x, w, o, p)
    PROVE  Given(x, w, Append(o, Fx!EOF), p)
<1> DEFINE v == Append(o, Fx!EOF)
           f == Lexed(x, w)
<1>1. PICK a \in Seq(Outs(x)) :
        /\ Len(a) <= Len(o) /\ f[1] = a \o f[p]
        /\ \A i \in 1..Len(a) : o[i] = a[i] /\ Len(a[i].text) # 0
        /\ \A i \in (Len(a) + 1)..Len(o) : o[i] = Fx!EOF
        /\ Len(a) < Len(o) => p = Len(w) + 1
  BY DEF Given
<1>2. Len(a) \in Nat /\ Len(o) \in Nat
  BY LenNat
<1>3. /\ Len(v) = Len(o) + 1 /\ v[Len(o) + 1] = Fx!EOF /\ \A i \in 1..Len(o) : v[i] = o[i]
  BY EofIs
<1> HIDE DEF v
<1>4. \A i \in 1..Len(a) : v[i] = a[i] /\ Len(a[i].text) # 0
  BY <1>1, <1>2, <1>3
<1>5. \A i \in (Len(a) + 1)..Len(v) : v[i] = Fx!EOF
  <2>1. \A i \in (Len(a) + 1)..Len(v) : i = Len(o) + 1 \/ (i \in (Len(a) + 1)..Len(o) /\ i \in 1..Len(o))
    BY <1>2, <1>3
  <2>2. QED
    BY <1>1, <1>3, <2>1
<1>6. Len(a) <= Len(v)
  BY <1>1, <1>2, <1>3
<1>7. Given(x, w, v, p)
  BY <1>1, <1>4, <1>5, <1>6 DEF Given
<1>8. QED
  BY <1>7 DEF v

\* Two neighbouring pieces are one.
LEMMA CutJoin ==
    ASSUME NEW X, NEW w \in Seq(X), NEW p \in Nat \ {0}, NEW k \in Nat, p + k - 1 <= Len(w)
    PROVE  SubSeq(w, 1, p - 1) \o SubSeq(w, p, p + k - 1) = SubSeq(w, 1, (p + k) - 1)
<1> DEFINE u == SubSeq(w, 1, p - 1)
           v == SubSeq(w, p, p + k - 1)
           s == SubSeq(w, 1, (p + k) - 1)
<1>0. Len(w) \in Nat /\ p - 1 <= Len(w)
  BY LenNat
<1>1. /\ u \in Seq(X) /\ Len(u) = p - 1 /\ u = [i \in 1..(p - 1) |-> w[1 + i - 1]]
  <2>1. 1 + (p - 1) - 1 = p - 1 /\ p - 1 \in Nat /\ 1 + (p - 1) - 1 <= Len(w) /\ 1 \in Nat \ {0}
    BY <1>0
  <2>2. QED
    BY <2>1, SubSeqIs
<1>2. /\ v \in Seq(X) /\ Len(v) = k /\ v = [i \in 1..k |-> w[p + i - 1]]
  BY <1>0, SubSeqIs
<1>3. /\ s \in Seq(X) /\ Len(s) = p + k - 1 /\ s = [i \in 1..(p + k - 1) |-> w[1 + i - 1]]
  <2>1. 1 + (p + k - 1) - 1 = (p + k) - 1 /\ p + k - 1 \in Nat /\ 1 + (p + k - 1) - 1 <= Len(w)
        /\ 1 \in Nat \ {0}
    BY <1>0
  <2>2. QED
    BY <2>1, SubSeqIs
<1> HIDE DEF u, v, s
<1>4. /\ u \o v \in Seq(X) /\ Len(u \o v) = p + k - 1
      /\ \A i \in 1..(p - 1) : (u \o v)[i] = u[i]
      /\ \A i \in 1..k : (u \o v)[(p - 1) + i] = v[i]
  <2>1. /\ u \o v \in Seq(X) /\ Len(u \o v) = Len(u) + Len(v)
        /\ \A i \in 1..Len(u) : (u \o v)[i] = u[i]
        /\ \A i \in 1..Len(v) : (u \o v)[Len(u) + i] = v[i]
    BY <1>1, <1>2, Concat
  <2>2. Len(u) = p - 1 /\ Len(v) = k
    BY <1>1, <1>2
  <2>3. QED
    BY <2>1, <2>2
<1>5. ASSUME NEW i \in 1..(p + k - 1) PROVE (u \o v)[i] = s[i]
  <2>1. CASE i <= p - 1
    BY <1>1, <1>3, <1>4, <2>1
  <2>2. CASE ~(i <= p - 1)
    <3>1. i - (p - 1) \in 1..k /\ (p - 1) + (i - (p - 1)) = i /\ p + (i - (p - 1)) - 1 = i /\ 1 + i - 1 = i
      BY <2>2
    <3>2. (u \o v)[i] = v[i - (p - 1)]
      BY <1>4, <3>1
    <3>3. v[i - (p - 1)] = w[i]
      BY <1>2, <3>1
    <3>4. s[i] = w[i]
      BY <1>3, <3>1
    <3>5. QED
      BY <3>2, <3>3, <3>4
  <2>3. QED
    BY <2>1, <2>2
<1>6. Len(u \o v) = Len(s) /\ \A i \in 1..Len(u \o v) : (u \o v)[i] = s[i]
  BY <1>3, <1>4, <1>5
<1>7. QED
  <2>1. u \o v \in Seq(X) /\ s \in Seq(X)
    BY <1>3, <1>4
  <2> HIDE DEF u, v, s
  <2>2. PICK a \in Seq(X) : a = u \o v
    BY <2>1
  <2>3. PICK c \in Seq(X) : c = s
    BY <2>1
  <2>4. Len(a) = Len(c) /\ \A i \in 1..Len(a) : a[i] = c[i]
    BY <1>6, <2>2, <2>3
  <2>5. a = c
    BY <2>4, SameSeq
  <2>6. QED
    BY <2>2, <2>3, <2>5 DEF u, v, s

LEMMA ConsumedNext ==
    ASSUME NEW x \in Kinds, NEW w \in Seq(ClassesOf(x)), NEW p \in Nat \ {0}, NEW k \in Nat,
           WholeToken(x, w, p, k), NEW o \in Seq(Outs(x)), Consumed(w, o, p)
    PROVE  Consumed(w, Append(o, TokenOf(x, w, p)), p + k)
<1> DEFINE e == TokenOf(x, w, p)
           X == ClassesOf(x)
           u == SubSeq(w, 1, p - 1)
           v == SubSeq(w, p, p + k - 1)
           s == SubSeq(w, 1, (p + k) - 1)
<1>1. Len(w) \in Nat /\ p \in 1..Len(w) /\ p + k - 1 <= Len(w)
  BY LenNat, WholeBytes
<1>2. e \in Outs(x) /\ e.text = v
  <2>1. e = [rule |-> Tables[x].accept[StateAfter(x, w[p], k)], text |-> SubSeq(w, p, p + k - 1)]
        /\ e \in Outs(x)
    BY TokenAt
  <2> HIDE DEF e
  <2>2. QED
    BY <2>1
<1>3. Fx!TextOf(Append(o, e)) = u \o v
  BY <1>2, CatAppend DEF Consumed
<1>4. u \o v = s
  BY <1>1, CutJoin
<1>5. QED
  BY <1>3, <1>4 DEF Consumed

LEMMA ConsumedEof ==
    ASSUME NEW x, NEW w, NEW o \in Seq(Outs(x)), NEW p, Consumed(w, o, p),
           NEW X, SubSeq(w, 1, p - 1) \in Seq(X)
    PROVE  Consumed(w, Append(o, Fx!EOF), p)
<1>1. Fx!TextOf(Append(o, Fx!EOF)) = Fx!TextOf(o) \o << >>
  BY EofIs, CatAppend
<1>2. Fx!TextOf(o) \in Seq(X)
  BY DEF Consumed
<1>3. QED
  BY <1>1, <1>2 DEF Consumed

LEMMA RoomyNext ==
    ASSUME NEW x \in Kinds, NEW w \in Seq(ClassesOf(x)), NEW p \in 1..(Len(w) + 1), NEW k \in Nat,
           Begun(x, w, p, k), NEW o \in Seq(Outs(x)), Given(x, w, o, p),
           NEW z \in Nat, z <= 2 * (k + 1)
    PROVE  Roomy(x, w, z)
<1> DEFINE f == Lexed(x, w)
<1>1. Len(w) \in Nat
  BY LenNat
<1>2. CASE k = 0
  BY <1>2 DEF Roomy
<1>3. CASE k # 0
  <2>1. p \in 1..Len(w)
    BY <1>1, <1>3, BegunNext
  <2>2. PICK n \in 1..(Len(w) - p + 1) : WholeToken(x, w, p, n)
    BY <2>1, SomeToken
  <2>3. n \in Nat
    OBVIOUS
  <2>4. k <= n
    <3>1. SUFFICES ASSUME ~(k <= n) PROVE FALSE
      OBVIOUS
    <3>2. n + 1 \in 0..k /\ p \in Nat \ {0}
      BY <2>1, <2>3, <3>1
    <3>3. Begun(x, w, p, n + 1)
      BY <3>2, BegunShorter
    <3>4. QED
      BY <2>2, <3>3 DEF WholeToken
  <2>5. PICK a \in Seq(Outs(x)) : f[1] = a \o f[p]
    BY DEF Given
  <2>6. /\ f[p] = <<TokenOf(x, w, p)>> \o f[p + n] /\ f[p + n] \in Seq(Outs(x))
        /\ TokenOf(x, w, p) \in Outs(x) /\ Len(TokenOf(x, w, p).text) = n
    <3>1. p + n \in 1..(Len(w) + 1) /\ p \in Nat \ {0}
      BY <1>1, <2>1
    <3>2. QED
      BY <2>1, <2>2, <2>3, <3>1, LexedIs, TokenAt
  <2> DEFINE e == TokenOf(x, w, p)
             j == Len(a) + 1
  <2> HIDE DEF f, e
  <2>7. f[1][j] = e /\ j \in 1..Len(f[1])
    <3>1. <<e>> \in Seq(Outs(x)) /\ Len(<<e>>) = 1 /\ <<e>>[1] = e
      BY <2>6 DEF e
    <3>2. /\ f[p] \in Seq(Outs(x)) /\ Len(f[p]) >= 1 /\ f[p][1] = e
      <4>1. f[p] = <<e>> \o f[p + n]
        BY <2>6 DEF e
      <4>2. /\ <<e>> \o f[p + n] \in Seq(Outs(x)) /\ Len(f[p + n]) \in Nat
            /\ Len(<<e>> \o f[p + n]) = 1 + Len(f[p + n])
            /\ (<<e>> \o f[p + n])[1] = e
        BY <2>6, <3>1, Concat
      <4>3. QED
        BY <4>1, <4>2
    <3>3. /\ Len(a) \in Nat /\ Len(f[p]) \in Nat /\ Len(a \o f[p]) = Len(a) + Len(f[p])
          /\ \A i \in 1..Len(f[p]) : (a \o f[p])[Len(a) + i] = f[p][i]
      BY <3>2, Concat
    <3>4. QED
      BY <2>5, <3>2, <3>3
  <2>8. z <= 2 * (Len(f[1][j].text) + 1)
    <3>1. Len(f[1][j].text) = n
      BY <2>6, <2>7 DEF e
    <3>2. QED
      BY <2>3, <2>4, <3>1
  <2>9. QED
    BY <2>7, <2>8 DEF Roomy, f
<1>4. QED
  BY <1>2, <1>3

Progress ==
    /\ TokenStart \in 1..(Len(input) + 1) /\ yylex_out \in Seq(Outs(scanner))
    /\ Given(scanner, input, yylex_out, TokenStart)
    /\ Consumed(input, yylex_out, TokenStart)
    /\ Roomy(scanner, input, BufRoom(yy_ch_buf))

Scanning == Running /\ Progress

LEMMA ScanningInit ==
    ASSUME Fx!ScannerAssumption, Fx!Init
    PROVE  Scanning
<1> DEFINE x == scanner
           w == input
           none == << >>
<1>1. Running /\ TokenStart = 1 /\ yylex_out = << >> /\ BufRoom(yy_ch_buf) \in YY_BUF_SIZES
  BY RunningInit
<1>2. x \in Kinds /\ w \in Seq(ClassesOf(x)) /\ Len(w) \in Nat
  BY <1>1, BufferFacts DEF Running
<1>3. Given(x, w, << >>, 1)
  <2>1. Lexed(x, w)[1] \in Seq(Outs(x))
    <3>1. 1 \in 1..(Len(w) + 1)
      BY <1>2
    <3>2. QED
      BY <1>2, <3>1, LexedIs
  <2>2. Lexed(x, w)[1] = << >> \o Lexed(x, w)[1]
    BY <2>1
  <2>3. /\ none \in Seq(Outs(x)) /\ Len(none) <= Len(none) /\ ~(Len(none) < Len(none))
        /\ 1..Len(none) = {} /\ (Len(none) + 1)..Len(none) = {}
    OBVIOUS
  <2>4. Lexed(x, w)[1] = none \o Lexed(x, w)[1]
    BY <2>2
  <2> HIDE DEF none
  <2>5. Given(x, w, none, 1)
    BY <2>3, <2>4 DEF Given
  <2>6. QED
    BY <2>5 DEF none
<1>4. Consumed(w, << >>, 1)
  <2>1. SubSeq(w, 1, 1 - 1) = << >>
    BY <1>2
  <2>2. QED
    BY <2>1, CatNone DEF Consumed
<1>5. Roomy(x, w, BufRoom(yy_ch_buf))
  BY <1>1 DEF Roomy
<1>6. TokenStart \in 1..(Len(w) + 1) /\ yylex_out \in Seq(Outs(x))
  BY <1>1, <1>2
<1>7. QED
  BY <1>1, <1>3, <1>4, <1>5, <1>6 DEF Scanning, Progress

LEMMA ScanningStep ==
    ASSUME Fx!ScannerAssumption, Scanning, [Fx!Next]_(Fx!vars)
    PROVE  Scanning'
<1> DEFINE x == scanner
           w == input
           o == yylex_out
           p == TokenStart
           z == BufRoom(yy_ch_buf)
<1>1. Running' /\ Moves /\ Running
  BY RunningStep DEF Scanning
<1>2. x \in Kinds /\ w \in Seq(ClassesOf(x)) /\ Len(w) \in Nat
  BY <1>1, BufferFacts DEF Running
<1>3. /\ p \in 1..(Len(w) + 1) /\ p \in Nat \ {0} /\ o \in Seq(Outs(x))
      /\ Given(x, w, o, p) /\ Consumed(w, o, p) /\ Roomy(x, w, z)
  BY <1>2 DEF Scanning, Progress
<1>4. scanner' = x /\ input' = w
  BY <1>1 DEF Moves
<1>5. Roomy(x, w, BufRoom(yy_ch_buf'))
  <2>1. CASE BufRoom(yy_ch_buf') = z
    BY <1>3, <2>1
  <2>2. CASE \E k \in Nat : Begun(x, w, p, k) /\ BufRoom(yy_ch_buf') <= 2 * (k + 1)
    <3>1. PICK k \in Nat : Begun(x, w, p, k) /\ BufRoom(yy_ch_buf') <= 2 * (k + 1)
      BY <2>2
    <3>2. BufRoom(yy_ch_buf') \in Nat
      BY <1>1, <1>4 DEF Running, Typed, Sizes
    <3> HIDE DEF p
    <3>3. QED
      BY <1>2, <1>3, <3>1, <3>2, RoomyNext
  <2>3. QED
    BY <1>1, <2>1, <2>2 DEF Moves, BufferFits
<1> DEFINE q == TokenStart'
           v == yylex_out'
<1>6. /\ q \in 1..(Len(w) + 1) /\ v \in Seq(Outs(x))
      /\ Given(x, w, v, q) /\ Consumed(w, v, q)
  <2>1. CASE Stays
    BY <1>3, <2>1 DEF Stays
  <2>2. CASE Gives
    <3>1. PICK k \in Nat : /\ WholeToken(x, w, p, k) /\ q = p + k
                           /\ v = Append(o, TokenOf(x, w, p))
      BY <2>2 DEF Gives
    <3> HIDE DEF p, q, o, v
    <3>2. p + k - 1 <= Len(w) /\ TokenOf(x, w, p) \in Outs(x)
      BY <1>2, <1>3, <3>1, TokenAt
    <3>3. p + k \in 1..(Len(w) + 1)
      BY <1>2, <1>3, <3>2
    <3>4. Append(o, TokenOf(x, w, p)) \in Seq(Outs(x))
      BY <1>3, <3>2
    <3>5. Given(x, w, Append(o, TokenOf(x, w, p)), p + k)
      BY <1>2, <1>3, <3>1, GivenNext
    <3>6. Consumed(w, Append(o, TokenOf(x, w, p)), p + k)
      BY <1>2, <1>3, <3>1, ConsumedNext
    <3>7. QED
      BY <3>1, <3>3, <3>4, <3>5, <3>6
  <2>3. CASE Stops
    <3>1. p = Len(w) + 1 /\ q = p /\ v = Append(o, Fx!EOF)
      BY <2>3 DEF Stops
    <3> HIDE DEF p, q, o, v
    <3>2. Fx!EOF \in Outs(x)
      BY EofIs
    <3>3. Append(o, Fx!EOF) \in Seq(Outs(x))
      BY <1>3, <3>2
    <3>4. Given(x, w, Append(o, Fx!EOF), p)
      BY <1>2, <1>3, <3>1, GivenEof
    <3>5. SubSeq(w, 1, p - 1) \in Seq(ClassesOf(x))
      <4>1. p - 1 = Len(w)
        BY <1>2, <3>1
      <4>2. SubSeq(w, 1, Len(w)) = w
        BY <1>2
      <4>3. QED
        BY <1>2, <4>1, <4>2
    <3>6. Consumed(w, Append(o, Fx!EOF), p)
      BY <1>3, <3>5, ConsumedEof
    <3>7. QED
      BY <1>3, <3>1, <3>3, <3>4, <3>6
  <2>4. QED
    BY <1>1, <2>1, <2>2, <2>3 DEF Moves
<1>7. Progress'
  BY <1>4, <1>5, <1>6 DEF Progress
<1>8. QED
  BY <1>1, <1>7 DEF Scanning

-----------------------------------------------------------------------------
\* What follows from the invariant.
LEMMA TokensFollow ==
    ASSUME Fx!ScannerAssumption, Scanning
    PROVE  Fx!TokensRight
<1> DEFINE x == scanner
           w == input
           o == yylex_out
           f == Lexed(x, w)
           E == Fx!Eofs
<1>1. x \in Kinds /\ w \in Seq(ClassesOf(x)) /\ Len(w) \in Nat
  BY BufferFacts DEF Scanning, Running
<1>2. o \in Seq(Outs(x)) /\ Len(o) \in Nat /\ TokenStart \in 1..(Len(w) + 1)
  BY LenNat DEF Scanning, Progress
<1>3. PICK a \in Seq(Outs(x)) :
        /\ Len(a) <= Len(o) /\ f[1] = a \o f[TokenStart]
        /\ \A i \in 1..Len(a) : o[i] = a[i] /\ Len(a[i].text) # 0
        /\ \A i \in (Len(a) + 1)..Len(o) : o[i] = Fx!EOF
        /\ Len(a) < Len(o) => TokenStart = Len(w) + 1
  BY DEF Scanning, Progress, Given
<1>4. Len(a) \in Nat
  BY LenNat
<1>5. Fx!Tokens = f[1]
  BY <1>1, TokensAre
<1>6. f[TokenStart] \in Seq(Outs(x)) /\ f[Len(w) + 1] = << >>
  BY <1>1, <1>2, LexedIs
<1> HIDE DEF f
<1>7. E = (Len(a) + 1)..Len(o)
  <2>1. E = {i \in 1..Len(o) : o[i] = Fx!EOF}
    BY <1>2 DEF Fx!Eofs
  <2>2. \A i \in 1..Len(o) : i \in 1..Len(a) \/ i \in (Len(a) + 1)..Len(o)
    BY <1>2, <1>4
  <2>3. \A i \in 1..Len(a) : o[i] # Fx!EOF
    BY <1>3, EofIs
  <2>4. \A i \in (Len(a) + 1)..Len(o) : i \in 1..Len(o)
    BY <1>2, <1>4
  <2>5. QED
    BY <1>3, <2>1, <2>2, <2>3, <2>4
<1>8. Len(o) - Fx!Cardinality(E) = Len(a)
  <2>1. Cardinality((Len(a) + 1)..Len(o)) =
            IF Len(a) + 1 > Len(o) THEN 0 ELSE Len(o) - (Len(a) + 1) + 1
    <3>1. Len(a) + 1 \in Int /\ Len(o) \in Int
      BY <1>2, <1>4
    <3>2. QED
      BY <3>1, FS_Interval
  <2>2. Fx!Cardinality(E) = Cardinality((Len(a) + 1)..Len(o))
    BY <1>7, SameCardinality
  <2>3. QED
    BY <1>2, <1>3, <1>4, <2>1, <2>2
<1>9. SubSeq(o, 1, Len(a)) = a
  <2>1. /\ SubSeq(o, 1, Len(a)) \in Seq(Outs(x)) /\ Len(SubSeq(o, 1, Len(a))) = Len(a)
        /\ \A i \in 1..Len(a) : SubSeq(o, 1, Len(a))[i] = o[i]
    BY <1>2, <1>3, <1>4
  <2>2. QED
    BY <1>3, <2>1, SameSeq
<1>10. Fx!IsPrefixOf(a, f[1])
  <2> DEFINE y == f[TokenStart]
             u == a \o y
  <2>1. u \in Seq(Outs(x)) /\ Len(y) \in Nat /\ Len(u) = Len(a) + Len(y)
        /\ \A i \in 1..Len(a) : u[i] = a[i]
    BY <1>6, Concat
  <2>2. f[1] = u
    BY <1>3
  <2> HIDE DEF u, y
  <2>3. /\ SubSeq(u, 1, Len(a)) \in Seq(Outs(x)) /\ Len(SubSeq(u, 1, Len(a))) = Len(a)
        /\ \A i \in 1..Len(a) : SubSeq(u, 1, Len(a))[i] = u[i]
    BY <1>4, <2>1
  <2>4. SubSeq(u, 1, Len(a)) = a
    BY <2>1, <2>3, SameSeq
  <2>5. QED
    BY <1>4, <2>1, <2>2, <2>4 DEF Fx!IsPrefixOf
<1>11. E # {} => a = f[1]
  <2>1. SUFFICES ASSUME E # {} PROVE a = f[1]
    OBVIOUS
  <2>2. Len(a) < Len(o)
    BY <1>2, <1>4, <1>7, <2>1
  <2>3. f[1] = a \o << >>
    BY <1>3, <1>6, <2>2
  <2>4. QED
    BY <2>3
<1> HIDE DEF E
<1>12. LET n == Len(o) - Fx!Cardinality(E)
           toks == SubSeq(o, 1, n)
       IN  /\ E = (n + 1)..Len(o)
           /\ Fx!IsPrefixOf(toks, f[1])
           /\ E # {} => toks = f[1]
  BY <1>7, <1>8, <1>9, <1>10, <1>11
<1>13. QED
  BY <1>5, <1>12 DEF Fx!TokensRight, E

LEMMA TypesFollow ==
    ASSUME Fx!ScannerAssumption, Scanning
    PROVE  Fx!TypeOK
<1> DEFINE z == BufRoom(yy_ch_buf)
           x == scanner
           w == input
           r == yy_n_read
           n == yy_n_chars
           t == Tables[scanner]
<1>1. Typed /\ BufferBytes /\ Engine
  BY DEF Scanning, Running
<1>2. /\ x \in Kinds /\ w \in Seq(ClassesOf(x)) /\ r \in 0..Len(w) /\ n \in 0..r
      /\ Sizes(yy_ch_buf, z, n) /\ z \in Nat \ {0} /\ Len(w) \in Nat
  BY <1>1, BufferFacts
<1>3. DOMAIN yy_ch_buf = 0..(z + 1) /\ n < z
  BY <1>2 DEF Sizes
<1>4. n \in 0..z /\ n + 1 \in DOMAIN yy_ch_buf
  BY <1>2, <1>3
<1>5. /\ {yytext_ptr, yy_c_buf_p, yy_cp, yy_bp} \subseteq DOMAIN yy_ch_buf
      /\ yy_hold_char \in ByteClasses[scanner] \cup {0}
      /\ yy_current_state \in DOMAIN t.accept
      /\ yy_buffer_status \in {"new", "normal", "eof pending"}
      /\ yylex_at \in {"call", "match", "find", "act", "end"}
  BY <1>1, <1>3 DEF Typed
<1>6. yy_bp \in Nat
  <2>1. yy_bp \in 0..(z + 1)
    BY <1>3, <1>5
  <2>2. QED
    BY <1>2, <2>1
<1>7. yylex_at = "act" => t.accept[yy_current_state] # 0
  <2>1. SUFFICES ASSUME yylex_at = "act" PROVE t.accept[yy_current_state] # 0
    OBVIOUS
  <2>2. PICK k \in Nat : /\ Ready(x, w, r, n, yy_bp, k)
                         /\ yy_current_state = StateAt(x, w, r, n, yy_bp, k)
    BY <1>1, <2>1 DEF Engine, Acting
  <2> DEFINE p == (r - n) + yy_bp + 1
  <2>3. /\ k # 0 /\ Begun(x, w, p, k) /\ yy_current_state = StateAfter(x, w[p], k)
    BY <2>2 DEF Ready, StateAt, WholeToken
  <2>4. p \in Nat \ {0}
    BY <1>2, <1>6
  <2> HIDE DEF p
  <2>5. QED
    BY <1>2, <2>3, <2>4, TokenState
<1>8. yylex_at = "end" => yy_c_buf_p <= n + 1
  <2>1. SUFFICES ASSUME yylex_at = "end" PROVE yy_c_buf_p <= n + 1
    OBVIOUS
  <2>2. PICK k \in Nat : NulAt(x, w, r, n, yy_bp, k) /\ yy_cp = yy_bp + k + 1
    BY <1>1, <2>1 DEF Engine, Ending
  <2>3. yy_bp + k <= n /\ yy_c_buf_p = yy_bp + k + 1
    BY <1>1, <2>1, <2>2 DEF BufferBytes, NulAt, Reach
  <2>4. QED
    BY <1>2, <1>6, <2>3
<1>9. QED
  BY <1>2, <1>4, <1>5, <1>7, <1>8, SizeIs, TIs DEF Fx!TypeOK

LEMMA BytesFollow ==
    ASSUME Fx!ScannerAssumption, Scanning
    PROVE  Fx!Conserved
<1> DEFINE z == BufRoom(yy_ch_buf)
           x == scanner
           w == input
           r == yy_n_read
           n == yy_n_chars
           c == yy_c_buf_p
           p == (r - n) + c + 1
           k == n - c
<1>1. Typed /\ BufferBytes /\ Engine
  BY DEF Scanning, Running
<1>2. /\ x \in Kinds /\ w \in Seq(ClassesOf(x)) /\ r \in 0..Len(w) /\ n \in 0..r
      /\ Sizes(yy_ch_buf, z, n) /\ z \in Nat \ {0} /\ Len(w) \in Nat
  BY <1>1, BufferFacts
<1>3. SUFFICES ASSUME yylex_at = "call"
      PROVE  Fx!TextOf(yylex_out) \o Fx!InBuffer \o SubSeq(w, r + 1, Len(w)) = w
  BY DEF Fx!Conserved
<1>4. HoldsBut(yy_ch_buf, yy_hold_char, c, w, r, n) /\ c <= n /\ c \in Nat
  BY <1>1, <1>3 DEF BufferBytes, Engine, HoldsBut
<1>5. Fx!TextOf(yylex_out) = SubSeq(w, 1, p - 1)
  BY <1>3 DEF Scanning, Progress, Consumed, TokenStart
<1>6. /\ k \in Nat /\ p \in Nat \ {0} /\ p + k - 1 = r /\ p + k - 1 <= Len(w) /\ (p + k) - 1 = r
      /\ r \in Nat /\ n \in Nat
  BY <1>2, <1>4
<1>7. Fx!InBuffer = SubSeq(w, p, p + k - 1)
  <2>1. ASSUME NEW i \in 1..k
        PROVE  (IF i = 1 THEN yy_hold_char ELSE yy_ch_buf[c + i - 1]) = w[p + i - 1]
    <3>1. c + i - 1 \in 0..(n + 1) /\ c + i - 1 < n /\ (r - n) + (c + i - 1) + 1 = p + i - 1
          /\ (c + i - 1 = c <=> i = 1)
      BY <1>4, <1>6
    <3>2. Byte(w, r, n, c + i - 1) = w[p + i - 1]
      BY <3>1 DEF Byte
    <3>3. yy_hold_char = Byte(w, r, n, c)
          /\ \A j \in 0..(n + 1) : j # c => yy_ch_buf[j] = Byte(w, r, n, j)
      BY <1>4 DEF HoldsBut
    <3>4. CASE i = 1
      BY <3>1, <3>2, <3>3, <3>4
    <3>5. CASE i # 1
      BY <3>1, <3>2, <3>3, <3>5
    <3>6. QED
      BY <3>4, <3>5
  <2>2. SubSeq(w, p, p + k - 1) = [i \in 1..k |-> w[p + i - 1]]
    BY <1>2, <1>6, SubSeqIs, SMTT(60)
  <2>3. Fx!InBuffer = [i \in 1..k |-> IF i = 1 THEN yy_hold_char ELSE yy_ch_buf[c + i - 1]]
    BY DEF Fx!InBuffer
  <2> HIDE DEF p, k
  <2>4. QED
    BY <2>1, <2>2, <2>3
<1>8. SubSeq(w, 1, p - 1) \o SubSeq(w, p, p + k - 1) = SubSeq(w, 1, r)
  <2>1. SubSeq(w, 1, p - 1) \o SubSeq(w, p, p + k - 1) = SubSeq(w, 1, (p + k) - 1)
    <3> HIDE DEF p, k
    <3>1. QED
      BY <1>2, <1>6, CutJoin
  <2>2. QED
    BY <1>6, <2>1
<1>9. SubSeq(w, 1, r) \o SubSeq(w, r + 1, Len(w)) = w
  <2> DEFINE q == r + 1
             m == Len(w) - r
  <2>1. q \in Nat \ {0} /\ m \in Nat /\ q + m - 1 = Len(w) /\ (q + m) - 1 = Len(w) /\ q - 1 = r
        /\ q + m - 1 <= Len(w)
    BY <1>2
  <2>2. SubSeq(w, 1, q - 1) \o SubSeq(w, q, q + m - 1) = SubSeq(w, 1, (q + m) - 1)
    <3> HIDE DEF q, m
    <3>1. QED
      BY <1>2, <2>1, CutJoin
  <2>3. SubSeq(w, 1, Len(w)) = w
    BY <1>2
  <2>4. QED
    BY <2>1, <2>2, <2>3
<1>10. QED
  BY <1>5, <1>7, <1>8, <1>9

LEMMA GrowthFollows ==
    ASSUME Fx!ScannerAssumption, Scanning
    PROVE  Fx!GrowsForTokens
<1> DEFINE z == BufRoom(yy_ch_buf)
           f == Lexed(scanner, input)
           s == f[1]
           longest == {Len(s[i].text) : i \in DOMAIN s} \cup {0}
<1>1. /\ scanner \in Kinds /\ input \in Seq(ClassesOf(scanner)) /\ z \in Nat \ {0}
      /\ Len(input) \in Nat
  BY BufferFacts DEF Scanning, Running
<1>2. Fx!Tokens = s
  BY <1>1, TokensAre
<1>3. s \in Seq(Outs(scanner))
  <2>1. 1 \in 1..(Len(input) + 1)
    BY <1>1
  <2>2. QED
    BY <1>1, <2>1, LexedIs
<1>4. Roomy(scanner, input, z)
  BY DEF Scanning, Progress
<1>5. z \notin YY_BUF_SIZES => \E k \in longest : z <= 2 * (k + 1)
  <2>1. SUFFICES ASSUME z \notin YY_BUF_SIZES PROVE \E k \in longest : z <= 2 * (k + 1)
    OBVIOUS
  <2>2. CASE z <= 2
    <3>1. 0 \in longest /\ z <= 2 * (0 + 1)
      BY <2>2
    <3>2. QED
      BY <3>1
  <2>3. CASE \E j \in 1..Len(s) : z <= 2 * (Len(s[j].text) + 1)
    <3>1. PICK j \in 1..Len(s) : z <= 2 * (Len(s[j].text) + 1)
      BY <2>3
    <3>2. j \in DOMAIN s
      BY <1>3
    <3> HIDE DEF s
    <3>3. QED
      BY <3>1, <3>2
  <2>4. QED
    BY <1>4, <2>1, <2>2, <2>3 DEF Roomy
<1> HIDE DEF s
<1>6. QED
  BY <1>2, <1>5, SizeIs DEF Fx!GrowsForTokens

\* However the input is cut into reads and wherever the buffer ends or is full,
\* the tokens of both scanners are those of their rules.
THEOREM TokensRightThm ==
    ASSUME Fx!ScannerAssumption
    PROVE  Fx!Spec => []TokensRight
<1>1. Fx!Init => Scanning
  BY ScanningInit
<1>2. Scanning /\ [Fx!Next]_(Fx!vars) => Scanning'
  BY ScanningStep
<1>3. Scanning => TokensRight
  BY TokensFollow DEF TokensRight
<1>4. QED
  BY <1>1, <1>2, <1>3, PTL DEF Fx!Spec

\* For every input, buffer and size of a read: none of the fatal errors of the
\* engine is met, the buffer loses, repeats and misplaces no byte, and it grows
\* only for a token that does not fit.
THEOREM BufferSoundThm ==
    ASSUME Fx!ScannerAssumption
    PROVE  Fx!Spec => []BufferSound
<1>1. Fx!Init => Scanning
  BY ScanningInit
<1>2. Scanning /\ [Fx!Next]_(Fx!vars) => Scanning'
  BY ScanningStep
<1>3. Scanning => BufferSound
  BY TypesFollow, BytesFollow, GrowthFollows DEF BufferSound, Fx!BufferSound
<1>4. QED
  BY <1>1, <1>2, <1>3, PTL DEF Fx!Spec
==============================================================================
