--------------------------- MODULE OptimizerProofs ---------------------------
(***************************************************************************)
(* The optimizers: what their mains do to the file they read and to the    *)
(* one they write, for every set of names, every naming of the statistics  *)
(* and every set of tools; and what their passes are told by the analysis  *)
(* library, for all functions, graphs and orders of calls.                 *)
(*                                                                         *)
(* OptDriver: IInv says what has become of the input, Made what the module *)
(* in memory and the output are on the way to the exit.  Dominance         *)
(* (TreeInv): what a client is told where it may rely on it.  CFGIter      *)
(* (ItInv): what the loop of a client meets, for which the recursive       *)
(* definitions of the lists are followed element by element (Recursion).   *)
(***************************************************************************)
EXTENDS OptDriver, Analyses, FiniteSetTheorems, WellFoundedInduction, TLAPS

PassNames == {"mem2reg", "dce", "cse", "simplifycfg"}
ModuleType == [kind : {"absent", "empty", "text", "module", "stats", "mixed"},
               of : {""} \cup Files, valid : BOOLEAN, passes : Seq(PassNames)]

Types ==
    /\ tool \in AllTools /\ in \in Files /\ out \in Names
    /\ original \in [Names -> ModuleType]
    /\ fs \in [Names -> ModuleType]
    /\ M \in ModuleType
    /\ tof \in {"none", "failed", "open"}
    /\ pc \in {"open", "read", "passes", "stats", "write", "exit"}
    /\ status \in {"running", "ok", "failed", "signal"}

\* What main has done by the time it is at pc.
Progress ==
    /\ status = "running" <=> pc # "exit"
    /\ pc = "open" => fs = original /\ tof = "none"
    /\ tof # "none" => UsesToolOutputFile
    /\ tof = "open" /\ pc # "exit" => fs[out] \in {Empty, Stats}
    /\ pc # "open" /\ UsesToolOutputFile /\ out \notin locked => tof = "open"

\* The input is as it was.
Kept ==
    /\ in # out /\ ~(WritesStats /\ StatsName = in) => fs[in] = original[in]
    /\ in = out /\ ~UsesToolOutputFile /\ status # "ok" => fs[in] = original[in]

IInv == Types /\ Progress /\ Kept

-----------------------------------------------------------------------------
LEMMA Constructors ==
    /\ Absent \in ModuleType /\ Empty \in ModuleType
    /\ Stats \in ModuleType /\ Mixed \in ModuleType
    /\ Absent.kind # "module" /\ Empty.kind # "module"
    /\ EmptyModule \in ModuleType /\ EmptyModule.valid /\ EmptyModule.passes = << >>
    /\ EmptyModule.kind = "module"
  BY DEF Absent, Empty, Stats, Mixed, Other, EmptyModule, Module, ModuleType

LEMMA ParsedTyped == \A c \in ModuleType : Parsed(c) \in ModuleType
  BY Constructors DEF Parsed

LEMMA ContentsTyped == \A f \in Files : Contents(f) \subseteq ModuleType
<1>1. << >> \in Seq(PassNames)
  OBVIOUS
<1>2. \A f \in Files, v \in BOOLEAN : Module(f, v) \in ModuleType
  BY <1>1 DEF Module, ModuleType
<1>3. Absent \in ModuleType /\ Empty \in ModuleType /\ Other("text") \in ModuleType
  BY <1>1 DEF Absent, Empty, Other, ModuleType
<1>4. QED
  BY <1>2, <1>3 DEF Contents

LEMMA WithTyped ==
    ASSUME NEW m \in ModuleType, NEW passes \in Seq(PassNames)
    PROVE  With(m, passes) \in ModuleType
<1>1. m.passes \in Seq(PassNames)
  BY DEF ModuleType
<1>2. m.passes \o passes \in Seq(PassNames)
  BY <1>1
<1>3. QED
  BY <1>2 DEF With, ModuleType

LEMMA FinalTyped == Types => Final \in ModuleType
<1>1. <<"dce", "simplifycfg">> \in Seq(PassNames)
  BY DEF PassNames
<1>2. QED
  BY <1>1, WithTyped DEF Types, Final

\* The destructor touches nothing but the output it has open.
LEMMA CleanedTyped ==
    ASSUME Types
    PROVE  /\ Cleaned(fs) \in [Names -> ModuleType]
           /\ \A f \in Names : f # out \/ tof # "open" => Cleaned(fs)[f] = fs[f]
           /\ tof = "open" => Cleaned(fs)[out] = Absent
<1>1. CASE tof = "open"
  <2>1. Cleaned(fs) = [fs EXCEPT ![out] = Absent]
    BY <1>1 DEF Cleaned
  <2>2. out \in Names /\ fs \in [Names -> ModuleType] /\ Absent \in ModuleType
    BY Constructors DEF Types
  <2>3. QED
    BY <1>1, <2>1, <2>2
<1>2. CASE tof # "open"
  BY <1>2 DEF Types, Cleaned
<1>3. QED
  BY <1>1, <1>2

LEMMA InNames == Types => in \in Names
  BY DEF Types, Names

LEMMA InitIInv == Init => IInv
<1>1. SUFFICES ASSUME Init PROVE IInv
  OBVIOUS
<1>2. original \in [Names -> ModuleType]
  <2>1. in \in Files
    BY <1>1 DEF Init
  <2>2. PICK c \in Contents(in), d \in {Absent, Other("text")} :
               original = [f \in Names |-> IF f = in THEN c ELSE d]
    BY <1>1 DEF Init
  <2>3. c \in ModuleType
    BY <2>1, ContentsTyped
  <2>4. d \in ModuleType
    BY <2>1, ContentsTyped DEF Contents
  <2>5. QED
    BY <2>2, <2>3, <2>4
<1>3. /\ tool \in AllTools /\ in \in Files /\ out \in Names
      /\ fs = original /\ tof = "none" /\ M = Absent
      /\ pc = "open" /\ status = "running"
  <2>1. tool \in AllTools
    BY <1>1, OptDriverAssumption DEF Init
  <2>2. in \in Files /\ out \in Names
    BY <1>1 DEF Init
  <2>3. QED
    BY <1>1, <2>1, <2>2 DEF Init
<1>4. Types
  BY <1>2, <1>3, Constructors DEF Types
<1>5. Progress /\ Kept
  BY <1>3 DEF Progress, Kept
<1>6. QED
  BY <1>4, <1>5 DEF IInv

-----------------------------------------------------------------------------
\* One lemma per step of main.

LEMMA OpenOutputStep == IInv /\ OpenOutput => IInv'
<1>1. SUFFICES ASSUME IInv, OpenOutput PROVE IInv'
  OBVIOUS
<1>2. /\ pc = "open" /\ UsesToolOutputFile /\ pc' = "read"
      /\ UNCHANGED <<tool, in, out, options, original, locked, M, status>>
      /\ fs = original /\ status = "running"
  BY <1>1 DEF OpenOutput, command, IInv, Progress
<1>3. CASE out \in locked
  <2>1. tof' = "failed" /\ fs' = fs
    BY <1>1, <1>3 DEF OpenOutput
  <2>2. QED
    BY <1>1, <1>2, <1>3, <2>1 DEF IInv, Types, Progress, Kept,
       UsesToolOutputFile, WritesStats, StatsName
<1>4. CASE out \notin locked
  <2>1. tof' = "open" /\ fs' = [fs EXCEPT ![out] = Empty]
    BY <1>1, <1>4 DEF OpenOutput, Opened
  <2>2. /\ fs' \in [Names -> ModuleType] /\ fs'[out] = Empty
        /\ \A f \in Names : f # out => fs'[f] = fs[f]
    BY <1>1, <2>1, Constructors DEF IInv, Types
  <2>3. Types'
    BY <1>1, <1>2, <2>1, <2>2 DEF IInv, Types
  <2>4. Progress'
    BY <1>2, <2>1, <2>2 DEF Progress, UsesToolOutputFile
  <2>5. Kept'
    BY <1>1, <1>2, <2>2, InNames DEF IInv, Kept,
       UsesToolOutputFile, WritesStats, StatsName
  <2>6. QED
    BY <2>3, <2>4, <2>5 DEF IInv
<1>5. QED
  BY <1>3, <1>4

LEMMA OpenNothingStep == IInv /\ OpenNothing => IInv'
  BY DEF OpenNothing, command, IInv, Types, Progress, Kept,
     UsesToolOutputFile, WritesStats, StatsName

\* An exit that leaves the files to the destructor.
LEMMA CleanedStep ==
    ASSUME IInv, pc # "open", pc # "exit", pc' = "exit",
           status' \in {"ok", "failed", "signal"}, fs' = Cleaned(fs),
           UNCHANGED <<command, tof, M>>
    PROVE  IInv'
<1>1. /\ fs' \in [Names -> ModuleType]
      /\ \A f \in Names : f # out \/ tof # "open" => fs'[f] = fs[f]
      /\ tof = "open" => fs'[out] = Absent
  BY CleanedTyped DEF IInv
<1>2. Types'
  BY <1>1 DEF IInv, Types, command
<1>3. Progress'
  BY <1>1 DEF IInv, Progress, command, UsesToolOutputFile
<1>4. Kept'
  BY <1>1, InNames DEF IInv, Progress, Kept, command, UsesToolOutputFile,
     WritesStats, StatsName
<1>5. QED
  BY <1>2, <1>3, <1>4 DEF IInv

LEMMA ReadStep == IInv /\ Read => IInv'
<1>1. SUFFICES ASSUME IInv, Read PROVE IInv'
  OBVIOUS
<1>2. CASE Parsed(fs[in]).kind = "module"
  <2>1. /\ pc = "read" /\ pc' = "passes" /\ M' = Parsed(fs[in])
        /\ UNCHANGED <<tool, in, out, options, original, locked, fs, tof, status>>
    BY <1>1, <1>2 DEF Read, command
  <2>2. fs[in] \in ModuleType
    BY <1>1, InNames DEF IInv, Types
  <2>3. Types'
    BY <1>1, <2>1, <2>2, ParsedTyped DEF IInv, Types
  <2>4. Progress' /\ Kept'
    BY <1>1, <2>1 DEF IInv, Progress, Kept, UsesToolOutputFile,
       WritesStats, StatsName
  <2>5. QED
    BY <2>3, <2>4 DEF IInv
<1>3. CASE Parsed(fs[in]).kind # "module"
  BY <1>1, <1>3, CleanedStep DEF Read, Exit
<1>4. QED
  BY <1>2, <1>3

LEMMA PassesStep == IInv /\ Passes => IInv'
<1>1. SUFFICES ASSUME IInv, Passes PROVE IInv'
  OBVIOUS
<1>3. CASE pc' = "exit"
  BY <1>1, <1>3, CleanedStep DEF Passes, Exit
<1>4. CASE pc' # "exit"
  <2>1. /\ pc = "passes" /\ pc' = "stats"
        /\ UNCHANGED <<tool, in, out, options, original, locked, fs, tof, status>>
    BY <1>1, <1>4 DEF Passes, Exit, command
  <2>2. M' \in ModuleType
    <3>1. M \in ModuleType
      BY <1>1 DEF IInv, Types
    <3>2. /\ <<"dce">> \in Seq(PassNames) /\ <<"mem2reg">> \in Seq(PassNames)
          /\ <<"cse">> \in Seq(PassNames) /\ << >> \in Seq(PassNames)
      BY DEF PassNames
    <3>3. FirstPasses \in Seq(PassNames)
      BY <3>2 DEF FirstPasses
    <3>4. FirstPasses \o (IF "no-cse" \in options THEN << >> ELSE <<"cse">>) \in Seq(PassNames)
      BY <3>2, <3>3
    <3>5. QED
      BY <1>1, <1>4, <3>1, <3>2, <3>4, WithTyped DEF Passes, Exit
  <2>3. Types'
    BY <1>1, <2>1, <2>2 DEF IInv, Types
  <2>4. Progress' /\ Kept'
    BY <1>1, <2>1 DEF IInv, Progress, Kept, UsesToolOutputFile,
       WritesStats, StatsName
  <2>5. QED
    BY <2>3, <2>4 DEF IInv
<1>5. QED
  BY <1>3, <1>4

\* The statistics may be the output: the output's own file is open then.
LEMMA SummarizeStep == IInv /\ Summarize => IInv'
<1>1. SUFFICES ASSUME IInv, Summarize PROVE IInv'
  OBVIOUS
<1>3. CASE pc' = "exit"
  BY <1>1, <1>3, CleanedStep DEF Summarize, Exit
<1>4. CASE pc' # "exit"
  <2>1. /\ pc = "stats" /\ pc' = "write"
        /\ UNCHANGED <<tool, in, out, options, original, locked, tof, M, status>>
        /\ \/ UNCHANGED fs
           \/ WritesStats /\ fs' = [fs EXCEPT ![StatsName] = Stats]
    <3>1. CASE ~WritesStats
      BY <1>1, <1>4, <3>1 DEF Summarize, Exit, command
    <3>2. CASE WritesStats
      BY <1>1, <1>4, <3>2 DEF Summarize, Exit, command
    <3>3. QED
      BY <3>1, <3>2
  <2>2. /\ fs' \in [Names -> ModuleType]
        /\ \A f \in Names : \/ fs'[f] = fs[f]
                            \/ fs'[f] = Stats /\ WritesStats /\ f = StatsName
    BY <1>1, <2>1, Constructors DEF IInv, Types
  <2>3. Types'
    BY <1>1, <2>1, <2>2 DEF IInv, Types
  <2>4. Progress'
    BY <1>1, <2>1, <2>2 DEF IInv, Types, Progress, UsesToolOutputFile
  <2>5. in \in Names /\ StatsOf[in] # in
    BY <1>1, InNames, OptDriverAssumption DEF IInv, Types
  <2>6. Kept'
    BY <1>1, <2>1, <2>2, <2>5 DEF IInv, Kept, UsesToolOutputFile,
       WritesStats, StatsName
  <2>7. QED
    BY <2>3, <2>4, <2>6 DEF IInv
<1>5. QED
  BY <1>3, <1>4

LEMMA WriteStep == IInv /\ Write => IInv'
<1>1. SUFFICES ASSUME IInv, Write PROVE IInv'
  OBVIOUS
<1>3. CASE ~Verified
  BY <1>1, <1>3, CleanedStep DEF Write, Exit
<1>4. CASE Verified
  <2>1. /\ pc = "write" /\ pc' = "exit" /\ status' \in {"ok", "failed"}
        /\ UNCHANGED <<tool, in, out, options, original, locked, tof, M>>
        /\ status' = "failed" => fs' = fs
        /\ \/ fs' = fs
           \/ \E m \in {Final, Mixed} : fs' = [fs EXCEPT ![out] = m]
    BY <1>1, <1>4 DEF Write, Exit, command
  <2>2. Final \in ModuleType /\ Mixed \in ModuleType
    BY <1>1, FinalTyped, Constructors DEF IInv
  <2>3. /\ fs' \in [Names -> ModuleType]
        /\ \A f \in Names : f # out => fs'[f] = fs[f]
    BY <1>1, <2>1, <2>2 DEF IInv, Types
  <2>4. Types'
    BY <1>1, <2>1, <2>3 DEF IInv, Types
  <2>5. Progress'
    BY <1>1, <2>1 DEF IInv, Progress, UsesToolOutputFile
  <2>6. Kept'
    BY <1>1, <2>1, <2>3, InNames DEF IInv, Progress, Kept, UsesToolOutputFile,
       WritesStats, StatsName
  <2>7. QED
    BY <2>4, <2>5, <2>6 DEF IInv
<1>5. QED
  BY <1>3, <1>4

LEMMA NextIInv == IInv /\ [Next]_vars => IInv'
<1>1. IInv /\ UNCHANGED vars => IInv'
  BY DEF vars, command, IInv, Types, Progress, Kept, UsesToolOutputFile,
     WritesStats, StatsName
<1>2. QED
  BY <1>1, OpenOutputStep, OpenNothingStep, ReadStep, PassesStep, SummarizeStep,
     WriteStep DEF Next

LEMMA Invariance == Spec => []IInv
  BY InitIInv, NextIInv, PTL DEF Spec

-----------------------------------------------------------------------------
\* The theorems.

\* Every variable keeps its type, and until the end a ToolOutputFile that is
\* open is empty or holds the statistics.
THEOREM TypeThm == Spec => []TypeOK
<1>1. IInv => TypeOK
  BY DEF IInv, Types, Progress, ModuleType, TypeOK
<1>2. QED
  BY <1>1, Invariance, PTL

-----------------------------------------------------------------------------
\* The passes that have been run on the module at pc.
Run ==
    CASE tool \in {"dce", "dcecpp"} -> <<"dce">>
      [] tool \in {"p3", "p3cpp"} -> << >>
      [] tool = "p4" -> FirstPasses \o If("no-cse" \notin options, "cse")

\* A tool that has emptied its input succeeds, or crashes over the statistics.
Lost ==
    Emptied /\ pc = "exit" =>
        status = "ok" \/ (status = "signal" /\ fs[in] = Absent)

\* The module in memory and the output before the exit, and after it.
Made ==
    /\ Input.passes = << >> /\ out \in DOMAIN StatsOf
    /\ pc \in {"open", "read", "passes", "stats"} =>
          /\ \A f \in Names : f # out => fs[f] = original[f]
          /\ tof = "open" => fs[out] = Empty
    /\ pc # "exit" /\ tof # "open" => fs[out] \in {original[out], Stats}
    /\ pc \in {"read", "passes", "stats"} /\ tof # "open" => fs = original
    /\ pc = "write" /\ tof = "open" =>
          fs[out] = Empty \/ (fs[out] = Stats /\ WritesStats /\ StatsName = out)
    /\ pc = "passes" => M = Input /\ M.kind = "module"
    /\ pc \in {"stats", "write"} =>
          /\ M = With(Input, Run) /\ Input.kind = "module"
          /\ tool = "p4" => Input.valid
    /\ tof = "failed" => out \in locked
    /\ tof = "open" => out \notin locked
    /\ pc \in {"read", "passes", "stats", "write"} /\ UsesToolOutputFile => tof # "none"
    /\ Lost
    /\ SuccessIsOutput /\ NothingHalf

LEMMA InputTyped == Types => Input \in ModuleType
<1>1. Types => original[in] \in ModuleType
  BY InNames DEF Types
<1>2. QED
  BY <1>1, Constructors, ParsedTyped DEF Input

LEMMA InitMade == Init => Made
<1> SUFFICES ASSUME Init PROVE Made
  OBVIOUS
<1>1. Input.passes = << >>
  <2>1. in \in Names
    BY DEF Init, Names
  <2>2. \E c \in Contents(in) : original[in] = c
    BY <2>1 DEF Init
  <2>3. /\ \A k : Other(k).passes = << >>
        /\ \A f, v : Module(f, v).passes = << >>
    BY DEF Other, Module
  <2>4. original[in].passes = << >>
    BY <2>2, <2>3 DEF Contents, Absent, Empty
  <2>5. QED
    BY <2>4, Constructors DEF Input, Parsed
<1>2. QED
  BY <1>1 DEF Init, Made, Lost, SuccessIsOutput, NothingHalf

LEMMA WithParts ==
    ASSUME NEW m \in ModuleType, NEW p
    PROVE  With(m, p).kind = m.kind /\ With(m, p).valid = m.valid
  BY DEF With, ModuleType

LEMMA OpenMade == IInv /\ Made /\ (OpenOutput \/ OpenNothing) => Made'
<1> SUFFICES ASSUME IInv, Made, OpenOutput \/ OpenNothing PROVE Made'
  OBVIOUS
<1>1. /\ pc = "open" /\ pc' = "read" /\ tof = "none" /\ fs = original /\ status = "running"
      /\ UNCHANGED <<tool, in, out, options, original, locked, M, status>>
      /\ \/ UsesToolOutputFile /\ out \in locked /\ tof' = "failed" /\ fs' = fs
         \/ /\ UsesToolOutputFile /\ out \notin locked /\ tof' = "open"
            /\ fs' = [fs EXCEPT ![out] = Empty]
         \/ ~UsesToolOutputFile /\ tof' = tof /\ fs' = fs
  BY DEF OpenOutput, OpenNothing, Opened, command, IInv, Progress
<1>2. /\ out \in Names /\ fs \in [Names -> ModuleType]
  BY DEF IInv, Types
<1>3. /\ \A f \in Names : f # out => fs'[f] = original[f]
      /\ tof' = "open" => fs'[out] = Empty
      /\ tof' # "open" => fs' = original
  BY <1>1, <1>2
<1>4. SuccessIsOutput' /\ NothingHalf' /\ Lost'
  BY <1>1 DEF SuccessIsOutput, NothingHalf, Lost
<1>5. Input' = Input
  BY <1>1 DEF Input, Emptied, Parsed, UsesToolOutputFile
<1>6. QED
  BY <1>1, <1>2, <1>3, <1>4, <1>5 DEF Made, UsesToolOutputFile

\* Exits on the way leave what was there, nothing or the statistics.
LEMMA CleanedMade ==
    ASSUME IInv, Made, pc \in {"read", "passes", "stats", "write"}, pc' = "exit",
           fs' = Cleaned(fs), UNCHANGED <<command, tof, M>>,
           status' # "ok" \/ (tool \in {"dce", "dcecpp"} /\ ~Input.valid),
           status' \in {"ok", "failed", "signal"}, Emptied => status' = "signal"
    PROVE  Made'
<1>1. out \in Names /\ (tof = "open" => fs'[out] = Absent) /\ (tof # "open" => fs'[out] = fs[out])
  BY CleanedTyped DEF IInv, Types
<1>2. fs'[out] \in {original[out], Absent, Stats}
  BY <1>1 DEF Made
<1>3. Input' = Input /\ (Emptied' <=> Emptied)
  BY DEF Input, Emptied, Parsed, UsesToolOutputFile, command
<1>4. SuccessIsOutput'
  BY <1>3 DEF SuccessIsOutput, command
<1>5. NothingHalf'
  BY <1>2 DEF NothingHalf, command
<1>6. Lost'
  BY <1>1, <1>3 DEF Lost, Emptied, IInv, Progress, command
<1>7. QED
  BY <1>3, <1>4, <1>5, <1>6 DEF Made, command

\* The input is what is read, after the output has been opened too.
LEMMA ReadIsInput == IInv /\ Made /\ pc = "read" => Parsed(fs[in]) = Input
<1> SUFFICES ASSUME IInv, Made, pc = "read" PROVE Parsed(fs[in]) = Input
  OBVIOUS
<1>1. CASE Emptied
  <2>1. fs[in] = Empty
    BY <1>1 DEF IInv, Progress, Made, Emptied
  <2>2. QED
    BY <1>1, <2>1 DEF Parsed, Input, Emptied
<1>2. CASE ~Emptied
  <2>1. CASE in # out
    BY <1>2, <2>1, InNames DEF Made, IInv, Input
  <2>2. CASE in = out
    BY <1>2, <2>2 DEF Made, IInv, Progress, Emptied, Input
  <2>3. QED
    BY <2>1, <2>2
<1>3. QED
  BY <1>1, <1>2

LEMMA ReadMade == IInv /\ Made /\ Read => Made'
<1> SUFFICES ASSUME IInv, Made, Read PROVE Made'
  OBVIOUS
<1>1. pc = "read" /\ Parsed(fs[in]) = Input
  BY ReadIsInput DEF Read
<1>2. CASE Input.kind = "module"
  <2>1. /\ pc' = "passes" /\ M' = Input
        /\ UNCHANGED <<tool, in, out, options, original, locked, fs, tof, status>>
        /\ status = "running"
    BY <1>1, <1>2 DEF Read, command, IInv, Progress
  <2>2. SuccessIsOutput' /\ NothingHalf' /\ Lost'
    BY <2>1 DEF SuccessIsOutput, NothingHalf, Lost
  <2>3. Input' = Input
    BY <2>1 DEF Input, Emptied, Parsed, UsesToolOutputFile
  <2>4. QED
    BY <1>1, <1>2, <2>1, <2>2, <2>3 DEF Made, UsesToolOutputFile
<1>3. CASE Input.kind # "module"
  <2>1. ~Emptied
    BY <1>3, Constructors DEF Input
  <2>2. QED
    BY <1>1, <1>3, <2>1, CleanedMade DEF Read, Exit
<1>4. QED
  BY <1>2, <1>3

LEMMA PassesMade == IInv /\ Made /\ Passes => Made'
<1> SUFFICES ASSUME IInv, Made, Passes PROVE Made'
  OBVIOUS
<1>1. CASE pc' = "exit"
  <2>1. pc = "passes" /\ M = Input /\ ~M.valid /\ status' = "failed"
        /\ fs' = Cleaned(fs) /\ UNCHANGED <<command, tof, M>>
    BY <1>1 DEF Passes, Exit, Made
  <2>2. ~Emptied
    BY <2>1, Constructors DEF Input
  <2>3. QED
    BY <1>1, <2>1, <2>2, CleanedMade
<1>2. CASE pc' # "exit"
  <2>1. /\ pc = "passes" /\ pc' = "stats" /\ status = "running" /\ (tool = "p4" => M.valid)
        /\ UNCHANGED <<tool, in, out, options, original, locked, fs, tof, status>>
    BY <1>2 DEF Passes, Exit, command, IInv, Progress
  <2>2. M = Input /\ M.kind = "module" /\ M \in ModuleType /\ M.passes = << >>
    BY <2>1 DEF Made, IInv, Types
  <2>3. M' = With(M, Run)
    <3>1. CASE tool \in {"p3", "p3cpp"}
      <4>1. M' = M /\ Run = << >>
        BY <1>2, <3>1 DEF Passes, Exit, Run
      <4>2. With(M, << >>) = [M EXCEPT !.passes = << >>]
        BY <2>2 DEF With
      <4>3. [M EXCEPT !.passes = << >>] = M
        BY <2>2 DEF ModuleType
      <4>4. QED
        BY <4>1, <4>2, <4>3
    <3>2. CASE tool \in {"dce", "dcecpp"}
      BY <1>2, <3>2 DEF Passes, Exit, Run
    <3>3. CASE tool = "p4"
      BY <1>2, <3>3 DEF Passes, Exit, Run, If
    <3>4. QED
      BY <3>1, <3>2, <3>3 DEF IInv, Types, AllTools
  <2>4. Run' = Run /\ Input' = Input
    BY <2>1 DEF Run, FirstPasses, Input, Emptied, Parsed, UsesToolOutputFile
  <2>5. SuccessIsOutput' /\ NothingHalf' /\ Lost'
    BY <2>1 DEF SuccessIsOutput, NothingHalf, Lost
  <2>6. QED
    BY <2>1, <2>2, <2>3, <2>4, <2>5 DEF Made, UsesToolOutputFile
<1>3. QED
  BY <1>1, <1>2

LEMMA SummarizeMade == IInv /\ Made /\ Summarize => Made'
<1> SUFFICES ASSUME IInv, Made, Summarize PROVE Made'
  OBVIOUS
<1>1. CASE pc' = "exit"
  BY <1>1, CleanedMade DEF Summarize, Exit
<1>2. CASE pc' # "exit"
  <2>1. /\ pc = "stats" /\ pc' = "write" /\ status = "running"
        /\ UNCHANGED <<tool, in, out, options, original, locked, tof, M, status>>
        /\ \/ UNCHANGED fs
           \/ WritesStats /\ fs' = [fs EXCEPT ![StatsName] = Stats]
    <3>1. CASE ~WritesStats
      BY <1>2, <3>1 DEF Summarize, Exit, command, IInv, Progress
    <3>2. CASE WritesStats
      BY <1>2, <3>2 DEF Summarize, Exit, command, IInv, Progress
    <3>3. QED
      BY <3>1, <3>2
  <2>2. fs'[out] = fs[out] \/ (fs'[out] = Stats /\ WritesStats /\ StatsName = out)
    BY <2>1 DEF IInv, Types
  <2>3. tof = "open" => fs[out] = Empty
    BY <2>1 DEF Made
  <2>4. tof # "open" => fs[out] \in {original[out], Stats}
    BY <2>1 DEF Made
  <2>5. Run' = Run /\ Input' = Input /\ (WritesStats' <=> WritesStats) /\ StatsName' = StatsName
    BY <2>1 DEF Run, FirstPasses, WritesStats, StatsName, Input, Emptied, Parsed,
       UsesToolOutputFile
  <2>6. SuccessIsOutput' /\ NothingHalf' /\ Lost'
    BY <2>1 DEF SuccessIsOutput, NothingHalf, Lost
  <2>7. QED
    BY <2>1, <2>2, <2>3, <2>4, <2>5, <2>6 DEF Made, UsesToolOutputFile
<1>3. QED
  BY <1>1, <1>2

\* In p4 the statistics are not the output: their name is longer.
LEMMA StatsApart == Types /\ out \in DOMAIN StatsOf /\ tool = "p4" => StatsName # out
  BY OptDriverAssumption DEF StatsName

LEMMA FinalWanted ==
    ASSUME Types, tool # "p4" \/ Input.valid, Input.kind = "module",
           Input.passes = << >>, M = With(Input, Run), Verified
    PROVE  Final = Wanted /\ Fits
<1> DEFINE m == Input
<1>1. m \in ModuleType
  BY InputTyped
<1>2. M.kind = "module" /\ M.valid = m.valid
  BY <1>1, WithParts
<1>3. Fits
  BY <1>2 DEF Fits, Verified, Types, AllTools
<1>4. CASE tool # "p4"
  <2>1. Final = With(m, Run)
    BY <1>4 DEF Final
  <2>2. CASE tool \in {"dce", "dcecpp"}
    <3>1. Run = <<"dce">>
      BY <2>2 DEF Run
    <3>2. Wanted = With(m, <<"dce">>)
      BY <2>2 DEF Wanted
    <3>3. QED
      BY <1>3, <2>1, <3>1, <3>2
  <2>3. CASE tool \in {"p3", "p3cpp"}
    <3>1. Run = << >>
      BY <2>3 DEF Run
    <3>2. Wanted = With(m, << >>)
      BY <2>3 DEF Wanted
    <3>3. QED
      BY <1>3, <2>1, <3>1, <3>2
  <2>4. QED
    BY <1>3, <1>4, <2>2, <2>3 DEF Types, AllTools
<1>5. CASE tool = "p4"
  <2> DEFINE a == If("mem2reg" \in options, "mem2reg")
             c == If("no-cse" \notin options, "cse")
             e == <<"dce", "simplifycfg">>
  <2>1. /\ a \in Seq(PassNames) /\ c \in Seq(PassNames)
        /\ e \in Seq(PassNames) /\ <<"dce">> \in Seq(PassNames)
    <3>1. \A p \in PassNames : <<p>> \in Seq(PassNames)
      OBVIOUS
    <3>2. \A x : \A p \in PassNames : If(x, p) \in Seq(PassNames)
      BY <3>1 DEF If
    <3>3. "mem2reg" \in PassNames /\ "cse" \in PassNames /\ "dce" \in PassNames
      BY DEF PassNames
    <3>4. e \in Seq(PassNames)
      BY DEF PassNames
    <3>5. QED
      BY <3>1, <3>2, <3>3, <3>4
  <2>2. Run = (a \o <<"dce">>) \o c
    BY <1>5 DEF Run, FirstPasses, If
  <2> HIDE DEF a, c, e
  <2>3. Run \in Seq(PassNames)
    BY <2>1, <2>2
  <2>4. M = [m EXCEPT !.passes = Run]
    <3>1. << >> \o Run = Run
      BY <2>3
    <3>2. QED
      BY <3>1 DEF With
  <2>5. M.passes = Run
    BY <1>1, <2>4 DEF ModuleType
  <2>6. Final = [M EXCEPT !.passes = Run \o e]
    BY <1>5, <2>5 DEF Final, With, e
  <2>7. Final = [m EXCEPT !.passes = Run \o e]
    BY <1>1, <2>4, <2>6 DEF ModuleType
  <2>8. Wanted = With(m, a \o <<"dce">> \o c \o e)
    BY <1>5 DEF Wanted, a, c, e
  <2>9. Wanted = [m EXCEPT !.passes = a \o <<"dce">> \o c \o e]
    BY <2>1, <2>8 DEF With
  <2>10. QED
    BY <1>3, <2>2, <2>7, <2>9
<1>6. QED
  BY <1>3, <1>4, <1>5

LEMMA WriteMade == IInv /\ Made /\ Write => Made'
<1> SUFFICES ASSUME IInv, Made, Write PROVE Made'
  OBVIOUS
<1>1. /\ pc = "write" /\ pc' = "exit" /\ UNCHANGED <<command, tof, M>> /\ status' \in {"ok", "failed"}
      /\ UNCHANGED <<tool, in, out, options, original, locked>>
  BY DEF Write, Exit, command
<1>2. /\ M = With(Input, Run) /\ Input.kind = "module"
      /\ Input.passes = << >>
      /\ tool = "p4" => Input.valid
  BY <1>1 DEF Made
<1>3. Input \in ModuleType /\ out \in Names /\ fs \in [Names -> ModuleType]
  BY InputTyped DEF IInv, Types
<1>4. CASE ~Verified
  <2>1. tool \in {"dce", "dcecpp"} /\ ~Input.valid
    BY <1>2, <1>3, <1>4, WithParts DEF Verified
  <2>2. ~Emptied
    BY <2>1, Constructors DEF Input
  <2>3. QED
    BY <1>1, <1>4, <2>1, <2>2, CleanedMade DEF Write
<1>5. CASE Verified
  <2>1. Final = Wanted /\ Fits
    BY <1>2, <1>5, FinalWanted DEF IInv
  <2>2. Wanted' = Wanted /\ (Fits' <=> Fits) /\ Input' = Input /\ (Emptied' <=> Emptied)
    BY <1>1 DEF Wanted, Fits, Input, Emptied, Parsed, UsesToolOutputFile
  <2>3. \/ fs'[out] = Wanted
        \/ tool = "p3cpp" /\ out = StatsOf[in]
        \/ /\ fs'[out] \in {original[out], Stats}
           /\ status' # "ok" \/ (~UsesToolOutputFile /\ out \in locked)
    <3>1. CASE tof = "open"
      <4>1. fs' = [fs EXCEPT ![out] = IF @ = Empty THEN Final ELSE Mixed]
        BY <1>1, <1>5, <3>1 DEF Write, IInv, Progress
      <4>2. CASE fs[out] = Empty
        BY <1>3, <2>1, <4>1, <4>2
      <4>3. CASE fs[out] # Empty
        <5>1. WritesStats /\ StatsName = out /\ UsesToolOutputFile
          BY <1>1, <3>1, <4>3 DEF Made, IInv, Progress
        <5>2. QED
          BY <5>1, StatsApart DEF Made, IInv, StatsName, UsesToolOutputFile, WritesStats
      <4>4. QED
        BY <4>2, <4>3
    <3>2. CASE tof = "failed"
      <4>1. fs' = fs /\ status' = "failed"
        BY <1>5, <3>2 DEF Write, Exit, IInv, Progress
      <4>2. QED
        BY <1>1, <3>2, <4>1 DEF Made
    <3>3. CASE tof = "none"
      <4>1. ~UsesToolOutputFile
        BY <1>1, <3>3 DEF Made
      <4>2. fs' = IF out \in locked THEN fs ELSE [fs EXCEPT ![out] = Final]
        BY <1>5, <3>3, <4>1 DEF Write
      <4>3. fs[out] \in {original[out], Stats}
        BY <1>1, <3>3 DEF Made
      <4>4. QED
        BY <1>3, <2>1, <4>1, <4>2, <4>3
    <3>4. QED
      BY <3>1, <3>2, <3>3 DEF IInv, Types
  <2>4. SuccessIsOutput'
    BY <1>1, <2>1, <2>2, <2>3 DEF SuccessIsOutput, UsesToolOutputFile
  <2>5. NothingHalf'
    BY <1>1, <2>1, <2>2, <2>3 DEF NothingHalf
  <2>6. Lost'
    <3>1. Emptied => status' = "ok"
      BY <1>1, <1>5 DEF Write, Exit, Emptied, Made, IInv, Progress
    <3>2. QED
      BY <2>2, <3>1 DEF Lost
  <2>7. QED
    BY <1>1, <2>2, <2>4, <2>5, <2>6 DEF Made
<1>6. QED
  BY <1>4, <1>5

LEMMA NextMade == IInv /\ Made /\ [Next]_vars => Made'
<1>1. IInv /\ Made /\ UNCHANGED vars => Made'
  <2> SUFFICES ASSUME IInv, Made, UNCHANGED vars PROVE Made'
    OBVIOUS
  <2>1. UNCHANGED <<tool, in, out, options, original, locked, fs, tof, M, pc, status>>
    BY DEF vars, command
  <2>2. Input' = Input /\ (Emptied' <=> Emptied)
    BY <2>1 DEF Input, Emptied, Parsed, UsesToolOutputFile
  <2>3. SuccessIsOutput' /\ NothingHalf' /\ Lost'
    BY <2>1, <2>2 DEF Made, SuccessIsOutput, NothingHalf, Lost, Wanted, Fits, UsesToolOutputFile
  <2>4. QED
    BY <2>1, <2>2, <2>3 DEF Made, Run, FirstPasses, UsesToolOutputFile, WritesStats, StatsName
<1>2. QED
  BY <1>1, OpenMade, ReadMade, PassesMade, SummarizeMade, WriteMade DEF Next

LEMMA MadeInvariance == Spec => [](IInv /\ Made)
<1>1. IInv /\ Made /\ [Next]_vars => IInv' /\ Made'
  BY NextIInv, NextMade
<1>2. Init => IInv /\ Made
  BY InitIInv, InitMade
<1>3. QED
  BY <1>1, <1>2, PTL DEF Spec

\* After a success the output is what the command makes of its input (where they
\* are one file that the tool opens first, of an empty module), and whatever way
\* a run ends it is never half of something, with the exceptions that OutputSound
\* names.
THEOREM OutputThm == Spec => []OutputSound
<1>1. Made => SuccessIsOutput /\ NothingHalf
  BY DEF Made
<1>2. QED
  BY <1>1, MadeInvariance, TypeThm, PTL DEF OutputSound

\* The input is lost only to a command that names it as the output or as p4's
\* statistics; as the output, a C tool that fails leaves it, and a tool that
\* opens its output first always loses it, and succeeds with an empty module
\* unless the statistics crash it.
THEOREM OriginalThm == Spec => []OriginalKept
<1>1. IInv /\ Made => OriginalKept
  <2> SUFFICES ASSUME IInv, Made PROVE OriginalKept
    OBVIOUS
  <2>1. Emptied /\ status = "ok" => fs[in] = Wanted
    <3>1. Emptied => Input.valid /\ UsesToolOutputFile /\ in = out
      BY Constructors DEF Emptied, Input
    <3>2. in \in Files => StatsOf[in] # in
      BY OptDriverAssumption
    <3>3. QED
      BY <3>1, <3>2 DEF Made, SuccessIsOutput, IInv, Types
  <2>2. QED
    BY <2>1 DEF IInv, Progress, Kept, Made, Lost, OriginalKept
<1>2. QED
  BY <1>1, MadeInvariance, PTL

-----------------------------------------------------------------------------
\* The cache of trees (Dominance).

\* The operators of FiniteSets are the same in each instance.
LEMMA Counts ==
    ASSUME NEW S
    PROVE  D!Cardinality(S) = Cardinality(S) /\ I!Cardinality(S) = Cardinality(S)
  BY DEF D!Cardinality, I!Cardinality, Cardinality

\* Positions and blocks: a set of numbers that is not empty has a least one.
Below == {p \in Nat \X Nat : p[1] < p[2]}

LEMMA Smallest ==
    ASSUME NEW T \in SUBSET Nat, T # {}
    PROVE  \E x \in T : \A y \in T : x <= y
<1>1. IsWellFoundedOn(Below, Nat)
  BY NatLessThanWellFounded, Zenon DEF OpToRel, Below
<1>2. PICK x \in T : \A y \in T : <<y, x>> \notin Below
  BY <1>1, WFMin, Zenon
<1>3. \A i, j \in Nat : <<i, j>> \in Below <=> i < j
  BY DEF Below
<1>4. ASSUME NEW y \in T PROVE x <= y
  <2>1. x \in Nat /\ y \in Nat
    OBVIOUS
  <2>2. ~(y < x)
    BY <1>2, <1>3, <2>1
  <2>3. QED
    BY <2>1, <2>2
<1>5. QED
  BY <1>4

LEMMA LeastIs ==
    ASSUME NEW S \in SUBSET (Nat \ {0})
    PROVE  \/ S = {} /\ D!Least(S) = D!NULL
           \/ D!Least(S) \in S /\ D!Least(S) # D!NULL /\ \A d \in S : D!Least(S) <= d
<1>1. CASE S = {}
  BY <1>1 DEF D!Least
<1>2. CASE S # {}
  <2>1. \E c \in S : \A d \in S : c <= d
    BY <1>2, Smallest
  <2>2. PICK c \in S : c = (CHOOSE x \in S : \A d \in S : x <= d) /\ \A d \in S : c <= d
    BY <2>1
  <2>3. D!Least(S) = c
    BY <1>2, <2>2 DEF D!Least
  <2>4. QED
    BY <2>2, <2>3 DEF D!NULL
<1>3. QED
  BY <1>1, <1>2

LEMMA BlocksFinite ==
    ASSUME NEW t, D!IsFlowGraph(t)
    PROVE  D!Blocks(t) \in SUBSET (Nat \ {0}) /\ IsFiniteSet(D!Blocks(t))
<1>1. Len(t) \in Nat /\ D!Blocks(t) = 1..Len(t)
  BY DEF D!IsFlowGraph, D!Blocks
<1>2. IsFiniteSet(1..Len(t))
  BY <1>1, FS_Interval
<1>3. QED
  BY <1>1, <1>2

\* A block that is not reachable dominates nothing immediately.
LEMMA ChildHasNode ==
    ASSUME NEW t, D!IsFlowGraph(t), NEW b \in D!Blocks(t), ~D!Node(t, b)
    PROVE  D!Children(t, b) = {}
<1> SUFFICES ASSUME NEW c \in D!Blocks(t), D!IDom(t, c) = b PROVE D!isReachable(t, b)
  BY DEF D!Children, D!Node
<1> DEFINE S == {a \in D!Blocks(t) \ {c} : D!isReachable(t, a) /\ D!Dom(t, a, c)}
<1>1. b # D!NULL
  BY BlocksFinite DEF D!NULL
<1>2. D!IDom(t, c) = D!NearestBy(S, LAMBDA a, e : D!Dom(t, a, e))
  BY <1>1 DEF D!IDom
<1>3. b \in S
  BY <1>1, <1>2 DEF D!NearestBy
<1>4. QED
  BY <1>3

-----------------------------------------------------------------------------
\* The invariant.

WalkType ==
    [fun : Funs \cup {D!None}, b : Nat, child : Nat \cup {D!Crash}, seen : Seq(Nat), steady : BOOLEAN]

TreeTypes == D!TypeOK /\ walk \in WalkType

\* The trees are those of the function asked about last, as it was then; as it
\* is, if it has not changed.
Fresh ==
    /\ Current = last
    /\ Current # D!None /\ clean => DT = graph[Current]

\* What LI has analysed.
Analysed ==
    /\ \A f \in Funs \ asked : LI[f].times = 0
    /\ asked # {} => Current # D!None /\ LI[Current].times # 0
    /\ \A f \in Funs : asked = {f} => LI[f] = [times |-> 1, g |-> DT]

Listed(s, S) == {s[i] : i \in DOMAIN s} = S /\ Len(s) = Cardinality(S)

\* A walk over a function that stays as it is has seen the children before the
\* one it is at.
Underway ==
    /\ walk # D!Idle => walk.fun \in Funs /\ walk.b \in D!Blocks(graph[walk.fun])
    /\ walk # D!Idle /\ walk.steady =>
          /\ Current = walk.fun => DT = graph[walk.fun]
          /\ LET C == D!Children(graph[walk.fun], walk.b) IN
                \/ walk.child = D!NULL /\ Listed(walk.seen, C)
                \/ /\ walk.child \in C /\ walk.child # D!NULL
                   /\ Listed(walk.seen, {c \in C : c < walk.child})

TreeInv == TreeTypes /\ Fresh /\ Analysed /\ Underway
CacheTypes ==
    /\ Current \in Funs \cup {D!None}
    /\ DT \in Graphs \cup {D!NoGraph}
    /\ LI \in [Funs -> [times : 0..2, g : Graphs \cup {D!NoGraph}]]
    /\ asked \subseteq Funs
    /\ last \in asked \cup {D!None}
    /\ clean \in BOOLEAN

\* A question about f, whatever else the step does.
LEMMA Consulted ==
    ASSUME D!DominanceAssumption, TreeTypes, Fresh, Analysed, NEW f \in Funs,
           D!UpdateDominators(f), D!Asks(f), graph' = graph
    PROVE  /\ CacheTypes' /\ Fresh' /\ Analysed'
           /\ Current' = f
           /\ DT' = IF Current = f THEN DT ELSE graph[f]
<1>1. f # D!None /\ graph[f] \in Graphs
  BY DEF D!DominanceAssumption, TreeTypes, D!TypeOK
<1>2. asked' = asked \cup {f} /\ last' = f /\ clean' = IF f = last THEN clean ELSE TRUE
  BY DEF D!Asks
<1>3. CASE Current = f
  <2>1. UNCHANGED <<Current, DT, LI>>
    BY <1>3 DEF D!UpdateDominators, D!Outdated, D!cache
  <2>2. CacheTypes'
    BY <1>2, <2>1 DEF CacheTypes, TreeTypes, D!TypeOK
  <2>3. Fresh'
    BY <1>1, <1>2, <1>3, <2>1 DEF Fresh
  <2>4. asked # {} /\ f \in asked
    BY <1>1, <1>3 DEF Fresh, TreeTypes, D!TypeOK
  <2>5. asked' = asked
    BY <1>2, <2>4
  <2>6. Analysed'
    BY <2>1, <2>5 DEF Analysed
  <2>7. QED
    BY <1>3, <2>1, <2>2, <2>3, <2>6
<1>4. CASE Current # f
  <2>1. Current' = f /\ DT' = graph[f] /\ LI' = D!Analyzed(f)
    BY <1>4 DEF D!UpdateDominators, D!Outdated
  <2>2. LI \in [Funs -> [times : 0..2, g : Graphs \cup {D!NoGraph}]]
    BY DEF TreeTypes, D!TypeOK
  <2>3. LI' = [LI EXCEPT ![f] = [times |-> IF LI[f].times = 0 THEN 1 ELSE 2, g |-> graph[f]]]
    BY <2>1 DEF D!Analyzed
  <2>4. /\ LI'[f] = [times |-> IF LI[f].times = 0 THEN 1 ELSE 2, g |-> graph[f]]
        /\ \A h \in Funs : h # f => LI'[h] = LI[h]
    BY <2>2, <2>3
  <2>5. LI' \in [Funs -> [times : 0..2, g : Graphs \cup {D!NoGraph}]]
    <3>1. [times |-> IF LI[f].times = 0 THEN 1 ELSE 2, g |-> graph[f]]
             \in [times : 0..2, g : Graphs \cup {D!NoGraph}]
      BY <1>1
    <3>2. QED
      BY <2>2, <2>3, <3>1
  <2>6. CacheTypes'
    BY <1>1, <1>2, <2>1, <2>5 DEF CacheTypes, TreeTypes, D!TypeOK
  <2>7. Fresh'
    BY <1>2, <2>1 DEF Fresh
  <2>8. LI'[f].times # 0
    BY <2>4
  <2>9. ASSUME NEW h \in Funs, asked' = {h} PROVE LI'[h] = [times |-> 1, g |-> DT']
    <3>1. h = f /\ (asked = {} \/ asked = {f})
      BY <1>2, <2>9
    <3>2. asked = {f} => Current = f
      BY DEF Fresh, Analysed, TreeTypes, D!TypeOK
    <3>3. LI[f].times = 0
      BY <1>4, <3>1, <3>2 DEF Analysed
    <3>4. QED
      BY <2>1, <2>4, <3>1, <3>3
  <2>10. Analysed'
    BY <1>1, <1>2, <2>1, <2>4, <2>8, <2>9 DEF Analysed, TreeTypes, D!TypeOK
  <2>11. QED
    BY <1>4, <2>1, <2>6, <2>7, <2>10
<1>5. QED
  BY <1>3, <1>4

\* A question about any function leaves a walk what it is.
LEMMA WalkKept ==
    ASSUME Underway, NEW f, Current' = f, DT' = (IF Current = f THEN DT ELSE graph[f]),
           UNCHANGED <<graph, walk>>
    PROVE  Underway'
  BY DEF Underway

LEMMA NoLoopInfoAsked ==
    ASSUME TreeTypes, Analysed PROVE D!NoLoopInfo <=> asked = {}
<1>1. asked = {} => D!NoLoopInfo
  BY DEF Analysed, D!NoLoopInfo
<1>2. asked # {} => Current \in Funs
  BY DEF Analysed, TreeTypes, D!TypeOK
<1>3. QED
  BY <1>1, <1>2 DEF Analysed, D!NoLoopInfo

LEMMA QueryStep ==
    ASSUME D!DominanceAssumption, TreeInv, NEW f \in Funs, D!Query(f) PROVE TreeInv'
<1>1. CacheTypes' /\ Fresh' /\ Analysed' /\ Current' = f
      /\ DT' = IF Current = f THEN DT ELSE graph[f]
  BY Consulted DEF TreeInv, D!Query
<1>2. Underway'
  BY <1>1, WalkKept DEF TreeInv, D!Query
<1>3. QED
  BY <1>1, <1>2 DEF TreeInv, D!Query, TreeTypes, D!TypeOK, CacheTypes

LEMMA DepthStep ==
    ASSUME D!DominanceAssumption, TreeInv, NEW f \in Funs, D!GetLoopNestingDepth(f) PROVE TreeInv'
<1>1. UNCHANGED <<graph, walk, edits>>
  BY DEF D!GetLoopNestingDepth
<1>2. CASE asked = {}
  <2>1. D!UpdateDominators(f) /\ D!Asks(f)
    BY <1>2, NoLoopInfoAsked DEF TreeInv, D!GetLoopNestingDepth
  <2>2. CacheTypes' /\ Fresh' /\ Analysed' /\ Current' = f
        /\ DT' = IF Current = f THEN DT ELSE graph[f]
    BY <1>1, <2>1, Consulted DEF TreeInv
  <2>3. Underway'
    BY <1>1, <2>2, WalkKept DEF TreeInv
  <2>4. QED
    BY <1>1, <2>2, <2>3 DEF TreeInv, TreeTypes, D!TypeOK, CacheTypes
<1>3. CASE asked # {}
  <2>1. UNCHANGED <<Current, DT, LI, last, clean>> /\ asked' = asked \cup {f}
    BY <1>3, NoLoopInfoAsked DEF TreeInv, D!GetLoopNestingDepth, D!cache
  <2>2. TreeTypes' /\ Fresh'
    BY <1>1, <2>1 DEF TreeInv, TreeTypes, D!TypeOK, Fresh
  <2>3. ASSUME NEW h \in Funs, asked' = {h} PROVE asked = {h}
    BY <1>3, <2>1, <2>3
  <2>4. Analysed'
    BY <1>3, <2>1, <2>3 DEF TreeInv, Analysed
  <2>5. Underway'
    BY <1>1, <2>1 DEF TreeInv, Underway
  <2>6. QED
    BY <2>2, <2>4, <2>5 DEF TreeInv
<1>4. QED
  BY <1>2, <1>3
-----------------------------------------------------------------------------
\* The walks.

LEMMA ChildrenFinite ==
    ASSUME NEW t, D!IsFlowGraph(t), NEW b
    PROVE  D!Children(t, b) \in SUBSET (Nat \ {0}) /\ IsFiniteSet(D!Children(t, b))
<1>1. D!Children(t, b) \subseteq D!Blocks(t)
  BY DEF D!Children
<1>2. QED
  BY <1>1, BlocksFinite, FS_Subset

\* The first child, or all of none.
LEMMA FirstStarts ==
    ASSUME NEW t, D!IsFlowGraph(t), NEW b \in D!Blocks(t)
    PROVE  LET C == D!Children(t, b)  c == D!FirstDomChild(t, b) IN
              \/ c = D!NULL /\ Listed(<<>>, C)
              \/ c \in C /\ c # D!NULL /\ Listed(<<>>, {d \in C : d < c})
<1> DEFINE C == D!Children(t, b)  c == D!FirstDomChild(t, b)
<1>1. C \in SUBSET (Nat \ {0})
  BY ChildrenFinite
<1>2. Listed(<<>>, {})
  BY FS_EmptySet DEF Listed
<1>3. CASE c = D!NULL
  <2>1. C = {}
    <3>1. CASE D!Node(t, b)
      BY <1>1, <1>3, <3>1, LeastIs DEF D!FirstDomChild
    <3>2. CASE ~D!Node(t, b)
      BY <3>2, ChildHasNode
    <3>3. QED
      BY <3>1, <3>2
  <2>2. QED
    BY <1>2, <1>3, <2>1
<1>4. CASE c # D!NULL
  <2>1. c = D!Least(C)
    BY <1>4 DEF D!FirstDomChild
  <2>2. c \in C /\ \A d \in C : c <= d
    BY <1>1, <1>4, <2>1, LeastIs
  <2>3. {d \in C : d < c} = {}
    BY <1>1, <2>2
  <2>4. QED
    BY <1>2, <1>4, <2>2, <2>3
<1>5. QED
  BY <1>3, <1>4

\* From a child to the next.
LEMMA NextFollows ==
    ASSUME NEW t, D!IsFlowGraph(t), NEW b \in D!Blocks(t), NEW c \in D!Children(t, b),
           NEW s \in Seq(Nat),
           Listed(s, {d \in D!Children(t, b) : d < c})
    PROVE  LET C == D!Children(t, b)  n == D!NextDomChild(t, b, c) IN
              \/ n = D!NULL /\ Listed(Append(s, c), C)
              \/ n \in C /\ n # D!NULL /\ Listed(Append(s, c), {d \in C : d < n})
<1> DEFINE C == D!Children(t, b)  n == D!NextDomChild(t, b, c)
           Lower(x) == {d \in C : d < x}  Later == {d \in C : d > c}
<1>1. C \in SUBSET (Nat \ {0}) /\ IsFiniteSet(C)
  BY ChildrenFinite
<1>2. IsFiniteSet(Lower(c)) /\ c \notin Lower(c)
  BY <1>1, FS_Subset
<1>3. Cardinality(Lower(c) \cup {c}) = Cardinality(Lower(c)) + 1
  BY <1>2, FS_AddElement
<1>4. Listed(Append(s, c), Lower(c) \cup {c})
  <2>1. Append(s, c) \in Seq(Nat) /\ Len(Append(s, c)) = Len(s) + 1 /\ Len(s) \in Nat
    BY <1>1
  <2>2. \A i \in 1..Len(s) : Append(s, c)[i] = s[i]
    BY <1>1
  <2>3. Append(s, c)[Len(s) + 1] = c /\ DOMAIN s = 1..Len(s)
    BY <1>1
  <2>4. {Append(s, c)[i] : i \in 1..(Len(s) + 1)} = {s[i] : i \in 1..Len(s)} \cup {c}
    <3>1. 1..(Len(s) + 1) = 1..Len(s) \cup {Len(s) + 1}
      BY <2>1
    <3>2. QED
      BY <2>2, <2>3, <3>1
  <2>5. DOMAIN Append(s, c) = 1..(Len(s) + 1)
    BY <2>1
  <2>6. QED
    BY <1>3, <2>1, <2>3, <2>4, <2>5 DEF Listed
<1>5. n = D!Least(Later)
  <2>1. D!Node(t, b)
    BY ChildHasNode
  <2>2. QED
    BY <2>1 DEF D!NextDomChild
<1>6. Later \in SUBSET (Nat \ {0})
  BY <1>1
<1>7. CASE Later = {}
  <2>1. n = D!NULL
    BY <1>5, <1>6, <1>7, LeastIs
  <2>2. C = Lower(c) \cup {c}
    BY <1>1, <1>7
  <2>3. QED
    BY <1>4, <2>1, <2>2
<1>8. CASE Later # {}
  <2>1. n \in Later /\ n # D!NULL /\ \A d \in Later : n <= d
    BY <1>5, <1>6, <1>8, LeastIs
  <2>2. Lower(n) = Lower(c) \cup {c}
    BY <1>1, <2>1
  <2>3. QED
    BY <1>4, <2>1, <2>2
<1>9. QED
  BY <1>7, <1>8

LEMMA WalkFromStep ==
    ASSUME D!DominanceAssumption, TreeInv, NEW f \in Funs, NEW b \in D!Blocks(graph[f]),
           D!WalkFrom(f, b)
    PROVE  TreeInv'
<1>1. CacheTypes' /\ Fresh' /\ Analysed' /\ Current' = f
      /\ DT' = IF Current = f THEN DT ELSE graph[f]
  BY Consulted DEF TreeInv, D!WalkFrom
<1>2. f # D!None /\ graph[f] \in Graphs /\ D!IsFlowGraph(graph[f])
  BY DEF D!DominanceAssumption, TreeInv, TreeTypes, D!TypeOK
<1>3. /\ UNCHANGED <<graph, edits>>
      /\ walk' = [fun |-> f, b |-> b, child |-> D!FirstDomChild(DT', b),
                  seen |-> <<>>, steady |-> clean']
  BY DEF D!WalkFrom
<1>4. clean' => DT' = graph[f]
  BY <1>1, <1>2, <1>3 DEF Fresh
<1>5. DT' \in Graphs \cup {D!NoGraph} /\ clean' \in BOOLEAN
  BY <1>1 DEF CacheTypes
<1>6. D!FirstDomChild(DT', b) \in Nat
  <2>1. D!Children(DT', b) \in SUBSET (Nat \ {0})
    <3>1. CASE DT' = D!NoGraph
      BY <3>1 DEF D!NoGraph, D!Children, D!Blocks
    <3>2. CASE DT' \in Graphs
      BY <3>2, ChildrenFinite DEF D!DominanceAssumption
    <3>3. QED
      BY <1>5, <3>1, <3>2
  <2>2. QED
    BY <2>1, LeastIs DEF D!FirstDomChild, D!NULL
<1>7. b \in Nat
  BY <1>2, BlocksFinite
<1>8. TreeTypes'
  BY <1>1, <1>3, <1>5, <1>6, <1>7 DEF TreeInv, TreeTypes, D!TypeOK, CacheTypes, WalkType
<1>9. Underway'
  <2>1. ASSUME clean' PROVE Underway'
    <3>1. DT' = graph[f] /\ graph'[f] = graph[f] /\ Current' = f
      BY <1>1, <1>3, <1>4, <2>1
    <3>2. /\ walk'.fun = f /\ walk'.b = b /\ walk'.seen = <<>>
          /\ walk'.child = D!FirstDomChild(graph[f], b)
      BY <1>3, <3>1
    <3>3. LET C == D!Children(graph[f], b) IN
             \/ walk'.child = D!NULL /\ Listed(<<>>, C)
             \/ /\ walk'.child \in C /\ walk'.child # D!NULL
                /\ Listed(<<>>, {c \in C : c < walk'.child})
      BY <1>2, <3>2, FirstStarts
    <3>4. b \in D!Blocks(graph'[f])
      BY <3>1
    <3>5. QED
      BY <3>1, <3>2, <3>3, <3>4, Zenon DEF Underway
  <2>2. ASSUME ~clean' PROVE Underway'
    BY <1>3, <2>2 DEF Underway
  <2>3. QED
    BY <2>1, <2>2
<1>10. QED
  BY <1>1, <1>8, <1>9 DEF TreeInv

LEMMA WalkOnStep ==
    ASSUME D!DominanceAssumption, TreeInv, walk.child # D!Crash, D!WalkOn PROVE TreeInv'
<1> DEFINE f == walk.fun
<1>1. walk # D!Idle
  BY DEF D!WalkOn, D!Idle
<1>2. f \in Funs /\ graph[f] \in Graphs /\ D!IsFlowGraph(graph[f])
  BY <1>1 DEF D!DominanceAssumption, TreeInv, TreeTypes, D!TypeOK, Underway
<1>3. CacheTypes' /\ Fresh' /\ Analysed' /\ Current' = f
      /\ DT' = IF Current = f THEN DT ELSE graph[f]
  BY <1>2, Consulted DEF TreeInv, D!WalkOn
<1>4. walk \in WalkType /\ walk.child \in Nat /\ walk.seen \in Seq(Nat)
      /\ walk.b \in D!Blocks(graph[f])
  BY <1>1 DEF TreeInv, TreeTypes, WalkType, Underway
<1>5. /\ UNCHANGED <<graph, edits>>
      /\ walk' = [walk EXCEPT !.seen = Append(walk.seen, walk.child),
                              !.child = D!NextDomChild(DT', walk.b, walk.child)]
  BY DEF D!WalkOn
<1>6. D!NextDomChild(DT', walk.b, walk.child) \in Nat \cup {D!Crash}
  <2>1. D!Children(DT', walk.b) \in SUBSET (Nat \ {0})
    <3>1. CASE DT' = D!NoGraph
      BY <3>1 DEF D!NoGraph, D!Children, D!Blocks
    <3>2. CASE DT' \in Graphs
      BY <3>2, ChildrenFinite DEF D!DominanceAssumption
    <3>3. QED
      BY <1>3, <3>1, <3>2 DEF CacheTypes
  <2>2. {d \in D!Children(DT', walk.b) : d > walk.child} \in SUBSET (Nat \ {0})
    BY <2>1
  <2>3. QED
    BY <2>2, LeastIs DEF D!NextDomChild, D!NULL
<1>7. /\ walk' \in WalkType
      /\ walk'.fun = f /\ walk'.b = walk.b /\ walk'.steady = walk.steady
      /\ walk'.seen = Append(walk.seen, walk.child)
      /\ walk'.child = D!NextDomChild(DT', walk.b, walk.child)
  <2>1. Append(walk.seen, walk.child) \in Seq(Nat)
    BY <1>4
  <2>2. QED
    BY <1>4, <1>5, <1>6, <2>1 DEF WalkType
<1>8. TreeTypes'
  BY <1>2, <1>3, <1>5, <1>7 DEF TreeInv, TreeTypes, D!TypeOK, CacheTypes
<1>9. Underway'
  <2>1. ASSUME walk.steady PROVE Underway'
    <3>1. DT' = graph[f]
      BY <1>1, <1>3, <2>1 DEF TreeInv, Underway
    <3>2. walk.child \in D!Children(graph[f], walk.b)
          /\ Listed(walk.seen, {c \in D!Children(graph[f], walk.b) : c < walk.child})
      BY <1>1, <2>1 DEF TreeInv, Underway, D!WalkOn
    <3> DEFINE C == D!Children(graph[f], walk.b)
               n == D!NextDomChild(graph[f], walk.b, walk.child)
               s == Append(walk.seen, walk.child)
    <3>3. \/ n = D!NULL /\ Listed(s, C)
          \/ n \in C /\ n # D!NULL /\ Listed(s, {d \in C : d < n})
      BY <1>2, <1>4, <3>2, NextFollows
    <3>4. /\ graph'[walk'.fun] = graph[f] /\ walk'.b = walk.b /\ walk'.seen = s
          /\ walk'.child = n /\ walk'.fun = f
      BY <1>5, <1>7, <3>1
    <3>5. QED
      BY <1>2, <1>4, <3>1, <3>3, <3>4, Zenon DEF Underway
  <2>2. ASSUME ~walk.steady PROVE Underway'
    BY <1>2, <1>4, <1>5, <1>7, <2>2 DEF Underway
  <2>3. walk.steady \in BOOLEAN
    BY <1>4 DEF WalkType
  <2>4. QED
    BY <2>1, <2>2, <2>3
<1>10. QED
  BY <1>3, <1>8, <1>9 DEF TreeInv

LEMMA WalkEndsStep == ASSUME TreeInv, D!WalkEnds PROVE TreeInv'
<1>1. walk' = D!Idle /\ UNCHANGED <<graph, edits, Current, DT, LI, asked, last, clean>>
  BY DEF D!WalkEnds, D!cache, D!client
<1>2. D!Idle \in WalkType /\ D!Idle.fun = D!None
  BY DEF D!Idle, WalkType, D!NULL
<1>3. QED
  BY <1>1, <1>2 DEF TreeInv, TreeTypes, D!TypeOK, Fresh, Analysed, Underway

LEMMA EditStep ==
    ASSUME D!DominanceAssumption, TreeInv, NEW f \in Funs, NEW h \in Graphs, D!Edit(f, h)
    PROVE  TreeInv'
<1>1. /\ UNCHANGED <<Current, DT, LI, asked, last>>
      /\ graph' = [graph EXCEPT ![f] = h] /\ edits < MaxEdits /\ edits' = edits + 1
      /\ clean' = IF f = last THEN FALSE ELSE clean
      /\ walk' = IF walk.fun = f THEN [walk EXCEPT !.steady = FALSE] ELSE walk
  BY DEF D!Edit, D!cache
<1>0. walk.fun = f => walk.b \in D!Blocks(h)
  BY DEF D!Edit
<1>2. graph' \in [Funs -> Graphs] /\ \A e \in Funs : e # f => graph'[e] = graph[e]
  BY <1>1 DEF TreeInv, TreeTypes, D!TypeOK
<1>3. walk' \in WalkType /\ walk'.fun = walk.fun
  BY <1>1 DEF TreeInv, TreeTypes, WalkType
<1>4. TreeTypes'
  <2>1. edits' \in 0..MaxEdits
    BY <1>1 DEF D!DominanceAssumption, TreeInv, TreeTypes, D!TypeOK
  <2>2. clean' \in BOOLEAN /\ walk'.fun \in Funs \cup {D!None}
    BY <1>1, <1>3 DEF TreeInv, TreeTypes, D!TypeOK
  <2>3. QED
    BY <1>1, <1>2, <1>3, <2>1, <2>2 DEF TreeInv, TreeTypes, D!TypeOK
<1>5. Fresh'
  BY <1>1, <1>2 DEF TreeInv, Fresh, TreeTypes, D!TypeOK
<1>6. Analysed'
  BY <1>1 DEF TreeInv, Analysed
<1>7. Underway'
  <2>1. CASE walk = D!Idle
    <3>1. walk' = D!Idle
      BY <1>1, <2>1 DEF D!DominanceAssumption, D!Idle
    <3>2. QED
      BY <3>1 DEF Underway
  <2>2. CASE walk # D!Idle /\ walk.fun = f
    <3>1. walk'.steady = FALSE
      BY <1>1, <2>2 DEF TreeInv, TreeTypes, WalkType
    <3>2. walk'.b = walk.b /\ graph'[f] = h
      BY <1>1, <2>2 DEF TreeInv, TreeTypes, D!TypeOK, WalkType
    <3>3. QED
      BY <1>0, <1>3, <2>2, <3>1, <3>2 DEF TreeInv, Underway
  <2>3. CASE walk # D!Idle /\ walk.fun # f
    <3>1. walk' = walk /\ walk.fun \in Funs
      BY <1>1, <2>3 DEF TreeInv, Underway
    <3>2. graph'[walk.fun] = graph[walk.fun]
      BY <1>2, <2>3, <3>1
    <3>3. QED
      BY <1>1, <3>1, <3>2 DEF TreeInv, Underway
  <2>4. QED
    BY <2>1, <2>2, <2>3
<1>8. QED
  BY <1>4, <1>5, <1>6, <1>7 DEF TreeInv

LEMMA InitTreeInv == ASSUME D!DominanceAssumption, D!Init PROVE TreeInv
<1>1. walk \in WalkType
  BY DEF D!Init, D!Idle, WalkType, D!NULL
<1>2. D!TypeOK
  BY DEF D!DominanceAssumption, D!Init, D!TypeOK, D!Idle
<1>3. QED
  BY <1>1, <1>2 DEF D!DominanceAssumption, D!Init, TreeInv, TreeTypes, Fresh, Analysed, Underway

LEMMA StepTreeInv == ASSUME D!DominanceAssumption, TreeInv, [D!Next]_(D!vars) PROVE TreeInv'
<1>1. ASSUME NEW f \in Funs, D!Query(f) PROVE TreeInv'
  BY <1>1, QueryStep
<1>2. ASSUME NEW f \in Funs, D!GetLoopNestingDepth(f) PROVE TreeInv'
  BY <1>2, DepthStep
<1>3. ASSUME NEW f \in Funs, NEW b \in D!Blocks(graph[f]), D!WalkFrom(f, b) PROVE TreeInv'
  BY <1>3, WalkFromStep
<1>4. ASSUME NEW f \in Funs, NEW h \in Graphs, D!Edit(f, h) PROVE TreeInv'
  BY <1>4, EditStep
<1>5. CASE D!WalkOn /\ walk.child # D!Crash
  BY <1>5, WalkOnStep
<1>6. CASE D!WalkEnds
  BY <1>6, WalkEndsStep
<1>7. CASE UNCHANGED D!vars
  BY <1>7 DEF D!vars, TreeInv, TreeTypes, D!TypeOK, Fresh, Analysed, Underway
<1>8. QED
  BY <1>1, <1>2, <1>3, <1>4, <1>5, <1>6, <1>7 DEF D!Next

LEMMA TreeInvSound == ASSUME D!DominanceAssumption, TreeInv PROVE D!AnswersSound
<1>1. ASSUME NEW f \in Funs, D!Trusts(f) PROVE D!TreeFor(f) = graph[f]
  BY <1>1 DEF D!DominanceAssumption, TreeInv, Fresh, D!Trusts, D!TreeFor, D!Outdated
<1>2. D!AnswersRight
  BY <1>1 DEF D!AnswersRight
<1>3. ASSUME NEW f \in Funs, D!Trusts(f), asked \subseteq {f}, NEW b \in D!Blocks(graph[f])
      PROVE  D!DepthFor(f, b) = {D!Depth(graph[f], b)}
  <2>1. CASE asked = {}
    <3>1. D!NoLoopInfo
      BY <2>1, NoLoopInfoAsked DEF TreeInv
    <3>2. LI[f].times # 1
      BY <3>1 DEF D!NoLoopInfo
    <3>3. QED
      BY <3>1, <3>2 DEF D!DepthFor
  <2>2. CASE asked = {f}
    <3>1. ~D!NoLoopInfo
      BY <2>2, NoLoopInfoAsked DEF TreeInv
    <3>2. LI[f].times = 1 /\ LI[f].g = DT
      BY <2>2 DEF TreeInv, Analysed
    <3>3. Current = f
      BY <2>2 DEF TreeInv, Fresh, Analysed, TreeTypes, D!TypeOK
    <3>4. DT = graph[f]
      BY <1>1, <1>3, <3>3 DEF D!TreeFor, D!Outdated
    <3>5. QED
      BY <3>1, <3>2, <3>4 DEF D!DepthFor
  <2>3. QED
    BY <1>3, <2>1, <2>2
<1>4. D!DepthOfFirst
  BY <1>3 DEF D!DepthOfFirst
<1>5. D!WalkComplete
  <2>1. walk.steady => walk.child # D!Crash
    <3>1. CASE walk = D!Idle
      BY <3>1 DEF D!Idle, D!NULL, D!Crash
    <3>2. CASE walk # D!Idle /\ walk.steady
      <4>1. walk.fun \in Funs /\ D!IsFlowGraph(graph[walk.fun])
        BY <3>2 DEF D!DominanceAssumption, TreeInv, Underway, TreeTypes, D!TypeOK
      <4>2. D!Children(graph[walk.fun], walk.b) \in SUBSET (Nat \ {0})
        BY <4>1, ChildrenFinite
      <4>3. QED
        BY <3>2, <4>2 DEF TreeInv, Underway, D!NULL, D!Crash
    <3>3. QED
      BY <3>1, <3>2
  <2>2. ASSUME walk # D!Idle, walk.child = D!NULL, walk.steady
        PROVE  Listed(walk.seen, D!Children(graph[walk.fun], walk.b))
    BY <2>2 DEF TreeInv, Underway
  <2>3. QED
    BY <2>1, <2>2, Counts DEF D!WalkComplete, Listed, D!Children
<1>6. QED
  BY <1>2, <1>4, <1>5 DEF D!AnswersSound, TreeInv, TreeTypes

\* Whatever functions there are and however they change: a pass that relies on
\* what it may rely on is told the truth of dominance and loops, and a walk
\* over the children of a block meets each of them once.
THEOREM AnswersThm == D!DominanceAssumption => (D!Spec => []TreesSound)
<1> SUFFICES ASSUME D!DominanceAssumption PROVE D!Spec => []TreesSound
  OBVIOUS
<1>1. D!Init => TreeInv
  BY InitTreeInv
<1>2. TreeInv /\ [D!Next]_(D!vars) => TreeInv'
  BY StepTreeInv
<1>3. TreeInv => TreesSound
  BY TreeInvSound DEF TreesSound
<1>4. QED
  BY <1>1, <1>2, <1>3, PTL DEF D!Spec

-----------------------------------------------------------------------------
\* Recursive definitions.

\* Induction, over a set of numbers.
LEMMA Induction ==
    ASSUME NEW S, 0 \in S, \A k \in Nat : k \in S => k + 1 \in S
    PROVE  Nat \subseteq S
<1> DEFINE T == Nat \ S
<1>1. SUFFICES ASSUME T # {} PROVE FALSE
  OBVIOUS
<1>2. PICK x \in T : \A y \in T : x <= y
  BY <1>1, Smallest
<1>3. x \in Nat /\ x # 0
  OBVIOUS
<1>4. x - 1 \in Nat /\ x - 1 \notin T
  BY <1>2, <1>3
<1>5. (x - 1) + 1 \in S
  BY <1>4
<1>6. QED
  BY <1>3, <1>5

\* Recursion: the value at k is what h makes of the one before.
Recursive(f, n, a, h) ==
    f = [k \in 0..n |-> IF k = 0 THEN a ELSE h[k][f[k - 1]]]

LEMMA Recursion ==
    ASSUME NEW X, NEW a \in X, NEW n \in Nat, NEW h \in [1..n -> [X -> X]]
    PROVE  \E f \in [0..n -> X] : Recursive(f, n, a, h)
<1> DEFINE S == {m \in Nat : m <= n => \E f \in [0..m -> X] : Recursive(f, m, a, h)}
<1>1. 0 \in S
  <2>1. [k \in 0..0 |-> a] \in [0..0 -> X]
    OBVIOUS
  <2>2. Recursive([k \in 0..0 |-> a], 0, a, h)
    BY DEF Recursive
  <2>3. QED
    BY <2>1, <2>2
<1>2. ASSUME NEW m \in Nat, m \in S PROVE m + 1 \in S
  <2> SUFFICES ASSUME m + 1 <= n PROVE \E f \in [0..(m+1) -> X] : Recursive(f, m + 1, a, h)
    OBVIOUS
  <2>1. PICK f \in [0..m -> X] : Recursive(f, m, a, h)
    BY <1>2
  <2> DEFINE v == h[m + 1][f[m]]
             e == [k \in 0..(m + 1) |-> IF k = m + 1 THEN v ELSE f[k]]
  <2>2. v \in X
    BY <2>1
  <2>3. e \in [0..(m + 1) -> X]
    BY <2>1, <2>2
  <2>4. ASSUME NEW k \in 0..(m + 1)
        PROVE  e[k] = IF k = 0 THEN a ELSE h[k][e[k - 1]]
    <3>1. CASE k = m + 1
      <4>1. e[k] = v /\ k - 1 = m /\ e[k - 1] = f[m] /\ k # 0
        BY <3>1
      <4>2. QED
        BY <3>1, <4>1
    <3>2. CASE k # m + 1
      <4>1. k \in 0..m /\ e[k] = f[k]
        BY <3>2
      <4>2. f[k] = IF k = 0 THEN a ELSE h[k][f[k - 1]]
        BY <2>1, <4>1 DEF Recursive
      <4>3. k # 0 => e[k - 1] = f[k - 1]
        BY <4>1
      <4>4. QED
        BY <4>1, <4>2, <4>3
    <3>3. QED
      BY <3>1, <3>2
  <2>5. Recursive(e, m + 1, a, h)
    BY <2>4 DEF Recursive
  <2>6. QED
    BY <2>3, <2>5
<1>3. n \in S
  BY <1>1, <1>2, Induction
<1>4. QED
  BY <1>3

-----------------------------------------------------------------------------
\* Walks.

Elems(s) == {s[i] : i \in DOMAIN s}
Before(s, p) == {s[i] : i \in 1..p}

LEMMA AppendIs ==
    ASSUME NEW T, NEW s \in Seq(T), NEW v \in T
    PROVE  /\ Append(s, v) \in Seq(T)
           /\ Elems(Append(s, v)) = Elems(s) \cup {v}
           /\ I!Distinct(s) /\ v \notin Elems(s) => I!Distinct(Append(s, v))
<1> DEFINE t == Append(s, v)
           n == Len(s)
<1>1. n \in Nat /\ DOMAIN s = 1..n /\ t \in Seq(T) /\ DOMAIN t = 1..(n + 1)
  OBVIOUS
<1>2. t[n + 1] = v /\ \A i \in 1..n : t[i] = s[i]
  OBVIOUS
<1>3. \A i \in 1..(n + 1) : i = n + 1 \/ i \in 1..n
  BY <1>1
<1>4. 1..n \subseteq 1..(n + 1) /\ n + 1 \in 1..(n + 1)
  BY <1>1
<1> HIDE DEF t, n
<1>5. Elems(t) = Elems(s) \cup {v}
  BY <1>1, <1>2, <1>3, <1>4, Zenon DEF Elems
<1>6. ASSUME I!Distinct(s), v \notin Elems(s), NEW i \in 1..(n + 1), NEW j \in 1..(n + 1), t[i] = t[j]
      PROVE  i = j
  <2>1. \A k \in 1..n : t[k] # v
    BY <1>1, <1>2, <1>6 DEF Elems
  <2>2. QED
    BY <1>1, <1>2, <1>3, <1>6, <2>1, Zenon DEF I!Distinct
<1>7. QED
  BY <1>1, <1>5, <1>6 DEF t, I!Distinct

\* What is in order is all of it, once each.
LEMMA InOrderIs ==
    ASSUME NEW n \in Nat, NEW S \in SUBSET (1..n)
    PROVE  LET s == I!InOrder(S, n) IN
              s \in Seq(S) /\ Elems(s) = S /\ I!Distinct(s)
<1> DEFINE h == [k \in 1..n |-> [s \in Seq(Nat) |-> IF k \in S THEN Append(s, k) ELSE s]]
           Def(f) == [k \in 0..n |->
                        IF k = 0 THEN <<>>
                        ELSE IF k \in S THEN Append(f[k - 1], k) ELSE f[k - 1]]
           F == CHOOSE f : f = Def(f)
<1>1. h \in [1..n -> [Seq(Nat) -> Seq(Nat)]] /\ <<>> \in Seq(Nat)
  OBVIOUS
<1>2. PICK f \in [0..n -> Seq(Nat)] : Recursive(f, n, <<>>, h)
  BY <1>1, Recursion
<1>3. f = Def(f)
  <2>1. \A k \in 0..n : k # 0 => k - 1 \in 0..n /\ k \in 1..n /\ f[k - 1] \in Seq(Nat)
    BY <1>2
  <2>2. \A k \in 0..n : k # 0 =>
           h[k][f[k - 1]] = IF k \in S THEN Append(f[k - 1], k) ELSE f[k - 1]
    BY <2>1
  <2>3. QED
    BY <1>2, <2>2 DEF Recursive
<1>4. F = Def(F)
  BY <1>3
<1>5. I!InOrder(S, n) = F[n]
  BY DEF I!InOrder
<1> DEFINE Right(k) ==
      /\ F[k] \in Seq(S \cap 1..k) /\ Elems(F[k]) = S \cap 1..k /\ I!Distinct(F[k])
           R == {k \in Nat : k <= n => Right(k)}
<1> HIDE DEF F
<1>6. 0 \in R
  <2>1. F[0] = <<>> /\ S \cap 1..0 = {}
    BY <1>4
  <2>2. Elems(<<>>) = {} /\ I!Distinct(<<>>)
    BY DEF Elems, I!Distinct
  <2>3. Right(0)
    BY <2>1, <2>2
  <2>4. QED
    BY <2>3
<1>7. ASSUME NEW k \in Nat, k \in R PROVE k + 1 \in R
  <2> SUFFICES ASSUME k + 1 <= n PROVE Right(k + 1)
    OBVIOUS
  <2> DEFINE s == F[k]
  <2>1. s \in Seq(S \cap 1..k) /\ Elems(s) = S \cap 1..k /\ I!Distinct(s)
    BY <1>7
  <2>2. F[k + 1] = IF k + 1 \in S THEN Append(s, k + 1) ELSE s
    <3>1. k + 1 \in 0..n /\ k + 1 # 0 /\ (k + 1) - 1 = k
      OBVIOUS
    <3>2. QED
      BY <1>4, <3>1
  <2>3. CASE k + 1 \notin S
    <3>1. ASSUME NEW i \in S PROVE i \in 1..(k + 1) <=> i \in 1..k
      <4>1. i \in Nat /\ i # k + 1
        BY <2>3
      <4>2. QED
        BY <4>1
    <3>2. QED
      BY <2>1, <2>2, <2>3, <3>1
  <2>4. CASE k + 1 \in S
    <3>1. S \cap 1..(k + 1) = (S \cap 1..k) \cup {k + 1} /\ k + 1 \notin S \cap 1..k
      BY <2>4
    <3>2. s \in Seq(S \cap 1..(k + 1)) /\ k + 1 \in S \cap 1..(k + 1)
      BY <2>1, <3>1
    <3> DEFINE T == S \cap 1..(k + 1)
    <3> HIDE DEF s, T
    <3>3. s \in Seq(T) /\ k + 1 \in T
      BY <3>2 DEF T
    <3>4. /\ Append(s, k + 1) \in Seq(T)
          /\ Elems(Append(s, k + 1)) = Elems(s) \cup {k + 1}
          /\ k + 1 \notin Elems(s) => I!Distinct(Append(s, k + 1))
      BY <2>1, <3>3, AppendIs
    <3>5. Elems(s) \cup {k + 1} = T /\ k + 1 \notin Elems(s)
      BY <2>1, <3>1 DEF T
    <3>6. F[k + 1] = Append(s, k + 1)
      BY <2>2, <2>4
    <3>7. QED
      BY <3>4, <3>5, <3>6 DEF T
  <2>5. QED
    BY <2>3, <2>4
<1>8. n \in R
  BY <1>6, <1>7, Induction
<1>9. S \cap 1..n = S
  OBVIOUS
<1> HIDE DEF Def
<1>10. Right(n)
  BY <1>8
<1>11. F[n] \in Seq(S) /\ Elems(F[n]) = S /\ I!Distinct(F[n])
  BY <1>9, <1>10
<1>12. QED
  BY <1>5, <1>11

LEMMA PredsTyped ==
    ASSUME NEW G \in Seq(Seq(Nat)), NEW x
    PROVE  I!Preds(G, x) \in Seq(1..Len(G))
<1> DEFINE n == Len(G)
           X == Seq(1..n)
           edges(k) == I!Cardinality({j \in DOMAIN G[k] : G[k][j] = x})
           more(k) == [i \in 1..edges(k) |-> k]
           h == [k \in 1..n |-> [s \in X |-> s \o more(k)]]
           Def(f) == [k \in 0..n |-> IF k = 0 THEN <<>> ELSE f[k - 1] \o more(k)]
           F == CHOOSE f : f = Def(f)
<1>1. n \in Nat /\ \A k \in 1..n : edges(k) \in Nat
  <2>1. ASSUME NEW k \in 1..n PROVE edges(k) \in Nat
    <3>1. G[k] \in Seq(Nat)
      OBVIOUS
    <3>2. IsFiniteSet(DOMAIN G[k])
      BY <3>1, FS_Interval
    <3>3. QED
      BY <3>2, FS_Subset, FS_CardinalityType, Counts
  <2>2. QED
    BY <2>1
<1>2. \A k \in 1..n : more(k) \in X
  <2> SUFFICES ASSUME NEW k \in 1..n PROVE more(k) \in X
    OBVIOUS
  <2>1. edges(k) \in Nat
    BY <1>1
  <2> HIDE DEF edges
  <2>2. more(k) \in [1..edges(k) -> 1..n]
    OBVIOUS
  <2>3. QED
    BY <2>1, <2>2
<1> HIDE DEF n, more
<1>3. h \in [1..n -> [X -> X]] /\ <<>> \in X
  BY <1>2
<1>4. PICK f \in [0..n -> X] : Recursive(f, n, <<>>, h)
  BY <1>1, <1>3, Recursion
<1>5. f = Def(f)
  <2>1. \A k \in 0..n : k # 0 => k - 1 \in 0..n /\ k \in 1..n /\ f[k - 1] \in X
    BY <1>1, <1>4
  <2>2. \A k \in 0..n : k # 0 => h[k][f[k - 1]] = f[k - 1] \o more(k)
    BY <2>1
  <2>3. QED
    BY <1>4, <2>2 DEF Recursive
<1>6. F = Def(F)
  BY <1>5
<1>7. I!Preds(G, x) = F[n]
  BY DEF I!Preds, more, n
<1> HIDE DEF F
<1> DEFINE R == {k \in Nat : k <= n => F[k] \in X}
<1>8. 0 \in R
  BY <1>1, <1>6
<1>9. ASSUME NEW k \in Nat, k \in R PROVE k + 1 \in R
  <2> SUFFICES ASSUME k + 1 <= n PROVE F[k + 1] \in X
    OBVIOUS
  <2>1. k + 1 \in 0..n /\ k + 1 # 0 /\ (k + 1) - 1 = k
    BY <1>1
  <2>2. F[k + 1] = F[k] \o more(k + 1)
    BY <1>6, <2>1
  <2>3. QED
    BY <1>1, <1>2, <1>9, <2>1, <2>2
<1>10. n \in R
  BY <1>1, <1>8, <1>9, Induction
<1>11. F[n] \in X
  BY <1>1, <1>10
<1>12. QED
  BY <1>7, <1>11 DEF n

\* What follows in a list.
Past(s, p) == IF p < Len(s) THEN s[p + 1] ELSE I!NULL

LEMMA FirstOccurrence ==
    ASSUME NEW B, NEW s \in Seq(B), NEW p \in 0..Len(s), NEW x \in Before(s, p)
    PROVE  \E i \in 1..p : s[i] = x /\ x \notin Before(s, i - 1)
<1> DEFINE T == {i \in 1..p : s[i] = x}
<1>1. T \in SUBSET Nat /\ T # {}
  BY DEF Before
<1>2. PICK i \in T : \A j \in T : i <= j
  BY <1>1, Smallest
<1>3. ASSUME NEW j \in 1..(i - 1), s[j] = x PROVE FALSE
  <2>1. j \in T /\ ~(i <= j)
    BY <1>2, <1>3
  <2>2. QED
    BY <1>2, <2>1
<1>4. QED
  BY <1>2, <1>3 DEF Before

LEMMA NextAfterIs ==
    ASSUME NEW B, NEW s \in Seq(B), NEW p \in 1..Len(s), s[p] \notin Before(s, p - 1)
    PROVE  I!NextAfter(s, s[p]) = Past(s, p)
<1> DEFINE Q(i) == i \in DOMAIN s /\ s[i] = s[p] /\ \A j \in 1..(i - 1) : s[j] # s[p]
           c == CHOOSE i \in DOMAIN s : s[i] = s[p] /\ \A j \in 1..(i - 1) : s[j] # s[p]
<1>1. DOMAIN s = 1..Len(s) /\ p \in DOMAIN s /\ Len(s) \in Nat
  OBVIOUS
<1>2. \A j \in 1..(p - 1) : s[j] # s[p]
  BY DEF Before
<1>3. Q(c)
  BY <1>1, <1>2
<1> HIDE DEF c
<1>4. c = p
  <2>1. c \in Nat /\ p \in Nat /\ c >= 1 /\ p >= 1
    BY <1>1, <1>3
  <2>2. ~(p < c)
    <3>1. p < c => p \in 1..(c - 1)
      BY <2>1
    <3>2. QED
      BY <1>3, <3>1
  <2>3. ~(c < p)
    <3>1. c < p => c \in 1..(p - 1)
      BY <2>1
    <3>2. QED
      BY <1>2, <1>3, <3>1
  <2>4. QED
    BY <2>1, <2>2, <2>3
<1>5. I!NextAfter(s, s[p]) = IF c = Len(s) THEN I!NULL ELSE s[c + 1]
  BY <1>1 DEF I!NextAfter, c
<1>6. QED
  BY <1>1, <1>4, <1>5 DEF Past

\* A client that goes along s, is at x and has met the blocks as m counts them
\* has met what is before its place, all of it once, or is sent back for ever.
Ahead(B, s, p, x, m) ==
    /\ x = Past(s, p) /\ x \notin Before(s, p)
    /\ \A i, j \in 1..p : s[i] = s[j] => i = j
    /\ m = [y \in B |-> IF y \in Before(s, p) THEN 1 ELSE 0]
SentBack(s, p, x) == p < Len(s) /\ s[p + 1] \in Before(s, p) /\ x \in Before(s, p)

Along(B, s, x, m) == \E p \in 0..Len(s) : Ahead(B, s, p, x, m) \/ SentBack(s, p, x)

Counted(m, x) == [m EXCEPT ![x] = IF @ = 0 THEN 1 ELSE 2]

LEMMA BeforeNext ==
    ASSUME NEW s, NEW p \in Nat
    PROVE  Before(s, p + 1) = Before(s, p) \cup {s[p + 1]}
<1>1. 1..(p + 1) = 1..p \cup {p + 1}
  OBVIOUS
<1>2. QED
  BY <1>1, Zenon DEF Before

LEMMA StepAlong ==
    ASSUME NEW B, I!NULL \notin B, NEW s \in Seq(B), NEW x, NEW m,
           Along(B, s, x, m), x # I!NULL
    PROVE  Along(B, s, I!NextAfter(s, x), Counted(m, x))
<1>1. PICK p \in 0..Len(s) : Ahead(B, s, p, x, m) \/ SentBack(s, p, x)
  BY DEF Along
<1>2. p \in Nat /\ Len(s) \in Nat /\ DOMAIN s = 1..Len(s)
  OBVIOUS
<1>3. CASE Ahead(B, s, p, x, m)
  <2>1. p < Len(s) /\ x = s[p + 1] /\ x \notin Before(s, p)
    BY <1>2, <1>3 DEF Ahead, Past
  <2>2. p + 1 \in 1..Len(s) /\ (p + 1) - 1 = p /\ x \in B
    BY <1>2, <2>1
  <2>3. I!NextAfter(s, x) = Past(s, p + 1)
    BY <2>1, <2>2, NextAfterIs
  <2>4. \A i, j \in 1..(p + 1) : s[i] = s[j] => i = j
    <3>1. \A i \in 1..(p + 1) : i \in 1..p \/ i = p + 1
      BY <1>2
    <3>2. \A i \in 1..p : s[i] # s[p + 1]
      BY <2>1 DEF Before
    <3>3. QED
      BY <1>3, <3>1, <3>2, Zenon DEF Ahead
  <2>5. Counted(m, x) = [y \in B |-> IF y \in Before(s, p + 1) THEN 1 ELSE 0]
    <3>1. m = [y \in B |-> IF y \in Before(s, p) THEN 1 ELSE 0]
      BY <1>3 DEF Ahead
    <3>2. Before(s, p + 1) = Before(s, p) \cup {x}
      BY <1>2, <2>1, BeforeNext
    <3>3. QED
      BY <2>1, <2>2, <3>1, <3>2 DEF Counted
  <2>6. CASE Past(s, p + 1) \notin Before(s, p + 1)
    <3>1. Ahead(B, s, p + 1, I!NextAfter(s, x), Counted(m, x))
      BY <2>3, <2>4, <2>5, <2>6 DEF Ahead
    <3>2. QED
      BY <1>2, <2>2, <3>1 DEF Along
  <2>7. CASE Past(s, p + 1) \in Before(s, p + 1)
    <3>1. \A i \in 1..(p + 1) : s[i] \in B
      BY <1>2, <2>2
    <3>2. p + 1 < Len(s) /\ Past(s, p + 1) = s[(p + 1) + 1]
      BY <2>7, <3>1 DEF Past, Before
    <3>3. SentBack(s, p + 1, I!NextAfter(s, x))
      BY <2>3, <2>7, <3>2 DEF SentBack
    <3>4. QED
      BY <1>2, <2>2, <3>3 DEF Along
  <2>8. QED
    BY <2>6, <2>7
<1>4. CASE SentBack(s, p, x)
  <2>1. p < Len(s) /\ s[p + 1] \in Before(s, p) /\ x \in Before(s, p)
    BY <1>4 DEF SentBack
  <2>2. PICK i \in 1..p : s[i] = x /\ x \notin Before(s, i - 1)
    BY <2>1, FirstOccurrence
  <2>3. i \in 1..Len(s) /\ i < Len(s) /\ i + 1 \in 1..(p + 1)
    BY <1>2, <2>1
  <2>4. I!NextAfter(s, x) = s[i + 1]
    BY <2>2, <2>3, NextAfterIs DEF Past
  <2>5. s[i + 1] \in Before(s, p + 1)
    BY <2>3 DEF Before
  <2>6. s[i + 1] \in Before(s, p)
    BY <1>2, <2>1, <2>5, BeforeNext
  <2>7. QED
    BY <1>1, <2>1, <2>4, <2>6 DEF SentBack, Along
<1>5. QED
  BY <1>1, <1>3, <1>4

\* What a client walks over.
Walked == IF kind = "loop" THEN made ELSE I!List(fun)

ItTypes == I!TypeOK /\ made \in Seq(I!Blocks(fun))

LoopsMade == kind = "loop" => I!Distinct(made) /\ (redirected = 0 => made = I!List(fun))

Going ==
    kind = "loop" \/ (kind \in {"succ", "pred"} /\ redirected = 0) =>
        Along(I!Blocks(fun), Walked, at, met)

\* What is in the worklist, or was just taken from it, is still to be met.
Draining ==
    kind \in I!Worklists =>
        /\ I!Distinct(made) /\ at \notin Elems(made)
        /\ at = I!NULL => made = <<>>
        /\ \A x \in I!Blocks(fun) :
              met[x] = 0 \/ (met[x] = 1 /\ x \notin Elems(made) \cup {at})
        /\ redirected = 0 =>
              Elems(I!List(fun)) = {x \in I!Blocks(fun) : met[x] = 1}
                                   \cup Elems(made) \cup ({at} \ {I!NULL})

ItInv == ItTypes /\ LoopsMade /\ Going /\ Draining

LEMMA GraphIs ==
    ASSUME I!IsFlowGraph(fun)
    PROVE  /\ I!Blocks(fun) = 1..Len(fun) /\ Len(fun) \in Nat
           /\ I!NULL \notin I!Blocks(fun)
           /\ \A a \in I!Blocks(fun) : fun[a] \in Seq(I!Blocks(fun))
<1>1. fun \in Seq(Seq(Nat)) /\ I!Blocks(fun) = 1..Len(fun) /\ Len(fun) \in Nat
  BY DEF I!IsFlowGraph, I!Blocks
<1>2. ASSUME NEW a \in I!Blocks(fun) PROVE fun[a] \in Seq(I!Blocks(fun))
  <2>1. fun[a] \in Seq(Nat)
    BY <1>1
  <2>2. I!Succs(fun, a) \subseteq I!Blocks(fun)
    BY DEF I!IsFlowGraph
  <2>3. \A i \in 1..Len(fun[a]) : fun[a][i] \in I!Blocks(fun)
    BY <2>1, <2>2 DEF I!Succs
  <2>4. QED
    BY <2>1, <2>3
<1>3. QED
  BY <1>1, <1>2 DEF I!NULL

LEMMA ListIs ==
    ASSUME I!IsFlowGraph(fun), kind \in I!Kinds, block \in I!Blocks(fun)
    PROVE  /\ I!List(fun) \in Seq(I!Blocks(fun))
           /\ kind = "loop" \/ kind \in I!Worklists => I!Distinct(I!List(fun))
           /\ kind = "exits" => Elems(I!List(fun)) = I!ExitBlocks(fun, block)
<1> DEFINE n == Len(fun)
<1>1. /\ I!Blocks(fun) = 1..n /\ n \in Nat
      /\ \A a \in I!Blocks(fun) : fun[a] \in Seq(I!Blocks(fun))
  BY GraphIs
<1>2. ASSUME NEW S \in SUBSET I!Blocks(fun)
      PROVE  /\ I!InOrder(S, n) \in Seq(I!Blocks(fun))
             /\ I!Distinct(I!InOrder(S, n)) /\ Elems(I!InOrder(S, n)) = S
  <2>1. I!InOrder(S, n) \in Seq(S) /\ I!Distinct(I!InOrder(S, n)) /\ Elems(I!InOrder(S, n)) = S
    BY <1>1, InOrderIs
  <2>2. QED
    BY <2>1
<1>3. I!LoopBlocks(fun, block) \subseteq I!Blocks(fun)
  BY DEF I!LoopBlocks
<1>4. I!ExitBlocks(fun, block) \subseteq I!Blocks(fun)
  <2>1. ASSUME NEW e \in I!ExitEdges(fun, block) PROVE fun[e[1]][e[2]] \in I!Blocks(fun)
    <3>1. PICK a \in I!LoopBlocks(fun, block) : e \in {a} \X DOMAIN fun[a]
      BY DEF I!ExitEdges
    <3>2. fun[a] \in Seq(I!Blocks(fun)) /\ e[1] = a /\ e[2] \in DOMAIN fun[a]
      BY <1>1, <1>3, <3>1
    <3>3. QED
      BY <3>2
  <2>2. QED
    BY <2>1 DEF I!ExitBlocks
<1>5. I!TopLevel(fun) \subseteq I!Blocks(fun)
  BY DEF I!TopLevel, I!Headers
<1>6. CASE kind = "succ"
  BY <1>1, <1>6 DEF I!List, I!Worklists
<1>7. CASE kind = "pred"
  <2>1. I!Preds(fun, block) \in Seq(1..n)
    BY PredsTyped DEF I!IsFlowGraph
  <2>2. I!List(fun) = I!Preds(fun, block)
    BY <1>7 DEF I!List
  <2>3. QED
    BY <1>1, <1>7, <2>1, <2>2 DEF I!Worklists
<1>8. CASE kind = "loop"
  BY <1>2, <1>5, <1>8 DEF I!List
<1>9. CASE kind = "blocks"
  BY <1>2, <1>3, <1>9 DEF I!List, I!BlocksInLoop
<1>10. CASE kind = "exits"
  BY <1>2, <1>4, <1>10 DEF I!List, I!GetExitBlocks
<1>11. QED
  BY <1>6, <1>7, <1>8, <1>9, <1>10 DEF I!Kinds, I!Worklists

LEMMA TakenIs ==
    ASSUME NEW B, NEW s \in Seq(B)
    PROVE  /\ I!Popped(s) \in Seq(B)
           /\ s = <<>> => I!First(s) = I!NULL /\ I!Popped(s) = <<>>
           /\ s # <<>> => /\ I!First(s) \in B
                          /\ Elems(s) = Elems(I!Popped(s)) \cup {I!First(s)}
                          /\ I!Distinct(s) => /\ I!Distinct(I!Popped(s))
                                              /\ I!First(s) \notin Elems(I!Popped(s))
<1>1. CASE s = <<>>
  BY <1>1 DEF I!Popped, I!First
<1>2. CASE s # <<>>
  <2> DEFINE t == Tail(s)
             n == Len(s)
  <2>1. n \in Nat /\ n # 0 /\ DOMAIN s = 1..n
    BY <1>2
  <2>2. t \in Seq(B) /\ DOMAIN t = 1..(n - 1) /\ \A i \in 1..(n - 1) : t[i] = s[i + 1]
    BY <1>2, <2>1
  <2>3. I!Popped(s) = t /\ I!First(s) = s[1] /\ s[1] \in B
    BY <1>2, <2>1 DEF I!Popped, I!First
  <2>4. \A i \in 1..(n - 1) : i + 1 \in 1..n /\ i + 1 # 1
    BY <2>1
  <2>5. \A i \in 1..n : i = 1 \/ i - 1 \in 1..(n - 1)
    BY <2>1
  <2> HIDE DEF t, n
  <2>6. Elems(s) = Elems(t) \cup {s[1]}
    <3>1. ASSUME NEW i \in 1..n PROVE s[i] \in Elems(t) \cup {s[1]}
      <4>1. CASE i - 1 \in 1..(n - 1)
        <5>1. t[i - 1] = s[i]
          BY <2>1, <2>2, <4>1
        <5>2. QED
          BY <2>2, <4>1, <5>1 DEF Elems
      <4>2. QED
        BY <2>5, <4>1
    <3>2. \A i \in 1..(n - 1) : t[i] \in Elems(s)
      BY <2>1, <2>2, <2>4 DEF Elems
    <3>3. s[1] \in Elems(s)
      BY <2>1 DEF Elems
    <3>4. QED
      BY <2>1, <2>2, <3>1, <3>2, <3>3 DEF Elems
  <2>7. ASSUME I!Distinct(s) PROVE I!Distinct(t) /\ s[1] \notin Elems(t)
    <3>1. ASSUME NEW i \in 1..(n - 1) PROVE t[i] # s[1]
      <4>1. t[i] = s[i + 1] /\ i + 1 \in DOMAIN s /\ 1 \in DOMAIN s /\ i + 1 # 1
        BY <2>1, <2>2, <2>4
      <4>2. QED
        BY <2>7, <4>1 DEF I!Distinct
    <3>2. ASSUME NEW i \in 1..(n - 1), NEW j \in 1..(n - 1), t[i] = t[j] PROVE i = j
      <4>1. i + 1 = j + 1
        BY <2>1, <2>2, <2>4, <2>7, <3>2 DEF I!Distinct
      <4>2. QED
        BY <4>1
    <3>3. QED
      BY <2>2, <3>1, <3>2 DEF I!Distinct, Elems
  <2>8. QED
    BY <1>2, <2>2, <2>3, <2>6, <2>7
<1>3. QED
  BY <1>1, <1>2

LEMMA InitItInv == ASSUME I!CFGIterAssumption, I!Init PROVE ItInv
<1> DEFINE B == I!Blocks(fun)
           s == I!List(fun)
<1>1. /\ I!IsFlowGraph(fun) /\ kind \in I!Kinds /\ block \in B
      /\ at = I!First(s) /\ met = [x \in B |-> 0] /\ redirected = 0
  BY DEF I!Init, I!CFGIterAssumption
<1>2. s \in Seq(B) /\ (kind = "loop" \/ kind \in I!Worklists => I!Distinct(s))
  BY <1>1, ListIs
<1>3. /\ kind = "loop" => made = s
      /\ kind \in I!Worklists => made = I!Popped(s)
      /\ kind \notin {"loop"} \cup I!Worklists => made = <<>>
  BY DEF I!Init, I!Worklists
<1> HIDE DEF s
<1>4. /\ I!Popped(s) \in Seq(B)
      /\ s = <<>> => I!First(s) = I!NULL /\ I!Popped(s) = <<>>
      /\ s # <<>> => /\ I!First(s) \in B
                     /\ Elems(s) = Elems(I!Popped(s)) \cup {I!First(s)}
                     /\ I!Distinct(s) => /\ I!Distinct(I!Popped(s))
                                         /\ I!First(s) \notin Elems(I!Popped(s))
  BY <1>2, TakenIs
<1>5. ItTypes
  <2>1. made \in {s, I!Popped(s), <<>>}
    BY <1>3 DEF I!Worklists
  <2>2. <<>> \in Seq(B)
    OBVIOUS
  <2>3. made \in Seq(B)
    BY <1>2, <1>4, <2>1, <2>2
  <2>4. at \in B \cup {I!NULL} /\ met \in [B -> 0..2] /\ redirected \in 0..MaxRedirects
    BY <1>1, <1>4 DEF I!CFGIterAssumption
  <2>5. QED
    BY <1>1, <2>3, <2>4 DEF ItTypes, I!TypeOK
<1>6. LoopsMade
  BY <1>1, <1>2, <1>3 DEF LoopsMade, s
<1>7. Going
  <2>1. Len(s) \in Nat /\ 0 \in 0..Len(s) /\ Before(s, 0) = {} /\ Past(s, 0) = I!First(s)
    BY <1>2 DEF Before, Past, I!First
  <2>2. Ahead(B, s, 0, at, met)
    BY <1>1, <2>1 DEF Ahead
  <2>3. Along(B, s, at, met)
    BY <2>1, <2>2 DEF Along
  <2>4. Walked = s
    BY <1>3 DEF Walked, s
  <2>5. QED
    BY <2>3, <2>4 DEF Going
<1>8. Draining
  <2> SUFFICES ASSUME kind \in I!Worklists PROVE Draining
    BY DEF Draining
  <2>1. made = I!Popped(s) /\ I!Distinct(s) /\ at = I!First(s)
    BY <1>1, <1>2, <1>3
  <2>2. \A x \in B : met[x] = 0
    BY <1>1
  <2>3. I!NULL \notin B
    BY <1>1, GraphIs
  <2>4. CASE s = <<>>
    <3>1. made = <<>> /\ at = I!NULL /\ Elems(s) = {} /\ Elems(<<>>) = {} /\ I!Distinct(<<>>)
      BY <1>4, <2>1, <2>4 DEF Elems, I!Distinct
    <3>2. QED
      BY <2>2, <3>1 DEF Draining, s
  <2>5. CASE s # <<>>
    <3>1. /\ at \in B /\ at # I!NULL /\ at \notin Elems(made)
          /\ I!Distinct(made) /\ Elems(s) = Elems(made) \cup {at}
      BY <1>4, <2>1, <2>3, <2>5
    <3>2. QED
      BY <2>2, <3>1 DEF Draining, s
  <2>6. QED
    BY <2>4, <2>5
<1>9. QED
  BY <1>5, <1>6, <1>7, <1>8 DEF ItInv

LEMMA StepItInv == ASSUME ItInv, I!Step PROVE ItInv'
<1> DEFINE B == I!Blocks(fun)
           s == I!List(fun)
<1>1. /\ at # I!NULL /\ met' = Counted(met, at)
      /\ fun' = fun /\ kind' = kind /\ block' = block /\ redirected' = redirected
  BY DEF I!Step, I!Meet, Counted
<1>2. /\ I!IsFlowGraph(fun) /\ kind \in I!Kinds /\ block \in B /\ at \in B
      /\ met \in [B -> 0..2] /\ redirected \in 0..MaxRedirects /\ made \in Seq(B)
  BY <1>1 DEF ItInv, ItTypes, I!TypeOK
<1>3. s \in Seq(B) /\ I!NULL \notin B
  BY <1>2, ListIs, GraphIs
<1>4. s' = s /\ B' = B
  BY <1>1 DEF I!List, I!Blocks
<1>5. met' \in [B -> 0..2]
  BY <1>1, <1>2 DEF Counted
<1> HIDE DEF s
<1>6. CASE kind \notin I!Worklists
  <2> DEFINE w == Walked
  <2>1. at' = I!NextAfter(w, at) /\ made' = made
    BY <1>6 DEF I!Step, Walked, s
  <2>2. w' = w /\ w \in Seq(B)
    BY <1>1, <1>2, <1>3, <1>4, <2>1 DEF Walked, s
  <2> HIDE DEF w
  <2>3. at' \in B \cup {I!NULL}
    <3> DEFINE c == CHOOSE i \in DOMAIN w : w[i] = at /\ \A j \in 1..(i - 1) : w[j] # at
    <3>1. ASSUME \E i \in DOMAIN w : w[i] = at PROVE c \in DOMAIN w
      <4>1. PICK i \in DOMAIN w : w[i] = at
        BY <3>1
      <4>2. i \in 0..Len(w) /\ at \in Before(w, i)
        BY <2>2, <4>1 DEF Before
      <4>3. PICK j \in 1..i : w[j] = at /\ at \notin Before(w, j - 1)
        BY <2>2, <4>2, FirstOccurrence
      <4>4. j \in DOMAIN w /\ \A k \in 1..(j - 1) : w[k] # at
        BY <2>2, <4>2, <4>3 DEF Before
      <4>5. QED
        BY <4>3, <4>4
    <3>2. \/ at' = I!NULL
          \/ /\ \E i \in DOMAIN w : w[i] = at
             /\ c # Len(w) /\ at' = w[c + 1]
      BY <2>1 DEF I!NextAfter
    <3> HIDE DEF c
    <3>3. QED
      BY <2>2, <3>1, <3>2
  <2>4. ItTypes'
    BY <1>1, <1>2, <1>4, <1>5, <2>1, <2>3 DEF ItTypes, I!TypeOK, I!Blocks, I!Kinds, I!Worklists
  <2>5. LoopsMade'
    BY <1>1, <1>4, <2>1 DEF ItInv, LoopsMade, s, I!Distinct
  <2>6. Going'
    <3> SUFFICES ASSUME kind = "loop" \/ (kind \in {"succ", "pred"} /\ redirected = 0)
                 PROVE  Along(B, w, at', met')
      BY <1>1, <1>4, <2>2 DEF Going, w
    <3>1. Along(B, w, at, met)
      BY DEF ItInv, Going, w
    <3>2. QED
      BY <1>1, <1>3, <2>1, <2>2, <3>1, StepAlong
  <2>7. Draining'
    BY <1>1, <1>6 DEF Draining, I!Worklists
  <2>8. QED
    BY <2>4, <2>5, <2>6, <2>7 DEF ItInv
<1>7. CASE kind \in I!Worklists
  <2>1. at' = I!First(made) /\ made' = I!Popped(made)
    BY <1>7 DEF I!Step
  <2>2. /\ I!Popped(made) \in Seq(B)
        /\ made = <<>> => I!First(made) = I!NULL /\ I!Popped(made) = <<>>
        /\ made # <<>> => /\ I!First(made) \in B
                          /\ Elems(made) = Elems(I!Popped(made)) \cup {I!First(made)}
                          /\ I!Distinct(made) => /\ I!Distinct(I!Popped(made))
                                                 /\ I!First(made) \notin Elems(I!Popped(made))
    BY <1>2, TakenIs
  <2>3. ItTypes'
    BY <1>1, <1>2, <1>4, <1>5, <2>1, <2>2 DEF ItTypes, I!TypeOK, I!Blocks, I!Kinds, I!Worklists
  <2>4. kind # "loop" /\ kind \notin {"succ", "pred"}
    BY <1>7 DEF I!Worklists
  <2>5. LoopsMade' /\ Going'
    BY <1>1, <2>4 DEF LoopsMade, Going
  <2>6. /\ I!Distinct(made) /\ at \notin Elems(made)
        /\ \A x \in B : met[x] = 0 \/ (met[x] = 1 /\ x \notin Elems(made) \cup {at})
        /\ redirected = 0 => Elems(s) = {x \in B : met[x] = 1} \cup Elems(made) \cup {at}
    BY <1>1, <1>7 DEF ItInv, Draining, s
  <2>7. met[at] = 0 /\ met' = [met EXCEPT ![at] = 1]
    BY <1>1, <1>2, <2>6 DEF Counted
  <2>8. \A x \in B : met'[x] = IF x = at THEN 1 ELSE met[x]
    BY <1>2, <2>7
  <2>9. {x \in B : met'[x] = 1} = {x \in B : met[x] = 1} \cup {at}
    BY <1>2, <2>8
  <2>10. CASE made = <<>>
    <3>1. made' = <<>> /\ at' = I!NULL /\ Elems(made) = {} /\ Elems(made') = {} /\ I!Distinct(made')
      BY <2>1, <2>2, <2>10 DEF Elems, I!Distinct
    <3>2. \A x \in B : x # at'
      BY <1>3, <3>1
    <3>3. QED
      BY <1>1, <1>4, <2>3, <2>5, <2>6, <2>8, <2>9, <3>1, <3>2 DEF ItInv, Draining, s
  <2>11. CASE made # <<>>
    <3>1. /\ at' \in B /\ at' # I!NULL /\ Elems(made) = Elems(made') \cup {at'}
          /\ I!Distinct(made') /\ at' \notin Elems(made')
      BY <1>3, <2>1, <2>2, <2>6, <2>11
    <3>2. \A x \in B : met'[x] = 0 \/ (met'[x] = 1 /\ x \notin Elems(made') \cup {at'})
      BY <2>6, <2>8, <3>1
    <3>3. QED
      BY <1>1, <1>4, <2>3, <2>5, <2>6, <2>9, <3>1, <3>2 DEF ItInv, Draining, s
  <2>12. QED
    BY <2>10, <2>11
<1>8. QED
  BY <1>6, <1>7

LEMMA RedirectItInv == ASSUME I!CFGIterAssumption, ItInv, I!Redirect PROVE ItInv'
<1> DEFINE B == I!Blocks(fun)
<1>1. /\ at # I!NULL /\ redirected < MaxRedirects /\ redirected' = redirected + 1
      /\ kind' = kind /\ block' = block /\ made' = made /\ at' = at /\ met' = met
  BY DEF I!Redirect
<1>2. /\ I!IsFlowGraph(fun) /\ kind \in I!Kinds /\ block \in B /\ at \in B \cup {I!NULL}
      /\ met \in [B -> 0..2] /\ redirected \in 0..MaxRedirects /\ made \in Seq(B)
  BY DEF ItInv, ItTypes, I!TypeOK
<1>3. PICK x \in B : \E i \in DOMAIN fun[x] : \E y \in B \ {I!Entry, fun[x][i]} :
         fun' = [fun EXCEPT ![x][i] = y]
  BY DEF I!Redirect
<1> PICK i \in DOMAIN fun[x] : \E y \in B \ {I!Entry, fun[x][i]} :
         fun' = [fun EXCEPT ![x][i] = y]
  BY <1>3
<1> PICK y \in B \ {I!Entry, fun[x][i]} : fun' = [fun EXCEPT ![x][i] = y]
  OBVIOUS
<1>4. B = 1..Len(fun) /\ Len(fun) \in Nat /\ fun \in Seq(Seq(Nat))
  BY <1>2, GraphIs DEF I!IsFlowGraph
<1> DEFINE line == [fun[x] EXCEPT ![i] = y]
<1>5. fun[x] \in Seq(Nat) /\ y \in Nat
  BY <1>4
<1>6. line \in Seq(Nat) /\ DOMAIN line = DOMAIN fun[x]
      /\ \A j \in DOMAIN line : line[j] = IF j = i THEN y ELSE fun[x][j]
  BY <1>5
<1>7. fun' = [fun EXCEPT ![x] = line]
  OBVIOUS
<1> HIDE DEF line
<1>8. /\ fun' \in Seq(Seq(Nat)) /\ DOMAIN fun' = B
      /\ \A a \in B : fun'[a] = IF a = x THEN line ELSE fun[a]
  <2>1. fun \in [B -> Seq(Nat)]
    BY <1>4
  <2>2. fun' \in [B -> Seq(Nat)] /\ \A a \in B : fun'[a] = IF a = x THEN line ELSE fun[a]
    BY <1>6, <1>7, <2>1
  <2>3. fun' \in [1..Len(fun) -> Seq(Nat)]
    BY <1>4, <2>2
  <2>4. fun' \in Seq(Seq(Nat)) /\ DOMAIN fun' = B
    BY <1>4, <2>3
  <2>5. QED
    BY <2>2, <2>4
<1>9. I!Blocks(fun)' = B
  BY <1>8 DEF I!Blocks
<1>10. I!IsFlowGraph(fun)'
  <2>1. ASSUME NEW a \in B, NEW j \in DOMAIN fun'[a]
        PROVE  fun'[a][j] \in B \ {I!Entry}
    <3>1. \A k \in DOMAIN fun[a] : fun[a][k] \in B \ {I!Entry}
      BY <1>2 DEF I!IsFlowGraph, I!Succs
    <3>2. CASE a = x
      BY <1>6, <1>8, <2>1, <3>1, <3>2
    <3>3. CASE a # x
      BY <1>8, <2>1, <3>1, <3>3
    <3>4. QED
      BY <3>2, <3>3
  <2>2. I!Entry \in B
    BY <1>2 DEF I!IsFlowGraph
  <2>3. QED
    BY <1>8, <2>1, <2>2 DEF I!IsFlowGraph, I!Succs, I!Blocks, I!Entry
<1>11. ItTypes'
  <2>1. redirected' \in 0..MaxRedirects
    BY <1>1, <1>2 DEF I!CFGIterAssumption
  <2>2. QED
    BY <1>1, <1>2, <1>9, <1>10, <2>1 DEF ItTypes, I!TypeOK, I!Kinds, I!Worklists, I!NULL
<1>12. redirected' # 0
  BY <1>1, <1>2
<1>13. LoopsMade'
  BY <1>1, <1>12 DEF ItInv, LoopsMade, I!Distinct
<1>14. Going'
  <2> SUFFICES ASSUME kind = "loop" PROVE Along(B, made, at, met)
    BY <1>1, <1>9, <1>12 DEF Going, Walked
  <2>1. QED
    BY DEF ItInv, Going, Walked
<1>15. Draining'
  BY <1>1, <1>9, <1>12 DEF ItInv, Draining, Elems, I!Distinct, I!Worklists, I!NULL
<1>16. QED
  BY <1>11, <1>13, <1>14, <1>15 DEF ItInv

\* A list without duplicates is as long as it has elements.
LEMMA DistinctCounts ==
    ASSUME NEW B, NEW s \in Seq(B), I!Distinct(s)
    PROVE  I!Cardinality(Elems(s)) = Len(s)
<1>1. Len(s) \in Nat /\ DOMAIN s = 1..Len(s)
  OBVIOUS
<1>2. s \in [1..Len(s) -> Elems(s)]
  BY <1>1 DEF Elems
<1>3. IsInjective(s)
  BY DEF IsInjective, I!Distinct
<1>4. s \in Bijection(1..Len(s), Elems(s))
  BY <1>1, <1>2, <1>3, Zenon DEF Bijection, Injection, Surjection, Elems
<1>5. QED
  BY <1>1, <1>4, FS_CountingElements, Counts DEF ExistsBijection

\* At the end of what a client went along it has met all of it, once each.
LEMMA AlongEnd ==
    ASSUME NEW B, I!NULL \notin B, NEW s \in Seq(B), NEW m, Along(B, s, I!NULL, m)
    PROVE  I!Distinct(s) /\ m = [y \in B |-> IF y \in Elems(s) THEN 1 ELSE 0]
<1>1. DOMAIN s = 1..Len(s) /\ Len(s) \in Nat /\ \A i \in 1..Len(s) : s[i] # I!NULL
  OBVIOUS
<1>2. PICK p \in 0..Len(s) : Ahead(B, s, p, I!NULL, m) \/ SentBack(s, p, I!NULL)
  BY DEF Along
<1>3. I!NULL \notin Before(s, p)
  BY <1>1, <1>2 DEF Before
<1>4. Ahead(B, s, p, I!NULL, m)
  BY <1>2, <1>3 DEF SentBack
<1>5. p = Len(s)
  <2>1. p < Len(s) => p + 1 \in 1..Len(s) /\ Past(s, p) = s[p + 1]
    BY <1>1 DEF Past
  <2>2. Past(s, p) = I!NULL
    BY <1>4 DEF Ahead
  <2>3. ~(p < Len(s))
    BY <1>1, <2>1, <2>2
  <2>4. p \in 0..Len(s) /\ Len(s) \in Nat
    OBVIOUS
  <2>5. QED
    BY <2>3, <2>4
<1>6. Before(s, p) = Elems(s)
  BY <1>1, <1>5 DEF Before, Elems
<1>7. QED
  BY <1>1, <1>4, <1>5, <1>6, Zenon DEF Ahead, I!Distinct

\* Nobody is sent back along a list without duplicates.
LEMMA AlongOnce ==
    ASSUME NEW B, NEW s \in Seq(B), NEW x, NEW m, Along(B, s, x, m), I!Distinct(s)
    PROVE  \A y \in B : m[y] \in {0, 1}
<1>1. PICK p \in 0..Len(s) : Ahead(B, s, p, x, m) \/ SentBack(s, p, x)
  BY DEF Along
<1>2. CASE SentBack(s, p, x)
  <2>1. p < Len(s) /\ s[p + 1] \in Before(s, p)
    BY <1>2 DEF SentBack
  <2>2. PICK i \in 1..p : s[i] = s[p + 1]
    BY <2>1 DEF Before
  <2>3. i \in DOMAIN s /\ p + 1 \in DOMAIN s /\ i # p + 1
    BY <2>1
  <2>4. QED
    BY <2>2, <2>3 DEF I!Distinct
<1>3. CASE Ahead(B, s, p, x, m)
  BY <1>3 DEF Ahead
<1>4. QED
  BY <1>1, <1>2, <1>3

LEMMA AllMet ==
    ASSUME ItInv, at = I!NULL, redirected = 0
    PROVE  /\ {x \in I!Blocks(fun) : met[x] = 1} = Elems(I!List(fun))
           /\ \A x \in I!Blocks(fun) : met[x] < 2
           /\ I!Distinct(I!List(fun))
<1> DEFINE B == I!Blocks(fun)
           s == I!List(fun)
<1>1. I!IsFlowGraph(fun) /\ kind \in I!Kinds /\ block \in B
  BY DEF ItInv, ItTypes, I!TypeOK
<1>2. s \in Seq(B) /\ I!NULL \notin B /\ (kind \in I!Worklists => I!Distinct(s))
  BY <1>1, ListIs, GraphIs
<1>3. CASE kind \in I!Worklists
  <2>1. /\ made = <<>> /\ Elems(s) = {x \in B : met[x] = 1} \cup Elems(made)
        /\ \A x \in B : met[x] \in {0, 1}
    BY <1>3 DEF ItInv, Draining
  <2>2. Elems(<<>>) = {}
    BY DEF Elems
  <2>3. QED
    BY <1>2, <1>3, <2>1, <2>2
<1>4. CASE kind \notin I!Worklists
  <2>1. Walked = s
    BY DEF ItInv, LoopsMade, Walked
  <2>2. Along(B, s, I!NULL, met)
    BY <1>1, <1>4, <2>1 DEF ItInv, Going, I!Kinds
  <2> HIDE DEF s
  <2>3. I!Distinct(s) /\ met = [y \in B |-> IF y \in Elems(s) THEN 1 ELSE 0]
    BY <1>2, <2>2, AlongEnd
  <2>4. Elems(s) \subseteq B
    BY <1>2 DEF Elems
  <2>5. QED
    BY <2>3, <2>4 DEF s
<1>5. QED
  BY <1>3, <1>4

LEMMA ItInvSound == ASSUME ItInv PROVE I!WalksSound
<1> DEFINE B == I!Blocks(fun)
           s == I!List(fun)
<1>1. /\ I!IsFlowGraph(fun) /\ kind \in I!Kinds /\ block \in B /\ made \in Seq(B)
      /\ I!TypeOK
  BY DEF ItInv, ItTypes, I!TypeOK
<1>2. s \in Seq(B) /\ I!NULL \notin B
  BY <1>1, ListIs, GraphIs
<1>3. I!MeetsEachOnce
  <2> SUFFICES ASSUME at = I!NULL, redirected = 0 PROVE I!MeetsEachOnce
    BY DEF I!MeetsEachOnce
  <2> DEFINE once == {x \in B : met[x] = 1}
  <2>1. once = Elems(s) /\ (\A x \in B : met[x] < 2) /\ I!Distinct(s)
    BY AllMet
  <2> HIDE DEF once
  <2>2. Cardinality(once) = Len(s)
    BY <1>2, <2>1, DistinctCounts, Counts
  <2>3. kind = "pred" => s = I!Preds(fun, block)
    BY DEF I!List
  <2>4. kind = "succ" => s = fun[block]
    BY DEF I!List
  <2>5. ASSUME kind = "exits", I!GetSingleExit(fun, block) # I!NULL
        PROVE  once = {I!GetSingleExit(fun, block)}
    <3> DEFINE E == I!ExitEdges(fun, block)
               X == I!ExitBlocks(fun, block)
    <3>1. (\E e \in E : E = {e}) /\ I!GetSingleExit(fun, block) = CHOOSE x \in X : TRUE
      BY <2>5 DEF I!GetSingleExit
    <3>2. PICK e \in E : E = {e}
      BY <3>1
    <3>3. X = {fun[e[1]][e[2]]}
      BY <3>2 DEF I!ExitBlocks
    <3>4. once = X
      BY <1>1, <2>1, <2>5, ListIs
    <3>5. QED
      BY <3>1, <3>3, <3>4
  <2>6. QED
    BY <2>1, <2>2, <2>3, <2>4, <2>5, Counts
       DEF I!MeetsEachOnce, once, Elems, I!CountPredecessors, I!SinglePredecessor, I!SingleSuccessor
<1>4. I!MadeUnaffected
  <2>1. CASE kind = "loop"
    <3>1. Along(B, made, at, met) /\ I!Distinct(made)
      BY <2>1 DEF ItInv, Going, Walked, LoopsMade
    <3>2. \A x \in B : met[x] \in {0, 1}
      BY <1>1, <3>1, AlongOnce
    <3>3. QED
      BY <3>2 DEF I!MadeUnaffected
  <2>2. CASE kind \in I!Worklists
    <3>1. \A x \in B : met[x] \in {0, 1}
      BY <2>2 DEF ItInv, Draining
    <3>2. QED
      BY <3>1 DEF I!MadeUnaffected
  <2>3. QED
    BY <2>1, <2>2 DEF I!MadeUnaffected
<1>5. QED
  BY <1>1, <1>3, <1>4 DEF I!WalksSound

LEMMA StepsItInv ==
    ASSUME I!CFGIterAssumption, ItInv, [I!Next]_(I!vars) PROVE ItInv'
<1>1. CASE I!Step
  BY <1>1, StepItInv
<1>2. CASE I!Redirect
  BY <1>2, RedirectItInv
<1>3. CASE UNCHANGED I!vars
  <2>1. /\ fun' = fun /\ kind' = kind /\ block' = block /\ made' = made
        /\ at' = at /\ met' = met /\ redirected' = redirected
    BY <1>3 DEF I!vars
  <2>2. I!List(fun)' = I!List(fun) /\ I!Blocks(fun)' = I!Blocks(fun)
    BY <2>1 DEF I!List, I!Blocks
  <2>3. ItTypes' /\ LoopsMade'
    BY <2>1, <2>2 DEF ItInv, ItTypes, LoopsMade, I!TypeOK, I!IsFlowGraph, I!Succs,
        I!Distinct, I!Kinds, I!Worklists, I!Blocks, I!NULL, I!Entry
  <2>4. Going'
    BY <2>1, <2>2 DEF ItInv, Going, Walked
  <2>5. Draining'
    BY <2>1, <2>2 DEF ItInv, Draining, Elems, I!Distinct, I!Worklists, I!NULL
  <2>6. QED
    BY <2>3, <2>4, <2>5 DEF ItInv
<1>4. QED
  BY <1>1, <1>2, <1>3 DEF I!Next

\* A client that goes over what the library lists meets all of it, once each,
\* as many blocks as CountPredecessors says and the one of GetSingleExit; over
\* loops or a worklist nothing twice, whatever its loop body redirects (the
\* First/Next functions of cfg.cpp and loop.cpp, worklist_pop).
THEOREM WalksThm == I!CFGIterAssumption => (I!Spec => []WalksSound)
<1> SUFFICES ASSUME I!CFGIterAssumption PROVE I!Spec => []WalksSound
  OBVIOUS
<1>1. I!Init => ItInv
  BY InitItInv
<1>2. ItInv /\ [I!Next]_(I!vars) => ItInv'
  BY StepsItInv
<1>3. ItInv => WalksSound
  BY ItInvSound DEF WalksSound
<1>4. QED
  BY <1>1, <1>2, <1>3, PTL DEF I!Spec

\* A walk that ends, with no edge redirected, was over a list in which nothing
\* is twice: where a conditional branch has one target, or a switch a shared
\* case, the client is kept for ever (the first part of EndsIfDistinct).
THEOREM EndsOverDistinct ==
    I!CFGIterAssumption =>
        (I!Spec => [](at = I!NULL /\ redirected = 0 => I!Distinct(I!List(fun))))
<1> SUFFICES ASSUME I!CFGIterAssumption
             PROVE  I!Spec => [](at = I!NULL /\ redirected = 0 => I!Distinct(I!List(fun)))
  OBVIOUS
<1>1. I!Init => ItInv
  BY InitItInv
<1>2. ItInv /\ [I!Next]_(I!vars) => ItInv'
  BY StepsItInv
<1>3. ItInv => (at = I!NULL /\ redirected = 0 => I!Distinct(I!List(fun)))
  BY AllMet
<1>4. QED
  BY <1>1, <1>2, <1>3, PTL DEF I!Spec
=============================================================================
