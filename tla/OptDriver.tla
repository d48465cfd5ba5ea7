-------------------------------- MODULE OptDriver --------------------------------
(***************************************************************************)
(* The main programs of the optimizers: they read a module from one file,  *)
(* change it and write it to another, and p3 and p4 write statistics to a  *)
(* third.  Files may be missing, be no module, be one that the verifier    *)
(* rejects or not open for writing, and any two of the names may be the    *)
(* same.                                                                   *)
(*   "p3", "dce"        the C tools: the output is opened to be written;   *)
(*   "p3cpp", "dcecpp", "p4"   the output is a ToolOutputFile: opened      *)
(*                      first, removed at any exit unless it is kept.      *)
(***************************************************************************)
EXTENDS Integers, Sequences

CONSTANTS
    Files,          \* names a command line may hold
    StatsOf,        \* the name with ".stats" behind it, of each of them
    Tools

AllTools == {"p3", "dce", "p3cpp", "dcecpp", "p4"}
Names == Files \cup {StatsOf[f] : f \in Files}

ASSUME OptDriverAssumption ==
    /\ Files # {} /\ Tools \subseteq AllTools
    /\ Files \subseteq DOMAIN StatsOf
    /\ \A f, g \in DOMAIN StatsOf : StatsOf[f] # f /\ (f # g => StatsOf[f] # StatsOf[g])

VARIABLES
    tool, in, out,  \* the command
    options,        \* of p4
    original,       \* what the files hold at first
    locked,         \* the files that cannot be opened for writing
    fs,             \* what they hold
    tof,            \* the ToolOutputFile: "none", "failed", "open"
    M,              \* the module in memory
    pc, status      \* how far main is; the exit status, or "signal"

command == <<tool, in, out, options, original, locked>>
vars == <<command, fs, tof, M, pc, status>>

Module(f, valid) == [kind |-> "module", of |-> f, valid |-> valid, passes |-> << >>]
Other(k) == [kind |-> k, of |-> "", valid |-> FALSE, passes |-> << >>]
Absent == Other("absent")
Empty == Other("empty")
Stats == Other("stats")
\* Two writers have written over each other.
Mixed == Other("mixed")

Contents(f) == {Absent, Empty, Other("text"), Module(f, TRUE), Module(f, FALSE)}

UsesToolOutputFile == tool \in {"p3cpp", "dcecpp", "p4"}
StatsName == IF tool = "p4" THEN StatsOf[out] ELSE StatsOf[in]
WritesStats == tool \in {"p3", "p3cpp"} \/ (tool = "p4" /\ "summary" \in options)

Init ==
    /\ tool \in Tools /\ in \in Files /\ out \in Names \cap DOMAIN StatsOf
    /\ options \in IF tool = "p4" THEN SUBSET {"mem2reg", "no-cse", "summary"} ELSE {{}}
    /\ \E c \in Contents(in), d \in {Absent, Other("text")} :
          original = [f \in Names |-> IF f = in THEN c ELSE d]
    /\ locked \in SUBSET {f \in Names : original[f] # Absent}
    /\ fs = original
    /\ tof = "none" /\ M = Absent
    /\ pc = "open" /\ status = "running"

Exit(s) == pc' = "exit" /\ status' = s

\* What is left when the process ends, before the output was kept: the
\* ToolOutputFile's destructor, or LLVM's handler of signals and fatal errors.
Cleaned(files) == IF tof = "open" THEN [files EXCEPT ![out] = Absent] ELSE files

-----------------------------------------------------------------------------
\* A bug: the file is opened to be appended to.
Opened_append(files) == IF files[out] = Absent THEN [files EXCEPT ![out] = Empty] ELSE files

\* F_None
Opened(files) == [files EXCEPT ![out] = Empty]

\* Out.reset(new ToolOutputFile(...)).  EC is not looked at.
OpenOutput ==
    /\ pc = "open" /\ UsesToolOutputFile
    /\ IF out \in locked THEN tof' = "failed" /\ UNCHANGED fs
       ELSE tof' = "open" /\ fs' = Opened(fs)
    /\ pc' = "read"
    /\ UNCHANGED <<command, M, status>>

OpenNothing ==
    /\ pc = "open" /\ ~UsesToolOutputFile
    /\ pc' = "read"
    /\ UNCHANGED <<command, fs, tof, M, status>>

\* What a file is read as.  parseIRFile takes what is no bitcode for text, and
\* an empty text is a module with nothing in it; LLVMParseBitcode refuses it.
EmptyModule == Module("", TRUE)
Parsed(c) == IF c = Empty /\ UsesToolOutputFile THEN EmptyModule ELSE c

\* parseIRFile, LLVMParseBitcode
Read ==
    /\ pc = "read"
    /\ \/ /\ Parsed(fs[in]).kind = "module"
          /\ M' = Parsed(fs[in])
          /\ pc' = "passes"
          /\ UNCHANGED <<fs, status>>
       \/ /\ Parsed(fs[in]).kind # "module"
          /\ Exit("failed")
          /\ fs' = Cleaned(fs)
          /\ UNCHANGED M
    /\ UNCHANGED <<command, tof>>

With(m, passes) == [m EXCEPT !.passes = @ \o passes]

FirstPasses == (IF "mem2reg" \in options THEN <<"mem2reg">> ELSE << >>) \o <<"dce">>

\* p4's verifier pass ends the process.
Passes ==
    /\ pc = "passes"
    /\ \/ /\ tool = "p4" /\ ~M.valid
          /\ Exit("failed")
          /\ fs' = Cleaned(fs)
          /\ UNCHANGED M
       \/ /\ tool = "p4" /\ M.valid
          /\ M' = With(M, FirstPasses \o IF "no-cse" \in options THEN << >> ELSE <<"cse">>)
          /\ pc' = "stats"
          /\ UNCHANGED <<fs, status>>
       \/ /\ tool # "p4"
          /\ M' = IF tool \in {"dce", "dcecpp"} THEN With(M, <<"dce">>) ELSE M
          /\ pc' = "stats"
          /\ UNCHANGED <<fs, status>>
    /\ UNCHANGED <<command, tof>>

\* Summarize: a file that does not open is written to as NULL.
Summarize ==
    /\ pc = "stats"
    /\ \/ /\ ~WritesStats
          /\ pc' = "write"
          /\ UNCHANGED <<fs, status>>
       \/ /\ WritesStats /\ StatsName \notin locked
          /\ fs' = [fs EXCEPT ![StatsName] = Stats]
          /\ pc' = "write"
          /\ UNCHANGED status
       \/ /\ WritesStats /\ StatsName \in locked
          /\ Exit("signal")
          /\ fs' = Cleaned(fs)
    /\ UNCHANGED <<command, tof, M>>

Final == IF tool = "p4" THEN With(M, <<"dce", "simplifycfg">>) ELSE M

\* A bug: the module is written without being verified.
Verified_any == TRUE

\* LLVMVerifyModule
Verified == tool \in {"dce", "dcecpp"} => M.valid

\* A ToolOutputFile writes where it is in the file it has open: what else has
\* been written there meanwhile is still behind that.  If it did not open, its
\* stream ends the process.  The C tools do not look at the result.
Write ==
    /\ pc = "write"
    /\ \/ /\ ~Verified
          /\ Exit("ok")
          /\ fs' = Cleaned(fs)
       \/ /\ Verified /\ tof = "open"
          /\ Exit("ok")
          /\ fs' = [fs EXCEPT ![out] = IF @ = Empty THEN Final ELSE Mixed]
       \/ /\ Verified /\ tof = "failed"
          /\ Exit("failed")
          /\ UNCHANGED fs
       \/ /\ Verified /\ ~UsesToolOutputFile
          /\ Exit("ok")
          /\ fs' = IF out \in locked THEN fs ELSE [fs EXCEPT ![out] = Final]
    /\ UNCHANGED <<command, tof, M>>

Next == OpenOutput \/ OpenNothing \/ Read \/ Passes \/ Summarize \/ Write

Spec == Init /\ [][Next]_vars

-----------------------------------------------------------------------------
TypeOK ==
    /\ \A f \in Names : fs[f].kind \in {"absent", "empty", "text", "module", "stats", "mixed"}
    /\ tof \in {"none", "failed", "open"}
    /\ tof = "open" /\ status = "running" => fs[out] \in {Empty, Stats}
    /\ pc \in {"open", "read", "passes", "stats", "write", "exit"}
    /\ status \in {"running", "ok", "failed", "signal"}

\* A tool that opens its output first has emptied its input when the two are
\* one file, and reads the module with nothing in it.
Emptied == in = out /\ UsesToolOutputFile /\ out \notin locked
Input == IF Emptied THEN EmptyModule ELSE Parsed(original[in])

\* What the command makes of that: the passes in the order of p4's options.
If(c, p) == IF c THEN <<p>> ELSE << >>
Wanted ==
    With(Input,
         CASE tool \in {"dce", "dcecpp"} -> <<"dce">>
           [] tool \in {"p3", "p3cpp"} -> << >>
           [] tool = "p4" -> If("mem2reg" \in options, "mem2reg") \o <<"dce">>
                                \o If("no-cse" \notin options, "cse") \o <<"dce", "simplifycfg">>)

Fits == Input.kind = "module" /\ (tool \in {"p3", "p3cpp"} \/ Input.valid)

\* An exit status of 0 means that the output is there and is what the command
\* makes of its input, except where a tool of Tutorials/5 says on stderr that it
\* was not created, and where the C tools do not see that it does not open.  p3
\* in C++ cannot have it where its statistics go (p4/main.cpp:67,
\* p3cpp/main.cpp:56, dce.cpp:206).  Where the input is the output, that of a tool
\* that opens it first is a module with nothing in it, and a success all the same.
SuccessIsOutput ==
    status = "ok" =>
        \/ fs[out] = Wanted /\ Fits
        \/ tool \in {"dce", "dcecpp"} /\ ~Input.valid
        \/ ~UsesToolOutputFile /\ out \in locked
        \/ tool = "p3cpp" /\ out = StatsOf[in]

\* However a run ends, the output is what it was, is gone or is whole: nothing
\* half-written is left for make to take for the target, not when the input is
\* bad, the statistics crash or the verifier gives up.
NothingHalf ==
    status # "running" =>
        \/ fs[out] \in {original[out], Absent, Stats}
        \/ fs[out] = Wanted /\ Fits
        \/ tool = "p3cpp" /\ out = StatsOf[in]

\* The output of a success, and of everything else.
OutputSound == TypeOK /\ SuccessIsOutput /\ NothingHalf

\* "preserve original" (dce.c:231): the input changes only when it is named as
\* the output, or as p4's statistics; when as the output, the C tools read all
\* of it before they write, and a failing run leaves it; the others have lost
\* it when they come to read it, and not one of them says so: they leave the
\* module with nothing in it and succeed, or crash over the statistics.
OriginalKept ==
    /\ in # out /\ ~(WritesStats /\ StatsName = in) => fs[in] = original[in]
    /\ in = out /\ ~UsesToolOutputFile /\ status # "ok" => fs[in] = original[in]
    /\ Emptied /\ status # "running" =>
          \/ status = "ok" /\ fs[in] = Wanted
          \/ status = "signal" /\ fs[in] = Absent
=============================================================================
