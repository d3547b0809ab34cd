------------------------------- MODULE UiTool -------------------------------
(***************************************************************************)
(* pyuic6 as a program: what it does with its arguments, with a directory  *)
(* of .ui files and with files that it cannot convert (uic/pyuic.py and    *)
(* uic/compile_ui.py).                                                     *)
(***************************************************************************)
EXTENDS Naturals, FiniteSets, SequencesExt

CONSTANTS
    UiFiles,    \* the files of the directory, in the order they are found
    BadFiles,   \* those that cannot be converted
    Workers     \* numbers of worker processes that may be asked for

ASSUME UiFilesAssumption == UiFiles # << >> /\ UiFiles \in Seq(Range(UiFiles))

VARIABLES
    ask,      \* the arguments: input and output are "file", "dir", "none" or "stdout"
    module,   \* for each file its module: "old", "partial" or "complete"
    jobs,     \* the files not begun yet
    running,  \* the files that are being converted
    status    \* the exit status, -1 while running

toolVars == <<ask, module, jobs, running, status>>

\* Where the modules of a directory go, "error" if that is not a directory.
MapOf(output) ==
    CASE output = "stdout" -> "beside"
      [] output \in {"dir", "none"} -> "output"
      [] OTHER -> "error"

\* What is converted, "error" if input and output do not fit.
Accepted(a) ==
    CASE a.preview -> IF a.input = "file" THEN "none" ELSE "error"
      [] ~ a.preview /\ a.input = "dir" -> IF MapOf(a.output) = "error" THEN "error" ELSE "all"
      [] OTHER -> IF a.output = "dir" THEN "error" ELSE "one"

ToolInit ==
    /\ ask \in [input : {"file", "dir"}, output : {"stdout", "file", "dir", "none"},
                preview : BOOLEAN, workers : Workers]
    /\ module = [f \in Range(UiFiles) |-> "old"]
    /\ jobs = IF Accepted(ask) = "all" THEN UiFiles
              ELSE IF Accepted(ask) = "one" THEN <<Head(UiFiles)>> ELSE << >>
    /\ running = {}
    /\ status = IF Accepted(ask) = "error" THEN 1 ELSE -1

AtOnce == IF ask.input = "dir" /\ ask.workers > 0 THEN ask.workers ELSE 1

\* The module is opened, and so emptied, before the .ui file is read.
RunJob ==
    /\ status = -1 /\ jobs # << >> /\ Cardinality(running) < AtOnce
    /\ module' = [module EXCEPT ![Head(jobs)] = "partial"]
    /\ running' = running \cup {Head(jobs)}
    /\ jobs' = Tail(jobs)
    /\ UNCHANGED <<ask, status>>

\* A fault: a file that fails does not stop the others.
AfterFailureOn == status

\* The first failure ends the program; that of a worker is not heard of.
AfterFailure == IF ask.workers = 0 \/ ask.input = "file" THEN 1 ELSE status

CompileUi(f) ==
    /\ status = -1 /\ f \in running
    /\ running' = running \ {f}
    /\ module' = IF f \in BadFiles THEN module ELSE [module EXCEPT ![f] = "complete"]
    /\ status' = IF f \in BadFiles THEN AfterFailure ELSE status
    /\ UNCHANGED <<ask, jobs>>

ToolExit ==
    /\ status = -1 /\ jobs = << >> /\ running = {}
    /\ status' = 0
    /\ UNCHANGED <<ask, module, jobs, running>>

ToolNext == RunJob \/ ToolExit \/ \E f \in Range(UiFiles) : CompileUi(f)

-----------------------------------------------------------------------------
(* Properties.                                                             *)

\* Without workers, success means that every file that was asked for has its
\* module, and failure that one was not begun or is not complete (pyuic.py
\* 62-100, compile_ui.py 116-123).  Workers may fail unheard (119-120).
StatusTells ==
    /\ status = 0 /\ (ask.workers = 0 \/ ask.input = "file") /\ ~ ask.preview =>
         \A f \in Range(UiFiles) :
           ask.input = "dir" \/ f = Head(UiFiles) => module[f] = "complete"
    /\ status = 1 => \E f \in Range(UiFiles) : module[f] # "complete"

-----------------------------------------------------------------------------
(* For the proofs in ToolsProofs.                                          *)

ToolSpec == ToolInit /\ [][ToolNext]_toolVars

ToolTypeOK ==
    /\ ask.input \in {"file", "dir"} /\ ask.preview \in BOOLEAN
    /\ module \in [Range(UiFiles) -> {"old", "partial", "complete"}]
    /\ jobs \in Seq(Range(UiFiles))
    /\ running \subseteq Range(UiFiles)
    /\ status \in {-1, 0, 1}

\* The first failure is heard of.
Heard == ask.workers = 0 \/ ask.input = "file"
Wanted(f) == ask.input = "dir" \/ f = Head(UiFiles)

\* As long as nothing has failed, what was asked for is done, is being done or
\* is still to be done.
NothingForgotten ==
    status # 1 /\ Heard /\ ~ ask.preview =>
      \A f \in Range(UiFiles) : Wanted(f) =>
        module[f] = "complete" \/ f \in Range(jobs) \/ f \in running

\* What is bad is never complete, and a failure left something incomplete.
BadIncomplete ==
    /\ \A f \in Range(UiFiles) \cap BadFiles : module[f] # "complete"
    /\ status = 1 => \E f \in Range(UiFiles) : module[f] # "complete"

ToolInv ==
    /\ ToolTypeOK
    /\ NothingForgotten
    /\ BadIncomplete
    /\ status = 0 => jobs = << >> /\ running = {}
=============================================================================
