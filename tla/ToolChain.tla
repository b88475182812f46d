----------------------------- MODULE ToolChain -----------------------------
(***************************************************************************)
(* whoop.py: the driver script runs the tools of the chain one after the   *)
(* other, each as a child process that a timer thread (ToolWatcher) kills  *)
(* when its time is up, turns the first failure into an exit code, and     *)
(* deletes the intermediate files on the way out.                          *)
(*                                                                         *)
(* A file is named by its suffix; the check_racy file of a pair, by the    *)
(* pair.                                                                   *)
(***************************************************************************)
EXTENDS Naturals, Sequences, Functions, RaceCheckerInterface

CONSTANTS
    Pair,
    OptionSet,      \* the command lines considered, records as in Options
    MayInterrupt,   \* the user may press ctrl-c
    LeftOver        \* the sets of files earlier runs may have left (--keep-temps)

Tools == <<"chauffeur", "clang", "smack", "engine", "cruncher", "raceChecker", "corral">>

\* input: extension of the first argument; stopAt, skipUntil: a tool or "none".
Options == [input : {"c", "bc", "bpl"}, stopAt : Range(Tools) \cup {"none"},
            skipUntil : Range(Tools) \cup {"none"}, keepTemps : BOOLEAN,
            findBugs : BOOLEAN, skipNonRacyPairs : BOOLEAN, noInfer : BOOLEAN,
            timeout : BOOLEAN]

File == {"c", "re", "info", "fp", "bc", "bpl", "wbpl", "summaries"} \cup Pair

ASSUME ToolChainAssumption ==
    /\ OptionSet \subseteq Options
    /\ MayInterrupt \in BOOLEAN
    /\ LeftOver \subseteq SUBSET (File \ {"c"})     \* no tool writes a .c file

VARIABLES
    opt,        \* CommandLineOptions
    files,      \* files in the driver's directory
    tool,       \* position in Tools
    todo,       \* corral: check_racy files still to be analysed
    emitted,    \* check_racy files emitted by this run
    analysed,   \* check_racy files Corral has run on
    proc,       \* state of the child process
    timer,      \* state of the ToolWatcher
    killed,     \* ToolWatcher.__killed
    failed,     \* tools whose return code was not 0
    at,         \* where the main thread is
    exit,       \* exit code, "none" before it is known
    verified    \* the end was reached; "Verified: ..." printed unless --silent

vars == <<opt, files, tool, todo, emitted, analysed, proc, timer, killed, failed, at, exit, verified>>

\* The error codes that startToolChain passes to runTool.
ErrorCode(t) ==
    CASE t \in {"chauffeur", "clang"} -> "CLANG_ERROR"
      [] t = "smack"                  -> "SMACK_ERROR"
      [] t \in {"engine", "cruncher"} -> "WHOOP_ERROR"
      [] t = "raceChecker"            -> "DRIVER_ERROR"
      [] t = "corral"                 -> "CORRAL_ERROR"

Index(t) == CHOOSE i \in 1 .. Len(Tools) : Tools[i] = t

\* getSourceFiles, processGeneralOptions: a .bc or .bpl input, and every
\* --skip-until option, skips the tools before it.
Skipped(t) ==
    \/ opt.skipUntil # "none" /\ Index(t) < Index(opt.skipUntil)
    \/ opt.input = "bc" /\ Index(t) < Index("smack")
    \/ opt.input = "bpl" /\ Index(t) < Index("engine")

\* startToolChain passes over a tool that is skipped, the cruncher without
\* inference, and Corral unless bugs are looked for.
Omitted(t) ==
    \/ Skipped(t)
    \/ t = "cruncher" /\ opt.noInfer
    \/ t = "corral" /\ ~opt.findBugs

\* The stop options are tested inside "if not skip" from the engine on.
StopsAfter(t) ==
    /\ opt.stopAt = t
    /\ t \in {"engine", "cruncher", "raceChecker"} => ~Omitted(t)

Init ==
    /\ opt \in OptionSet
    /\ files \in {{opt.input} \cup S : S \in LeftOver}
    /\ tool = 1 /\ todo = {} /\ emitted = {} /\ analysed = {} /\ failed = {}
    /\ proc = "none" /\ timer = "off" /\ killed = FALSE
    /\ at = "next" /\ exit = "none" /\ verified = FALSE

\* The files a tool reads.
Needs(t) ==
    CASE t = "chauffeur"   -> {"c"}
      [] t = "clang"       -> {"re"}
      [] t = "smack"       -> {"bc"}
      [] t = "engine"      -> {"bpl", "info", "fp"}
      [] t = "cruncher"    -> {"wbpl", "info"}
      [] t = "raceChecker" -> {"wbpl", "info", "summaries"}
      [] t = "corral"      -> {}

\* The files it writes when it succeeds.
Produces(t) ==
    CASE t = "chauffeur"   -> {"re", "info", "fp"}
      [] t = "clang"       -> {"bc"}
      [] t = "smack"       -> {"bpl"}
      [] t = "engine"      -> {"wbpl", "summaries"}
      [] t = "cruncher"    -> {"wbpl"}
      [] t \in {"raceChecker", "corral"} -> {}

\* The .bc file is put on smack's command line only for a .c input.
GetsInput(t) == t = "smack" => opt.input = "c"

-----------------------------------------------------------------------------
(* startToolChain: from tool to tool *)

\* Mutant: the time for Corral is not limited.
Launch_CorralUnlimited(t, corralFiles) ==
    /\ proc' = "running" /\ killed' = FALSE
    /\ timer' = IF opt.timeout /\ t # "corral" THEN "armed" ELSE "off"
    /\ todo' = corralFiles
    /\ at' = "wait"
    /\ UNCHANGED <<opt, files, tool, emitted, analysed, failed, exit, verified>>

\* runTool up to Popen; corral is started once per check_racy file found in the
\* directory when the loop began.
Launch(t, corralFiles) ==
    /\ proc' = "running" /\ killed' = FALSE
    /\ timer' = IF opt.timeout THEN "armed" ELSE "off"
    /\ todo' = corralFiles
    /\ at' = "wait"
    /\ UNCHANGED <<opt, files, tool, emitted, analysed, failed, exit, verified>>

\* return 0 from startToolChain
ReturnSuccess ==
    /\ at' = "clean" /\ exit' = "SUCCESS"
    /\ UNCHANGED <<opt, files, tool, todo, emitted, analysed, proc, timer, killed, failed>>

StartTool ==
    /\ at = "next" /\ tool <= Len(Tools)
    /\ LET t == Tools[tool] IN
        /\ ~Omitted(t)
        /\ IF t = "corral"
           THEN files \cap Pair # {} /\ Launch(t, files \cap Pair)
           ELSE Launch(t, {})

\* Past a tool that is not run (no file for Corral included).
PassTool ==
    /\ at = "next" /\ tool <= Len(Tools)
    /\ LET t == Tools[tool] IN
        /\ Omitted(t) \/ (t = "corral" /\ files \cap Pair = {})
        /\ IF StopsAfter(t)
           THEN ReturnSuccess /\ verified' = FALSE
           ELSE /\ tool' = tool + 1
                /\ UNCHANGED <<opt, files, todo, emitted, analysed, proc, timer, killed, failed, at, exit, verified>>

\* The end of the chain prints its verdict.
ReportStatus ==
    /\ at = "next" /\ tool = Len(Tools) + 1
    /\ ReturnSuccess /\ verified' = TRUE

-----------------------------------------------------------------------------
(* The child process *)

\* A tool succeeds only on its inputs; one that fails may have written its output.
ToolEnds ==
    /\ proc = "running"
    /\ LET t == Tools[tool] IN
        \/ /\ t # "raceChecker"
           /\ \/ proc' = "ok" /\ GetsInput(t) /\ Needs(t) \subseteq files /\ files' = files \cup Produces(t)
              \/ proc' = "error" /\ files' \in {files, files \cup Produces(t)}
           /\ UNCHANGED emitted
        \/ /\ t = "raceChecker"
           /\ \E outcome \in Outcome, S \in SUBSET Pair :
                /\ Contract(Pair, opt.findBugs, opt.skipNonRacyPairs, outcome, S)
                /\ ~(Needs(t) \subseteq files) => outcome = "FatalError" /\ S = {}
                /\ proc' = IF outcome = "Done" THEN "ok" ELSE "error"
                /\ files' = files \cup S
                /\ emitted' = S
    /\ UNCHANGED <<opt, tool, todo, analysed, timer, killed, failed, at, exit, verified>>

-----------------------------------------------------------------------------
(* ToolWatcher.  The watcher of a tool only knows that tool's process. *)

\* Mutant: the process is terminated and the timeout not noted.
TimerMarks_KillsFirst ==
    /\ timer = "polled"
    /\ timer' = "killing"
    /\ proc' = IF proc = "running" THEN "terminated" ELSE proc
    /\ UNCHANGED <<opt, files, tool, todo, emitted, analysed, killed, failed, at, exit, verified>>

\* __handleTimeOut finds the process running, ...
TimerPolls ==
    /\ at = "wait" /\ timer = "armed" /\ proc = "running"
    /\ timer' = "polled"
    /\ UNCHANGED <<opt, files, tool, todo, emitted, analysed, proc, killed, failed, at, exit, verified>>

\* ... sets __killed ...
TimerMarks ==
    /\ timer = "polled"
    /\ timer' = "killing" /\ killed' = TRUE
    /\ UNCHANGED <<opt, files, tool, todo, emitted, analysed, proc, failed, at, exit, verified>>

\* ... and terminates it, unless it has just ended by itself (psutil, when it is
\* installed, then raises in the timer thread: the same outcome) ...
TimerTerminates ==
    /\ timer = "killing"
    /\ timer' = "fired"
    /\ proc' = IF proc = "running" THEN "terminated" ELSE proc
    /\ UNCHANGED <<opt, files, tool, todo, emitted, analysed, killed, failed, at, exit, verified>>

\* ... or psutil cannot list its children (get_children is gone from its newer
\* versions): the timer thread ends and the process runs on.
TimerRaises ==
    /\ timer = "killing" /\ proc = "running"
    /\ timer' = "raised"
    /\ UNCHANGED <<opt, files, tool, todo, emitted, analysed, proc, killed, failed, at, exit, verified>>

-----------------------------------------------------------------------------
(* run and runTool, from communicate on *)

\* raise ReportAndExit(code), caught by main
Raise(code) ==
    /\ at' = "clean" /\ exit' = code
    /\ timer' = "off"
    /\ UNCHANGED <<opt, files, tool, todo, emitted, analysed, proc, killed, verified>>

\* Popen raises an OSError, for any tool and for any file of Corral's.
CannotInvoke ==
    /\ tool <= Len(Tools)
    /\ \/ /\ at = "next" /\ ~Omitted(Tools[tool])
          /\ Tools[tool] = "corral" => files \cap Pair # {}
       \/ at = "corral"
    /\ Raise(ErrorCode(Tools[tool])) /\ UNCHANGED failed

TimedOut ==
    /\ at = "wait" /\ proc # "running" /\ killed
    /\ Raise("TIMEOUT") /\ UNCHANGED failed

\* Mutant: with --find-bugs no tool's failure ends the chain.
Tolerated_AnyTool(t) == opt.findBugs

\* With --find-bugs the return code of the race checker is not looked at.
Tolerated(t) == opt.findBugs /\ t = "raceChecker"

ToolFailed ==
    /\ at = "wait" /\ proc \in {"error", "terminated"} /\ ~killed
    /\ ~Tolerated(Tools[tool])
    /\ Raise(ErrorCode(Tools[tool]))
    /\ failed' = failed \cup {Tools[tool]}

\* processBPL reads the .info file after smack; main cleans up and raises again.
ProcessBPLFails ==
    /\ at = "wait" /\ ~killed
    /\ proc = "ok" /\ Tools[tool] = "smack" /\ "info" \notin files
    /\ Raise("exception") /\ UNCHANGED failed

\* The tool is done: the next file for Corral, the end of the chain, or the next tool.
ToolReturns ==
    /\ at = "wait" /\ ~killed
    /\ proc = "ok" \/ (proc \in {"error", "terminated"} /\ Tolerated(Tools[tool]))
    /\ Tools[tool] = "smack" => "info" \in files
    /\ timer' = "off" /\ proc' = "none"
    /\ failed' = IF proc = "ok" THEN failed ELSE failed \cup {Tools[tool]}
    /\ LET t == Tools[tool] IN
        \/ /\ t = "corral"
           /\ \E f \in todo : todo' = todo \ {f} /\ analysed' = analysed \cup {f}
           /\ IF todo' = {}
              THEN at' = "next" /\ tool' = tool + 1 /\ UNCHANGED exit
              ELSE at' = "corral" /\ UNCHANGED <<tool, exit>>
        \/ /\ t # "corral"
           /\ UNCHANGED <<todo, analysed>>
           /\ IF StopsAfter(t)
              THEN at' = "clean" /\ exit' = "SUCCESS" /\ UNCHANGED tool
              ELSE at' = "next" /\ tool' = tool + 1 /\ UNCHANGED exit
    /\ UNCHANGED <<opt, files, emitted, killed, verified>>

\* runCorral goes to its next file.
NextCorral ==
    /\ at = "corral"
    /\ Launch("corral", todo)

\* KeyboardInterrupt: the timeout is cancelled, the process waited for.
Interrupt ==
    /\ MayInterrupt /\ at = "wait"
    /\ at' = "interrupted" /\ timer' = IF timer = "armed" THEN "off" ELSE timer
    /\ UNCHANGED <<opt, files, tool, todo, emitted, analysed, proc, killed, failed, exit, verified>>

InterruptEnds ==
    /\ at = "interrupted" /\ proc # "running"
    /\ Raise("CTRL_C") /\ UNCHANGED failed

\* Between two tools nothing catches a KeyboardInterrupt: it is no Exception, and
\* main does not clean up.
InterruptUncaught ==
    /\ MayInterrupt /\ at \in {"next", "corral", "clean"}
    /\ at' = "exited" /\ exit' = "uncaught"
    /\ UNCHANGED <<opt, files, tool, todo, emitted, analysed, proc, timer, killed, failed, verified>>

-----------------------------------------------------------------------------
(* main: doCleanUp calls what startToolChain registered *)

Unless(t, S) == IF opt.stopAt = t THEN {} ELSE S

\* Mutant: the list of summaries is forgotten.
Deleted_ForgetsSummaries ==
    (({"bc"} \cup Unless("chauffeur", {"re", "info", "fp"}) \cup Unless("smack", {"bpl"}))
        \ {opt.input})
    \cup Unless("cruncher", {"wbpl"}) \cup Unless("raceChecker", {"bpl"} \cup Pair)

\* DeleteFile spares the input, DeleteFilesWithPattern does not; the pattern made
\* of the full .wbpl name matches no file.
Deleted ==
    (({"bc"} \cup Unless("chauffeur", {"re", "info", "fp"}) \cup Unless("smack", {"bpl"})
             \cup Unless("engine", {"summaries"})) \ {opt.input})
    \cup Unless("cruncher", {"wbpl"}) \cup Unless("raceChecker", {"bpl"} \cup Pair)

CleanUp ==
    /\ at = "clean"
    /\ files' = IF opt.keepTemps THEN files ELSE files \ Deleted
    /\ at' = "exited"
    /\ UNCHANGED <<opt, tool, todo, emitted, analysed, proc, timer, killed, failed, exit, verified>>

MainStep ==
    \/ StartTool \/ PassTool \/ ReportStatus \/ CannotInvoke
    \/ TimedOut \/ ToolFailed \/ ProcessBPLFails \/ ToolReturns \/ NextCorral
    \/ InterruptEnds \/ CleanUp
TimerStep == TimerPolls \/ TimerMarks \/ TimerTerminates \/ TimerRaises

Next == MainStep \/ TimerStep \/ ToolEnds \/ Interrupt \/ InterruptUncaught

\* The interpreter runs its threads and timers expire.  Nothing is assumed of the
\* tools: one may run for ever.
Fairness == WF_vars(MainStep) /\ WF_vars(TimerStep)

Spec == Init /\ [][Next]_vars /\ Fairness

-----------------------------------------------------------------------------
(* Properties *)

\* A tool that the watcher terminated is reported as a timeout, never as the
\* tool's own failure, however the timer thread and communicate interleave (run and
\* ToolWatcher), unless ctrl-c ends the script.
TimeoutReported ==
    at \in {"clean", "exited"} /\ proc = "terminated" =>
        exit \in {"TIMEOUT", "CTRL_C", "uncaught"}

\* The verdict is printed only if no tool failed (with --find-bugs, none but the
\* race checker), and then Corral has run on every pair this run emitted.
VerdictEarned ==
    verified => /\ failed \subseteq (IF opt.findBugs THEN {"raceChecker"} ELSE {})
                /\ opt.findBugs => emitted \subseteq analysed

\* A run without --keep-temps or a stop option leaves no intermediate file, whatever
\* an earlier run had left, on every way out that main handles: success, the failure
\* or timeout of any tool, ctrl-c during a tool, an exception before the clean-up.
NoTempsLeft ==
    at = "exited" /\ ~opt.keepTemps /\ opt.stopAt = "none" /\ exit # "uncaught" => files \subseteq {opt.input}

\* With --timeout (every command line of the run has it) the chain exits, even if
\* a tool never ends, unless the user interrupts a tool and so cancels its timer, or
\* the timer thread dies in psutil before it has terminated a tool.
ChainExits == <>(at \in {"exited", "interrupted"} \/ timer = "raised")
=============================================================================
