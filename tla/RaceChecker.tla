---------------------------- MODULE RaceChecker ----------------------------
(***************************************************************************)
(* WhoopRaceChecker.exe: every entry-point pair is handed to Boogie's      *)
(* verification-condition generator, the outcome is counted and its        *)
(* counterexamples reported; with /findBugs a program with yields is then  *)
(* emitted for Corral for every pair that is not skipped.  The exit status *)
(* is computed from the counters.                                          *)
(***************************************************************************)
EXTENDS Naturals, FiniteSets, RaceCheckerInterface

CONSTANTS
    Pair,               \* DeviceDriver.EntryPointPairs
    FindBugs, SkipRaceFreePairs, YieldAll,   \* command-line options
    MaxErrors           \* bound on the counterexamples of one pair

ASSUME RaceCheckerAssumption ==
    /\ IsFiniteSet(Pair)
    /\ {FindBugs, SkipRaceFreePairs, YieldAll} \subseteq BOOLEAN
    /\ MaxErrors \in Nat \ {0}

VARIABLES
    pairMap,    \* pairs analysed so far
    outcome,    \* what the verifier said of each of them
    FoundErrors,\* pairs whose ErrorReporter has reported something
    stats,      \* PipelineStatistics
    yielded,    \* pairs the second loop has passed
    emitted,    \* pairs with a check_racy file
    exit        \* exit status, "none" while running

vars == <<pairMap, outcome, FoundErrors, stats, yielded, emitted, exit>>

VCOutcome == {"ReachedBound", "Correct", "TimedOut", "OutOfMemory", "Inconclusive", "Errors"}
Counter == {"Verified", "Timeout", "OutOfMemory", "Inconclusive", "Error"}

Init ==
    /\ pairMap = {} /\ FoundErrors = {} /\ yielded = {} /\ emitted = {}
    /\ outcome = <<>>
    /\ stats = [c \in Counter |-> 0]
    /\ exit = "none"

Count(c, n) == stats' = [stats EXCEPT ![c] = @ + n]

\* StaticLocksetAnalyser.ProcessOutcome; n is the number of errors that the
\* reporter made of the counterexamples.  ReportRace turns a count of 0 into 1
\* and the other kinds of counterexample count one each, and Boogie answers
\* Errors with at least one counterexample, so n > 0: the branch errorCount == 0,
\* which would count the pair as verified, is not taken.
ProcessOutcome(o, n) ==
    CASE o \in {"ReachedBound", "Correct"} -> Count("Verified", 1)
      [] o = "TimedOut"     -> Count("Timeout", 1)
      [] o = "OutOfMemory"  -> Count("OutOfMemory", 1)
      [] o = "Inconclusive" -> Count("Inconclusive", 1)
      [] o = "Errors"       -> Count("Error", n)

\* One iteration of the first loop: parse, StaticLocksetAnalyser.Run.  The option
\* /analyseOnly is parsed, and no code looks at it.
Analyse(p) ==
    /\ exit = "none" /\ p \notin pairMap
    /\ pairMap' = pairMap \cup {p}
    /\ \E o \in VCOutcome, n \in 1 .. MaxErrors :
        /\ outcome' = [q \in pairMap' |-> IF q = p THEN o ELSE outcome[q]]
        /\ ProcessOutcome(o, n)
        /\ FoundErrors' = FoundErrors \cup (IF o = "Errors" THEN {p} ELSE {})
    /\ UNCHANGED <<yielded, emitted, exit>>

\* Mutant: the race-free pairs are the ones that are kept.
Skips_Racy(p) == ~YieldAll /\ SkipRaceFreePairs /\ p \in FoundErrors

\* The test at the head of the second loop.
Skips(p) == ~YieldAll /\ SkipRaceFreePairs /\ p \notin FoundErrors

\* One iteration of the second loop: YieldInstrumentationEngine.Run, or continue.
Yield(p) ==
    /\ FindBugs /\ exit = "none" /\ pairMap = Pair
    /\ p \in Pair \ yielded
    /\ yielded' = yielded \cup {p}
    /\ emitted' = IF Skips(p) THEN emitted ELSE emitted \cup {p}
    /\ UNCHANGED <<pairMap, outcome, FoundErrors, stats, exit>>

\* Mutant: pairs that ran out of time do not make the run fail.
ExitStatus_IgnoresTimeouts ==
    IF stats["Error"] + stats["Inconclusive"] + stats["OutOfMemory"] > 0
    THEN "LocksetAnalysisError" ELSE "Done"

ExitStatus ==
    IF stats["Error"] + stats["Inconclusive"] + stats["Timeout"] + stats["OutOfMemory"] > 0
    THEN "LocksetAnalysisError" ELSE "Done"

Finish ==
    /\ exit = "none" /\ pairMap = Pair
    /\ FindBugs => yielded = Pair
    /\ exit' = ExitStatus
    /\ UNCHANGED <<pairMap, outcome, FoundErrors, stats, yielded, emitted>>

\* Any exception, anywhere in Main.
Fail ==
    /\ exit = "none"
    /\ exit' = "FatalError"
    /\ UNCHANGED <<pairMap, outcome, FoundErrors, stats, yielded, emitted>>

Next == (\E p \in Pair : Analyse(p) \/ Yield(p)) \/ Finish \/ Fail

Spec == Init /\ [][Next]_vars

-----------------------------------------------------------------------------
(* Properties *)

\* The exit status is Done only if the verifier answered for every pair, and
\* never with an error: no pair escapes the exit code through its counter.
DoneMeansVerified ==
    exit = "Done" => pairMap = Pair /\ \A p \in Pair : outcome[p] \in {"Correct", "ReachedBound"}

\* A run that ends without an exception has emitted a Corral program for every
\* pair with a reported race, and keeps the contract that whoop.py relies on.
ExitContract ==
    exit # "none" =>
        /\ Contract(Pair, FindBugs, SkipRaceFreePairs /\ ~YieldAll, exit, emitted)
        /\ FindBugs /\ exit # "FatalError" => FoundErrors \subseteq emitted
=============================================================================
