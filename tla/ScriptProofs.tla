---------------------------- MODULE ScriptProofs ----------------------------
(***************************************************************************)
(* The two scripts around the tools.                                       *)
(*                                                                         *)
(* whoop.py (ToolChain), for every command line, set of pairs and set of   *)
(* files left behind, and every interleaving of the main thread, the timer *)
(* thread, the tools and ctrl-c: a tool that the timer killed is reported  *)
(* as a timeout, the verdict is earned, and no intermediate file stays.    *)
(*                                                                         *)
(* tester.py (TestRunner), for every number of workers and tests: the      *)
(* counter that the main thread polls counts the tests that are not done,  *)
(* so that nothing is running when the results are summarised.             *)
(***************************************************************************)
EXTENDS ToolChain, TestRunner, FiniteSetTheorems, TLAPS

-----------------------------------------------------------------------------
(* whoop.py: the inductive invariant *)

Shape ==
    /\ opt \in Options /\ tool \in 1 .. 8
    /\ at \in {"next", "wait", "corral", "interrupted", "clean", "exited"}
    /\ at \in {"wait", "interrupted"} => tool # 8
    /\ at = "corral" => tool = 7

\* The timer and the process of a tool are gone when the main thread has gone on,
\* and a process is terminated only after the timeout has been noted.
Watched ==
    /\ at \notin {"wait", "interrupted"} => timer = "off" /\ proc # "running"
    /\ at \in {"next", "corral"} => proc = "none"
    /\ timer \in {"killing", "fired", "raised"} \/ proc = "terminated" => killed
    /\ TimeoutReported

Allowed == IF opt.findBugs THEN {"raceChecker"} ELSE {}

\* What the chain has still to do before it may print its verdict.
Ledger ==
    /\ at \notin {"clean", "exited"} => ~ verified /\ failed \subseteq Allowed
    /\ at # "exited" => emitted \subseteq files \cap Pair
    /\ at \in {"wait", "corral"} /\ tool = 7 => emitted \subseteq todo \cup analysed
    /\ at = "next" /\ tool = 8 /\ opt.findBugs => emitted \subseteq analysed
    /\ VerdictEarned

\* Every file is one that the clean-up knows, or the input.
Known ==
    /\ files \subseteq File
    /\ "c" \in files /\ "c" \notin Pair => opt.input = "c"
    /\ NoTempsLeft

IInv == Shape /\ Watched /\ Ledger /\ Known

-----------------------------------------------------------------------------
(* The chain *)

\* The tools by their position: the race checker is the last but one, Corral the
\* last.
LEMMA ToolFacts ==
    /\ Len(Tools) = 7 /\ Tools[6] = "raceChecker" /\ Tools[7] = "corral"
    /\ \A k \in 1 .. 7 : /\ Tools[k] \in Range(Tools)
                         /\ Tools[k] = "corral" <=> k = 7
                         /\ Tools[k] = "raceChecker" <=> k = 6
<1>1. Len(Tools) = 7 /\ DOMAIN Tools = 1 .. 7 /\ Tools[6] = "raceChecker" /\ Tools[7] = "corral"
  BY DEF Tools
<1>2. \A k \in 1 .. 7 : (Tools[k] = "corral" <=> k = 7) /\ (Tools[k] = "raceChecker" <=> k = 6)
  BY DEF Tools
<1>3. \A k \in 1 .. 7 : Tools[k] \in Range(Tools)
  BY <1>1, Zenon DEF Range
<1> QED
  BY <1>1, <1>2, <1>3, Zenon

\* Index gives the position of a tool.
LEMMA IndexFacts == \A t \in Range(Tools) : Index(t) \in 1 .. 7 /\ Tools[Index(t)] = t
<1> SUFFICES ASSUME NEW t \in Range(Tools)
             PROVE  Index(t) \in 1 .. 7 /\ Tools[Index(t)] = t
  BY Zenon
<1>1. DOMAIN Tools = 1 .. 7 /\ Len(Tools) = 7
  BY DEF Tools
<1>2. \E k \in 1 .. Len(Tools) : Tools[k] = t
  BY <1>1, Zenon DEF Range
<1> QED
  BY <1>1, <1>2, Zenon DEF Index

\* No option skips Corral: it is the last of the tools.
LEMMA CorralNotSkipped == Shape => ~ Skipped("corral")
<1> SUFFICES ASSUME Shape PROVE ~ Skipped("corral")
  OBVIOUS
<1>1. "corral" \in Range(Tools) /\ "smack" \in Range(Tools) /\ "engine" \in Range(Tools)
  <2>1. DOMAIN Tools = 1 .. 7 /\ Tools[7] = "corral" /\ Tools[3] = "smack" /\ Tools[4] = "engine"
        /\ 7 \in 1 .. 7 /\ 3 \in 1 .. 7 /\ 4 \in 1 .. 7
    BY DEF Tools
  <2> QED
    BY <2>1, Zenon DEF Range
<1>2. Index("corral") = 7
  BY <1>1, IndexFacts, ToolFacts, Zenon
<1>3. \A t \in Range(Tools) : ~ (Index("corral") < Index(t))
  BY <1>2, IndexFacts
<1>4. opt.skipUntil # "none" => opt.skipUntil \in Range(Tools)
  BY Zenon DEF Shape, Options
<1> QED
  BY <1>1, <1>3, <1>4, Zenon DEF Skipped

-----------------------------------------------------------------------------
(* The invariant is inductive *)

\* The script starts in a state that satisfies the invariant.
LEMMA IInvInit == Init => IInv
<1> SUFFICES ASSUME Init PROVE IInv
  OBVIOUS
<1>1. opt \in Options /\ opt.input \in {"c", "bc", "bpl"}
  BY ToolChainAssumption, Zenon DEF Init, Options
<1>2. Shape
  BY <1>1 DEF Init, Shape
<1>3. Watched /\ TimeoutReported
  BY Zenon DEF Init, Watched, TimeoutReported
<1>4. Ledger
  BY DEF Init, Ledger, VerdictEarned
<1>5. files \subseteq File /\ ("c" \in files => opt.input = "c")
  <2>1. PICK S \in LeftOver : files = {opt.input} \cup S
    BY Zenon DEF Init
  <2>2. S \subseteq File \ {"c"}
    BY ToolChainAssumption, Zenon
  <2>3. opt.input \in File
    BY <1>1, Zenon DEF File
  <2> QED
    BY <2>1, <2>2, <2>3, Zenon
<1>6. Known
  BY <1>5, Zenon DEF Init, Known, NoTempsLeft
<1> QED
  BY <1>2, <1>3, <1>4, <1>6, Zenon DEF IInv

\* Where each step leads the main thread.
LEMMA ShapeNext == Shape /\ [Next]_vars => Shape'
<1> SUFFICES ASSUME Shape, [Next]_vars PROVE Shape'
  OBVIOUS
<1> USE ToolFacts DEF Shape
<1>1. CASE StartTool
  BY <1>1 DEF StartTool, Launch
<1>2. CASE PassTool
  BY <1>2 DEF PassTool, ReturnSuccess
<1>3. CASE ReportStatus
  BY <1>3, Zenon DEF ReportStatus, ReturnSuccess
<1>4. CASE CannotInvoke \/ TimedOut \/ ToolFailed \/ ProcessBPLFails \/ InterruptEnds
  BY <1>4, Zenon DEF CannotInvoke, TimedOut, ToolFailed, ProcessBPLFails, InterruptEnds, Raise
<1>5. CASE ToolReturns
  BY <1>5 DEF ToolReturns
<1>6. CASE NextCorral
  BY <1>6 DEF NextCorral, Launch
<1>7. CASE CleanUp
  BY <1>7, Zenon DEF CleanUp
<1>8. CASE TimerStep
  BY <1>8, Zenon DEF TimerStep, TimerPolls, TimerMarks, TimerTerminates, TimerRaises
<1>9. CASE ToolEnds
  BY <1>9, Zenon DEF ToolEnds
<1>10. CASE Interrupt
  BY <1>10, Zenon DEF Interrupt
<1>11. CASE InterruptUncaught
  BY <1>11, Zenon DEF InterruptUncaught
<1>12. CASE UNCHANGED vars
  BY <1>12, Zenon DEF vars
<1> QED
  BY <1>1, <1>2, <1>3, <1>4, <1>5, <1>6, <1>7, <1>8, <1>9, <1>10, <1>11, <1>12, Zenon DEF Next, MainStep

\* A process is terminated only after the timeout has been noted, whatever the
\* timer thread and the main thread do in between.
LEMMA WatchedNext == Shape /\ Watched /\ [Next]_vars => Watched'
<1> SUFFICES ASSUME Shape, Watched, [Next]_vars PROVE Watched'
  OBVIOUS
<1> USE DEF Shape, Watched, TimeoutReported
<1>1. CASE StartTool
  BY <1>1, Zenon DEF StartTool, Launch
<1>2. CASE PassTool
  BY <1>2, Zenon DEF PassTool, ReturnSuccess
<1>3. CASE ReportStatus
  BY <1>3, Zenon DEF ReportStatus, ReturnSuccess
<1>4. CASE CannotInvoke \/ ProcessBPLFails
  BY <1>4, Zenon DEF CannotInvoke, ProcessBPLFails, Raise
<1>5. CASE TimedOut \/ ToolFailed \/ InterruptEnds
  BY <1>5, Zenon DEF TimedOut, ToolFailed, InterruptEnds, Raise
<1>6. CASE ToolReturns
  BY <1>6, Zenon DEF ToolReturns
<1>7. CASE NextCorral
  BY <1>7, Zenon DEF NextCorral, Launch
<1>8. CASE CleanUp
  BY <1>8, Zenon DEF CleanUp
<1>9. CASE TimerStep
  BY <1>9, Zenon DEF TimerStep, TimerPolls, TimerMarks, TimerTerminates, TimerRaises
<1>10. CASE ToolEnds
  BY <1>10, Zenon DEF ToolEnds
<1>11. CASE Interrupt
  BY <1>11, Zenon DEF Interrupt
<1>12. CASE InterruptUncaught
  BY <1>12, Zenon DEF InterruptUncaught
<1>13. CASE UNCHANGED vars
  BY <1>13, Zenon DEF vars
<1> QED
  BY <1>1, <1>2, <1>3, <1>4, <1>5, <1>6, <1>7, <1>8, <1>9, <1>10, <1>11, <1>12, <1>13, Zenon DEF Next, MainStep

\* The clean-up removes every file but the input, unless it is told not to.
LEMMA CleanUpRemoves ==
    ASSUME Shape, Known, opt.stopAt = "none"
    PROVE  files \ Deleted \subseteq {opt.input}
<1> SUFFICES ASSUME NEW f \in files, f \notin Deleted, f # opt.input
             PROVE  FALSE
  BY Zenon
<1>1. f \notin {"bc", "re", "info", "fp", "bpl", "summaries", "wbpl"} /\ f \notin Pair
  BY Zenon DEF Deleted, Unless
<1>2. f = "c"
  BY <1>1, Zenon DEF Known, File
<1> QED
  BY <1>1, <1>2, Zenon DEF Known

\* The tools write only files that the clean-up knows.
LEMMA KnownNext == Shape /\ Watched /\ Known /\ [Next]_vars => Known'
<1> SUFFICES ASSUME Shape, Watched, Known, [Next]_vars PROVE Known'
  OBVIOUS
<1>k. ASSUME UNCHANGED <<opt, files>>, at' # "exited" \/ exit' = "uncaught" \/ UNCHANGED <<at, exit>>
      PROVE  Known'
  BY <1>k, Zenon DEF Known, NoTempsLeft
<1>1. CASE StartTool \/ PassTool \/ ReportStatus
  <2>1. UNCHANGED <<opt, files>> /\ at' # "exited"
    BY <1>1, Zenon DEF StartTool, Launch, PassTool, ReportStatus, ReturnSuccess
  <2> QED
    BY <1>k, <2>1, Zenon
<1>2. CASE CannotInvoke \/ TimedOut \/ ToolFailed \/ ProcessBPLFails \/ InterruptEnds
  <2>1. UNCHANGED <<opt, files>> /\ at' # "exited"
    BY <1>2, Zenon DEF CannotInvoke, TimedOut, ToolFailed, ProcessBPLFails, InterruptEnds, Raise
  <2> QED
    BY <1>k, <2>1, Zenon
<1>3. CASE ToolReturns \/ NextCorral \/ Interrupt \/ InterruptUncaught
  <2>1. UNCHANGED <<opt, files>> /\ (at' # "exited" \/ exit' = "uncaught")
    BY <1>3, Zenon DEF ToolReturns, NextCorral, Launch, Interrupt, InterruptUncaught
  <2> QED
    BY <1>k, <2>1, Zenon
<1>4. CASE TimerStep \/ UNCHANGED vars
  <2>1. UNCHANGED <<opt, files, at, exit>>
    BY <1>4, Zenon DEF TimerStep, TimerPolls, TimerMarks, TimerTerminates, TimerRaises, vars
  <2> QED
    BY <1>k, <2>1, Zenon
<1>5. CASE CleanUp
  <2>1. opt' = opt /\ files' \subseteq files /\ (~ opt.keepTemps => files' = files \ Deleted)
    BY <1>5, Zenon DEF CleanUp
  <2> QED
    BY <2>1, CleanUpRemoves, Zenon DEF Known, NoTempsLeft
<1>6. CASE ToolEnds
  <2>1. UNCHANGED <<opt, at>> /\ at # "exited"
    BY <1>6, Zenon DEF ToolEnds, Watched
  <2>2. \A t \in Range(Tools) : Produces(t) \subseteq File \ {"c"}
    BY DEF Produces, File, Tools, Range
  <2>3. tool \in 1 .. 7 /\ Tools[tool] \in Range(Tools)
    BY <1>6, ToolFacts DEF ToolEnds, Watched, Shape
  <2>4. \A f \in files' : f \in files \/ f \in Pair \/ f \in File \ {"c"}
    BY <1>6, <2>2, <2>3, Zenon DEF ToolEnds
  <2>5. Pair \subseteq File
    BY Zenon DEF File
  <2> QED
    BY <2>1, <2>4, <2>5, Zenon DEF Known, NoTempsLeft
<1> QED
  BY <1>1, <1>2, <1>3, <1>4, <1>5, <1>6, Zenon DEF Next, MainStep

\* No failure is forgotten, and no emitted file on the way to Corral.
LEMMA LedgerNext == Shape /\ Watched /\ Ledger /\ [Next]_vars => Ledger'
<1> SUFFICES ASSUME Shape, Watched, Ledger, [Next]_vars PROVE Ledger'
  OBVIOUS
<1>1. CASE StartTool
  <2>1. /\ UNCHANGED <<opt, files, tool, emitted, analysed, failed, verified>> /\ at = "next" /\ at' = "wait"
        /\ tool \in 1 .. 7 /\ (Tools[tool] = "corral" => todo' = files \cap Pair)
    BY <1>1, ToolFacts DEF StartTool, Launch, Shape
  <2> QED
    BY <2>1, ToolFacts, Zenon DEF Ledger, VerdictEarned, Allowed
<1>2. CASE PassTool
  <2>1. /\ UNCHANGED <<opt, files, emitted, analysed, failed>> /\ at = "next" /\ verified' = FALSE
        /\ tool \in 1 .. 7
        /\ \/ at' = "clean"
           \/ at' = "next" /\ tool' = tool + 1 /\ (Omitted(Tools[tool]) \/ files \cap Pair = {})
    BY <1>2, ToolFacts DEF PassTool, ReturnSuccess, Shape, Ledger
  <2>2. ASSUME at' = "next", tool' = 8, opt.findBugs
        PROVE  emitted = {}
    <3>1. tool = 7
      BY <2>1, <2>2
    <3>2. ~ Omitted(Tools[tool])
      BY <2>2, <3>1, ToolFacts, CorralNotSkipped, Zenon DEF Omitted
    <3> QED
      BY <2>1, <2>2, <3>2, Zenon DEF Ledger
  <2> QED
    BY <2>1, <2>2, Zenon DEF Ledger, VerdictEarned, Allowed
<1>3. CASE ReportStatus
  <2>1. UNCHANGED <<opt, files, emitted, analysed, failed>> /\ at = "next" /\ at' = "clean" /\ tool = 8
    BY <1>3, ToolFacts DEF ReportStatus, ReturnSuccess
  <2> QED
    BY <2>1, Zenon DEF Ledger, VerdictEarned, Allowed
<1>4. CASE CannotInvoke \/ TimedOut \/ ToolFailed \/ ProcessBPLFails \/ InterruptEnds
  <2>1. UNCHANGED <<opt, files, emitted, analysed, verified>> /\ at' = "clean" /\ at \notin {"clean", "exited"}
    BY <1>4, Zenon DEF CannotInvoke, TimedOut, ToolFailed, ProcessBPLFails, InterruptEnds, Raise
  <2> QED
    BY <2>1, Zenon DEF Ledger, VerdictEarned
<1>5. CASE ToolReturns
  <2>1. /\ UNCHANGED <<opt, files, emitted, verified>> /\ at = "wait" /\ at' # "exited"
        /\ failed' \subseteq failed \cup (IF Tolerated(Tools[tool]) THEN {Tools[tool]} ELSE {})
    BY <1>5, Zenon DEF ToolReturns
  <2>2. tool \in 1 .. 7
    BY <2>1 DEF Shape
  <2>3. failed' \subseteq Allowed'
    BY <2>1, Zenon DEF Ledger, Allowed, Tolerated
  <2>4. CASE Tools[tool] = "corral"
    <3>1. PICK f \in todo : todo' = todo \ {f} /\ analysed' = analysed \cup {f}
      BY <1>5, <2>4, Zenon DEF ToolReturns
    <3>2. emitted \subseteq todo' \cup analysed'
      BY <2>1, <2>2, <2>4, <3>1, ToolFacts, Zenon DEF Ledger
    <3>3. at' = "next" => todo' = {}
      BY <1>5, <2>4, Zenon DEF ToolReturns
    <3> QED
      BY <2>1, <2>3, <3>2, <3>3, Zenon DEF Ledger, VerdictEarned
  <2>5. CASE Tools[tool] # "corral"
    <3>1. analysed' = analysed /\ (at' = "clean" \/ (at' = "next" /\ tool' = tool + 1))
      BY <1>5, <2>5, Zenon DEF ToolReturns
    <3>2. at' = "next" => tool' # 8
      BY <2>2, <2>5, <3>1, ToolFacts
    <3> QED
      BY <2>1, <2>3, <3>1, <3>2, Zenon DEF Ledger, VerdictEarned
  <2> QED
    BY <2>4, <2>5, Zenon
<1>6. CASE NextCorral
  <2>1. UNCHANGED <<opt, files, tool, emitted, analysed, failed, verified, todo>> /\ at = "corral" /\ at' = "wait"
    BY <1>6, Zenon DEF NextCorral, Launch
  <2> QED
    BY <2>1, Zenon DEF Ledger, VerdictEarned, Allowed
<1>7. CASE CleanUp \/ InterruptUncaught
  <2>1. UNCHANGED <<opt, emitted, analysed, failed, verified>> /\ at' = "exited"
    BY <1>7, Zenon DEF CleanUp, InterruptUncaught
  <2> QED
    BY <2>1, Zenon DEF Ledger, VerdictEarned
<1>8. CASE TimerStep \/ UNCHANGED vars
  <2>1. UNCHANGED <<opt, files, tool, todo, emitted, analysed, failed, at, verified>>
    BY <1>8, Zenon DEF TimerStep, TimerPolls, TimerMarks, TimerTerminates, TimerRaises, vars
  <2> QED
    BY <2>1, Zenon DEF Ledger, VerdictEarned, Allowed
<1>9. CASE ToolEnds
  <2>1. UNCHANGED <<opt, tool, todo, analysed, failed, at, verified>> /\ at \in {"wait", "interrupted"}
    BY <1>9, Zenon DEF ToolEnds, Watched
  <2>2. CASE Tools[tool] = "raceChecker"
    <3>1. tool # 7 /\ tool # 8
      BY <2>1, <2>2, ToolFacts DEF Shape
    <3>2. emitted' \subseteq files' \cap Pair
      BY <1>9, <2>2, Zenon DEF ToolEnds, Contract
    <3> QED
      BY <2>1, <3>1, <3>2, Zenon DEF Ledger, VerdictEarned, Allowed
  <2>3. CASE Tools[tool] # "raceChecker"
    <3>1. emitted' = emitted /\ files \subseteq files'
      BY <1>9, <2>3, Zenon DEF ToolEnds
    <3> QED
      BY <2>1, <3>1, Zenon DEF Ledger, VerdictEarned, Allowed
  <2> QED
    BY <2>2, <2>3, Zenon
<1>10. CASE Interrupt
  <2>1. UNCHANGED <<opt, files, emitted, analysed, failed, verified>> /\ at = "wait" /\ at' = "interrupted"
    BY <1>10, Zenon DEF Interrupt
  <2> QED
    BY <2>1, Zenon DEF Ledger, VerdictEarned, Allowed
<1> QED
  BY <1>1, <1>2, <1>3, <1>4, <1>5, <1>6, <1>7, <1>8, <1>9, <1>10, Zenon DEF Next, MainStep

-----------------------------------------------------------------------------
(* whoop.py: theorems *)

\* The invariant holds in every state of the script.
LEMMA Invariance == Spec => []IInv
<1>1. IInv /\ [Next]_vars => IInv'
  BY ShapeNext, WatchedNext, LedgerNext, KnownNext, Zenon DEF IInv
<1> QED
  BY <1>1, IInvInit, PTL DEF Spec

\* A tool that the watcher terminated ends the script with TIMEOUT, unless ctrl-c
\* does, for every command line and every interleaving of the timer thread and
\* communicate (run, ToolWatcher).
THEOREM TimeoutsAreReported == Spec => []TimeoutReported
<1>1. IInv => TimeoutReported
  BY Zenon DEF IInv, Watched
<1> QED
  BY <1>1, Invariance, PTL

\* The verdict is printed only if no tool failed, the race checker apart when bugs
\* are looked for, and then Corral has run on every pair that was emitted
\* (startToolChain, runCorral), for every set of pairs and every command line.
THEOREM VerdictIsEarned == Spec => []VerdictEarned
<1>1. IInv => VerdictEarned
  BY Zenon DEF IInv, Ledger
<1> QED
  BY <1>1, Invariance, PTL

\* No intermediate file stays on any way out that main handles (doCleanUp), for
\* every set of files that earlier runs may have left.
THEOREM NoIntermediateFiles == Spec => []NoTempsLeft
<1>1. IInv => NoTempsLeft
  BY Zenon DEF IInv, Known
<1> QED
  BY <1>1, Invariance, PTL

-----------------------------------------------------------------------------
(* tester.py: the inductive invariant *)

\* What a worker may be doing.
WorkerState == {Idle} \cup [at : {"run", "task_done", "dead"}, test : Test]

\* The queue holds tests, and every worker is idle or has one.
TestShape == queue \in Seq(Test) /\ worker \in [Worker -> WorkerState]

TestInv == TestShape /\ UnfinishedCounts /\ ResultsComplete

-----------------------------------------------------------------------------
(* tester.py: lemmas *)

\* The tests are put on the queue one by one: as many as there are.
LEMMA QueueFilled ==
    ASSUME NEW S, IsFiniteSet(S)
    PROVE  SetToSeq(S) \in Seq(S) /\ Len(SetToSeq(S)) = Cardinality(S)
<1> DEFINE n == Cardinality(S)
<1>1. n \in Nat /\ ExistsBijection(1 .. n, S)
  BY FS_CardinalityType, Zenon
<1>2. \E f \in [1 .. n -> S] : IsInjective(f)
  BY <1>1, Zenon DEF ExistsBijection, Bijection, Injection
<1>3. SetToSeq(S) \in [1 .. n -> S]
  BY <1>2, Zenon DEF SetToSeq
<1> HIDE DEF n
<1>4. \A s \in [1 .. n -> S] : s \in Seq(S) /\ Len(s) = n
  BY <1>1
<1> QED
  BY <1>3, <1>4, Zenon DEF n

\* Taking a test from the queue leaves one fewer.
LEMMA QueueTaken ==
    ASSUME NEW S, NEW q \in Seq(S), q # <<>>
    PROVE  Head(q) \in S /\ Tail(q) \in Seq(S) /\ Len(q) \in Nat /\ Len(Tail(q)) = Len(q) - 1
OBVIOUS

\* A worker is pending from the moment it gets a test until its task_done.
LEMMA PendingStep ==
    ASSUME TestShape, NEW w \in Worker, NEW s \in WorkerState, worker' = [worker EXCEPT ![w] = s]
    PROVE  /\ IsFiniteSet(Pending) /\ Cardinality(Pending) \in Nat
           /\ worker' \in [Worker -> WorkerState]
           /\ Cardinality(Pending') =
                  CASE worker[w] = Idle /\ s # Idle -> Cardinality(Pending) + 1
                    [] worker[w] # Idle /\ s = Idle -> Cardinality(Pending) - 1
                    [] OTHER -> Cardinality(Pending)
<1>1. IsFiniteSet(Worker) /\ Pending \in SUBSET Worker
  BY TestRunnerAssumption, Zenon DEF Pending
<1>2. IsFiniteSet(Pending) /\ Cardinality(Pending) \in Nat
  BY <1>1, FS_Subset, FS_CardinalityType, Zenon
<1>3. worker' \in [Worker -> WorkerState] /\ worker'[w] = s /\ \A v \in Worker \ {w} : worker'[v] = worker[v]
  BY Zenon DEF TestShape
<1>4. Pending' = IF s = Idle THEN Pending \ {w} ELSE Pending \cup {w}
  BY <1>3, Zenon DEF Pending
<1>5. w \in Pending <=> worker[w] # Idle
  BY Zenon DEF Pending
<1>6. CASE s = Idle
  <2>1. Cardinality(Pending') = IF w \in Pending THEN Cardinality(Pending) - 1 ELSE Cardinality(Pending)
    BY <1>2, <1>4, <1>6, FS_RemoveElement, Zenon
  <2> QED
    BY <1>2, <1>3, <1>5, <1>6, <2>1, Zenon
<1>7. CASE s # Idle
  <2>1. Cardinality(Pending') = IF w \in Pending THEN Cardinality(Pending) ELSE Cardinality(Pending) + 1
    BY <1>2, <1>4, <1>7, FS_AddElement, Zenon
  <2> QED
    BY <1>2, <1>3, <1>5, <1>7, <2>1, Zenon
<1> QED
  BY <1>6, <1>7, Zenon

\* A worker that has a test is not idle, and its states are what the record says.
LEMMA WorkerFacts ==
    /\ \A s \in WorkerState : s.at # "get" => s # Idle /\ s.test \in Test
    /\ \A t \in Test : /\ Busy(t) \in WorkerState /\ Ran(t) \in WorkerState /\ Dead(t) \in WorkerState
                       /\ Busy(t) # Idle /\ Ran(t) # Idle /\ Dead(t) # Idle
    /\ Idle \in WorkerState
<1>1. Idle.at = "get"
  BY Zenon DEF Idle
<1>2. \A t : Busy(t).at = "run" /\ Ran(t).at = "task_done" /\ Dead(t).at = "dead"
  BY Zenon DEF Busy, Ran, Dead
<1>3. \A t \in Test : Busy(t) \in WorkerState /\ Ran(t) \in WorkerState /\ Dead(t) \in WorkerState
  BY DEF WorkerState, Busy, Ran, Dead
<1>4. \A s \in WorkerState : s.at # "get" => s # Idle /\ s.test \in Test
  BY <1>1, Zenon DEF WorkerState
<1>5. \A t \in Test : Busy(t) # Idle /\ Ran(t) # Idle /\ Dead(t) # Idle
  BY <1>1, <1>2, Zenon
<1> QED
  BY <1>3, <1>4, <1>5, Zenon DEF WorkerState

-----------------------------------------------------------------------------
(* The invariant is inductive *)

\* The counter starts at the number of tests on the queue.
LEMMA TestInvInit == TRInit => TestInv
<1> SUFFICES ASSUME TRInit PROVE TestInv
  OBVIOUS
<1>1. IsFiniteSet(Chosen) /\ Chosen \subseteq Test
  BY TestRunnerAssumption, FS_Subset, Zenon
<1>2. queue \in Seq(Chosen) /\ Len(queue) = Cardinality(Chosen) /\ Cardinality(Chosen) \in Nat
  BY <1>1, QueueFilled, FS_CardinalityType, Zenon DEF TRInit
<1>3. queue \in Seq(Test)
  BY <1>1, <1>2
<1>4. Pending = {}
  BY Zenon DEF TRInit, Pending
<1>5. Cardinality(Pending) = 0
  BY <1>4, FS_EmptySet, Zenon
<1>6. UnfinishedCounts
  BY <1>2, <1>5 DEF TRInit, UnfinishedCounts
<1> QED
  BY <1>3, <1>6, WorkerFacts, Zenon DEF TRInit, TestInv, TestShape, ResultsComplete

\* Every step changes the counter as it changes what it counts.
LEMMA TestInvNext == TestInv /\ [TRNext]_TRvars => TestInv'
<1> SUFFICES ASSUME TestInv, [TRNext]_TRvars PROVE TestInv'
  OBVIOUS
<1>0. Len(queue) \in Nat /\ IsFiniteSet(Pending) /\ Cardinality(Pending) \in Nat /\ queue \in Seq(Test)
  <2>1. IsFiniteSet(Pending) /\ Cardinality(Pending) \in Nat
    <3>1. IsFiniteSet(Worker) /\ Pending \in SUBSET Worker
      BY TestRunnerAssumption, Zenon DEF Pending
    <3> QED
      BY <3>1, FS_Subset, FS_CardinalityType, Zenon
  <2> QED
    BY <2>1 DEF TestInv, TestShape
<1>1. ASSUME NEW w \in Worker, Get(w)
      PROVE  TestInv'
  <2>1. Head(queue) \in Test /\ Tail(queue) \in Seq(Test) /\ Len(Tail(queue)) = Len(queue) - 1
    BY <1>0, <1>1, QueueTaken, Zenon DEF Get
  <2>2. worker[w] = Idle /\ worker' = [worker EXCEPT ![w] = Busy(Head(queue))] /\ queue' = Tail(queue)
        /\ UNCHANGED <<unfinished, main>> /\ Alive
    BY <1>1, Zenon DEF Get
  <2>3. worker' \in [Worker -> WorkerState] /\ Cardinality(Pending') = Cardinality(Pending) + 1
    BY <2>1, <2>2, WorkerFacts, PendingStep, Zenon DEF TestInv
  <2>4. UnfinishedCounts'
    BY <1>0, <2>1, <2>2, <2>3 DEF TestInv, UnfinishedCounts
  <2> QED
    BY <2>1, <2>2, <2>3, <2>4, Zenon DEF TestInv, TestShape, ResultsComplete, Alive
<1>2. ASSUME NEW w \in Worker, Run(w) \/ RunKilled(w) \/ RunRaises(w)
      PROVE  TestInv'
  <2>1. Alive /\ worker[w].at = "run" /\ UNCHANGED <<queue, unfinished, main>>
        /\ (worker' = [worker EXCEPT ![w] = Ran(worker[w].test)] \/ worker' = [worker EXCEPT ![w] = Dead(worker[w].test)])
    BY <1>2, Zenon DEF Run, RunKilled, RunRaises
  <2>2. worker[w] # Idle /\ worker[w].test \in Test
    <3>1. worker[w] \in WorkerState /\ worker[w].at # "get"
      BY <2>1, Zenon DEF TestInv, TestShape
    <3> QED
      BY <3>1, WorkerFacts, Zenon
  <2>3. worker' \in [Worker -> WorkerState] /\ Cardinality(Pending') = Cardinality(Pending)
    BY <2>1, <2>2, WorkerFacts, PendingStep, Zenon DEF TestInv
  <2> QED
    BY <2>1, <2>3, Zenon DEF TestInv, TestShape, UnfinishedCounts, ResultsComplete, Alive
<1>3. ASSUME NEW w \in Worker, TaskDone(w)
      PROVE  TestInv'
  <2>1. Alive /\ worker[w].at = "task_done" /\ UNCHANGED <<queue, main>> /\ unfinished' = unfinished - 1
        /\ worker' = [worker EXCEPT ![w] = Idle]
    BY <1>3, Zenon DEF TaskDone
  <2>2. worker[w] # Idle
    <3>1. worker[w] \in WorkerState /\ worker[w].at # "get"
      BY <2>1, Zenon DEF TestInv, TestShape
    <3> QED
      BY <3>1, WorkerFacts, Zenon
  <2>3. worker' \in [Worker -> WorkerState] /\ Cardinality(Pending') = Cardinality(Pending) - 1
    BY <2>1, <2>2, WorkerFacts, PendingStep, Zenon DEF TestInv
  <2>4. UnfinishedCounts'
    BY <1>0, <2>1, <2>3 DEF TestInv, UnfinishedCounts
  <2> QED
    BY <2>1, <2>3, <2>4, Zenon DEF TestInv, TestShape, ResultsComplete, Alive
<1>4. CASE Finish
  <2>1. main = "waiting" /\ unfinished = 0 /\ UNCHANGED <<queue, worker, unfinished>> /\ main' \in {"pickled", "not_pickled"}
    BY <1>4, Zenon DEF Finish
  <2>2. Len(queue) = 0 /\ Cardinality(Pending) = 0
    BY <1>0, <2>1 DEF TestInv, UnfinishedCounts
  <2>3. queue = <<>>
    BY <1>0, <2>2
  <2>4. Pending = {}
    BY <1>0, <2>2, FS_EmptySet, Zenon
  <2>5. Pending' = Pending
    BY <2>1, Zenon DEF Pending
  <2> QED
    BY <2>1, <2>3, <2>4, <2>5, Zenon DEF TestInv, TestShape, UnfinishedCounts, ResultsComplete
<1>5. CASE KeyboardInterrupt \/ TestEmpty
  <2>1. /\ UNCHANGED <<queue, worker, unfinished>> /\ main \in {"waiting", "clearing"}
        /\ main' \in {"clearing", "interrupted", "get"}
    BY <1>5, Zenon DEF KeyboardInterrupt, TestEmpty
  <2>2. Pending' = Pending
    BY <2>1, Zenon DEF Pending
  <2> QED
    BY <2>1, <2>2, Zenon DEF TestInv, TestShape, UnfinishedCounts, ResultsComplete
<1>6. CASE ClearGet
  <2>1. main = "get" /\ queue # <<>> /\ queue' = Tail(queue) /\ main' = "task_done" /\ UNCHANGED <<unfinished, worker>>
    BY <1>6, Zenon DEF ClearGet
  <2>2. Tail(queue) \in Seq(Test) /\ Len(Tail(queue)) = Len(queue) - 1
    BY <1>0, <2>1, QueueTaken, Zenon
  <2>3. Pending' = Pending
    BY <2>1, Zenon DEF Pending
  <2>4. UnfinishedCounts'
    BY <1>0, <2>1, <2>2, <2>3 DEF TestInv, UnfinishedCounts
  <2> QED
    BY <2>1, <2>2, <2>4, Zenon DEF TestInv, TestShape, ResultsComplete
<1>7. CASE ClearTaskDone
  <2>1. main = "task_done" /\ main' = "clearing" /\ unfinished' = unfinished - 1 /\ UNCHANGED <<queue, worker>>
    BY <1>7, Zenon DEF ClearTaskDone
  <2>2. Pending' = Pending
    BY <2>1, Zenon DEF Pending
  <2>3. UnfinishedCounts'
    BY <1>0, <2>1, <2>2 DEF TestInv, UnfinishedCounts
  <2> QED
    BY <2>1, <2>3, Zenon DEF TestInv, TestShape, ResultsComplete
<1>8. CASE UNCHANGED TRvars
  BY <1>8, Zenon DEF TRvars, TestInv, TestShape, UnfinishedCounts, ResultsComplete, Pending
<1> QED
  BY <1>1, <1>2, <1>3, <1>4, <1>5, <1>6, <1>7, <1>8, Zenon DEF TRNext, WorkerStep, MainThreadStep

-----------------------------------------------------------------------------
(* tester.py: theorems *)

\* The invariant holds in every state of the tester.
LEMMA TestInvariance == TRSpec => []TestInv
BY TestInvInit, TestInvNext, PTL DEF TRSpec

\* For every number of workers and tests: the counter the main thread polls is the
\* number of tests queued, with a worker or being drained (Queue.unfinished_tasks).
THEOREM CounterIsExact == TRSpec => []UnfinishedCounts
<1>1. TestInv => UnfinishedCounts
  BY Zenon DEF TestInv
<1> QED
  BY <1>1, TestInvariance, PTL

\* For every number of workers and tests: nothing waits or runs once the main
\* thread summarises and pickles the results (waitForCompletion).
THEOREM ResultsAreComplete == TRSpec => []ResultsComplete
<1>1. TestInv => ResultsComplete
  BY Zenon DEF TestInv
<1> QED
  BY <1>1, TestInvariance, PTL
=============================================================================
