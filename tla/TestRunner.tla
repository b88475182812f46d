----------------------------- MODULE TestRunner -----------------------------
(***************************************************************************)
(* tester.py: the main thread fills a queue with tests, starts a pool of   *)
(* daemon workers, polls Queue.unfinished_tasks until it is zero, prints a *)
(* summary and pickles the test objects.  A keyboard interrupt reaches the *)
(* main thread only; it then drains the queue and exits.                   *)
(***************************************************************************)
EXTENDS Naturals, Sequences, FiniteSets, SequencesExt, FiniteSetsExt

CONSTANTS
    Worker,         \* --threads
    Test,           \* the parsed test cases
    Chosen,         \* those --run-only-pass / --run-only-xfail let through
    MayDie,         \* TestCase.run may raise an exception
    MayBeKilled,    \* an external program may kill a test with a signal
    MayStop         \* the user may press ctrl-c while the tests run

ASSUME TestRunnerAssumption ==
    /\ IsFiniteSet(Test) /\ IsFiniteSet(Worker)
    /\ Chosen \subseteq Test
    /\ {MayDie, MayBeKilled, MayStop} \subseteq BOOLEAN

VARIABLES
    queue,          \* theQueue
    unfinished,     \* theQueue.unfinished_tasks
    worker,         \* what each worker does, and with which test
    testPassed,     \* None until a test has run to its end
    csvFile,        \* tests that still hold the shared csv file object
    main            \* where the main thread is

TRvars == <<queue, unfinished, worker, testPassed, csvFile, main>>

Idle == [at |-> "get"]
Busy(t) == [at |-> "run", test |-> t]
Ran(t)  == [at |-> "task_done", test |-> t]
Dead(t) == [at |-> "dead", test |-> t]

Alive == main \in {"waiting", "clearing", "get", "task_done"}

\* main: parse, sort, addTest for the chosen tests, start.
TRInit ==
    /\ queue = SetToSeq(Chosen)
    /\ unfinished = Cardinality(Chosen)
    /\ worker = [w \in Worker |-> Idle]
    /\ testPassed = [t \in Test |-> "None"]
    /\ csvFile = Test
    /\ main = "waiting"

-----------------------------------------------------------------------------
(* Worker.run *)

Get(w) ==
    /\ Alive /\ worker[w] = Idle /\ queue # <<>>
    /\ worker' = [worker EXCEPT ![w] = Busy(Head(queue))]
    /\ queue' = Tail(queue)
    /\ UNCHANGED <<unfinished, testPassed, csvFile, main>>

\* TestCase.run, to its end: the outcome is recorded, csvFile deleted.
Run(w) ==
    /\ Alive /\ worker[w].at = "run"
    /\ LET t == worker[w].test IN
        /\ \E outcome \in {"True", "False"} : testPassed' = [testPassed EXCEPT ![t] = outcome]
        /\ csvFile' = csvFile \ {t}
        /\ worker' = [worker EXCEPT ![w] = Ran(t)]
    /\ UNCHANGED <<queue, unfinished, main>>

\* The early return for a negative return code.
RunKilled(w) ==
    /\ MayBeKilled
    /\ Alive /\ worker[w].at = "run"
    /\ worker' = [worker EXCEPT ![w] = Ran(worker[w].test)]
    /\ UNCHANGED <<queue, unfinished, testPassed, csvFile, main>>

\* An exception other than KeyboardInterrupt leaves run and ends the thread: before
\* the outcome is recorded (Popen, decode, an unknown return code) or after (the
\* output cannot be printed, or written to the csv file).
RunRaises(w) ==
    /\ MayDie
    /\ Alive /\ worker[w].at = "run"
    /\ LET t == worker[w].test IN
        /\ \E outcome \in {"None", "True", "False"} : testPassed' = [testPassed EXCEPT ![t] = outcome]
        /\ worker' = [worker EXCEPT ![w] = Dead(t)]
    /\ UNCHANGED <<queue, unfinished, csvFile, main>>

\* Mutant: task_done is called by a worker only for a test that was executed.
TaskDone_OnlyExecuted(w) ==
    /\ Alive /\ worker[w].at = "task_done"
    /\ unfinished' = IF testPassed[worker[w].test] = "None" THEN unfinished ELSE unfinished - 1
    /\ worker' = [worker EXCEPT ![w] = Idle]
    /\ UNCHANGED <<queue, testPassed, csvFile, main>>

TaskDone(w) ==
    /\ Alive /\ worker[w].at = "task_done"
    /\ unfinished' = unfinished - 1
    /\ worker' = [worker EXCEPT ![w] = Idle]
    /\ UNCHANGED <<queue, testPassed, csvFile, main>>

-----------------------------------------------------------------------------
(* The main thread *)

\* Mutant: the wait ends when the queue is empty (the comment in the code
\* says why this would be wrong).
Finish_QueueEmpty ==
    /\ main = "waiting" /\ queue = <<>>
    /\ main' = IF csvFile = {} THEN "pickled" ELSE "not_pickled"
    /\ UNCHANGED <<queue, unfinished, worker, testPassed, csvFile>>

\* The polling loop of waitForCompletion ends; summary and pickle.dump, which
\* raises on a test that still refers to the csv file.
Finish ==
    /\ main = "waiting" /\ unfinished = 0
    /\ main' = IF csvFile = {} THEN "pickled" ELSE "not_pickled"
    /\ UNCHANGED <<queue, unfinished, worker, testPassed, csvFile>>

KeyboardInterrupt ==
    /\ MayStop /\ main = "waiting"
    /\ main' = "clearing"
    /\ UNCHANGED <<queue, unfinished, worker, testPassed, csvFile>>

\* while not theQueue.empty(), and raise / sys.exit after the loop
TestEmpty ==
    /\ main = "clearing"
    /\ main' = IF queue = <<>> THEN "interrupted" ELSE "get"
    /\ UNCHANGED <<queue, unfinished, worker, testPassed, csvFile>>

\* theQueue.get() blocks while the queue is empty.
ClearGet ==
    /\ main = "get" /\ queue # <<>>
    /\ queue' = Tail(queue)
    /\ main' = "task_done"
    /\ UNCHANGED <<unfinished, worker, testPassed, csvFile>>

ClearTaskDone ==
    /\ main = "task_done"
    /\ unfinished' = unfinished - 1
    /\ main' = "clearing"
    /\ UNCHANGED <<queue, worker, testPassed, csvFile>>

WorkerStep(w) == Get(w) \/ Run(w) \/ RunKilled(w) \/ RunRaises(w) \/ TaskDone(w)
MainThreadStep == Finish \/ TestEmpty \/ ClearGet \/ ClearTaskDone

TRNext == (\E w \in Worker : WorkerStep(w)) \/ MainThreadStep \/ KeyboardInterrupt

\* Threads are scheduled and a test ends (whoop.py bounds every tool by its
\* timeout); a queue wakes some waiting thread, nobody owes an interrupt.
TRFairness == WF_TRvars(MainThreadStep) /\ \A w \in Worker : WF_TRvars(WorkerStep(w))

TRSpec == TRInit /\ [][TRNext]_TRvars /\ TRFairness

-----------------------------------------------------------------------------
(* Properties *)

Pending == {w \in Worker : worker[w] # Idle}

\* Every test added to the queue is still queued, with one worker, being drained,
\* or done: the counter the main thread polls never loses or invents one,
\* although workers and an interrupted main thread decrement it side by side.
UnfinishedCounts ==
    unfinished = Len(queue) + Cardinality(Pending) + (IF main = "task_done" THEN 1 ELSE 0)

\* "Cannot use Queue.empty() because that will return true before threads
\* complete": when results are summarised and pickled no test waits or runs.
ResultsComplete ==
    main \in {"pickled", "not_pickled"} =>
        queue = <<>> /\ Pending = {}

\* The run ends, even if tests are killed, unless the test of a worker raises or the
\* user interrupts the main thread (waitForCompletion's loop on unfinished_tasks).
RunCompletes ==
    <>(main # "waiting" \/ \E w \in Worker : worker[w].at = "dead")

\* "Handle potential race where the queue becomes empty whilst executing try
\* block": an interrupted run exits.
InterruptExits == (main = "clearing") ~> (main = "interrupted")
=============================================================================
