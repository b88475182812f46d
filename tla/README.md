# A TLA+ model of Whoop

Whoop finds data races in Linux device drivers without exploring their
interleavings. Two entry points of a driver are instrumented with *locksets*
and run one after the other by a sequential program; an assertion at its end
demands that conflicting accesses share a lock. This directory models that
argument, the code that decides which pairs are analysed, and the scripts and
processes around it. It also models two of the drivers that the repository keeps
as Whoop's subjects (`driversuite`), whose locking a lockset cannot judge: they
hand work over between contexts, wake each other up and tear down. TLC checks the
models on small instances, and TLAPS proves the central theorems for all instances.

## 1. The system

| Part | Source | Model |
|---|---|---|
| Tool-chain script: chauffeur, clang, SMACK, engine, cruncher, race checker, Corral | `whoop.py` | `ToolChain` |
| Entry points, kernel knowledge, pairing | `Domain/Drivers` | `EntryPointPairing` |
| Lock abstraction, lockset instrumentation | `LockAbstraction`, `LocksetInstrumentation`, `GlobalRaceCheckingInstrumentation` | `Lockset`, `EntryPointRun` |
| Access instrumentation | `RaceInstrumentation` | `Lockset`, `EntryPointRun` |
| Checker procedure of a pair | `PairCheckingRegion` | `Lockset`, `PairCheck` |
| Why the sequential check is sound | the three above, with the kernel | `ConcurrentDriver` |
| Shared memory regions of an entry point | `SharedStateAnalyser`, `Engine/Program.cs` | `SharedState` |
| Race checker process | `Source/RaceChecker`, `ErrorReporter` | `RaceChecker`, `RaceCheckerInterface` |
| Regression-test runner | `tester.py` | `TestRunner` |
| SX8 block driver | `driversuite/block/sx8/driver.c` | `Sx8` |
| RealTek 8139 network driver | `driversuite/net/ethernet/8139too/driver.c` | `Rtl8139` |
| Cruncher (Houdini) and summaries | `Source/Cruncher`, `Summarisation` | only as a tool of `ToolChain` |
| Watchdog, alias and pointer analyses, refactoring, slicing, domain knowledge, graphs, yields | `Analysis`, `Refactoring`, `Instrumentation` | not modelled (section 8) |

How they interact: `ToolChain` starts the engine, which pairs the entry points
(`EntryPointPairing`), collects shared regions (`SharedState`), instruments each
entry point (`EntryPointRun`) and builds a checker per pair (`PairCheck`). The
race checker (`RaceChecker`) verifies the checkers. `ToolChain` sees the race
checker only through `RaceCheckerInterface!Contract`, which `RaceChecker` is
proved to keep. The two drivers are inputs of that chain and share no state with
it or with each other.

## 2. The modules

**`Lockset`** holds operators on the instrumented state of an entry point, a
record `[CLS, LS, WRITTEN, READ]`: one Boogie Boolean per lock in the code is
membership in a set here. `UPDATE_CLS`, `WRITE_LS` and `READ_LS` are the bodies
of the generated procedures, `EntryState` the `requires` of the checker,
`EntryRequires` those of the callee, `RaceAssertion` and `SelfRaceAssertion` the
assertions. The special cases of the three kernel locks (`lock$power`,
`lock$rtnl`, `lock$tx`) are kept: `ShouldSkipLockset`, `IsLockUsed`,
`CheckedLock`.

**`EntryPointRun`** is the abstract specification of one instrumented entry
point: any path (shared reads are havocked) of lock calls and accesses.

**`PairCheck`** is the checker procedure: first call, second call (none for an
entry point paired with itself), assertions. A history variable `log` records
each access with the locks held, and the verdict is compared with it.

**`ConcurrentDriver`** runs the pair as two kernel threads that really acquire
locks and have accesses with a beginning and an end; each carries its
instrumented state. `raced` collects regions on which two accesses overlapped.
The exclusion rules (`Excludes`) are the kernel's: a mutex excludes everybody, a
runtime-PM reference only the runtime-PM callbacks, a stopped queue only the
transmit function. The entry points are disciplined: they release what they
hold, they call `ASSERT_RTNL` under RTNL, and they touch nothing after an
interrupted `mutex_lock_interruptible`, which the instrumentation counts as an
acquisition.

**`EntryPointPairing`** is `DeviceDriver.ParseAndInitialize`: two readings of
the `.info` file, one action per section or entry, then one action per iteration
of the pairing loop. All tables of API names are taken over.

**`SharedState`** is the collection of regions by recursion over the call graph
and the pruning in place. The code visits entry points in file order and
functions depth first; the model allows any order.

**`RaceChecker`** is `Main` with its two loops; the verifier's answer for a pair
is a free choice. **`RaceCheckerInterface`** says what the script may rely on.

**`ToolChain`** is `whoop.py`: the main thread, the child process and the timer
thread of `ToolWatcher` interleave; files are named by their suffix. What a tool
reads and writes is external and taken from how the script uses it.

**`TestRunner`** is the thread pool of `tester.py`: workers, the queue with its
`unfinished_tasks` counter, and the main thread that polls, may be interrupted
and then drains the queue.

**`Sx8`** is the block driver from probe to removal. The request functions and
the interrupt handler run under `host->lock`; `carm_end_rq` may start a stopped
queue, whose request function then runs inside its caller, so what runs under
the lock is a `stack` of frames (`Rq`, `Irq`, `Handle`) and every step is one
turn of the loop of the innermost one. `carm_fsm_task` runs without the lock and
takes it only to read the state, to get a tag, to send and to write the state:
its local variables are `fsm`. The error path of `carm_array_info` writes the state
on its own (`ArrayInfoFails`) before `fsm_task` does, and the work item is scheduled
again after the lock is dropped (`Reschedule`), so that others run in between. `ProbeStage` and `ProbeFails` are the eleven steps
of `carm_init_one` and its list of `goto` labels (`ErrOut`, `Release`). The block
layer (`Submit`, `Drained`) and the adapter (`Take`, `Respond`, `AdapterEvent`)
are external. Contents of messages are left out, except which array an array
message asks about, and the adapter answers only handles it was given, with a status
that is good or bad. How many entries a request maps to is a choice from `SgEntries`.

**`Rtl8139`** is the network driver with its five contexts: transmission,
interrupt handler, NAPI poll, delayed work, and open, close, suspend and resume.
Registers that carry the protocol (`ChipCmd`, `IntrStatus`, `IntrMask`,
`TxStatus`) are variables; in D3 writes to them are lost and reads return ones.
A section under a spinlock is one step, except where the chip moves inside it:
the handler's loop over descriptors and the poll's loop over frames have one step
per turn. `rtl8139_hw_start` holds no lock that keeps the handler or a transmission
out, so its reset, the enabling of the chip and of its interrupts are three steps,
for open, resume and the timeout task alike; suspend, resume and the task are split
where they leave a lock. `rtl8139_rx_err` reads the command register in one step and
writes it back in another. `rtl8139_resume` clears the counters without `tp->lock`: if
a handler or a transmission is in the middle of using them, they may be left in any
mixture (`XmitRaces`), and the history variable `torn` is set until they are cleared
properly. The model gives a torn ring no packet. `load` picks the environment: traffic, close, suspend, and a chip with
or without a media thread.

`MC*` modules give instances; `*Proofs` modules hold theorems. `EngineProofs` has
those of `RaceChecker` and `SharedState`, `PairProofs` those of
`EntryPointPairing`, `Lockset` and `PairCheck`, `ScriptProofs` those of
`ToolChain` and `TestRunner`; `Sx8ResourceProofs` builds on `Sx8Proofs`, and
`Sx8WaitProofs` on both. The prefixes `SA`, `EPP` and `TR` in three components
let one module extend two of them. Definitions commented "Mutant" are plausible bugs of the definition that follows them. They
are not part of any specification; substituted for it, each makes TLC refute the
property it is listed with in `PROJECT.json`.

## 3. What the runs show

| Run | Shows |
|---|---|
| `pair` | a region is reported exactly if the recorded accesses conflict and no counting lock was held at all of them (`ReportsExactlyUnprotected`); each call meets its callee's requires (`CallMeetsRequires`) |
| `concurrent` | for the pairs of the run, which avoid the three exceptions below and the assumptions of section 2, a race falsifies the assertion (`RaceReported`), current locksets name held locks only (`CurrentLocksetHeld`; `lock$tx` of an entry point that wakes the queue is the exception the code makes), a failed assertion stays failed (`ReportIsStable`), each thread implements `EntryPointRun` (`ThreadsRunEntryPoints`) |
| `pairing` | two functions that may run concurrently are analysed as exactly one pair, whatever clones there are (`CoveredOnce`); clones meet network operations only (`ClonesMeetNetworkOnly`) |
| `shared_state` | pruning keeps exactly what is shared with a partner |
| `runner` | the polled counter is exact, results are complete when summarised, the run ends unless a test raises or the user interrupts |
| `checker` | Done means every pair verified; the contract with the script holds |
| `chain` | timeouts are reported as such, the verdict is earned, intermediate files go on every handled way out, the chain exits although tools hang, unless its watcher fails before it has terminated one |
| `sx8` | counters of tags and entries are exact (`Accounting`); each answer ends the request it was sent for, in whatever order answers come (`AnswersOwnRequest`); waiting queues are neither lost nor doubled (`WaitersKept`) and somebody will start them (`NoLostWakeup`); state machine and answer handlers never write over each other (`HandlersInState`, `FsmOwnsState`, `ErrorIsFinal`); only ports with an array get a disk (`ActivatesArrays`); a failed probe and a removal leave nothing behind (`FreedQuiet`); the probe ends (`ProbeEnds`) and with one queued command, the default, every stopped queue is called again (`CalledAgainByDefault`) |
| `rtl8139` | the dirty pointer never overtakes `cur_tx`, whoever resets the two, except by a resume that tears the counters (`DirtyNotAhead`); receive interrupts are masked only while a poll is due (`MaskedRxIsPolled`); freed rings are not touched (`FreedRingsUnused`); a stopped queue restarts whatever the chip does (`QueueRestarts`), frames are read while frames arrive (`FramesRead`), close returns (`CloseReturns`) |

Three runs end in a counterexample. Each states what a text in the repository
says and the code does not do:

| Run | Disagreement |
|---|---|
| `runner_interrupt` | a comment says that the race between `empty` and `get` is handled; the main thread may block for ever |
| `sx8_starved` | a comment says that a stopped queue is called again "later, eventually"; with several queued commands the requests of one port keep the adapter above the low-water mark, and another port is never started |
| `rtl8139_sync` | a debugging check expects at most `NUM_TX_DESC` packets on their way; the timeout task wakes a queue whose ring has been filled since the task cleared the counters, the next packet overwrites a descriptor in use, and the handler finds `cur_tx` three ahead in a ring of two |

The models also carry behaviour that a reader may not expect, because the code
has it: an entry point paired with itself passes with a different lock on each
path, two holders of runtime-PM references count as mutually exclusive, `lock$tx`
stays in the lockset after `netif_wake_queue` (the three exceptions of the
soundness theorem, section 6); `complete` of `dev_pm_ops` is taken for ethtool's
operation; `--analyse-only` has no effect; the stop options delete what they stop
to produce; under `--find-bugs` a crashed race checker is ignored, and Corral also
runs on files of an earlier run; a test that raises leaves the test runner
waiting; a lock that is never released is not reported, although the
unreleased-lock tests expect an error; "skip race free pairs" also skips pairs
without a verdict; the clean-up deletes a `.bpl` input. In the drivers: a probe
of the SX8 that ends in `HST_ERROR` never returns; its removal frees the
interrupt before it waits for requests in flight; `resp_idx` jumps when it wraps,
because the length of the ring does not divide 2^32; a frame that the 8139
receives while the last one of a budget is acknowledged waits for the next frame;
its resume may clear the counters under a handler that goes on with its own copy.
The lines are in the hazards of `PROJECT.json` and in section 9.

## 4. Bounds

- Pairs: two driver locks (`pair`) or one (`concurrent`, where kernel locks are
  the other), one map region, two addresses (one is watched, one is not). Locksets of different regions never meet in an operator, so a second
  region would only multiply states. `MaxCalls` = 5 instrumented calls per entry
  point allow lock, access, unlock, lock another, access; `MaxUsage` = 2 is the first
  nesting of runtime-PM references. Locks and addresses are symmetric.
- Pairing: every file with up to three entries out of twelve, functions distinct
  or shared between entries. All rules speak of two entry points; the third is
  there for the context (a module list, an earlier pair, a known name).
- Race checker: three pairs, up to two errors each. Tool chain: two pairs, all
  combinations of starting point and checking options, with directories that are
  clean, hold one old file, or hold everything. Test runner: three workers, three
  of four tests chosen.
- SX8: three ports, two with an array; two requests for one port and one for
  another, so that one port can have a request in flight and another waiting while
  the other port waits too; requests of one entry, and one of two (in `sx8_starved`
  each may have one or two); two tags and a limit on entries that one request can
  exhaust; an adapter that queues one message, so that it is full at times; a
  response ring of two slots and counters modulo four, so that all wrap around.
  Both `max_queue` = 1 and 2. Asynchronous events come before the first answer
  of the probe only. `WIDTH` is a multiple of the lengths it indexes, as 2^32 is
  not (section 3).
- 8139: two descriptors, counters modulo six, a lead of up to three packets (one
  more than the ring, which `rtl8139_sync` needs), a receive ring of one frame and
  a budget of two, so that a poll ends both ways. Five environments: sending with
  aborts on a device that may be closed; sending on one that may be suspended;
  receiving with both; traffic in both directions on a device that stays open; and
  frames on a device whose packets are never sent, so that the timeout task resets
  the chip under the poll routine. The environments bound the liveness properties
  only: what is proved (section 6) holds for all of them together.

Deadlock checking is on for `rtl8139`, a device that can always be used again,
and off elsewhere: those programs end, and a probe or a removal does.

## 5. Fairness

`ToolChain`, `TestRunner`, `Sx8` and `Rtl8139` have liveness properties. In `ToolChain` the
Python main thread and the timer thread are weakly fair: the interpreter
schedules its threads and `threading.Timer` expires. Nothing is assumed of the
tools, which may run for ever; that the chain exits rests on the timer alone, so
every command line of that run has `--timeout`. A process that is terminated ends,
and its pipe is closed: a grandchild that keeps the pipe open is not modelled. If
`psutil` raises in the timer thread (`TimerRaises`), nothing terminates the tool. In `TestRunner` each worker and
the main thread are weakly fair; that a test ends is what `whoop.py` with its
timeout provides. Interrupts are never owed.

In `Sx8` what runs under `host->lock` goes on (weak fairness), and who waits for
it, the interrupt handler and `fsm_task`, gets it in turn (strong fairness; a
ticket lock). The adapter takes messages and answers every tag. Nobody has to
submit a request, unbind the adapter, or make a step of the probe succeed.
`add_disk` is taken not to wait for the requests it causes, which `ProbeEnds` needs. In
`Rtl8139` an asserted interrupt line is served and a running handler goes on; the
contexts that wait for a spinlock or for the rtnl mutex get it in turn; the
stack's watchdog fires when the queue stays stopped (its condition that the carrier
is on is taken as met). Nothing is assumed of the
chip, which may never send a packet; `FramesRead` says itself that frames keep
arriving.

## 6. What is proved

| Theorem | Says | Assumptions |
|---|---|---|
| `PairProofs!PairsAreExact`, `ClonesAreForTheNetwork` | `CoveredOnce`, `ClonesMeetNetworkOnly` | none |
| `PairProofs!EntryMeetsRequires` | the checker's preconditions imply the callee's | `LocksetAssumption` |
| `PairProofs!ReportIsExact`, `CallsMeetRequires` | `ReportsExactlyUnprotected`, `CallMeetsRequires` | constants' assumptions |
| `ConcurrentDriverProofs!TypeCorrect` | `TypeOK` | constants' assumptions |
| `ConcurrentDriverProofs!LocksetsAreHeld` | `CurrentLocksetHeld` | `SoundPair` |
| `ConcurrentDriverProofs!Soundness` | `RaceReported` | `SoundPair` |
| `ConcurrentDriverProofs!VerdictsAreFinal` | `ReportIsStable` | none further |
| `ConcurrentDriverProofs!Refinement` | `ThreadsRunEntryPoints` | none further |
| `EngineProofs!SharedStateTypeCorrect`, `PruningIsExact`, `PruningIsSound` | `TypeOK`, `PrunedExactly`, `SharedRegionsKept` | none further |
| `EngineProofs!ExitStatusSound`, `ContractKept` | `DoneMeansVerified`, `ExitContract` | `RaceCheckerAssumption` |
| `ScriptProofs!TimeoutsAreReported`, `VerdictIsEarned`, `NoIntermediateFiles` | `TimeoutReported`, `VerdictEarned`, `NoTempsLeft` | `ToolChainAssumption` |
| `ScriptProofs!CounterIsExact`, `ResultsAreComplete` | `UnfinishedCounts`, `ResultsComplete` | `TestRunnerAssumption` |
| `Rtl8139Proofs!Rtl8139TypeCorrect`, `DirtyStaysBehind` | `TypeOK`, `DirtyNotAhead` | `Rtl8139Assumption` |
| `Rtl8139Proofs!MaskedRx`, `FreedRings` | `MaskedRxIsPolled`, `FreedRingsUnused` | `Rtl8139Assumption` |
| `Sx8Proofs!AnswersMatch` | `AnswersOwnRequest` | `Sx8Assumption`, `TagsFit` |
| `Sx8Proofs!HandlersFindState`, `FsmTaskOwnsState`, `ErrorStays` | `HandlersInState`, `FsmOwnsState`, `ErrorIsFinal` | `Sx8Assumption`, `TagsFit` |
| `Sx8ResourceProofs!CountersAreExact`, `OnlyArraysActivated`, `NothingUsesFreedHost`, `Sx8TypeCorrect` | `Accounting`, `ActivatesArrays`, `FreedQuiet`, `TypeOK` | `Sx8Assumption`, `TagsFit` |
| `Sx8WaitProofs!WaitersAreKept`, `NoWakeupIsLost` | `WaitersKept`, `NoLostWakeup` | `Sx8Assumption`, `TagsFit`, `[]NoWrap` |

`SoundPair` says that the entry points differ, that one of them is a runtime-PM
callback or not both take runtime-PM references, and that neither wakes the
queue.

*Pairing.* Besides what is listed (`Listed`: one function per name, as itself and,
if it needs one, as its clone), the invariant `PairingInv` says of the two loops
that a pair on the list is justified by its entry points (`Justified`), that none
is there twice under either order of its names (`Distinct`), and that every
iteration that is over has left its pair there (`Collected`). It uses that
`CanRunConcurrently` does not depend on the order of its arguments and gives the
same answer for an entry point and its clone.

*Pair check.* At every point of the two calls the flags and the locksets are a
function of the accesses recorded so far (`Recorded`): of the locks the entry point
uses and does not skip, those held at every one of them. No update adds a lock that
the entry point skips (`Unskipped`), and the second call starts from the state the
checker required (`Fresh`).

*Soundness.* `RaceReported` is not inductive: it says nothing of the moment
before the second access begins. The inductive invariant `IInv` adds that
holders of an excluding lock exclude each other, that kernel locks are held for
the whole call, that locksets in the instrumented state name held locks, and
that a thread in the middle of a watched access has raised its flag, and that
every lock left in the lockset of that region is held by it. Two overlapping
conflicting accesses with a common lock would then make two threads hold it,
which exclusion forbids. Each hypothesis in `SoundPair` is needed: instances of
`MCConcurrentDriver` with the pairs plain and plain, work and ioctl, or reset and
xmit violate `RaceReported`. That a lock taken away from a lockset never returns
(`VerdictsAreFinal`) carries the verdict to the end of the run.

*Pruning.* The invariant relates collected regions to reachable functions:
functions analysed are reachable, the callees of an analysed function are
analysed or to do, and an entry point that is not registered has nothing to do.
A list already pruned still has every region it shares with a partner, so a
later pruning that reads it loses nothing.

*Race checker.* The invariant ties each counter to the outcomes seen: a pair
with an outcome other than correct or reached bound has left a positive counter.

*Scripts.* `whoop.py`: a process is terminated only after the timeout has been
noted, and timer and process are gone when the main thread goes on (`Watched`);
what is still to do before the verdict is printed is on a ledger of emitted,
remaining and analysed pairs (`Ledger`); every file is one that the clean-up knows,
or the input (`Known`). `tester.py`: its two properties are inductive together with
the types of the queue and the workers (`TestShape`).

*SX8.* `TagsFit` says that `max_queue` is at most `TAG_SPACE`, 32 in the code: the
module parameter is documented up to 30 and not clamped. `Sx8Proofs` has an
invariant of two parts. `Owned`: a message with a tag is in exactly one place (the
out-of-band queue, the adapter's queue, its work, the response ring, or the hands of
`fsm_task`), its tag is allocated, and the request recorded for the tag is the
one the message is about; so a tag is free again only when nothing can answer it.
`Turns`: the state machine has a single turn, which is the pending work item, the
running `fsm_task`, the one out-of-band message, or the handler of its answer; who
has the turn knows the state, so nobody else writes it. The two need each other:
a reused tag would give the turn to two handlers, and a second turn would send a
second out-of-band message. `ErrorStays` follows because in `HST_ERROR` a turn
ends without a message.

`Sx8ResourceProofs` adds to it, in the invariant `Whole`: `n_msgs` counts the tags
in use and `hw_sg_used` their entries (`Counts`); the counters and the sets of ports
stay in range (`Ranges`); each stage of the probe holds certain resources (`Holds`);
nothing is under way before the state machine starts (`Before`); the probe completes
when the state machine has come to rest for good (`Completed`); a port that is cleaned
up is not used again (`Emptied`); and an `array_info` message under way asks for the
array `cur_scan_dev` stands at (`Scanned`). The sum in `Counts` is a fold over a set.
That a function with its recurrence exists for every number of tags is shown by the
least number without one (`SumsExist`), and the fold is then that function
(`EntriesAre`), whatever order it takes the tags in.

`Sx8WaitProofs` is about the queues that wait, under `[]NoWrap`: `wait_q_prod` stays
below 2^32 - 1, so that the host has seen at most 2^32 - 2 waits since it was
allocated. Nine slots do not divide 2^32, so that after the wrap two queues that wait
may share a slot. A request function runs only for a queue that is not stopped and
never inside itself (`Running`), so a queue is pushed once and as many slots as
queues suffice (`Waits`). `NoLostWakeup` needs the whole driver. Every tag in use is
somewhere (`Located`). Disks and their requests exist only once the state machine has
come to adding them, which it does not undo and after which it has no message under
way (`Kinds`, `Disks`). So the answer that empties the adapter frees the last tag: the
counters are at their low-water marks or below, and the queue that `carm_end_rq` starts
has a request and can send it (`Awake`). The out-of-band queue never waits, as its
message is the only one.

*8139.* No property is inductive. The counters need the distance between them,
which modular arithmetic keeps, and the handler's own copy of `dirty_tx`; all of it is
claimed only while the counters are not torn (`Counters`), and every step that clears
them with nobody in between restores it. The masks need to know that NAPI is
disabled from `napi_disable` to `napi_enable` (`Napi`). `MaskedRxIsPolled` is about the
mask without receive interrupts: the time in which all are masked is that of close,
suspend and a reset. The rings need to know
what each context may be doing in each phase of open and close (`Phases`, `Rings`,
`Closed`), which the rtnl mutex, `napi_disable` and `free_irq` decide.

## 7. Only model-checked

Liveness (`ChainExits`, `RunCompletes`, `ProbeEnds`, `CalledAgainByDefault`,
`QueueRestarts`, `FramesRead`, `CloseReturns`) is out of the prover's reach. Every
invariant of a passing run is stated by a theorem; `WaitersKept` and
`NoLostWakeup` beyond the wrap of `wait_q_prod` are checked only on the instance
of `sx8`, whose `WIDTH` is a multiple of the slots. That each violation run fails
is TLC's counterexample, not a theorem.

## 8. Not modelled, and the plan

Modelled first, because the verdict rests on it: instrumentation, pair check,
soundness, pairing, pruning, the processes around them. Next, in this order:

1. domain knowledge and slicing: device and network enabling and disabling, the
   counters of accesses that slicing keeps, on a call graph with its caches;
2. the watchdog analysis as a fixpoint, against the least fixpoint;
3. summaries and Houdini: candidates pruned to the greatest inductive subset;
4. yields for Corral, as a refinement of `ConcurrentDriver` in which threads
   switch at instrumented points only;
5. lock refactoring: lock expressions resolved to lock names;
6. `doComparison` of the test runner, and the Corral time budget;
7. further drivers of the suite, `r8169` first; of the 8139, probe and removal.

Of the 8139, MII and EEPROM access, ethtool operations, the receive filter, the
statistics and the path for a frame still being copied (EarlyRx is disabled) are
left out. The other drivers of the suite, the kernel headers under `Model` and the
test programs are inputs of the tool; the headers are declarations without
behaviour.

Pointer-arithmetic and alias analyses and function-pointer refactoring rewrite
Boogie expressions; their inputs are too large for TLC at a size that would say
something, and they stay out. Parsing, emission, timing and console output are
left out as pure input and output. Accesses of one assignment to two regions,
names that contain one another, and sibling drivers in one directory are
abstracted away.

## 9. Exposures without a property

The hazards of `PROJECT.json` are those the runs speak about, and a few that
a modelled component has and no property covers. The code is also exposed to:

- `LocksetInstrumentation.cs:211`: `mutex_lock_interruptible` counts as an
  acquisition whatever it returns (assumed away by `AcquireInterrupted`);
- `RaceInstrumentation.cs:292`: an assignment that writes one region and reads
  another gets one call; `PairCheckingRegion.cs:507`: access variables are found
  by a substring of their names;
- `DeviceDriver.cs:406`: API names are matched without their module;
- `whoop.py:545`: ctrl-c cancels the timer before the process is waited for;
  `whoop.py:562`: the Corral budget is reduced only with `--time`;
  `whoop.py:691` and `694`: the clean-up matches a sibling driver's files and
  deletes what a stop option stopped to produce;
- `tester.py:218`: a killed test keeps a file object that cannot be pickled
  (`Finish` models the failing `pickle.dump`);
- `AnalysisContext.cs:294`: what the reset of a shared context leaves is the
  previous pair's; `InstrumentationRegion.cs:309`: the bound of the watchdog;
- `DomainKnowledgeInstrumentation.cs:322` and `323`: a cached set is cleared in
  place, and only the first level of callers is analysed; `Graph.cs:223`: a
  traversal forgets the node to avoid; `ReadWriteSlicing.cs:35`: counters of
  accesses decremented by several passes;
- `sx8/driver.c:877`: after a failed mapping `carm_rq_fn` returns with requests left
  in a queue that is not stopped; `1664`: two adapters probed at the same time read
  the same `carm_host_id`;
- `8139too/driver.c:1129`: removal cancels the work before the device is
  unregistered; `1714`: a second watchdog call initialises work that may be
  pending; `2069`: the acknowledgement after the last frame of a budget clears
  `RxOK` although a frame may be left; `2629`: suspend does not stop the worker and
  the poll, which then touch a chip in D3 (modelled as lost writes); `2658`: resume
  clears the counters without `tp->lock` (modelled as `torn`; a packet given to such a
  ring is not).

`ConcurrentDriver`, `SharedState`, `Sx8` and `Rtl8139` have a type invariant that
their proofs build on; the comments on the variables of the other modules give
their types.
