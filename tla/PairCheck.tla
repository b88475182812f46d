----------------------------- MODULE PairCheck -----------------------------
(***************************************************************************)
(* The checker procedure that PairCheckingRegion builds for a pair of      *)
(* entry points: block $logger calls the first entry point, then, if it is *)
(* a different one, the second; block $checker asserts, for every memory   *)
(* region, that conflicting accesses share a lock.  Boogie reports every   *)
(* failing assertion.                                                      *)
(*                                                                         *)
(* The history variable log records every instrumented access with the     *)
(* locks in the current lockset at that point.  The code keeps no such     *)
(* record: it is the reference the locksets are compared with.             *)
(***************************************************************************)
EXTENDS Lockset, Naturals

CONSTANTS Pairs,      \* the pairs of entry points to check
          MapRegion, Address,
          MaxCalls    \* bound: instrumented calls per entry point run

VARIABLES pair,       \* the pair this checker procedure is for
          phase,      \* "EP1", "EP2", "checker", "done"
          inst,       \* instrumented state of each of the two runs
          watchdog,
          errors,     \* memory regions whose assertion failed
          log, calls

vars == <<pair, phase, inst, watchdog, errors, log, calls>>

EP1 == pair[1]
EP2 == pair[2]

Run == {1, 2}
EPof(r) == IF r = 1 THEN EP1 ELSE EP2

\* The runs the checker procedure makes.
Runs == IF EP1 = EP2 THEN {1} ELSE Run

Init ==
    /\ pair \in Pairs
    /\ phase = "EP1"
    /\ inst = [r \in Run |-> EntryState(EPof(r))]
    /\ watchdog \in [MapRegion -> Address]
    /\ errors = {}
    /\ log = {}
    /\ calls = 0

Watched(mr, ptr) == mr \in MapRegion => ptr = watchdog[mr]

\* The run that block $logger is executing.
Running(r) == phase = IF r = 1 THEN "EP1" ELSE "EP2"

LockCall(r, l, isLocked) ==
    /\ Running(r)
    /\ calls < MaxCalls
    /\ l \in KernelLock => IsCalling(EPof(r), l)
    /\ l \in {"lock$rtnl", "lock$tx"} => isLocked
    /\ inst' = [inst EXCEPT ![r] = UPDATE_CLS(EPof(r), @, l, isLocked)]
    /\ calls' = calls + 1
    /\ UNCHANGED <<pair, phase, watchdog, errors, log>>

Access(r, mr, ptr, write) ==
    /\ Running(r)
    /\ calls < MaxCalls
    /\ IF Watched(mr, ptr)
       THEN /\ inst' = [inst EXCEPT ![r] = IF write THEN WRITE_LS(EPof(r), @, mr)
                                                    ELSE READ_LS(EPof(r), @, mr)]
            /\ log' = log \cup {[run |-> r, mr |-> mr, write |-> write,
                                 held |-> inst[r].CLS]}
       ELSE UNCHANGED <<inst, log>>
    /\ calls' = calls + 1
    /\ UNCHANGED <<pair, phase, watchdog, errors>>

\* Mutant: the second call works on the variables of the first.
Return_SharedVariables(r) ==
    /\ Running(r)
    /\ phase' = IF r = 1 THEN "EP2" ELSE "checker"
    /\ inst' = [inst EXCEPT ![2] = inst[1]]
    /\ calls' = 0
    /\ UNCHANGED <<pair, watchdog, errors, log>>

Return(r) ==
    /\ Running(r)
    /\ phase' = IF r = 1 /\ EP1 # EP2 THEN "EP2" ELSE "checker"
    /\ calls' = 0
    /\ UNCHANGED <<pair, inst, watchdog, errors, log>>

Assertion(mr) ==
    IF EP1 = EP2 THEN SelfRaceAssertion(EP1, inst[1], mr)
                 ELSE RaceAssertion(EP1, EP2, inst[1], inst[2], mr)

Check ==
    /\ phase = "checker"
    /\ errors' = {mr \in MemoryRegion : ~ Assertion(mr)}
    /\ phase' = "done"
    /\ UNCHANGED <<pair, inst, watchdog, log, calls>>

Next ==
    \/ \E r \in Run :
        \/ \E l \in Lock, b \in BOOLEAN : LockCall(r, l, b)
        \/ \E mr \in MemoryRegion, ptr \in Address, w \in BOOLEAN : Access(r, mr, ptr, w)
        \/ Return(r)
    \/ Check

Spec == Init /\ [][Next]_vars

-----------------------------------------------------------------------------
(* What the check means *)

Records(r, mr) == {a \in log : a.run = r /\ a.mr = mr}

\* Entry point ep runs under lock l for the whole call: the kernel holds it and
\* the code never updates it.
AlwaysUnder(ep, l) == IsKernelLocked(ep, l) /\ ~ IsCalling(ep, l)

\* The locks that protected every access of run r to mr, from the record alone.
Protecting(r, mr) ==
    {l \in Lock : AlwaysUnder(EPof(r), l) \/ \A a \in Records(r, mr) : l \in a.held}

ConflictingRecords(mr) ==
    IF EP1 = EP2
    THEN \E a \in Records(1, mr) : a.write
    ELSE \E a \in Records(1, mr), b \in Records(2, mr) : a.write \/ b.write

\* When the checker finishes, a region is reported exactly if the recorded
\* accesses of the two calls conflict on its watched address and no lock that
\* counts for the pair was held at every one of them (the assertions of
\* CreateRaceCheckingAssertion over the updates of the access procedures).
ReportsExactlyUnprotected ==
    phase = "done" =>
        \A mr \in MemoryRegion :
            mr \in errors <=>
                /\ ConflictingRecords(mr)
                /\ \A l \in CheckedLock(EP1, EP2) : \E r \in Runs : l \notin Protecting(r, mr)

\* Whenever block $logger is about to call an entry point, the state meets the
\* requires clauses of that entry point's instrumented procedure: the first call
\* leaves the variables of the second untouched.
CallMeetsRequires ==
    \A r \in Run : Running(r) /\ calls = 0 => EntryRequires(EPof(r), inst[r])
=============================================================================
