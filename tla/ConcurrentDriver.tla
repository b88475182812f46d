-------------------------- MODULE ConcurrentDriver --------------------------
(***************************************************************************)
(* Two threads of the kernel running a pair of entry points concurrently,  *)
(* each carrying the lockset state that the instrumented copy of its entry *)
(* point would have after the same path.  The two halves of that state are *)
(* independent (every variable of the code is suffixed with the entry      *)
(* point's name), so the state after the concurrent run is the state the   *)
(* sequential checker procedure reaches by running the two paths in turn.  *)
(*                                                                         *)
(* The locks themselves (who holds what) are the kernel's: they are not in *)
(* Whoop's code and are modelled from the role each call has in it.        *)
(* Entry points are disciplined: they release what they hold, call         *)
(* ASSERT_RTNL only under RTNL, and touch nothing once an interruptible    *)
(* acquisition has failed.                                                 *)
(***************************************************************************)
EXTENDS Lockset, Naturals

CONSTANTS
    EP1, EP2,       \* the pair
    MapRegion, Address,
    RtnlCallers,    \* entry points reached under RTNL although the tables do not say so
    WakesQueue,     \* entry points that call netif_wake_queue
    MaxUsage        \* bound: nested pm_runtime_get_* calls per thread

Thread == {1, 2}
EPof(t) == IF t = 1 THEN EP1 ELSE EP2

NoAccess == [write |-> FALSE, mr |-> "none", ptr |-> "none"]
Access == [write : BOOLEAN, mr : MemoryRegion, ptr : Address]

ASSUME DriverAssumption ==
    /\ EP1 \in EntryPoint
    /\ EP2 \in EntryPoint
    /\ MapRegion \subseteq MemoryRegion
    /\ RtnlCallers \subseteq EntryPoint
    /\ WakesQueue \subseteq EntryPoint
    /\ MaxUsage \in Nat
    /\ "none" \notin MemoryRegion

VARIABLES
    stage, inst, watchdog,    \* as in EntryPointRun, the first two per thread
    access,       \* the shared access each thread is in the middle of
    holders,      \* for every lock the threads that hold it
    usage,        \* pm_runtime references each thread owns
    interrupted,  \* the thread's mutex_lock_interruptible has failed
    raced         \* memory regions on whose watched address a race occurred

vars == <<stage, inst, watchdog, access, holders, usage, interrupted, raced>>

TypeOK ==
    /\ stage \in [Thread -> {"idle", "running", "returned"}]
    /\ inst \in [Thread -> InstState]
    /\ watchdog \in [MapRegion -> Address]
    /\ access \in [Thread -> Access \cup {NoAccess}]
    /\ holders \in [Lock -> SUBSET Thread]
    /\ usage \in [Thread -> 0 .. MaxUsage]
    /\ interrupted \in [Thread -> BOOLEAN]
    /\ raced \subseteq MemoryRegion

Init ==
    /\ stage = [t \in Thread |-> "idle"]
    /\ inst = [t \in Thread |-> EntryState(EPof(t))]
    /\ watchdog \in [MapRegion -> Address]
    /\ access = [t \in Thread |-> NoAccess]
    /\ holders = [l \in Lock |-> {}]
    /\ usage = [t \in Thread |-> 0]
    /\ interrupted = [t \in Thread |-> FALSE]
    /\ raced = {}

-----------------------------------------------------------------------------
(* The kernel *)

\* Two holders of l exclude each other.  A runtime-PM reference excludes only
\* the runtime-PM callbacks, and a stopped queue only the transmit function.
Excludes(l, ep1, ep2) ==
    /\ l = "lock$power" => ep1 \in PowerLocked \/ ep2 \in PowerLocked
    /\ l = "lock$tx" => ep1 \in TxLocked \/ ep2 \in TxLocked

MayHold(t, l) == \A u \in holders[l] \ {t} : ~ Excludes(l, EPof(t), EPof(u))

\* The locks the kernel takes around a call of thread t's entry point.
TakenAround(t) ==
    {l \in KernelLock : \/ IsKernelLocked(EPof(t), l)
                        \/ l = "lock$rtnl" /\ EPof(t) \in RtnlCallers}

\* The thread is between two accesses.
Ready(t) == stage[t] = "running" /\ access[t] = NoAccess

-----------------------------------------------------------------------------
(* The steps of a thread *)

Enter(t) ==
    /\ stage[t] = "idle"
    /\ \A l \in TakenAround(t) : MayHold(t, l)
    /\ stage' = [stage EXCEPT ![t] = "running"]
    /\ holders' = [l \in Lock |-> IF l \in TakenAround(t) THEN holders[l] \cup {t}
                                                          ELSE holders[l]]
    /\ UNCHANGED <<inst, watchdog, access, usage, interrupted, raced>>

\* Mutant: the update reaches the variables of the other entry point as well.
Acquire_SharedLockset(t, l) ==
    /\ Ready(t)
    /\ ~ interrupted[t]
    /\ holders[l] = {}
    /\ holders' = [holders EXCEPT ![l] = {t}]
    /\ inst' = [u \in Thread |-> UPDATE_CLS(EPof(u), inst[u], l, TRUE)]
    /\ UNCHANGED <<stage, watchdog, access, usage, interrupted, raced>>

\* mutex_lock, spin_lock, spin_lock_irqsave, and mutex_lock_interruptible
\* when it succeeds
Acquire(t, l) ==
    /\ Ready(t)
    /\ ~ interrupted[t]
    /\ holders[l] = {}
    /\ holders' = [holders EXCEPT ![l] = {t}]
    /\ inst' = [inst EXCEPT ![t] = UPDATE_CLS(EPof(t), @, l, TRUE)]
    /\ UNCHANGED <<stage, watchdog, access, usage, interrupted, raced>>

\* mutex_lock_interruptible when it is interrupted: the instrumentation adds
\* the lock to the current lockset whatever the call returns
AcquireInterrupted(t, l) ==
    /\ Ready(t)
    /\ ~ interrupted[t]
    /\ interrupted' = [interrupted EXCEPT ![t] = TRUE]
    /\ inst' = [inst EXCEPT ![t] = UPDATE_CLS(EPof(t), @, l, TRUE)]
    /\ UNCHANGED <<stage, watchdog, access, holders, usage, raced>>

\* mutex_unlock, spin_unlock, spin_unlock_irqrestore
Release(t, l) ==
    /\ Ready(t)
    /\ t \in holders[l]
    /\ holders' = [holders EXCEPT ![l] = @ \ {t}]
    /\ inst' = [inst EXCEPT ![t] = UPDATE_CLS(EPof(t), @, l, FALSE)]
    /\ UNCHANGED <<stage, watchdog, access, usage, interrupted, raced>>

\* pm_runtime_get_sync, pm_runtime_get_noresume
PmGet(t) ==
    /\ Ready(t)
    /\ EPof(t) \in CallingPower
    /\ usage[t] < MaxUsage
    /\ MayHold(t, "lock$power")
    /\ usage' = [usage EXCEPT ![t] = @ + 1]
    /\ holders' = [holders EXCEPT !["lock$power"] = @ \cup {t}]
    /\ inst' = [inst EXCEPT ![t] = UPDATE_CLS(EPof(t), @, "lock$power", TRUE)]
    /\ UNCHANGED <<stage, watchdog, access, interrupted, raced>>

\* Mutant: a reference may be given back that was never taken.
PmPut_Unbalanced(t) ==
    /\ Ready(t)
    /\ EPof(t) \in CallingPower
    /\ usage' = [usage EXCEPT ![t] = @ - 1]
    /\ inst' = [inst EXCEPT ![t] = UPDATE_CLS(EPof(t), @, "lock$power", FALSE)]
    /\ UNCHANGED <<stage, watchdog, access, holders, interrupted, raced>>

\* pm_runtime_put_sync, pm_runtime_put_noidle: the device stays in use until
\* the last reference is gone
PmPut(t) ==
    /\ Ready(t)
    /\ EPof(t) \in CallingPower
    /\ usage[t] > 0
    /\ usage' = [usage EXCEPT ![t] = @ - 1]
    /\ holders' = [holders EXCEPT !["lock$power"] =
                    IF usage[t] > 1 \/ EPof(t) \in PowerLocked THEN @ ELSE @ \ {t}]
    /\ inst' = [inst EXCEPT ![t] = UPDATE_CLS(EPof(t), @, "lock$power", FALSE)]
    /\ UNCHANGED <<stage, watchdog, access, interrupted, raced>>

\* ASSERT_RTNL: the caller has it
AssertRtnl(t) ==
    /\ Ready(t)
    /\ EPof(t) \in CallingRtnl
    /\ t \in holders["lock$rtnl"]
    /\ inst' = [inst EXCEPT ![t] = UPDATE_CLS(EPof(t), @, "lock$rtnl", TRUE)]
    /\ UNCHANGED <<stage, watchdog, access, holders, usage, interrupted, raced>>

\* netif_stop_queue outside the transmit function: from now on the transmit
\* function is not called
StopQueue(t) ==
    /\ Ready(t)
    /\ EPof(t) \in CallingTx
    /\ MayHold(t, "lock$tx")
    /\ holders' = [holders EXCEPT !["lock$tx"] = @ \cup {t}]
    /\ inst' = [inst EXCEPT ![t] = UPDATE_CLS(EPof(t), @, "lock$tx", TRUE)]
    /\ UNCHANGED <<stage, watchdog, access, usage, interrupted, raced>>

\* netif_wake_queue: the instrumentation does not know the call
WakeQueue(t) ==
    /\ Ready(t)
    /\ EPof(t) \in WakesQueue
    /\ t \in holders["lock$tx"]
    /\ holders' = [holders EXCEPT !["lock$tx"] = @ \ {t}]
    /\ UNCHANGED <<stage, inst, watchdog, access, usage, interrupted, raced>>

Watched(mr, ptr) == mr \in MapRegion => ptr = watchdog[mr]

\* Another thread is in the middle of a conflicting access.
ConflictingAccess(t, a) ==
    \E u \in Thread \ {t} :
        /\ access[u] # NoAccess
        /\ access[u].mr = a.mr
        /\ Watched(a.mr, access[u].ptr)
        /\ a.write \/ access[u].write

\* A load or store of shared memory begins.  The instrumentation call that
\* follows it in the code changes nothing another thread can see, so it is
\* part of this step.
BeginAccess(t, a) ==
    /\ Ready(t)
    /\ ~ interrupted[t]
    /\ access' = [access EXCEPT ![t] = a]
    /\ inst' = IF Watched(a.mr, a.ptr)
               THEN [inst EXCEPT ![t] = IF a.write THEN WRITE_LS(EPof(t), @, a.mr)
                                                   ELSE READ_LS(EPof(t), @, a.mr)]
               ELSE inst
    /\ raced' = IF Watched(a.mr, a.ptr) /\ ConflictingAccess(t, a)
                THEN raced \cup {a.mr} ELSE raced
    /\ UNCHANGED <<stage, watchdog, holders, usage, interrupted>>

EndAccess(t) ==
    /\ stage[t] = "running"
    /\ access[t] # NoAccess
    /\ access' = [access EXCEPT ![t] = NoAccess]
    /\ UNCHANGED <<stage, inst, watchdog, holders, usage, interrupted, raced>>

\* The entry point returns and the kernel drops what it took around the call.
\* Locks and references the driver has not given back stay taken.
Return(t) ==
    /\ Ready(t)
    /\ stage' = [stage EXCEPT ![t] = "returned"]
    /\ holders' = [l \in Lock |->
                    IF l \in TakenAround(t) /\ ~ (l = "lock$power" /\ usage[t] > 0)
                    THEN holders[l] \ {t} ELSE holders[l]]
    /\ UNCHANGED <<inst, watchdog, access, usage, interrupted, raced>>

Step(t) ==
    \/ Enter(t)
    \/ \E l \in DriverLock : Acquire(t, l) \/ AcquireInterrupted(t, l) \/ Release(t, l)
    \/ PmGet(t) \/ PmPut(t) \/ AssertRtnl(t) \/ StopQueue(t) \/ WakeQueue(t)
    \/ \E a \in Access : BeginAccess(t, a)
    \/ EndAccess(t)
    \/ Return(t)

Next == \E t \in Thread : Step(t)

Spec == Init /\ [][Next]_vars

-----------------------------------------------------------------------------
(* Properties *)

\* The verdict of the check on these two runs.  An entry point paired with
\* itself is called once by the checker, so each of the two runs is one call.
Verified(mr) ==
    IF EP1 = EP2
    THEN \A t \in Thread : SelfRaceAssertion(EP1, inst[t], mr)
    ELSE RaceAssertion(EP1, EP2, inst[1], inst[2], mr)

\* The current lockset that the instrumentation keeps for a thread never names
\* a lock the thread does not really hold, as long as the thread touches memory.
\* The exception is lock$tx of an entry point that wakes the queue again.
CurrentLocksetHeld ==
    \A t \in Thread : stage[t] = "running" /\ ~ interrupted[t] =>
        \A l \in inst[t].CLS :
            t \in holders[l] \/ (l = "lock$tx" /\ EPof(t) \in WakesQueue)

\* Soundness of the lockset check for a pair of different entry points: once
\* the two threads have raced on a memory region, the assertion of the checker
\* procedure for that region is false.
RaceReported == \A mr \in raced : ~ Verified(mr)

\* A verdict is final: whatever the entry points do afterwards, a region whose
\* assertion fails keeps failing (locksets shrink, access flags stay up).
ReportIsStable == [][\A mr \in MemoryRegion : ~ Verified(mr) => ~ Verified(mr)']_vars

\* Each thread, seen through its lockset state alone, is a run of its
\* instrumented entry point: the concurrent driver adds no lockset state that
\* the sequential check does not explore.
Run1 == INSTANCE EntryPointRun WITH EP <- EP1, stage <- stage[1], inst <- inst[1]
Run2 == INSTANCE EntryPointRun WITH EP <- EP2, stage <- stage[2], inst <- inst[2]
ThreadsRunEntryPoints == Run1!Spec /\ Run2!Spec
=============================================================================
