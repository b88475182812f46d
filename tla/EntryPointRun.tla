--------------------------- MODULE EntryPointRun ---------------------------
(***************************************************************************)
(* One instrumented entry point as the verifier sees it: a sequential      *)
(* program whose control flow is arbitrary (shared reads are havocked by   *)
(* SharedStateAbstraction), whose lock calls have become _UPDATE_CLS_      *)
(* calls and whose shared accesses are followed by _WRITE_LS_/_READ_LS_    *)
(* calls.  This is the abstract specification of an entry point: it says   *)
(* what the lockset state may become on any path, whatever the kernel and  *)
(* the other threads do.                                                   *)
(***************************************************************************)
EXTENDS Lockset

CONSTANTS
    EP,             \* the entry point
    MapRegion,      \* memory regions of map type; the others are scalars
    Address         \* addresses within a region

VARIABLES
    stage,          \* "idle", "running", "returned"
    inst,           \* the instrumented state of the entry point
    watchdog        \* the symbolic constants WATCHED_ACCESS_mr

vars == <<stage, inst, watchdog>>

Init ==
    /\ stage = "idle"
    /\ inst = EntryState(EP)
    /\ watchdog \in [MapRegion -> Address]

\* The guard of the access procedures: only the watched address of a map
\* counts, every access to a scalar does.
Watched(mr, ptr) == mr \in MapRegion => ptr = watchdog[mr]

Enter ==
    /\ stage = "idle"
    /\ stage' = "running"
    /\ UNCHANGED <<inst, watchdog>>

\* mutex_lock, mutex_lock_interruptible, spin_lock, spin_lock_irqsave (TRUE)
\* and mutex_unlock, spin_unlock, spin_unlock_irqrestore (FALSE)
DriverLockCall(l, isLocked) ==
    /\ stage = "running"
    /\ inst' = UPDATE_CLS(EP, inst, l, isLocked)
    /\ UNCHANGED <<stage, watchdog>>

\* pm_runtime_get_* (TRUE) and pm_runtime_put_* (FALSE)
PowerCall(isLocked) ==
    /\ stage = "running"
    /\ EP \in CallingPower
    /\ inst' = UPDATE_CLS(EP, inst, "lock$power", isLocked)
    /\ UNCHANGED <<stage, watchdog>>

\* ASSERT_RTNL
RtnlCall ==
    /\ stage = "running"
    /\ EP \in CallingRtnl
    /\ inst' = UPDATE_CLS(EP, inst, "lock$rtnl", TRUE)
    /\ UNCHANGED <<stage, watchdog>>

\* netif_stop_queue in an entry point that is not transmit locked
TxCall ==
    /\ stage = "running"
    /\ EP \in CallingTx
    /\ inst' = UPDATE_CLS(EP, inst, "lock$tx", TRUE)
    /\ UNCHANGED <<stage, watchdog>>

Write(mr, ptr) ==
    /\ stage = "running"
    /\ inst' = IF Watched(mr, ptr) THEN WRITE_LS(EP, inst, mr) ELSE inst
    /\ UNCHANGED <<stage, watchdog>>

Read(mr, ptr) ==
    /\ stage = "running"
    /\ inst' = IF Watched(mr, ptr) THEN READ_LS(EP, inst, mr) ELSE inst
    /\ UNCHANGED <<stage, watchdog>>

Return ==
    /\ stage = "running"
    /\ stage' = "returned"
    /\ UNCHANGED <<inst, watchdog>>

Next ==
    \/ Enter
    \/ \E l \in DriverLock, b \in BOOLEAN : DriverLockCall(l, b)
    \/ \E b \in BOOLEAN : PowerCall(b)
    \/ RtnlCall
    \/ TxCall
    \/ \E mr \in MemoryRegion, ptr \in Address : Write(mr, ptr) \/ Read(mr, ptr)
    \/ Return

Spec == Init /\ [][Next]_vars
=============================================================================
