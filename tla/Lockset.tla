------------------------------ MODULE Lockset ------------------------------
(***************************************************************************)
(* The lockset vocabulary of Whoop, as operators on the instrumented state *)
(* of one entry point.  That state is a record:                            *)
(*   CLS      the current lockset, one Boogie Boolean per lock in the code *)
(*   LS       for every memory region the lockset of its watched address   *)
(*   WRITTEN, READ   the regions whose access flag has been raised         *)
(* An operator here is the body of a procedure that the instrumentation    *)
(* passes add to the program (_UPDATE_CLS_, _WRITE_LS_, _READ_LS_), or an  *)
(* expression of the checker procedure that PairCheckingRegion creates.    *)
(***************************************************************************)
CONSTANTS
    EntryPoint,     \* the entry points of the driver
    DriverLock,     \* locks the driver initialises (mutex_init, spin_lock_init)
    MemoryRegion,   \* SMACK memory regions $M.0, $M.1, ...
    PowerLocked, RtnlLocked, TxLocked,        \* EntryPoint.IsPowerLocked, ...
    CallingPower, CallingRtnl, CallingTx      \* EntryPoint.IsCallingPowerLock, ...

\* The three locks LockAbstraction adds for the kernel.
KernelLock == {"lock$power", "lock$rtnl", "lock$tx"}

Lock == DriverLock \cup KernelLock

ASSUME LocksetAssumption ==
    /\ DriverLock \cap KernelLock = {}
    /\ PowerLocked \subseteq EntryPoint
    /\ RtnlLocked \subseteq EntryPoint
    /\ TxLocked \subseteq EntryPoint
    /\ CallingPower \subseteq EntryPoint
    /\ CallingRtnl \subseteq EntryPoint
    /\ CallingTx \subseteq EntryPoint \ TxLocked   \* set only if !IsTxLocked

-----------------------------------------------------------------------------
(* Kernel locks *)

\* The kernel takes lock l around every call of entry point ep.
IsKernelLocked(ep, l) ==
    \/ l = "lock$power" /\ ep \in PowerLocked
    \/ l = "lock$rtnl"  /\ ep \in RtnlLocked
    \/ l = "lock$tx"    /\ ep \in TxLocked

\* The code of ep contains a call that the instrumentation turns into an
\* update of kernel lock l.
IsCalling(ep, l) ==
    \/ l = "lock$power" /\ ep \in CallingPower
    \/ l = "lock$rtnl"  /\ ep \in CallingRtnl
    \/ l = "lock$tx"    /\ ep \in CallingTx

\* Kernel locks the entry point never touches are left out of its updates.
ShouldSkipLockset(ep, l) == l \in KernelLock /\ ~ IsCalling(ep, l)

\* A kernel lock takes part in the check of ep if ep calls it or runs under it.
IsLockUsed(ep, l) == l \in KernelLock => IsCalling(ep, l) \/ IsKernelLocked(ep, l)

-----------------------------------------------------------------------------
(* Instrumented state *)

InstState == [CLS : SUBSET Lock, LS : [MemoryRegion -> SUBSET Lock],
              WRITTEN : SUBSET MemoryRegion, READ : SUBSET MemoryRegion]

\* What the checker procedure requires of the state before it calls ep.
EntryState(ep) ==
    [CLS     |-> {},
     LS      |-> [mr \in MemoryRegion |-> {l \in Lock : IsLockUsed(ep, l)}],
     WRITTEN |-> {},
     READ    |-> {}]

\* What the instrumented procedure of ep requires of its caller.
EntryRequires(ep, s) ==
    /\ \A l \in s.CLS : ShouldSkipLockset(ep, l)
    /\ \A mr \in MemoryRegion, l \in Lock : ShouldSkipLockset(ep, l) \/ l \in s.LS[mr]
    /\ s.WRITTEN = {} /\ s.READ = {}

\* Mutant: releasing a lock leaves it in the current lockset.
UPDATE_CLS_ForgetsRelease(ep, s, lock, isLocked) ==
    [s EXCEPT !.CLS = IF isLocked THEN @ \cup {lock} ELSE @]

\* call _UPDATE_CLS_$ep(lock, isLocked)
UPDATE_CLS(ep, s, lock, isLocked) ==
    [CLS |-> {l \in Lock :
                IF l = lock /\ ~ ShouldSkipLockset(ep, l) THEN isLocked ELSE l \in s.CLS},
     LS |-> s.LS, WRITTEN |-> s.WRITTEN, READ |-> s.READ]

\* The locks that stay in a region's lockset at an access.
Intersect(ep, s, mr) == {l \in s.LS[mr] : ShouldSkipLockset(ep, l) \/ l \in s.CLS}

\* Mutant: the access replaces the lockset instead of intersecting it.
WRITE_LS_Replaces(ep, s, mr) ==
    [s EXCEPT !.LS[mr] = s.CLS, !.WRITTEN = @ \cup {mr}]

\* call _WRITE_LS_mr_$ep(ptr), where ptr is the watched address of mr
WRITE_LS(ep, s, mr) ==
    [CLS |-> s.CLS, LS |-> [s.LS EXCEPT ![mr] = Intersect(ep, s, mr)],
     WRITTEN |-> s.WRITTEN \cup {mr}, READ |-> s.READ]

\* Mutant: a read raises its flag but leaves the lockset alone.
READ_LS_FlagOnly(ep, s, mr) == [s EXCEPT !.READ = @ \cup {mr}]

\* call _READ_LS_mr_$ep(ptr), where ptr is the watched address of mr
READ_LS(ep, s, mr) ==
    [CLS |-> s.CLS, LS |-> [s.LS EXCEPT ![mr] = Intersect(ep, s, mr)],
     WRITTEN |-> s.WRITTEN, READ |-> s.READ \cup {mr}]

-----------------------------------------------------------------------------
(* The race assertion of the checker procedure *)

\* Locks that count as protection for the pair.
CheckedLock(ep1, ep2) ==
    {l \in Lock : l = "lock$tx" => ep1 \in TxLocked \/ ep2 \in TxLocked}

\* Mutant: read-write conflicts are not checked.
Conflict_WritesOnly(s1, s2, mr) == mr \in s1.WRITTEN /\ mr \in s2.WRITTEN

\* The two runs touched the watched address of mr and one of them wrote it.
Conflict(s1, s2, mr) ==
    \/ mr \in s1.WRITTEN /\ mr \in s2.WRITTEN
    \/ mr \in s1.WRITTEN /\ mr \in s2.READ
    \/ mr \in s1.READ /\ mr \in s2.WRITTEN

\* assert {:race_checking} for two different entry points
RaceAssertion(ep1, ep2, s1, s2, mr) ==
    Conflict(s1, s2, mr) =>
        \E l \in CheckedLock(ep1, ep2) : l \in s1.LS[mr] /\ l \in s2.LS[mr]

\* assert {:race_checking} for an entry point paired with itself: the checker
\* calls it once, and a write must be protected
SelfRaceAssertion(ep, s, mr) ==
    mr \in s.WRITTEN => \E l \in CheckedLock(ep, ep) : l \in s.LS[mr]
=============================================================================
