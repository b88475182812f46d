----------------------- MODULE ConcurrentDriverProofs -----------------------
(***************************************************************************)
(* Soundness of the lockset check: for every set of locks, memory regions  *)
(* and addresses, a race between two different entry points makes the      *)
(* assertion of the pair's checker procedure fail.                         *)
(*                                                                         *)
(* The argument: at a race both threads are inside an access to the        *)
(* watched address.  Each has just intersected the region's lockset with   *)
(* its current lockset (AccessNoted), which names only locks it holds      *)
(* (LocksetHeld), or the lock is one the kernel holds around the           *)
(* whole call (KernelLocksHeld).  A lock in both locksets would be held by *)
(* both threads, which the kernel excludes (HoldersExclude).  Afterwards   *)
(* locksets only shrink and flags only rise, so the assertion stays false. *)
(***************************************************************************)
EXTENDS ConcurrentDriver, TLAPS

-----------------------------------------------------------------------------
(* What the instrumentation procedures do *)

\* The state the checker procedure requires at its start is well formed.
LEMMA EntryStateFields ==
    ASSUME NEW ep
    PROVE  /\ EntryState(ep) \in InstState
           /\ EntryState(ep).CLS = {}
           /\ EntryState(ep).WRITTEN = {}
           /\ EntryState(ep).READ = {}
           /\ \A mr \in MemoryRegion : \A l \in EntryState(ep).LS[mr] :
                    l \in Lock /\ IsLockUsed(ep, l)
BY Zenon DEF EntryState, InstState

\* A call of _UPDATE_CLS_ changes the current lockset only, and in it only the
\* membership of the given lock.
LEMMA UpdateFields ==
    ASSUME NEW ep, NEW s \in InstState, NEW lock \in Lock, NEW b \in BOOLEAN
    PROVE  /\ UPDATE_CLS(ep, s, lock, b) \in InstState
           /\ UPDATE_CLS(ep, s, lock, b).LS = s.LS
           /\ UPDATE_CLS(ep, s, lock, b).WRITTEN = s.WRITTEN
           /\ UPDATE_CLS(ep, s, lock, b).READ = s.READ
           /\ \A l \in UPDATE_CLS(ep, s, lock, b).CLS : l \in s.CLS \/ (l = lock /\ b)
           /\ ~ b /\ ~ ShouldSkipLockset(ep, lock) => lock \notin UPDATE_CLS(ep, s, lock, b).CLS
BY Zenon DEF UPDATE_CLS, InstState

\* Acquiring adds at most the acquired lock.
LEMMA AcquireFields ==
    ASSUME NEW ep, NEW s \in InstState, NEW lock \in Lock
    PROVE  \A l \in UPDATE_CLS(ep, s, lock, TRUE).CLS : l \in s.CLS \/ l = lock
BY Zenon DEF UPDATE_CLS, InstState

\* What both access procedures do to the state s of ep, giving state n: the
\* lockset of mr is intersected with the current lockset, nothing else of the
\* locksets changes, and access flags are only raised.
AccessEffect(ep, s, n, mr) ==
    /\ n \in InstState
    /\ n.CLS = s.CLS
    /\ s.WRITTEN \subseteq n.WRITTEN
    /\ s.READ \subseteq n.READ
    /\ \A m \in MemoryRegion : n.LS[m] \subseteq s.LS[m]
    /\ \A l \in n.LS[mr] : ShouldSkipLockset(ep, l) \/ l \in s.CLS

\* _WRITE_LS_ intersects the lockset of its region and raises the write flag.
LEMMA WriteFields ==
    ASSUME NEW ep, NEW s \in InstState, NEW mr \in MemoryRegion
    PROVE  /\ AccessEffect(ep, s, WRITE_LS(ep, s, mr), mr)
           /\ mr \in WRITE_LS(ep, s, mr).WRITTEN
<1> DEFINE n == WRITE_LS(ep, s, mr)
<1>1. n.CLS = s.CLS /\ n.READ = s.READ /\ n.WRITTEN = s.WRITTEN \cup {mr}
  BY Zenon DEF WRITE_LS, InstState
<1>2. n.LS = [s.LS EXCEPT ![mr] = Intersect(ep, s, mr)]
  BY Zenon DEF WRITE_LS, InstState
<1>3. Intersect(ep, s, mr) \subseteq s.LS[mr]
  BY Zenon DEF Intersect
<1>4. n \in InstState
  BY <1>3, Zenon DEF WRITE_LS, InstState
<1>5. \A m \in MemoryRegion : n.LS[m] \subseteq s.LS[m]
  BY <1>2, <1>3, Zenon DEF InstState
<1>6. \A l \in n.LS[mr] : ShouldSkipLockset(ep, l) \/ l \in s.CLS
  BY <1>2, Zenon DEF Intersect, InstState
<1> HIDE DEF n
<1> QED
  BY <1>1, <1>4, <1>5, <1>6, Zenon DEF AccessEffect, n

\* _READ_LS_ intersects the lockset of its region and raises the read flag.
LEMMA ReadFields ==
    ASSUME NEW ep, NEW s \in InstState, NEW mr \in MemoryRegion
    PROVE  /\ AccessEffect(ep, s, READ_LS(ep, s, mr), mr)
           /\ mr \in READ_LS(ep, s, mr).READ
<1> DEFINE n == READ_LS(ep, s, mr)
<1>1. n.CLS = s.CLS /\ n.WRITTEN = s.WRITTEN /\ n.READ = s.READ \cup {mr}
  BY Zenon DEF READ_LS, InstState
<1>2. n.LS = [s.LS EXCEPT ![mr] = Intersect(ep, s, mr)]
  BY Zenon DEF READ_LS, InstState
<1>3. Intersect(ep, s, mr) \subseteq s.LS[mr]
  BY Zenon DEF Intersect
<1>4. n \in InstState
  BY <1>3, Zenon DEF READ_LS, InstState
<1>5. \A m \in MemoryRegion : n.LS[m] \subseteq s.LS[m]
  BY <1>2, <1>3, Zenon DEF InstState
<1>6. \A l \in n.LS[mr] : ShouldSkipLockset(ep, l) \/ l \in s.CLS
  BY <1>2, Zenon DEF Intersect, InstState
<1> HIDE DEF n
<1> QED
  BY <1>1, <1>4, <1>5, <1>6, Zenon DEF AccessEffect, n

\* n is s with smaller locksets and more access flags.
Grows(s, n) ==
    /\ s.WRITTEN \subseteq n.WRITTEN
    /\ s.READ \subseteq n.READ
    /\ \A m \in MemoryRegion : n.LS[m] \subseteq s.LS[m]

\* A failed race assertion of a pair stays failed when either state grows.
LEMMA FailedAssertionGrows ==
    ASSUME NEW ep1, NEW ep2, NEW s1, NEW s2, NEW n1, NEW n2, NEW mr \in MemoryRegion,
           Grows(s1, n1), Grows(s2, n2), ~ RaceAssertion(ep1, ep2, s1, s2, mr)
    PROVE  ~ RaceAssertion(ep1, ep2, n1, n2, mr)
BY Zenon DEF Grows, RaceAssertion, Conflict

\* The same for an entry point paired with itself.
LEMMA FailedSelfAssertionGrows ==
    ASSUME NEW ep, NEW s, NEW n, NEW mr \in MemoryRegion,
           Grows(s, n), ~ SelfRaceAssertion(ep, s, mr)
    PROVE  ~ SelfRaceAssertion(ep, n, mr)
BY Zenon DEF Grows, SelfRaceAssertion

-----------------------------------------------------------------------------
(* The inductive invariant *)

\* The pairs for which the check is sound.  Each conjunct is necessary: a pair of
\* equal entry points, two handlers that take runtime-PM references, or a handler
\* that wakes the queue it has stopped can race and be verified.
SoundPair ==
    /\ EP1 # EP2
    /\ \/ EP1 \in PowerLocked \/ EP2 \in PowerLocked
       \/ EP1 \notin CallingPower \/ EP2 \notin CallingPower
    /\ EP1 \notin WakesQueue /\ EP2 \notin WakesQueue

LocksetHeld ==
    \A t \in Thread : stage[t] = "running" /\ ~ interrupted[t] =>
        \A l \in inst[t].CLS : t \in holders[l]

EntersWithoutLocks == \A t \in Thread : stage[t] = "idle" => inst[t].CLS = {}

KernelLocksHeld ==
    \A t \in Thread : stage[t] = "running" => \A l \in TakenAround(t) : t \in holders[l]

HoldersExclude ==
    \A l \in Lock : \A t, u \in holders[l] : t # u => ~ Excludes(l, EPof(t), EPof(u))

LocksetsUsed ==
    \A t \in Thread : \A mr \in MemoryRegion : \A l \in inst[t].LS[mr] : IsLockUsed(EPof(t), l)

\* A thread inside a watched access has raised its flag and intersected the
\* lockset of the region.
AccessNotedBy(t) ==
    /\ stage[t] = "running" /\ ~ interrupted[t]
    /\ Watched(access[t].mr, access[t].ptr) =>
        /\ IF access[t].write THEN access[t].mr \in inst[t].WRITTEN
                              ELSE access[t].mr \in inst[t].READ
        /\ \A l \in inst[t].LS[access[t].mr] :
                ShouldSkipLockset(EPof(t), l) \/ l \in inst[t].CLS

AccessNoted == \A t \in Thread : access[t] # NoAccess => AccessNotedBy(t)

Core ==
    /\ TypeOK
    /\ EntersWithoutLocks
    /\ LocksetHeld
    /\ KernelLocksHeld
    /\ HoldersExclude
    /\ LocksetsUsed
    /\ AccessNoted

IInv == Core /\ RaceReported

\* The threads are inside conflicting accesses to the watched address of mr.
InRace(mr) ==
    /\ \A t \in Thread : /\ access[t] # NoAccess /\ access[t].mr = mr
                         /\ Watched(access[t].mr, access[t].ptr)
    /\ access[1].write \/ access[2].write

-----------------------------------------------------------------------------
(* Type correctness *)

\* Both threads run an entry point of the driver.
LEMMA ThreadFacts ==
    /\ \A t \in Thread : EPof(t) \in EntryPoint
    /\ DriverLock \subseteq Lock
    /\ KernelLock \subseteq Lock
    /\ "lock$power" \in Lock /\ "lock$rtnl" \in Lock /\ "lock$tx" \in Lock
    /\ \A ep, l : l \in DriverLock => ~ ShouldSkipLockset(ep, l)
    /\ \A a \in Access : a # NoAccess
BY DriverAssumption, LocksetAssumption
   DEF Thread, EPof, Lock, KernelLock, ShouldSkipLockset, Access, NoAccess

\* TypeOK is preserved by every step.
LEMMA TypeStep == TypeOK /\ [Next]_vars => TypeOK'
<1> SUFFICES ASSUME TypeOK, [Next]_vars PROVE TypeOK'
  BY Zenon
<1> USE ThreadFacts
<1>1. CASE UNCHANGED vars
  BY <1>1, Zenon DEF TypeOK, vars
<1>2. CASE Next
  <2> PICK t \in Thread : Step(t)
    BY <1>2, Zenon DEF Next
  <2>0. \A l \in Lock, b \in BOOLEAN : UPDATE_CLS(EPof(t), inst[t], l, b) \in InstState
    <3>1. inst[t] \in InstState
      BY Zenon DEF TypeOK
    <3> QED
      BY <3>1, UpdateFields, Zenon
  <2>1. CASE Enter(t)
    BY <2>1, Zenon DEF TypeOK, Enter
  <2>2. ASSUME NEW l \in DriverLock, Acquire(t, l) PROVE TypeOK'
    <3>1. inst' \in [Thread -> InstState]
      BY <2>0, <2>2, Zenon DEF TypeOK, Acquire
    <3>2. holders' \in [Lock -> SUBSET Thread]
      BY <2>2, Zenon DEF TypeOK, Acquire
    <3> QED
      BY <2>2, <3>1, <3>2, Zenon DEF TypeOK, Acquire
  <2>3. ASSUME NEW l \in DriverLock, AcquireInterrupted(t, l) PROVE TypeOK'
    <3>1. inst' \in [Thread -> InstState]
      BY <2>0, <2>3, Zenon DEF TypeOK, AcquireInterrupted
    <3>2. holders' \in [Lock -> SUBSET Thread]
      BY <2>3, Zenon DEF TypeOK, AcquireInterrupted
    <3> QED
      BY <2>3, <3>1, <3>2, Zenon DEF TypeOK, AcquireInterrupted
  <2>4. ASSUME NEW l \in DriverLock, Release(t, l) PROVE TypeOK'
    <3>1. inst' \in [Thread -> InstState]
      BY <2>0, <2>4, Zenon DEF TypeOK, Release
    <3>2. holders' \in [Lock -> SUBSET Thread]
      BY <2>4, Zenon DEF TypeOK, Release
    <3> QED
      BY <2>4, <3>1, <3>2, Zenon DEF TypeOK, Release
  <2>5. CASE PmGet(t)
    <3>1. inst' \in [Thread -> InstState]
      BY <2>0, <2>5, Zenon DEF TypeOK, PmGet
    <3>2. usage' \in [Thread -> 0 .. MaxUsage]
      BY <2>5, DriverAssumption DEF TypeOK, PmGet
    <3>3. holders' \in [Lock -> SUBSET Thread]
      BY <2>5, Zenon DEF TypeOK, PmGet
    <3> QED
      BY <2>5, <3>1, <3>2, <3>3, Zenon DEF TypeOK, PmGet
  <2>6. CASE PmPut(t)
    <3>1. inst' \in [Thread -> InstState]
      BY <2>0, <2>6, Zenon DEF TypeOK, PmPut
    <3>2. usage' \in [Thread -> 0 .. MaxUsage]
      BY <2>6, DriverAssumption DEF TypeOK, PmPut
    <3>3. holders' \in [Lock -> SUBSET Thread]
      BY <2>6, Zenon DEF TypeOK, PmPut
    <3> QED
      BY <2>6, <3>1, <3>2, <3>3, Zenon DEF TypeOK, PmPut
  <2>7. CASE AssertRtnl(t)
    <3>1. inst' \in [Thread -> InstState]
      BY <2>0, <2>7, Zenon DEF TypeOK, AssertRtnl
    <3>2. holders' \in [Lock -> SUBSET Thread]
      BY <2>7, Zenon DEF TypeOK, AssertRtnl
    <3> QED
      BY <2>7, <3>1, <3>2, Zenon DEF TypeOK, AssertRtnl
  <2>8. CASE StopQueue(t)
    <3>1. inst' \in [Thread -> InstState]
      BY <2>0, <2>8, Zenon DEF TypeOK, StopQueue
    <3>2. holders' \in [Lock -> SUBSET Thread]
      BY <2>8, Zenon DEF TypeOK, StopQueue
    <3> QED
      BY <2>8, <3>1, <3>2, Zenon DEF TypeOK, StopQueue
  <2>9. CASE WakeQueue(t)
    BY <2>9, Zenon DEF TypeOK, WakeQueue
  <2>10. ASSUME NEW a \in Access, BeginAccess(t, a) PROVE TypeOK'
    <3>1. a.mr \in MemoryRegion
      BY Zenon DEF Access
    <3>2. inst' \in [Thread -> InstState]
      BY <2>10, <3>1, WriteFields, ReadFields, Zenon DEF TypeOK, BeginAccess, AccessEffect
    <3>3. raced' \subseteq MemoryRegion
      BY <2>10, <3>1, Zenon DEF TypeOK, BeginAccess
    <3> QED
      BY <2>10, <3>2, <3>3, Zenon DEF TypeOK, BeginAccess
  <2>11. CASE EndAccess(t)
    BY <2>11, Zenon DEF TypeOK, EndAccess
  <2>12. CASE Return(t)
    BY <2>12, Zenon DEF TypeOK, Return
  <2> QED
    BY <2>1, <2>2, <2>3, <2>4, <2>5, <2>6, <2>7, <2>8, <2>9, <2>10, <2>11, <2>12, Zenon DEF Step
<1> QED
  BY <1>1, <1>2, Zenon

\* The state before either entry point is called is well typed.
LEMMA TypeInit == Init => TypeOK
BY EntryStateFields, DriverAssumption DEF Init, TypeOK, Thread

\* Every variable of the concurrent driver keeps its type.
THEOREM TypeCorrect == Spec => []TypeOK
BY TypeInit, TypeStep, PTL DEF Spec

-----------------------------------------------------------------------------
(* Verdicts are final *)

\* A step changes the lockset state of no thread but its own, and there it only
\* shrinks locksets and raises flags.
LEMMA InstGrows ==
    ASSUME TypeOK, NEW t \in Thread, Step(t)
    PROVE  \A u \in Thread : Grows(inst[u], inst'[u])
<1> USE ThreadFacts
<1>1. inst \in [Thread -> InstState]
  BY Zenon DEF TypeOK
<1>2. \A s \in InstState : Grows(s, s)
  BY Zenon DEF Grows
<1>3. \A s \in InstState, l \in Lock, b \in BOOLEAN : Grows(s, UPDATE_CLS(EPof(t), s, l, b))
  BY UpdateFields DEF Grows
<1>4. ASSUME NEW l \in Lock, NEW b \in BOOLEAN,
             inst' = [inst EXCEPT ![t] = UPDATE_CLS(EPof(t), @, l, b)]
      PROVE  \A u \in Thread : Grows(inst[u], inst'[u])
  BY <1>1, <1>2, <1>3, <1>4, Zenon
<1>5. ASSUME inst' = inst
      PROVE  \A u \in Thread : Grows(inst[u], inst'[u])
  BY <1>1, <1>2, <1>5, Zenon
<1>6. CASE Enter(t) \/ WakeQueue(t) \/ EndAccess(t) \/ Return(t)
  BY <1>5, <1>6, Zenon DEF Enter, WakeQueue, EndAccess, Return
<1>7. ASSUME NEW l \in DriverLock, Acquire(t, l) \/ AcquireInterrupted(t, l) \/ Release(t, l)
      PROVE  \A u \in Thread : Grows(inst[u], inst'[u])
  BY <1>4, <1>7, Zenon DEF Acquire, AcquireInterrupted, Release
<1>8. CASE PmGet(t) \/ PmPut(t) \/ AssertRtnl(t) \/ StopQueue(t)
  BY <1>4, <1>8, Zenon DEF PmGet, PmPut, AssertRtnl, StopQueue
<1>9. ASSUME NEW a \in Access, BeginAccess(t, a)
      PROVE  \A u \in Thread : Grows(inst[u], inst'[u])
  <2>1. a.mr \in MemoryRegion
    BY Zenon DEF Access
  <2>2. Grows(inst[t], WRITE_LS(EPof(t), inst[t], a.mr))
    BY <1>1, <2>1, WriteFields, Zenon DEF Grows, AccessEffect
  <2>3. Grows(inst[t], READ_LS(EPof(t), inst[t], a.mr))
    BY <1>1, <2>1, ReadFields, Zenon DEF Grows, AccessEffect
  <2> QED
    BY <1>1, <1>2, <1>9, <2>2, <2>3, Zenon DEF BeginAccess
<1> QED
  BY <1>6, <1>7, <1>8, <1>9, Zenon DEF Step

\* A region that fails its assertion still fails it after any step.
LEMMA VerdictStep ==
    ASSUME TypeOK, [Next]_vars, NEW mr \in MemoryRegion, ~ Verified(mr)
    PROVE  ~ Verified(mr)'
<1>1. CASE UNCHANGED vars
  BY <1>1, Zenon DEF vars, Verified
<1>2. CASE Next
  <2>1. \A u \in Thread : Grows(inst[u], inst'[u])
    BY <1>2, InstGrows, Zenon DEF Next
  <2>2. CASE EP1 = EP2
    <3>1. PICK t \in Thread : ~ SelfRaceAssertion(EP1, inst[t], mr)
      BY <2>2, Zenon DEF Verified
    <3>2. ~ SelfRaceAssertion(EP1, inst'[t], mr)
      BY <2>1, <3>1, FailedSelfAssertionGrows, Zenon
    <3> QED
      BY <2>2, <3>2, Zenon DEF Verified
  <2>3. CASE EP1 # EP2
    <3>1. ~ RaceAssertion(EP1, EP2, inst'[1], inst'[2], mr)
      BY <2>1, <2>3, FailedAssertionGrows DEF Verified, Thread
    <3> QED
      BY <2>3, <3>1, Zenon DEF Verified
  <2> QED
    BY <2>2, <2>3, Zenon
<1> QED
  BY <1>1, <1>2, Zenon

\* The verdict on a region never changes back to verified.
THEOREM VerdictsAreFinal == Spec => ReportIsStable
<1>1. TypeOK /\ [Next]_vars => [\A mr \in MemoryRegion : ~ Verified(mr) => ~ Verified(mr)']_vars
  BY VerdictStep, Zenon
<1> QED
  BY <1>1, TypeCorrect, PTL DEF Spec, ReportIsStable

-----------------------------------------------------------------------------
(* The inductive invariant *)

\* A step of a thread outside an access leaves what is known of the access of
\* the other thread.
LEMMA AccessNotedKept ==
    ASSUME TypeOK, AccessNoted, NEW t \in Thread, access[t] = NoAccess,
           access' = access, watchdog' = watchdog,
           \A u \in Thread \ {t} : /\ inst'[u] = inst[u]
                                   /\ stage'[u] = stage[u]
                                   /\ interrupted'[u] = interrupted[u]
    PROVE  AccessNoted'
<1> SUFFICES ASSUME NEW u \in Thread, access'[u] # NoAccess
             PROVE  AccessNotedBy(u)'
  BY Zenon DEF AccessNoted
<1>1. u # t /\ access[u] # NoAccess
  BY Zenon
<1>2. AccessNotedBy(u)
  BY <1>1, Zenon DEF AccessNoted
<1>3. inst'[u] = inst[u] /\ stage'[u] = stage[u] /\ interrupted'[u] = interrupted[u]
  BY <1>1, Zenon
<1> QED
  BY <1>2, <1>3, Zenon DEF AccessNotedBy, Watched

\* The kernel's exclusion is symmetric.
LEMMA ExcludesSymmetric ==
    ASSUME NEW l, NEW e, NEW f PROVE Excludes(l, e, f) <=> Excludes(l, f, e)
BY Zenon DEF Excludes

\* A thread that may hold l can be added to its holders.
LEMMA HolderAdded ==
    ASSUME TypeOK, HoldersExclude, NEW t \in Thread, NEW k \in SUBSET Lock,
           \A l \in k : MayHold(t, l),
           holders' = [l \in Lock |-> IF l \in k THEN holders[l] \cup {t} ELSE holders[l]]
    PROVE  HoldersExclude'
<1> SUFFICES ASSUME NEW l \in Lock, NEW u \in holders'[l], NEW v \in holders'[l], u # v
             PROVE  ~ Excludes(l, EPof(u), EPof(v))
  BY Zenon DEF HoldersExclude
<1>1. CASE l \notin k
  BY <1>1, Zenon DEF HoldersExclude, TypeOK
<1>2. CASE l \in k
  <2>1. \A w \in holders[l] : w # t => ~ Excludes(l, EPof(t), EPof(w))
    BY <1>2, Zenon DEF MayHold
  <2>2. u \in holders[l] \cup {t} /\ v \in holders[l] \cup {t}
    BY <1>2, Zenon
  <2> QED
    BY <2>1, <2>2, ExcludesSymmetric, Zenon DEF HoldersExclude
<1> QED
  BY <1>1, <1>2, Zenon

\* Removing holders cannot break exclusion.
LEMMA HoldersRemoved ==
    ASSUME HoldersExclude, \A l \in Lock : holders'[l] \subseteq holders[l]
    PROVE  HoldersExclude'
BY Zenon DEF HoldersExclude

\* A lock in the lockset of a region that a thread is accessing is held by it.
LEMMA AccessLockHeld ==
    ASSUME Core, NEW t \in Thread, access[t] # NoAccess, access[t].mr \in MemoryRegion,
           Watched(access[t].mr, access[t].ptr), NEW l \in inst[t].LS[access[t].mr]
    PROVE  t \in holders[l]
<1>1. stage[t] = "running" /\ ~ interrupted[t]
  BY Zenon DEF Core, AccessNoted, AccessNotedBy
<1>2. CASE l \in inst[t].CLS
  BY <1>1, <1>2, Zenon DEF Core, LocksetHeld
<1>3. CASE ShouldSkipLockset(EPof(t), l)
  <2>1. l \in TakenAround(t)
    BY <1>3, Zenon DEF Core, LocksetsUsed, IsLockUsed, ShouldSkipLockset, TakenAround
  <2> QED
    BY <1>1, <2>1, Zenon DEF Core, KernelLocksHeld
<1> QED
  BY <1>2, <1>3, Zenon DEF Core, AccessNoted, AccessNotedBy

\* For a sound pair, every lock the assertion counts excludes its holders.
LEMMA CheckedLockExcludes ==
    ASSUME SoundPair, Core, NEW mr \in MemoryRegion, NEW l \in CheckedLock(EP1, EP2),
           l \in inst[1].LS[mr], l \in inst[2].LS[mr]
    PROVE  Excludes(l, EP1, EP2)
<1>1. IsLockUsed(EP1, l) /\ IsLockUsed(EP2, l)
  BY DEF Core, LocksetsUsed, Thread, EPof
<1>2. l = "lock$power" => EP1 \in PowerLocked \/ EP2 \in PowerLocked
  BY <1>1, Zenon DEF SoundPair, IsLockUsed, IsCalling, IsKernelLocked, KernelLock
<1> QED
  BY <1>2, Zenon DEF Excludes, CheckedLock

\* Two threads inside conflicting accesses to the watched address of a region:
\* the assertion of that region fails.
LEMMA RaceFailsAssertion ==
    SoundPair /\ Core => \A mr \in MemoryRegion : InRace(mr) => ~ Verified(mr)
<1> SUFFICES ASSUME SoundPair, Core, NEW mr \in MemoryRegion, InRace(mr)
             PROVE  ~ Verified(mr)
  BY Zenon
<1> USE DEF Thread, InRace
<1>1. access[1].write \in BOOLEAN /\ access[2].write \in BOOLEAN
  BY Zenon DEF Core, TypeOK, Access
<1>2. Conflict(inst[1], inst[2], mr)
  BY <1>1, Zenon DEF Core, AccessNoted, AccessNotedBy, Conflict
<1>3. ASSUME NEW l \in CheckedLock(EP1, EP2), l \in inst[1].LS[mr], l \in inst[2].LS[mr]
      PROVE  FALSE
  <2>1. 1 \in holders[l] /\ 2 \in holders[l]
    BY <1>3, AccessLockHeld, Zenon
  <2>2. Excludes(l, EP1, EP2)
    BY <1>3, CheckedLockExcludes, Zenon
  <2>3. l \in Lock
    BY Zenon DEF CheckedLock
  <2> QED
    BY <2>1, <2>2, <2>3 DEF Core, HoldersExclude, EPof
<1> QED
  BY <1>2, <1>3, Zenon DEF Verified, RaceAssertion, SoundPair

\* LocksetHeld is kept by a step of t that takes no lock from the other
\* thread and leaves t holding the locks of its current lockset.
LEMMA LocksetHeldKept ==
    ASSUME TypeOK, LocksetHeld, NEW t \in Thread,
           \A u \in Thread \ {t} : /\ inst'[u] = inst[u]
                                   /\ stage'[u] = stage[u]
                                   /\ interrupted'[u] = interrupted[u]
                                   /\ \A l \in Lock : u \in holders[l] => u \in holders'[l],
           stage'[t] = "running" /\ ~ interrupted'[t] =>
                \A l \in inst'[t].CLS : t \in holders'[l]
    PROVE  LocksetHeld'
<1> SUFFICES ASSUME NEW u \in Thread, stage'[u] = "running", ~ interrupted'[u],
                    NEW l \in inst'[u].CLS
             PROVE  u \in holders'[l]
  BY Zenon DEF LocksetHeld
<1>1. CASE u = t
  BY <1>1, Zenon
<1>2. CASE u # t
  <2>1. inst[u].CLS \subseteq Lock
    BY Zenon DEF TypeOK, InstState
  <2> QED
    BY <1>2, <2>1, Zenon DEF LocksetHeld
<1> QED
  BY <1>1, <1>2, Zenon

\* Every step preserves the part of the invariant that does not mention races.
LEMMA CoreStep ==
    ASSUME SoundPair, Core, NEW t \in Thread, Step(t)
    PROVE  Core'
<1> USE ThreadFacts
<1>1. TypeOK /\ TypeOK'
  BY TypeStep, Zenon DEF Core, Next
<1>2. LocksetsUsed'
  BY InstGrows, Zenon DEF Core, LocksetsUsed, Grows
<1>3. access[t] # NoAccess => stage[t] = "running"
  BY Zenon DEF Core, AccessNoted, AccessNotedBy
<1>0. \A u \in Thread : inst[u] \in InstState /\ inst[u].CLS \subseteq Lock
  BY <1>1, Zenon DEF TypeOK, InstState
<1> USE DEF TypeOK
<1>4. CASE Enter(t)
  <2>1. LocksetHeld'
    BY <1>0, <1>1, <1>4, Zenon DEF Core, LocksetHeld, EntersWithoutLocks, Enter
  <2>2. KernelLocksHeld'
    BY <1>1, <1>4, Zenon DEF Core, KernelLocksHeld, Enter, TakenAround
  <2>3. HoldersExclude'
    BY <1>1, <1>4, HolderAdded, Zenon DEF Core, Enter, TakenAround
  <2>4. AccessNoted'
    BY <1>1, <1>3, <1>4, AccessNotedKept, Zenon DEF Core, Enter
  <2>5. EntersWithoutLocks'
    BY <1>1, <1>4, Zenon DEF Core, EntersWithoutLocks, Enter
  <2> QED
    BY <1>1, <1>2, <2>1, <2>2, <2>3, <2>4, <2>5, Zenon DEF Core
<1>5. ASSUME NEW k \in DriverLock, Acquire(t, k) PROVE Core'
  <2> DEFINE s == UPDATE_CLS(EPof(t), inst[t], k, TRUE)
  <2>6. /\ inst' = [inst EXCEPT ![t] = s] /\ inst'[t] = s
        /\ \A u \in Thread \ {t} : inst'[u] = inst[u]
    BY <1>1, <1>5, Zenon DEF Acquire
  <2>7. \A l \in s.CLS : l \in inst[t].CLS \/ l = k
    BY <1>0, AcquireFields, Zenon
  <2> HIDE DEF s
  <2>1. LocksetHeld'
    <3>1. \A l \in Lock : \A u \in Thread \ {t} : u \in holders[l] => u \in holders'[l]
      BY <1>1, <1>5, Zenon DEF Acquire
    <3>2. ~ interrupted[t] => \A l \in inst'[t].CLS : t \in holders'[l]
      <4> SUFFICES ASSUME ~ interrupted[t], NEW l \in s.CLS PROVE t \in holders'[l]
        BY <2>6, Zenon
      <4>1. l \in inst[t].CLS => l \in Lock /\ t \in holders[l]
        BY <1>0, <1>5, Zenon DEF Core, LocksetHeld, Acquire, Ready
      <4> QED
        BY <1>1, <1>5, <2>7, <4>1, Zenon DEF Acquire
    <3> QED
      BY <1>1, <1>5, <2>6, <3>1, <3>2, LocksetHeldKept, Zenon DEF Core, Acquire
  <2>2. KernelLocksHeld'
    BY <1>1, <1>5, LocksetAssumption, Zenon DEF Core, KernelLocksHeld, Acquire, TakenAround, IsKernelLocked, KernelLock
  <2>3. HoldersExclude'
    BY <1>1, <1>5, Zenon DEF Core, HoldersExclude, Acquire
  <2>4. AccessNoted'
    BY <1>1, <1>5, <2>6, AccessNotedKept, Zenon DEF Core, Acquire, Ready
  <2>5. EntersWithoutLocks'
    BY <1>1, <1>5, <2>6, Zenon DEF Core, EntersWithoutLocks, Acquire, Ready
  <2> QED
    BY <1>1, <1>2, <2>1, <2>2, <2>3, <2>4, <2>5, Zenon DEF Core
<1>6. ASSUME NEW k \in DriverLock, AcquireInterrupted(t, k) PROVE Core'
  <2> DEFINE s == UPDATE_CLS(EPof(t), inst[t], k, TRUE)
  <2>6. /\ inst' = [inst EXCEPT ![t] = s] /\ inst'[t] = s
        /\ \A u \in Thread \ {t} : inst'[u] = inst[u]
    BY <1>1, <1>6, Zenon DEF AcquireInterrupted
  <2>7. \A l \in s.CLS : l \in inst[t].CLS \/ l = k
    BY <1>0, AcquireFields, Zenon
  <2> HIDE DEF s
  <2>1. LocksetHeld'
    BY <1>1, <1>6, <2>6, LocksetHeldKept, Zenon DEF Core, AcquireInterrupted
  <2>2. KernelLocksHeld'
    BY <1>1, <1>6, LocksetAssumption, Zenon DEF Core, KernelLocksHeld, AcquireInterrupted, TakenAround, IsKernelLocked, KernelLock
  <2>3. HoldersExclude'
    BY <1>1, <1>6, Zenon DEF Core, HoldersExclude, AcquireInterrupted
  <2>4. AccessNoted'
    BY <1>1, <1>6, <2>6, AccessNotedKept, Zenon DEF Core, AcquireInterrupted, Ready
  <2>5. EntersWithoutLocks'
    BY <1>1, <1>6, <2>6, Zenon DEF Core, EntersWithoutLocks, AcquireInterrupted, Ready
  <2> QED
    BY <1>1, <1>2, <2>1, <2>2, <2>3, <2>4, <2>5, Zenon DEF Core
<1>7. ASSUME NEW k \in DriverLock, Release(t, k) PROVE Core'
  <2> DEFINE s == UPDATE_CLS(EPof(t), inst[t], k, FALSE)
  <2>6. /\ inst' = [inst EXCEPT ![t] = s] /\ inst'[t] = s
        /\ \A u \in Thread \ {t} : inst'[u] = inst[u]
    BY <1>1, <1>7, Zenon DEF Release
  <2>7. \A l \in s.CLS : l \in inst[t].CLS 
    BY <1>0, UpdateFields, Zenon
  <2>8. k \notin s.CLS
    <3>1. ~ ShouldSkipLockset(EPof(t), k)
      BY ThreadFacts, Zenon
    <3>2. inst[t] \in InstState /\ k \in Lock
      BY <1>0, ThreadFacts, Zenon
    <3> QED
      BY <3>1, <3>2, UpdateFields, Zenon
  <2> HIDE DEF s
  <2>1. LocksetHeld'
    <3>1. \A l \in Lock : \A u \in Thread \ {t} : u \in holders[l] => u \in holders'[l]
      BY <1>1, <1>7, Zenon DEF Release
    <3>2. ~ interrupted[t] => \A l \in inst'[t].CLS : t \in holders'[l]
      <4> SUFFICES ASSUME ~ interrupted[t], NEW l \in s.CLS PROVE t \in holders'[l]
        BY <2>6, Zenon
      <4>1. l \in inst[t].CLS => l \in Lock /\ t \in holders[l]
        BY <1>0, <1>7, Zenon DEF Core, LocksetHeld, Release, Ready
      <4> QED
        BY <1>1, <1>7, <2>7, <2>8, <4>1, Zenon DEF Release
    <3> QED
      BY <1>1, <1>7, <2>6, <3>1, <3>2, LocksetHeldKept, Zenon DEF Core, Release
  <2>2. KernelLocksHeld'
    BY <1>1, <1>7, LocksetAssumption, Zenon DEF Core, KernelLocksHeld, Release, TakenAround, IsKernelLocked, KernelLock
  <2>3. HoldersExclude'
    BY <1>1, <1>7, HoldersRemoved, Zenon DEF Core, Release
  <2>4. AccessNoted'
    BY <1>1, <1>7, <2>6, AccessNotedKept, Zenon DEF Core, Release, Ready
  <2>5. EntersWithoutLocks'
    BY <1>1, <1>7, <2>6, Zenon DEF Core, EntersWithoutLocks, Release, Ready
  <2> QED
    BY <1>1, <1>2, <2>1, <2>2, <2>3, <2>4, <2>5, Zenon DEF Core
<1>8. CASE PmGet(t)
  <2> DEFINE s == UPDATE_CLS(EPof(t), inst[t], "lock$power", TRUE)
  <2>6. /\ inst' = [inst EXCEPT ![t] = s] /\ inst'[t] = s
        /\ \A u \in Thread \ {t} : inst'[u] = inst[u]
    BY <1>1, <1>8, Zenon DEF PmGet
  <2>7. \A l \in s.CLS : l \in inst[t].CLS \/ l = "lock$power"
    BY <1>0, AcquireFields, Zenon
  <2> HIDE DEF s
  <2>1. LocksetHeld'
    <3>1. \A l \in Lock : \A u \in Thread \ {t} : u \in holders[l] => u \in holders'[l]
      BY <1>1, <1>8, Zenon DEF PmGet
    <3>2. ~ interrupted[t] => \A l \in inst'[t].CLS : t \in holders'[l]
      <4> SUFFICES ASSUME ~ interrupted[t], NEW l \in s.CLS PROVE t \in holders'[l]
        BY <2>6, Zenon
      <4>1. l \in inst[t].CLS => l \in Lock /\ t \in holders[l]
        BY <1>0, <1>8, Zenon DEF Core, LocksetHeld, PmGet, Ready
      <4> QED
        <5>1. CASE l \in inst[t].CLS
          <6>1. l \in Lock /\ t \in holders[l]
            BY <4>1, <5>1, Zenon
          <6>2. holders[l] \subseteq holders'[l]
            BY <1>8, <6>1 DEF PmGet
          <6> QED
            BY <6>1, <6>2, Zenon
        <5>2. CASE l = "lock$power"
          <6>1. "lock$power" \in Lock /\ holders \in [Lock -> SUBSET Thread]
            BY <1>1, ThreadFacts, Zenon
          <6>2. holders' = [holders EXCEPT !["lock$power"] = @ \cup {t}]
            BY <1>8, Zenon DEF PmGet
          <6> HIDE DEF TypeOK
          <6> QED
            BY <5>2, <6>1, <6>2, Zenon
        <5> QED
          BY <2>7, <5>1, <5>2, Zenon
    <3> QED
      BY <1>1, <1>8, <2>6, <3>1, <3>2, LocksetHeldKept, Zenon DEF Core, PmGet
  <2>2. KernelLocksHeld'
    BY <1>1, <1>8, LocksetAssumption, Zenon DEF Core, KernelLocksHeld, PmGet, TakenAround, IsKernelLocked, KernelLock
  <2>3. HoldersExclude'
    <3>1. holders' = [l \in Lock |-> IF l \in {"lock$power"} THEN holders[l] \cup {t} ELSE holders[l]]
      BY <1>1, <1>8, Zenon DEF PmGet
    <3>2. {"lock$power"} \in SUBSET Lock /\ \A l \in {"lock$power"} : MayHold(t, l)
      BY <1>8, Zenon DEF PmGet
    <3> QED
      BY <1>1, <3>1, <3>2, HolderAdded, Zenon DEF Core
  <2>4. AccessNoted'
    BY <1>1, <1>8, <2>6, AccessNotedKept, Zenon DEF Core, PmGet, Ready
  <2>5. EntersWithoutLocks'
    BY <1>1, <1>8, <2>6, Zenon DEF Core, EntersWithoutLocks, PmGet, Ready
  <2> QED
    BY <1>1, <1>2, <2>1, <2>2, <2>3, <2>4, <2>5, Zenon DEF Core
<1>9. CASE PmPut(t)
  <2> DEFINE s == UPDATE_CLS(EPof(t), inst[t], "lock$power", FALSE)
  <2>6. /\ inst' = [inst EXCEPT ![t] = s] /\ inst'[t] = s
        /\ \A u \in Thread \ {t} : inst'[u] = inst[u]
    BY <1>1, <1>9, Zenon DEF PmPut
  <2>7. \A l \in s.CLS : l \in inst[t].CLS 
    BY <1>0, UpdateFields, Zenon
  <2>8. "lock$power" \notin s.CLS
    <3>1. ~ ShouldSkipLockset(EPof(t), "lock$power")
      BY <1>9, Zenon DEF PmPut, ShouldSkipLockset, IsCalling
    <3>2. inst[t] \in InstState /\ "lock$power" \in Lock
      BY <1>0, ThreadFacts, Zenon
    <3> QED
      BY <3>1, <3>2, UpdateFields, Zenon
  <2> HIDE DEF s
  <2>1. LocksetHeld'
    <3>1. \A l \in Lock : \A u \in Thread \ {t} : u \in holders[l] => u \in holders'[l]
      BY <1>1, <1>9, Zenon DEF PmPut
    <3>2. ~ interrupted[t] => \A l \in inst'[t].CLS : t \in holders'[l]
      <4> SUFFICES ASSUME ~ interrupted[t], NEW l \in s.CLS PROVE t \in holders'[l]
        BY <2>6, Zenon
      <4>1. l \in inst[t].CLS => l \in Lock /\ t \in holders[l]
        BY <1>0, <1>9, Zenon DEF Core, LocksetHeld, PmPut, Ready
      <4> QED
        BY <1>1, <1>9, <2>7, <2>8, <4>1, Zenon DEF PmPut
    <3> QED
      BY <1>1, <1>9, <2>6, <3>1, <3>2, LocksetHeldKept, Zenon DEF Core, PmPut
  <2>2. KernelLocksHeld'
    BY <1>1, <1>9, LocksetAssumption, Zenon DEF Core, KernelLocksHeld, PmPut, TakenAround, IsKernelLocked, KernelLock
  <2>3. HoldersExclude'
    BY <1>1, <1>9, HoldersRemoved, Zenon DEF Core, PmPut
  <2>4. AccessNoted'
    BY <1>1, <1>9, <2>6, AccessNotedKept, Zenon DEF Core, PmPut, Ready
  <2>5. EntersWithoutLocks'
    BY <1>1, <1>9, <2>6, Zenon DEF Core, EntersWithoutLocks, PmPut, Ready
  <2> QED
    BY <1>1, <1>2, <2>1, <2>2, <2>3, <2>4, <2>5, Zenon DEF Core
<1>10. CASE AssertRtnl(t)
  <2> DEFINE s == UPDATE_CLS(EPof(t), inst[t], "lock$rtnl", TRUE)
  <2>6. /\ inst' = [inst EXCEPT ![t] = s] /\ inst'[t] = s
        /\ \A u \in Thread \ {t} : inst'[u] = inst[u]
    BY <1>1, <1>10, Zenon DEF AssertRtnl
  <2>7. \A l \in s.CLS : l \in inst[t].CLS \/ l = "lock$rtnl"
    BY <1>0, AcquireFields, Zenon
  <2> HIDE DEF s
  <2>1. LocksetHeld'
    BY <1>0, <1>1, <1>10, <2>6, <2>7, Zenon DEF Core, LocksetHeld, AssertRtnl, Ready
  <2>2. KernelLocksHeld'
    BY <1>1, <1>10, LocksetAssumption, Zenon DEF Core, KernelLocksHeld, AssertRtnl, TakenAround, IsKernelLocked, KernelLock
  <2>3. HoldersExclude'
    BY <1>1, <1>10, Zenon DEF Core, HoldersExclude, AssertRtnl
  <2>4. AccessNoted'
    BY <1>1, <1>10, <2>6, AccessNotedKept, Zenon DEF Core, AssertRtnl, Ready
  <2>5. EntersWithoutLocks'
    BY <1>1, <1>10, <2>6, Zenon DEF Core, EntersWithoutLocks, AssertRtnl, Ready
  <2> QED
    BY <1>1, <1>2, <2>1, <2>2, <2>3, <2>4, <2>5, Zenon DEF Core
<1>11. CASE StopQueue(t)
  <2> DEFINE s == UPDATE_CLS(EPof(t), inst[t], "lock$tx", TRUE)
  <2>6. /\ inst' = [inst EXCEPT ![t] = s] /\ inst'[t] = s
        /\ \A u \in Thread \ {t} : inst'[u] = inst[u]
    BY <1>1, <1>11, Zenon DEF StopQueue
  <2>7. \A l \in s.CLS : l \in inst[t].CLS \/ l = "lock$tx"
    BY <1>0, AcquireFields, Zenon
  <2> HIDE DEF s
  <2>1. LocksetHeld'
    <3>1. \A l \in Lock : \A u \in Thread \ {t} : u \in holders[l] => u \in holders'[l]
      BY <1>1, <1>11, Zenon DEF StopQueue
    <3>2. ~ interrupted[t] => \A l \in inst'[t].CLS : t \in holders'[l]
      <4> SUFFICES ASSUME ~ interrupted[t], NEW l \in s.CLS PROVE t \in holders'[l]
        BY <2>6, Zenon
      <4>1. l \in inst[t].CLS => l \in Lock /\ t \in holders[l]
        BY <1>0, <1>11, Zenon DEF Core, LocksetHeld, StopQueue, Ready
      <4> QED
        <5>1. CASE l \in inst[t].CLS
          <6>1. l \in Lock /\ t \in holders[l]
            BY <4>1, <5>1, Zenon
          <6>2. holders[l] \subseteq holders'[l]
            BY <1>11, <6>1 DEF StopQueue
          <6> QED
            BY <6>1, <6>2, Zenon
        <5>2. CASE l = "lock$tx"
          <6>1. "lock$tx" \in Lock /\ holders \in [Lock -> SUBSET Thread]
            BY <1>1, ThreadFacts, Zenon
          <6>2. holders' = [holders EXCEPT !["lock$tx"] = @ \cup {t}]
            BY <1>11, Zenon DEF StopQueue
          <6> HIDE DEF TypeOK
          <6> QED
            BY <5>2, <6>1, <6>2, Zenon
        <5> QED
          BY <2>7, <5>1, <5>2, Zenon
    <3> QED
      BY <1>1, <1>11, <2>6, <3>1, <3>2, LocksetHeldKept, Zenon DEF Core, StopQueue
  <2>2. KernelLocksHeld'
    BY <1>1, <1>11, LocksetAssumption, Zenon DEF Core, KernelLocksHeld, StopQueue, TakenAround, IsKernelLocked, KernelLock
  <2>3. HoldersExclude'
    <3>1. holders' = [l \in Lock |-> IF l \in {"lock$tx"} THEN holders[l] \cup {t} ELSE holders[l]]
      BY <1>1, <1>11, Zenon DEF StopQueue
    <3>2. {"lock$tx"} \in SUBSET Lock /\ \A l \in {"lock$tx"} : MayHold(t, l)
      BY <1>11, Zenon DEF StopQueue
    <3> QED
      BY <1>1, <3>1, <3>2, HolderAdded, Zenon DEF Core
  <2>4. AccessNoted'
    BY <1>1, <1>11, <2>6, AccessNotedKept, Zenon DEF Core, StopQueue, Ready
  <2>5. EntersWithoutLocks'
    BY <1>1, <1>11, <2>6, Zenon DEF Core, EntersWithoutLocks, StopQueue, Ready
  <2> QED
    BY <1>1, <1>2, <2>1, <2>2, <2>3, <2>4, <2>5, Zenon DEF Core
<1>12. CASE WakeQueue(t)
  BY <1>12, Zenon DEF WakeQueue, SoundPair, EPof, Thread
<1>13. ASSUME NEW a \in Access, BeginAccess(t, a) PROVE Core'
  <2>0. a.mr \in MemoryRegion
    BY Zenon DEF Access
  <2>7. ASSUME Watched(a.mr, a.ptr)
        PROVE  /\ inst'[t].CLS = inst[t].CLS
               /\ IF a.write THEN a.mr \in inst'[t].WRITTEN ELSE a.mr \in inst'[t].READ
               /\ \A l \in inst'[t].LS[a.mr] : ShouldSkipLockset(EPof(t), l) \/ l \in inst[t].CLS
    <3>1. inst'[t] = IF a.write THEN WRITE_LS(EPof(t), inst[t], a.mr)
                                ELSE READ_LS(EPof(t), inst[t], a.mr)
      BY <1>1, <1>13, <2>7, Zenon DEF BeginAccess
    <3>2. CASE a.write
      <4>1. inst'[t] = WRITE_LS(EPof(t), inst[t], a.mr)
        BY <3>1, <3>2, Zenon
      <4>2. /\ AccessEffect(EPof(t), inst[t], inst'[t], a.mr)
            /\ a.mr \in inst'[t].WRITTEN
        BY <1>0, <2>0, <4>1, WriteFields, Zenon
      <4> QED
        BY <3>2, <4>2, Zenon DEF AccessEffect
    <3>3. CASE ~ a.write
      <4>1. inst'[t] = READ_LS(EPof(t), inst[t], a.mr)
        BY <3>1, <3>3, Zenon
      <4>2. /\ AccessEffect(EPof(t), inst[t], inst'[t], a.mr)
            /\ a.mr \in inst'[t].READ
        BY <1>0, <2>0, <4>1, ReadFields, Zenon
      <4> QED
        BY <3>3, <4>2, Zenon DEF AccessEffect
    <3> QED
      BY <3>2, <3>3, Zenon
  <2>8. inst'[t].CLS = inst[t].CLS /\ \A u \in Thread \ {t} : inst'[u] = inst[u]
    BY <1>1, <1>13, <2>7, Zenon DEF BeginAccess
  <2>1. LocksetHeld'
    BY <1>1, <1>13, <2>8, LocksetHeldKept, Zenon DEF Core, LocksetHeld, BeginAccess
  <2>2. KernelLocksHeld'
    BY <1>1, <1>13, Zenon DEF Core, KernelLocksHeld, BeginAccess, TakenAround
  <2>3. HoldersExclude'
    BY <1>1, <1>13, Zenon DEF Core, HoldersExclude, BeginAccess
  <2>4. AccessNoted'
    <3> SUFFICES ASSUME NEW u \in Thread, access'[u] # NoAccess PROVE AccessNotedBy(u)'
      BY Zenon DEF AccessNoted
    <3>1. CASE u # t
      BY <1>1, <1>13, <3>1, Zenon DEF Core, AccessNoted, AccessNotedBy, BeginAccess, Watched
    <3>2. CASE u = t
      <4>1. /\ access'[t] = a /\ stage'[t] = "running" /\ ~ interrupted'[t]
            /\ watchdog' = watchdog
        BY <1>1, <1>13, Zenon DEF BeginAccess, Ready
      <4> QED
        BY <2>7, <3>2, <4>1, Zenon DEF AccessNotedBy, Watched
    <3> QED
      BY <3>1, <3>2, Zenon
  <2>5. EntersWithoutLocks'
    BY <1>1, <1>13, Zenon DEF Core, EntersWithoutLocks, BeginAccess, Ready
  <2> QED
    BY <1>1, <1>2, <2>1, <2>2, <2>3, <2>4, <2>5, Zenon DEF Core
<1>14. CASE EndAccess(t)
  <2>1. LocksetHeld' /\ KernelLocksHeld' /\ HoldersExclude' /\ EntersWithoutLocks'
    BY <1>0, <1>1, <1>14, Zenon DEF Core, LocksetHeld, KernelLocksHeld, HoldersExclude,
                       EntersWithoutLocks, EndAccess, TakenAround
  <2>2. AccessNoted'
    <3> SUFFICES ASSUME NEW u \in Thread, access'[u] # NoAccess PROVE AccessNotedBy(u)'
      BY Zenon DEF AccessNoted
    <3>1. u # t /\ access'[u] = access[u]
      <4>1. access' = [access EXCEPT ![t] = NoAccess] /\ access \in [Thread -> Access \cup {NoAccess}]
        BY <1>1, <1>14, Zenon DEF EndAccess
      <4> HIDE DEF TypeOK
      <4> QED
        BY <4>1, Zenon
    <3>2. AccessNotedBy(u)
      BY <3>1, Zenon DEF Core, AccessNoted
    <3> QED
      BY <1>14, <3>1, <3>2, Zenon DEF AccessNotedBy, EndAccess, Watched
  <2> QED
    BY <1>1, <1>2, <2>1, <2>2, Zenon DEF Core
<1>15. CASE Return(t)
  <2>1. LocksetHeld'
    <3> SUFFICES ASSUME NEW u \in Thread, stage'[u] = "running", ~ interrupted'[u],
                        NEW l \in inst'[u].CLS
                 PROVE  u \in holders'[l]
      BY Zenon DEF LocksetHeld
    <3>1. u # t /\ stage[u] = "running" /\ ~ interrupted[u] /\ l \in inst[u].CLS
      BY <1>1, <1>15, Zenon DEF Return
    <3>2. l \in Lock /\ u \in holders[l]
      BY <1>0, <3>1, Zenon DEF Core, LocksetHeld
    <3> QED
      BY <1>15, <3>1, <3>2, Zenon DEF Return
  <2>2. KernelLocksHeld'
    <3> SUFFICES ASSUME NEW u \in Thread, stage'[u] = "running", NEW l \in TakenAround(u)
                 PROVE  u \in holders'[l]
      BY Zenon DEF KernelLocksHeld, TakenAround
    <3>1. u # t /\ stage[u] = "running" /\ l \in Lock
      BY <1>1, <1>15, ThreadFacts, Zenon DEF Return, TakenAround
    <3>2. u \in holders[l]
      BY <3>1, Zenon DEF Core, KernelLocksHeld
    <3> QED
      BY <1>15, <3>1, <3>2, Zenon DEF Return
  <2>3. HoldersExclude'
    BY <1>1, <1>15, HoldersRemoved, Zenon DEF Core, Return
  <2>4. AccessNoted'
    BY <1>1, <1>15, AccessNotedKept, Zenon DEF Core, Return, Ready
  <2>5. EntersWithoutLocks'
    BY <1>1, <1>15, Zenon DEF Core, EntersWithoutLocks, Return
  <2> QED
    BY <1>1, <1>2, <2>1, <2>2, <2>3, <2>4, <2>5, Zenon DEF Core
<1> QED
  BY <1>4, <1>5, <1>6, <1>7, <1>8, <1>9, <1>10, <1>11, <1>12, <1>13, <1>14, <1>15, Zenon DEF Step

\* The initial states satisfy the invariant.
LEMMA IInvInit == Init => IInv
<1> SUFFICES ASSUME Init PROVE IInv
  BY Zenon
<1>1. TypeOK
  BY TypeInit, Zenon
<1>2. EntersWithoutLocks /\ LocksetHeld /\ KernelLocksHeld
  BY EntryStateFields, Zenon DEF Init, EntersWithoutLocks, LocksetHeld, KernelLocksHeld
<1>3. HoldersExclude
  BY Zenon DEF Init, HoldersExclude
<1>4. LocksetsUsed
  BY EntryStateFields, Zenon DEF Init, LocksetsUsed
<1>5. AccessNoted /\ RaceReported
  BY Zenon DEF Init, AccessNoted, RaceReported
<1> QED
  BY <1>1, <1>2, <1>3, <1>4, <1>5, Zenon DEF IInv, Core

\* A beginning access that is recorded as a race leaves both threads inside
\* conflicting accesses.
LEMMA RecordedRace ==
    ASSUME TypeOK, NEW t \in Thread, NEW a \in Access, BeginAccess(t, a),
           Watched(a.mr, a.ptr), ConflictingAccess(t, a)
    PROVE  InRace(a.mr)'
<1>1. PICK u \in Thread \ {t} : /\ access[u] # NoAccess
                                /\ access[u].mr = a.mr
                                /\ Watched(a.mr, access[u].ptr)
                                /\ a.write \/ access[u].write
  BY Zenon DEF ConflictingAccess
<1>2. access'[t] = a /\ access'[u] = access[u] /\ a # NoAccess /\ watchdog' = watchdog
  BY ThreadFacts, Zenon DEF BeginAccess, TypeOK
<1>3. Thread = {t, u}
  BY DEF Thread
<1>4. \A v \in Thread : /\ access'[v] # NoAccess /\ access'[v].mr = a.mr
                        /\ Watched(access[v].mr, access[v].ptr)'
  BY <1>1, <1>2, <1>3, Zenon DEF Watched
<1>5. access'[1].write \/ access'[2].write
  BY <1>1, <1>2, Zenon DEF Thread
<1> QED
  BY <1>4, <1>5, Zenon DEF InRace

\* Every step of a sound pair preserves the invariant.
LEMMA IInvStep == SoundPair /\ IInv /\ [Next]_vars => IInv'
<1> SUFFICES ASSUME SoundPair, IInv, [Next]_vars PROVE IInv'
  BY Zenon
<1>1. Core'
  <2>1. CASE UNCHANGED vars
    BY <2>1, Zenon DEF vars, IInv, Core, TypeOK, EntersWithoutLocks, LocksetHeld,
                KernelLocksHeld, HoldersExclude, LocksetsUsed, AccessNoted,
                AccessNotedBy, Watched, TakenAround
  <2>2. CASE Next
    BY <2>2, CoreStep, Zenon DEF IInv, Next
  <2> QED
    BY <2>1, <2>2, Zenon
<1>2. \A mr \in MemoryRegion : InRace(mr)' => ~ Verified(mr)'
  <2>1. (SoundPair /\ Core => \A mr \in MemoryRegion : InRace(mr) => ~ Verified(mr))'
    BY RaceFailsAssertion, PTL
  <2> QED
    BY <1>1, <2>1, Zenon DEF SoundPair
<1>3. ASSUME NEW mr \in raced' PROVE ~ Verified(mr)'
  <2>1. mr \in MemoryRegion
    BY <1>1, Zenon DEF Core, TypeOK
  <2>2. CASE mr \in raced
    BY <2>1, <2>2, VerdictStep, Zenon DEF IInv, Core, RaceReported
  <2>3. CASE mr \notin raced
    <3>1. PICK t \in Thread, a \in Access :
                /\ BeginAccess(t, a) /\ mr = a.mr
                /\ Watched(a.mr, a.ptr) /\ ConflictingAccess(t, a)
      <4>1. ASSUME NEW t \in Thread, \A a \in Access : ~ BeginAccess(t, a), Step(t)
            PROVE  raced' = raced
        BY <4>1, Zenon DEF Step, Enter, Acquire, AcquireInterrupted, Release, PmGet, PmPut,
                    AssertRtnl, StopQueue, WakeQueue, EndAccess, Return
      <4>2. raced' # raced
        BY <1>3, <2>3, Zenon
      <4>3. PICK t \in Thread : Step(t)
        BY <4>2, Zenon DEF Next, vars
      <4>4. PICK a \in Access : BeginAccess(t, a)
        BY <4>1, <4>2, <4>3, Zenon
      <4>5. mr = a.mr /\ Watched(a.mr, a.ptr) /\ ConflictingAccess(t, a)
        BY <1>3, <2>3, <4>4, Zenon DEF BeginAccess
      <4> QED
        BY <4>4, <4>5, Zenon
    <3>2. InRace(mr)'
      BY <3>1, RecordedRace, Zenon DEF IInv, Core
    <3> QED
      BY <1>2, <2>1, <3>2, Zenon
  <2> QED
    BY <2>2, <2>3, Zenon
<1> QED
  BY <1>1, <1>3, Zenon DEF IInv, RaceReported

\* Soundness: two different entry points, not both mere users of runtime PM and
\* neither waking the transmit queue, cannot race unreported.
THEOREM Soundness == ASSUME SoundPair PROVE Spec => []RaceReported
<1>1. Init => IInv
  BY IInvInit, Zenon
<1>2. IInv /\ [Next]_vars => IInv'
  BY IInvStep, Zenon
<1>3. IInv => RaceReported
  BY Zenon DEF IInv
<1> QED
  BY <1>1, <1>2, <1>3, PTL DEF Spec

\* In a sound pair the current lockset of the instrumentation names only locks
\* the thread holds.
THEOREM LocksetsAreHeld == ASSUME SoundPair PROVE Spec => []CurrentLocksetHeld
<1>1. Init => IInv
  BY IInvInit, Zenon
<1>2. IInv /\ [Next]_vars => IInv'
  BY IInvStep, Zenon
<1>3. IInv => CurrentLocksetHeld
  BY Zenon DEF IInv, Core, LocksetHeld, CurrentLocksetHeld
<1> QED
  BY <1>1, <1>2, <1>3, PTL DEF Spec

-----------------------------------------------------------------------------
(* Refinement: each thread is a run of its instrumented entry point *)

\* A step of one thread does not touch the run of the other.
LEMMA OtherThreadStutters ==
    ASSUME TypeOK, NEW t \in Thread, NEW u \in Thread, u # t, Step(t)
    PROVE  stage'[u] = stage[u] /\ inst'[u] = inst[u] /\ watchdog' = watchdog
BY Zenon DEF TypeOK, Step, Enter, Acquire, AcquireInterrupted, Release, PmGet, PmPut, AssertRtnl,
       StopQueue, WakeQueue, BeginAccess, EndAccess, Return

\* The entry point of thread 1 uses the same instrumentation procedures.
LEMMA Run1Operators ==
    /\ \A ep, s, l, b : Run1!UPDATE_CLS(ep, s, l, b) = UPDATE_CLS(ep, s, l, b)
    /\ \A ep, s, mr : Run1!WRITE_LS(ep, s, mr) = WRITE_LS(ep, s, mr)
    /\ \A ep, s, mr : Run1!READ_LS(ep, s, mr) = READ_LS(ep, s, mr)
    /\ \A ep : Run1!EntryState(ep) = EntryState(ep)
<1> USE DEF Run1!Lock, Lock, Run1!KernelLock, KernelLock, Run1!ShouldSkipLockset, ShouldSkipLockset,
            Run1!IsCalling, IsCalling, Run1!IsKernelLocked, IsKernelLocked,
            Run1!IsLockUsed, IsLockUsed
<1>1. \A ep, s, l, b : Run1!UPDATE_CLS(ep, s, l, b) = UPDATE_CLS(ep, s, l, b)
  BY Zenon DEF Run1!UPDATE_CLS, UPDATE_CLS
<1>2. \A ep, s, mr : Run1!Intersect(ep, s, mr) = Intersect(ep, s, mr)
  BY Zenon DEF Run1!Intersect, Intersect
<1>3. \A ep, s, mr : Run1!WRITE_LS(ep, s, mr) = WRITE_LS(ep, s, mr)
  BY <1>2, Zenon DEF Run1!WRITE_LS, WRITE_LS
<1>4. \A ep, s, mr : Run1!READ_LS(ep, s, mr) = READ_LS(ep, s, mr)
  BY <1>2, Zenon DEF Run1!READ_LS, READ_LS
<1>5. \A ep : Run1!EntryState(ep) = EntryState(ep)
  BY Zenon DEF Run1!EntryState, EntryState
<1> QED
  BY <1>1, <1>3, <1>4, <1>5, Zenon

\* A step of the driver is a step or a stutter of the entry point of thread 1.
LEMMA Run1Step == TypeOK /\ [Next]_vars => [Run1!Next]_(Run1!vars)
<1> SUFFICES ASSUME TypeOK, [Next]_vars PROVE [Run1!Next]_(Run1!vars)
  BY Zenon
<1> USE DEF Thread, Run1!vars
<1>1. CASE UNCHANGED vars
  BY <1>1, Zenon DEF vars
<1>2. CASE Next
  <2> PICK t \in Thread : Step(t)
    BY <1>2, Zenon DEF Next
  <2>1. CASE t # 1
    BY <2>1, OtherThreadStutters, Zenon
  <2>2. CASE t = 1
    <3>0. EPof(1) = EP1
      BY Zenon DEF EPof
    <3> USE <2>2, <3>0 DEF TypeOK
    <3>1. CASE Enter(1)
      <4>1. Run1!Enter
        BY <3>1, Zenon DEF Enter, Run1!Enter
      <4> QED
        BY <4>1, Zenon DEF Run1!Next
    <3>2. ASSUME NEW l \in DriverLock, Acquire(1, l) \/ AcquireInterrupted(1, l)
          PROVE  Run1!Next
      <4>1. Run1!DriverLockCall(l, TRUE)
        BY <3>2, Run1Operators, Zenon DEF Acquire, AcquireInterrupted, Ready, Run1!DriverLockCall
      <4> QED
        BY <4>1, Zenon DEF Run1!Next
    <3>3. ASSUME NEW l \in DriverLock, Release(1, l) PROVE Run1!Next
      <4>1. Run1!DriverLockCall(l, FALSE)
        BY <3>3, Run1Operators, Zenon DEF Release, Ready, Run1!DriverLockCall
      <4> QED
        BY <4>1, Zenon DEF Run1!Next
    <3>4. CASE PmGet(1)
      <4>1. Run1!PowerCall(TRUE)
        BY <3>4, Run1Operators, Zenon DEF PmGet, Ready, Run1!PowerCall
      <4> QED
        BY <4>1, Zenon DEF Run1!Next
    <3>5. CASE PmPut(1)
      <4>1. Run1!PowerCall(FALSE)
        BY <3>5, Run1Operators, Zenon DEF PmPut, Ready, Run1!PowerCall
      <4> QED
        BY <4>1, Zenon DEF Run1!Next
    <3>6. CASE AssertRtnl(1)
      <4>1. Run1!RtnlCall
        BY <3>6, Run1Operators, Zenon DEF AssertRtnl, Ready, Run1!RtnlCall
      <4> QED
        BY <4>1, Zenon DEF Run1!Next
    <3>7. CASE StopQueue(1)
      <4>1. Run1!TxCall
        BY <3>7, Run1Operators, Zenon DEF StopQueue, Ready, Run1!TxCall
      <4> QED
        BY <4>1, Zenon DEF Run1!Next
    <3>8. ASSUME NEW a \in Access, BeginAccess(1, a) PROVE Run1!Next
      <4>1. a.mr \in MemoryRegion /\ a.ptr \in Address
        BY Zenon DEF Access
      <4>2. Watched(a.mr, a.ptr) <=> Run1!Watched(a.mr, a.ptr)
        BY Zenon DEF Watched, Run1!Watched
      <4>3. Run1!Write(a.mr, a.ptr) \/ Run1!Read(a.mr, a.ptr)
        BY <3>8, <4>2, Run1Operators, Zenon DEF BeginAccess, Ready, Run1!Write, Run1!Read
      <4> QED
        BY <4>1, <4>3, Zenon DEF Run1!Next
    <3>9. CASE Return(1)
      <4>1. Run1!Return
        BY <3>9, Zenon DEF Return, Ready, Run1!Return
      <4> QED
        BY <4>1, Zenon DEF Run1!Next
    <3>10. CASE WakeQueue(1) \/ EndAccess(1)
      BY <3>10, Zenon DEF WakeQueue, EndAccess
    <3> QED
      BY <3>1, <3>2, <3>3, <3>4, <3>5, <3>6, <3>7, <3>8, <3>9, <3>10, Zenon DEF Step
  <2> QED
    BY <2>1, <2>2, Zenon
<1> QED
  BY <1>1, <1>2, Zenon

\* The entry point of thread 2 uses the same instrumentation procedures.
LEMMA Run2Operators ==
    /\ \A ep, s, l, b : Run2!UPDATE_CLS(ep, s, l, b) = UPDATE_CLS(ep, s, l, b)
    /\ \A ep, s, mr : Run2!WRITE_LS(ep, s, mr) = WRITE_LS(ep, s, mr)
    /\ \A ep, s, mr : Run2!READ_LS(ep, s, mr) = READ_LS(ep, s, mr)
    /\ \A ep : Run2!EntryState(ep) = EntryState(ep)
<1> USE DEF Run2!Lock, Lock, Run2!KernelLock, KernelLock, Run2!ShouldSkipLockset, ShouldSkipLockset,
            Run2!IsCalling, IsCalling, Run2!IsKernelLocked, IsKernelLocked,
            Run2!IsLockUsed, IsLockUsed
<1>1. \A ep, s, l, b : Run2!UPDATE_CLS(ep, s, l, b) = UPDATE_CLS(ep, s, l, b)
  BY Zenon DEF Run2!UPDATE_CLS, UPDATE_CLS
<1>2. \A ep, s, mr : Run2!Intersect(ep, s, mr) = Intersect(ep, s, mr)
  BY Zenon DEF Run2!Intersect, Intersect
<1>3. \A ep, s, mr : Run2!WRITE_LS(ep, s, mr) = WRITE_LS(ep, s, mr)
  BY <1>2, Zenon DEF Run2!WRITE_LS, WRITE_LS
<1>4. \A ep, s, mr : Run2!READ_LS(ep, s, mr) = READ_LS(ep, s, mr)
  BY <1>2, Zenon DEF Run2!READ_LS, READ_LS
<1>5. \A ep : Run2!EntryState(ep) = EntryState(ep)
  BY Zenon DEF Run2!EntryState, EntryState
<1> QED
  BY <1>1, <1>3, <1>4, <1>5, Zenon

\* A step of the driver is a step or a stutter of the entry point of thread 2.
LEMMA Run2Step == TypeOK /\ [Next]_vars => [Run2!Next]_(Run2!vars)
<1> SUFFICES ASSUME TypeOK, [Next]_vars PROVE [Run2!Next]_(Run2!vars)
  BY Zenon
<1> USE DEF Thread, Run2!vars
<1>1. CASE UNCHANGED vars
  BY <1>1, Zenon DEF vars
<1>2. CASE Next
  <2> PICK t \in Thread : Step(t)
    BY <1>2, Zenon DEF Next
  <2>1. CASE t # 2
    BY <2>1, OtherThreadStutters, Zenon
  <2>2. CASE t = 2
    <3>0. EPof(2) = EP2
      BY DEF EPof
    <3> USE <2>2, <3>0 DEF TypeOK
    <3>1. CASE Enter(2)
      <4>1. Run2!Enter
        BY <3>1, Zenon DEF Enter, Run2!Enter
      <4> QED
        BY <4>1, Zenon DEF Run2!Next
    <3>2. ASSUME NEW l \in DriverLock, Acquire(2, l) \/ AcquireInterrupted(2, l)
          PROVE  Run2!Next
      <4>1. Run2!DriverLockCall(l, TRUE)
        BY <3>2, Run2Operators, Zenon DEF Acquire, AcquireInterrupted, Ready, Run2!DriverLockCall
      <4> QED
        BY <4>1, Zenon DEF Run2!Next
    <3>3. ASSUME NEW l \in DriverLock, Release(2, l) PROVE Run2!Next
      <4>1. Run2!DriverLockCall(l, FALSE)
        BY <3>3, Run2Operators, Zenon DEF Release, Ready, Run2!DriverLockCall
      <4> QED
        BY <4>1, Zenon DEF Run2!Next
    <3>4. CASE PmGet(2)
      <4>1. Run2!PowerCall(TRUE)
        BY <3>4, Run2Operators, Zenon DEF PmGet, Ready, Run2!PowerCall
      <4> QED
        BY <4>1, Zenon DEF Run2!Next
    <3>5. CASE PmPut(2)
      <4>1. Run2!PowerCall(FALSE)
        BY <3>5, Run2Operators, Zenon DEF PmPut, Ready, Run2!PowerCall
      <4> QED
        BY <4>1, Zenon DEF Run2!Next
    <3>6. CASE AssertRtnl(2)
      <4>1. Run2!RtnlCall
        BY <3>6, Run2Operators, Zenon DEF AssertRtnl, Ready, Run2!RtnlCall
      <4> QED
        BY <4>1, Zenon DEF Run2!Next
    <3>7. CASE StopQueue(2)
      <4>1. Run2!TxCall
        BY <3>7, Run2Operators, Zenon DEF StopQueue, Ready, Run2!TxCall
      <4> QED
        BY <4>1, Zenon DEF Run2!Next
    <3>8. ASSUME NEW a \in Access, BeginAccess(2, a) PROVE Run2!Next
      <4>1. a.mr \in MemoryRegion /\ a.ptr \in Address
        BY Zenon DEF Access
      <4>2. Watched(a.mr, a.ptr) <=> Run2!Watched(a.mr, a.ptr)
        BY Zenon DEF Watched, Run2!Watched
      <4>3. Run2!Write(a.mr, a.ptr) \/ Run2!Read(a.mr, a.ptr)
        BY <3>8, <4>2, Run2Operators, Zenon DEF BeginAccess, Ready, Run2!Write, Run2!Read
      <4> QED
        BY <4>1, <4>3, Zenon DEF Run2!Next
    <3>9. CASE Return(2)
      <4>1. Run2!Return
        BY <3>9, Zenon DEF Return, Ready, Run2!Return
      <4> QED
        BY <4>1, Zenon DEF Run2!Next
    <3>10. CASE WakeQueue(2) \/ EndAccess(2)
      BY <3>10, Zenon DEF WakeQueue, EndAccess
    <3> QED
      BY <3>1, <3>2, <3>3, <3>4, <3>5, <3>6, <3>7, <3>8, <3>9, <3>10, Zenon DEF Step
  <2> QED
    BY <2>1, <2>2, Zenon
<1> QED
  BY <1>1, <1>2, Zenon

\* The concurrent driver implements the instrumented entry point of each thread.
THEOREM Refinement == Spec => ThreadsRunEntryPoints
<1>1. Init => Run1!Init /\ Run2!Init
  BY Run1Operators, Run2Operators DEF Init, Run1!Init, Run2!Init, Thread, EPof
<1>2. TypeOK /\ [Next]_vars => [Run1!Next]_(Run1!vars) /\ [Run2!Next]_(Run2!vars)
  BY Run1Step, Run2Step, Zenon
<1> QED
  BY <1>1, <1>2, TypeCorrect, PTL DEF Spec, ThreadsRunEntryPoints, Run1!Spec, Run2!Spec
=============================================================================
