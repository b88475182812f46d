---------------------------- MODULE EngineProofs ----------------------------
(***************************************************************************)
(* Two engines of Whoop that loop over the entry-point pairs of a driver.  *)
(*                                                                         *)
(* The race checker: for every number of pairs and every combination of    *)
(* options, its exit status is Done only if every pair was verified, and   *)
(* the contract with whoop.py holds.  The exit status is computed from     *)
(* four counters, the skip test from the reporters, so that the invariant  *)
(* has to tie both to what the verifier said of each pair.                 *)
(*                                                                         *)
(* The shared-state analysis of the instrumentation engine: for every call *)
(* graph and every set of pairs, its two loops leave in                    *)
(* EntryPointMemoryRegions exactly the regions an entry point shares with  *)
(* a partner.  The recursion only enters reachable functions and, once     *)
(* done, has entered all of them, because what it has entered is then      *)
(* closed; from there on the lists only lose regions no partner has, and   *)
(* the pairing relation is symmetric, so a list that was pruned first      *)
(* still holds what its partners look for in it.                           *)
(***************************************************************************)
EXTENDS RaceChecker, SharedState, TLAPS

-----------------------------------------------------------------------------
(* The race checker *)

Types ==
    /\ pairMap \subseteq Pair
    /\ outcome \in [pairMap -> VCOutcome]
    /\ stats \in [Counter -> Nat]
    /\ exit \in Outcome \cup {"none"}

\* Every pair left its mark: a counter above zero, or a report.
Marked(p) ==
    /\ outcome[p] = "TimedOut" => stats["Timeout"] > 0
    /\ outcome[p] = "OutOfMemory" => stats["OutOfMemory"] > 0
    /\ outcome[p] = "Inconclusive" => stats["Inconclusive"] > 0
    /\ outcome[p] = "Errors" => stats["Error"] > 0
    /\ p \in FoundErrors <=> outcome[p] = "Errors"

IInv ==
    /\ Types
    /\ FoundErrors \subseteq pairMap
    /\ \A p \in pairMap : Marked(p)
    /\ yielded # {} => FindBugs /\ pairMap = Pair
    /\ yielded \subseteq Pair
    /\ emitted = {p \in yielded : ~Skips(p)}
    /\ exit \in {"Done", "LocksetAnalysisError"} =>
            pairMap = Pair /\ (FindBugs => yielded = Pair) /\ exit = ExitStatus

\* Init establishes the invariant.
LEMMA IInvInit == Init => IInv
BY DEF Init, IInv, Types, Counter, Marked, Outcome

\* A counter only grows, and the one of the outcome becomes positive
\* (ProcessOutcome).
LEMMA ProcessOutcomeCounts ==
    ASSUME stats \in [Counter -> Nat], NEW o \in VCOutcome, NEW n \in 1 .. MaxErrors,
           ProcessOutcome(o, n)
    PROVE  /\ stats' \in [Counter -> Nat]
           /\ \A c \in Counter : stats'[c] >= stats[c]
           /\ o = "TimedOut" => stats'["Timeout"] > 0
           /\ o = "OutOfMemory" => stats'["OutOfMemory"] > 0
           /\ o = "Inconclusive" => stats'["Inconclusive"] > 0
           /\ o = "Errors" => stats'["Error"] > 0
<1>1. n \in Nat /\ n > 0
  BY RaceCheckerAssumption
<1>2. CASE o \in {"ReachedBound", "Correct"}
  <2>1. stats' = [stats EXCEPT !["Verified"] = @ + 1]
    BY <1>2, Zenon DEF ProcessOutcome, Count
  <2>2. QED
    BY <1>2, <2>1 DEF Counter
<1>3. CASE o = "TimedOut"
  BY <1>3 DEF ProcessOutcome, Count, Counter
<1>4. CASE o = "OutOfMemory"
  BY <1>4 DEF ProcessOutcome, Count, Counter
<1>5. CASE o = "Inconclusive"
  BY <1>5 DEF ProcessOutcome, Count, Counter
<1>6. CASE o = "Errors"
  BY <1>1, <1>6 DEF ProcessOutcome, Count, Counter
<1>7. QED
  BY <1>2, <1>3, <1>4, <1>5, <1>6, Zenon DEF VCOutcome

\* Every step of Main preserves the invariant.
LEMMA IInvNext == IInv /\ [Next]_vars => IInv'
<1> SUFFICES ASSUME IInv, [Next]_vars PROVE IInv'
  BY Zenon
<1> USE DEF IInv
<1>1. ASSUME NEW p \in Pair, Analyse(p) PROVE IInv'
  <2>1. PICK o \in VCOutcome, n \in 1 .. MaxErrors :
            /\ outcome' = [q \in pairMap' |-> IF q = p THEN o ELSE outcome[q]]
            /\ ProcessOutcome(o, n)
            /\ FoundErrors' = FoundErrors \cup (IF o = "Errors" THEN {p} ELSE {})
    BY <1>1, Zenon DEF Analyse
  <2>2. /\ exit = "none" /\ exit' = exit /\ p \notin pairMap /\ pairMap' = pairMap \cup {p}
        /\ yielded' = yielded /\ emitted' = emitted
    BY <1>1, Zenon DEF Analyse
  <2>3. yielded = {}
    BY <2>2, Zenon
  <2>4. Types'
    <3>1. stats' \in [Counter -> Nat]
      BY <2>1, ProcessOutcomeCounts, Zenon DEF Types
    <3>2. \A q \in pairMap' : (IF q = p THEN o ELSE outcome[q]) \in VCOutcome
      BY <2>1, <2>2, Zenon DEF Types
    <3>3. QED
      BY <2>1, <2>2, <3>1, <3>2, Zenon DEF Types
  <2>5. ASSUME NEW q \in pairMap' PROVE Marked(q)'
    <3>1. /\ \A c \in Counter : stats'[c] \in Nat /\ stats[c] \in Nat /\ stats'[c] >= stats[c]
          /\ o = "TimedOut" => stats'["Timeout"] > 0
          /\ o = "OutOfMemory" => stats'["OutOfMemory"] > 0
          /\ o = "Inconclusive" => stats'["Inconclusive"] > 0
          /\ o = "Errors" => stats'["Error"] > 0
      BY <2>1, ProcessOutcomeCounts, Zenon DEF Types
    <3>2. CASE q = p
      <4>1. outcome'[q] = o /\ (q \in FoundErrors' <=> o = "Errors")
        BY <2>1, <2>2, <3>2, Zenon
      <4>2. QED
        BY <3>1, <4>1, Zenon DEF Marked
    <3>3. CASE q # p
      <4>1. q \in pairMap /\ outcome'[q] = outcome[q] /\ (q \in FoundErrors' <=> q \in FoundErrors)
        BY <2>1, <2>2, <3>3, Zenon
      <4>2. Marked(q)
        BY <4>1, Zenon
      <4>3. QED
        BY <3>1, <4>1, <4>2 DEF Marked, Counter
    <3>4. QED
      BY <3>2, <3>3, Zenon
  <2>6. FoundErrors' \subseteq pairMap'
    BY <2>1, <2>2, Zenon
  <2>7. QED
    BY <2>2, <2>3, <2>4, <2>5, <2>6, Zenon
<1>2. ASSUME NEW p \in Pair, Yield(p) PROVE IInv'
  <2>1. /\ FindBugs /\ exit = "none" /\ exit' = exit /\ pairMap = Pair
        /\ yielded' = yielded \cup {p} /\ p \notin yielded
        /\ emitted' = IF Skips(p) THEN emitted ELSE emitted \cup {p}
        /\ UNCHANGED <<pairMap, outcome, FoundErrors, stats>>
    BY <1>2, Zenon DEF Yield
  <2>2. \A q : Skips(q)' <=> Skips(q)
    BY <2>1, Zenon DEF Skips
  <2>3. emitted' = {q \in yielded' : ~Skips(q)'}
    BY <2>1, <2>2, Zenon
  <2>4. QED
    BY <2>1, <2>3, Zenon DEF Types, Marked
<1>3. CASE Finish
  <2>1. exit' = ExitStatus /\ ExitStatus' = ExitStatus
    BY <1>3, Zenon DEF Finish, ExitStatus
  <2>2. exit' \in Outcome
    BY <2>1, Zenon DEF ExitStatus, Outcome
  <2>3. QED
    BY <1>3, <2>1, <2>2, Zenon DEF Finish, Types, Marked, Skips
<1>4. CASE Fail
  BY <1>4, Zenon DEF Fail, Types, Marked, Skips, Outcome
<1>5. CASE UNCHANGED vars
  BY <1>5, Zenon DEF vars, Types, Marked, Skips, ExitStatus
<1>6. QED
  BY <1>1, <1>2, <1>3, <1>4, <1>5, Zenon DEF Next

\* With exit status Done no counter but the one of verified pairs is above zero.
LEMMA DoneCounts ==
    ASSUME IInv, exit = "Done", NEW p \in Pair
    PROVE  p \in pairMap /\ outcome[p] \in {"Correct", "ReachedBound"} /\ p \notin FoundErrors
<1>1. pairMap = Pair /\ ExitStatus = "Done" /\ Marked(p)
  BY Zenon DEF IInv
<1>2. \A c \in Counter : stats[c] \in Nat
  BY Zenon DEF IInv, Types
<1>3. /\ stats["Error"] = 0 /\ stats["Inconclusive"] = 0
      /\ stats["Timeout"] = 0 /\ stats["OutOfMemory"] = 0
  <2>1. ~ (stats["Error"] + stats["Inconclusive"] + stats["Timeout"] + stats["OutOfMemory"] > 0)
    BY <1>1, Zenon DEF ExitStatus
  <2>2. /\ stats["Error"] \in Nat /\ stats["Inconclusive"] \in Nat
        /\ stats["Timeout"] \in Nat /\ stats["OutOfMemory"] \in Nat
    BY <1>2, Zenon DEF Counter
  <2> QED
    BY <2>1, <2>2
<1>4. outcome[p] \in VCOutcome
  BY <1>1, Zenon DEF IInv, Types
<1>5. QED
  BY <1>1, <1>3, <1>4 DEF Marked, VCOutcome

\* The invariant implies the contract with whoop.py.
LEMMA IInvContract == IInv => ExitContract
<1> SUFFICES ASSUME IInv, exit # "none" PROVE ExitContract
  BY Zenon DEF ExitContract
<1>1. exit \in Outcome /\ emitted \subseteq Pair
  BY Zenon DEF IInv, Types
<1>2. ~FindBugs => emitted = {}
  BY Zenon DEF IInv
<1>3. exit # "FatalError" => exit \in {"Done", "LocksetAnalysisError"}
  BY <1>1, Zenon DEF Outcome
<1>4. ASSUME FindBugs, exit # "FatalError"
      PROVE  /\ ~(SkipRaceFreePairs /\ ~YieldAll) => emitted = Pair
             /\ FoundErrors \subseteq emitted
  <2>1. emitted = {p \in Pair : ~Skips(p)} /\ FoundErrors \subseteq Pair
    BY <1>3, <1>4, Zenon DEF IInv
  <2>2. QED
    BY <2>1, Zenon DEF Skips
<1>5. ASSUME FindBugs, SkipRaceFreePairs /\ ~YieldAll, exit = "Done"
      PROVE  emitted = {}
  <2>1. \A p \in Pair : Skips(p)
    BY <1>5, DoneCounts, Zenon DEF Skips
  <2>2. QED
    BY <1>1, <2>1, Zenon DEF IInv
<1>6. QED
  BY <1>1, <1>2, <1>4, <1>5, Zenon DEF ExitContract, Contract

\* For every set of pairs and all options: the exit status Done means that the
\* verifier found every pair correct.
THEOREM ExitStatusSound == Spec => []DoneMeansVerified
<1>1. IInv => DoneMeansVerified
  BY DoneCounts, Zenon DEF DoneMeansVerified, IInv
<1>2. QED
  BY IInvInit, IInvNext, <1>1, PTL DEF Spec

\* For every set of pairs and all options: a run without an exception emits a
\* Corral program for every pair with a report and keeps the contract of
\* RaceCheckerInterface, on which the model of whoop.py is built.
THEOREM ContractKept == Spec => []ExitContract
BY IInvInit, IInvNext, IInvContract, PTL DEF Spec

-----------------------------------------------------------------------------
(* The shared-state analysis *)

\* Every region collected comes from a function entered.
FromAnalysed(ep) == UNION {Touches[f] : f \in analysed[ep]}

\* What the recursion knows of an entry point.
Traversal(ep) ==
    /\ analysed[ep] \cup todo[ep] \subseteq Reachable(ep)
    /\ \A f \in analysed[ep] : Callees[f] \ Skipped \subseteq analysed[ep] \cup todo[ep]
    /\ ep \in registered => Root[ep] \in analysed[ep] \cup todo[ep]
    /\ ep \notin registered => todo[ep] = {}

SharedBy(ep) == {v \in FromAnalysed(ep) : \E q \in Partners(ep) : v \in FromAnalysed(q)}

Regions ==
    /\ TypeOK
    /\ \A ep \in EntryPoint : Traversal(ep)
    /\ pruned # {} => Collected
    /\ \A ep \in EntryPoint \ pruned : EntryPointMemoryRegions[ep] = FromAnalysed(ep)
    /\ \A ep \in pruned : EntryPointMemoryRegions[ep] = SharedBy(ep)

\* The partner relation is symmetric (AnalyseMemoryRegionsWithPairInformation
\* looks at both components of a pair).
LEMMA PartnersSymmetric ==
    \A p, q \in EntryPoint : q \in Partners(p) => p \in Partners(q)
BY Zenon DEF Partners

\* The root is reachable, and so is what a reachable function calls.
LEMMA ReachableClosed ==
    ASSUME NEW ep \in EntryPoint
    PROVE  /\ Root[ep] \in Reachable(ep)
           /\ \A f \in Reachable(ep) : Callees[f] \ Skipped \subseteq Reachable(ep)
<1>1. Root[ep] \in Reachable(ep)
  BY SharedStateAssumption, Zenon DEF Reachable
<1>2. ASSUME NEW f \in Reachable(ep), NEW g \in Callees[f] \ Skipped
      PROVE  g \in Reachable(ep)
  <2>1. f \in Func /\ g \in Func
    BY <1>2, SharedStateAssumption, Zenon DEF Reachable
  <2>2. ASSUME NEW S \in SUBSET Func, Root[ep] \in S, Closed(S)
        PROVE  g \in S
    BY <1>2, <2>1, <2>2, Zenon DEF Reachable, Closed
  <2>3. QED
    BY <2>1, <2>2, Zenon DEF Reachable
<1>3. QED
  BY <1>1, <1>2, Zenon

\* A finished recursion has entered exactly the reachable functions.
LEMMA TraversalComplete ==
    ASSUME TypeOK, NEW ep \in EntryPoint, Traversal(ep), ep \in registered, todo[ep] = {}
    PROVE  analysed[ep] = Reachable(ep)
<1>1. analysed[ep] \in SUBSET Func
  BY Zenon DEF TypeOK
<1>2. Root[ep] \in analysed[ep] /\ Closed(analysed[ep])
  BY Zenon DEF Traversal, Closed
<1>3. Reachable(ep) \subseteq analysed[ep]
  BY <1>1, <1>2, Zenon DEF Reachable
<1>4. QED
  BY <1>3, Zenon DEF Traversal

\* A step of Visit keeps the traversal of its entry point sound.
LEMMA VisitTraversal ==
    ASSUME TypeOK, NEW ep \in EntryPoint, NEW f \in Func, Visit(ep, f), Traversal(ep)
    PROVE  Traversal(ep)'
<1>1. /\ f \in todo[ep]
      /\ analysed'[ep] = analysed[ep] \cup {f}
      /\ todo'[ep] = (todo[ep] \cup (Callees[f] \ Skipped)) \ (analysed[ep] \cup {f})
      /\ registered' = registered
  BY Zenon DEF Visit, TypeOK
<1>2. analysed'[ep] \cup todo'[ep] = analysed[ep] \cup todo[ep] \cup (Callees[f] \ Skipped)
  BY <1>1, Zenon
<1>3. f \in Reachable(ep)
  BY <1>1, Zenon DEF Traversal
<1>4. Callees[f] \ Skipped \subseteq Reachable(ep)
  BY <1>3, ReachableClosed, Zenon
<1>5. analysed'[ep] \cup todo'[ep] \subseteq Reachable(ep)
  BY <1>2, <1>4, Zenon DEF Traversal
<1>6. \A g \in analysed'[ep] : Callees[g] \ Skipped \subseteq analysed'[ep] \cup todo'[ep]
  BY <1>1, <1>2, Zenon DEF Traversal
<1>7. ep \in registered' /\ Root[ep] \in analysed'[ep] \cup todo'[ep]
  BY <1>1, <1>2, Zenon DEF Traversal
<1>8. Reachable(ep)' = Reachable(ep)
  BY Zenon DEF Reachable, Closed
<1>9. QED
  BY <1>5, <1>6, <1>7, <1>8, Zenon DEF Traversal

\* SAInit establishes the inductive invariant.
LEMMA RegionsInit == SAInit => Regions
<1> SUFFICES ASSUME SAInit PROVE Regions
  BY Zenon
<1>1. TypeOK
  BY Zenon DEF SAInit, TypeOK
<1>2. \A ep \in EntryPoint : Traversal(ep)
  BY Zenon DEF SAInit, Traversal
<1>3. \A ep \in EntryPoint : EntryPointMemoryRegions[ep] = FromAnalysed(ep)
  BY Zenon DEF SAInit, FromAnalysed
<1>4. QED
  BY <1>1, <1>2, <1>3, Zenon DEF SAInit, Regions

\* Every step of the two loops preserves the inductive invariant.
LEMMA RegionsNext == Regions /\ [SANext]_SAvars => Regions'
<1> SUFFICES ASSUME Regions, [SANext]_SAvars PROVE Regions'
  BY Zenon
<1> USE DEF Regions
<1>1. ASSUME NEW ep \in EntryPoint, Register(ep) PROVE Regions'
  <2>1. TypeOK'
    BY <1>1, SharedStateAssumption, Zenon DEF Register, TypeOK
  <2>2. pruned' = {}
    BY <1>1, Zenon DEF Register, Collected, TypeOK
  <2>3. ASSUME NEW q \in EntryPoint PROVE Traversal(q)'
    <3>1. CASE q = ep
      <4>1. analysed'[q] = analysed[q] /\ todo'[q] = {Root[q]}
        BY <1>1, <3>1, Zenon DEF Register, TypeOK
      <4>2. analysed[q] \cup {Root[q]} \subseteq Reachable(q)
        BY ReachableClosed, Zenon DEF Traversal
      <4>3. Reachable(q)' = Reachable(q)
        BY Zenon DEF Reachable, Closed
      <4>4. q \in registered'
        BY <1>1, <3>1, Zenon DEF Register
      <4>5. \A f \in analysed[q] : Callees[f] \ Skipped \subseteq analysed[q] \cup todo[q]
        BY Zenon DEF Traversal
      <4>6. todo[q] \subseteq analysed'[q] \cup todo'[q]
        BY <1>1, <3>1, Zenon DEF Register, Traversal
      <4> QED
        BY <4>1, <4>2, <4>3, <4>4, <4>5, <4>6, Zenon DEF Traversal
    <3>2. CASE q # ep
      <4>1. /\ analysed'[q] = analysed[q] /\ todo'[q] = todo[q]
            /\ q \in registered' <=> q \in registered
        BY <1>1, <3>2, Zenon DEF Register, TypeOK
      <4> QED
        BY <4>1, Zenon DEF Traversal, Reachable, Closed
    <3> QED
      BY <3>1, <3>2, Zenon
  <2>4. QED
    BY <1>1, <2>1, <2>2, <2>3, Zenon DEF Register, FromAnalysed
<1>2. ASSUME NEW ep \in EntryPoint, NEW f \in Func, Visit(ep, f) PROVE Regions'
  <2>1. TypeOK'
    BY <1>2, SharedStateAssumption, Zenon DEF Visit, TypeOK
  <2>2. pruned = {} /\ pruned' = {}
    BY <1>2, Zenon DEF Visit, Collected
  <2>3. ASSUME NEW q \in EntryPoint PROVE Traversal(q)'
    <3>1. CASE q = ep
      BY <1>2, <3>1, VisitTraversal, Zenon
    <3>2. CASE q # ep
      <4>1. analysed'[q] = analysed[q] /\ todo'[q] = todo[q] /\ registered' = registered
        BY <1>2, <3>2, Zenon DEF Visit, TypeOK
      <4> QED
        BY <4>1, Zenon DEF Traversal, Reachable, Closed
    <3> QED
      BY <3>1, <3>2, Zenon
  <2>4. ASSUME NEW q \in EntryPoint PROVE EntryPointMemoryRegions'[q] = FromAnalysed(q)'
    BY <1>2, <2>2 DEF Visit, TypeOK, FromAnalysed
  <2>5. QED
    BY <2>1, <2>2, <2>3, <2>4, Zenon
<1>3. ASSUME NEW ep \in EntryPoint, Prune(ep) PROVE Regions'
  <2>1. TypeOK'
    BY <1>3, Zenon DEF Prune, TypeOK
  <2>2. \A q \in EntryPoint : Traversal(q)'
    BY <1>3, Zenon DEF Prune, Traversal, Reachable, Closed
  <2>3. \A q \in EntryPoint : /\ FromAnalysed(q)' = FromAnalysed(q)
                              /\ SharedBy(q)' = SharedBy(q)
    BY <1>3, Zenon DEF Prune, FromAnalysed, SharedBy, Partners
  <2>4. \A q \in EntryPoint \ {ep} : EntryPointMemoryRegions'[q] = EntryPointMemoryRegions[q]
    BY <1>3, Zenon DEF Prune, TypeOK
  <2>5. EntryPointMemoryRegions'[ep] = SharedBy(ep)
    <3>1. EntryPointMemoryRegions[ep] = FromAnalysed(ep)
      BY <1>3, Zenon DEF Prune
    <3>2. ASSUME NEW q \in Partners(ep), NEW v \in FromAnalysed(ep)
          PROVE  v \in EntryPointMemoryRegions[q] <=> v \in FromAnalysed(q)
      <4>1. q \in EntryPoint /\ ep \in Partners(q)
        BY PartnersSymmetric, Zenon DEF Partners
      <4>2. CASE q \in pruned
        BY <4>1, <4>2, <3>2, Zenon DEF SharedBy
      <4>3. CASE q \notin pruned
        BY <4>1, <4>3, Zenon
      <4> QED
        BY <4>2, <4>3, Zenon
    <3>3. EntryPointMemoryRegions'[ep] =
            {v \in FromAnalysed(ep) : \E q \in Partners(ep) : v \in EntryPointMemoryRegions[q]}
      BY <1>3, <3>1, Zenon DEF Prune, TypeOK
    <3> QED
      BY <3>2, <3>3, Zenon DEF SharedBy
  <2>6. Collected'
    BY <1>3, Zenon DEF Prune, Collected
  <2>7. \A q \in EntryPoint \ pruned' : EntryPointMemoryRegions'[q] = FromAnalysed(q)'
    BY <1>3, <2>3, <2>4, Zenon DEF Prune
  <2>8. \A q \in pruned' : EntryPointMemoryRegions'[q] = SharedBy(q)'
    <3>1. pruned' = pruned \cup {ep} /\ pruned \subseteq EntryPoint
      BY <1>3, Zenon DEF Prune, TypeOK
    <3> QED
      BY <3>1, <2>3, <2>4, <2>5, Zenon
  <2>9. QED
    BY <2>1, <2>2, <2>6, <2>7, <2>8, Zenon
<1>4. CASE UNCHANGED SAvars
  BY <1>4, Zenon DEF SAvars, TypeOK, Traversal, Reachable, Closed, Collected, FromAnalysed, SharedBy
<1>5. QED
  BY <1>1, <1>2, <1>3, <1>4, Zenon DEF SANext

\* What the invariant says of an entry point once the first loop is over.
LEMMA CollectedFacts ==
    ASSUME Regions, Collected, NEW ep \in EntryPoint
    PROVE  FromAnalysed(ep) = Accessed(ep)
<1>1. analysed[ep] = Reachable(ep)
  BY TraversalComplete, Zenon DEF Regions, Collected
<1>2. QED
  BY <1>1, Zenon DEF FromAnalysed, Accessed

\* The invariant implies that pruned lists are exact.
LEMMA RegionsPruned == Regions => PrunedExactly
<1> SUFFICES ASSUME Regions, NEW ep \in pruned
    PROVE EntryPointMemoryRegions[ep] = Accessed(ep) \cap UNION {Accessed(q) : q \in Partners(ep)}
  BY Zenon DEF PrunedExactly
<1>1. Collected /\ ep \in EntryPoint /\ EntryPointMemoryRegions[ep] = SharedBy(ep)
  BY Zenon DEF Regions, TypeOK
<1>2. \A q \in EntryPoint : FromAnalysed(q) = Accessed(q)
  BY <1>1, CollectedFacts, Zenon
<1>3. Partners(ep) \subseteq EntryPoint
  BY Zenon DEF Partners
<1>4. SharedBy(ep) = {v \in Accessed(ep) : \E q \in Partners(ep) : v \in Accessed(q)}
  BY <1>1, <1>2, <1>3, Zenon DEF SharedBy
<1>5. QED
  BY <1>1, <1>4, Zenon

\* The invariant implies that the regions a pair shares are in both lists.
LEMMA RegionsKept == Regions => SharedRegionsKept
<1> SUFFICES ASSUME Regions, Collected, NEW p \in Pairs, NEW v \in Accessed(p[1]) \cap Accessed(p[2])
    PROVE v \in EntryPointMemoryRegions[p[1]] /\ v \in EntryPointMemoryRegions[p[2]]
  BY Zenon DEF SharedRegionsKept
<1>1. p[1] \in EntryPoint /\ p[2] \in EntryPoint /\ p = <<p[1], p[2]>>
  BY SharedStateAssumption
<1>2. p[2] \in Partners(p[1]) /\ p[1] \in Partners(p[2])
  BY <1>1, Zenon DEF Partners
<1>3. v \in FromAnalysed(p[1]) /\ v \in FromAnalysed(p[2])
  BY <1>1, CollectedFacts, Zenon
<1>4. v \in SharedBy(p[1]) /\ v \in SharedBy(p[2])
  BY <1>2, <1>3, Zenon DEF SharedBy
<1>5. QED
  BY <1>1, <1>3, <1>4, Zenon DEF Regions

\* The lists stay within their types.
THEOREM SharedStateTypeCorrect == SASpec => []TypeOK
<1>1. Regions => TypeOK
  BY Zenon DEF Regions
<1>2. QED
  BY RegionsInit, RegionsNext, <1>1, PTL DEF SASpec

\* For every call graph, the list of a pruned entry point holds exactly the
\* regions it shares with a partner, whatever the order of the second loop.
THEOREM PruningIsExact == SASpec => []PrunedExactly
BY RegionsInit, RegionsNext, RegionsPruned, PTL DEF SASpec

\* For every call graph, pruning in place never loses a region both entry points
\* of a pair touch: the instrumentation misses no access a pair could race on.
THEOREM PruningIsSound == SASpec => []SharedRegionsKept
BY RegionsInit, RegionsNext, RegionsKept, PTL DEF SASpec
=============================================================================
