---------------------------- MODULE SharedState ----------------------------
(***************************************************************************)
(* SharedStateAnalyser, as the two loops of                                *)
(* RunStaticLocksetAnalysisInstrumentationEngine use it.  The first loop   *)
(* collects, for every entry point, the memory regions that it or a        *)
(* function it reaches touches.  The second prunes these lists in place:   *)
(* a region stays only if some partner of the entry point has it too, so   *)
(* that the instrumentation of private memory is avoided.                  *)
(*                                                                         *)
(* Pruning overwrites the lists that the pruning of the other entry points *)
(* will read.  Entry points are taken in any order here (the code takes    *)
(* them in the order of the .info file), and so are the functions of the   *)
(* recursion.                                                              *)
(***************************************************************************)
CONSTANTS
    EntryPoint, Func, Region,
    Root,       \* the function of an entry point
    Callees,    \* functions that a function calls or mentions
    Touches,    \* memory regions that the assignments of a function touch
    Skipped,    \* functions Utilities.ShouldAccessFunction rejects
    Pairs       \* DeviceDriver.EntryPointPairs

ASSUME SharedStateAssumption ==
    /\ Root \in [EntryPoint -> Func]
    /\ Callees \in [Func -> SUBSET Func]
    /\ Touches \in [Func -> SUBSET Region]
    /\ Skipped \subseteq Func
    /\ Pairs \subseteq EntryPoint \X EntryPoint

VARIABLES
    registered,     \* entry points with a key in EntryPointMemoryRegions
    todo,           \* per entry point: functions the recursion will enter
    analysed,       \* per entry point: AlreadyAnalyzedFunctions
    EntryPointMemoryRegions,
    pruned          \* entry points the second loop has passed

SAvars == <<registered, todo, analysed, EntryPointMemoryRegions, pruned>>

TypeOK ==
    /\ registered \subseteq EntryPoint
    /\ todo \in [EntryPoint -> SUBSET Func]
    /\ analysed \in [EntryPoint -> SUBSET Func]
    /\ EntryPointMemoryRegions \in [EntryPoint -> SUBSET Region]
    /\ pruned \subseteq EntryPoint

SAInit ==
    /\ registered = {}
    /\ todo = [ep \in EntryPoint |-> {}]
    /\ analysed = [ep \in EntryPoint |-> {}]
    /\ EntryPointMemoryRegions = [ep \in EntryPoint |-> {}]
    /\ pruned = {}

\* Mutant: the recursion starts from the entry point, not from its function.
Register_EntryPointItself(ep) ==
    /\ ep \notin registered
    /\ registered' = registered \cup {ep}
    /\ todo' = [todo EXCEPT ![ep] = {ep}]
    /\ UNCHANGED <<analysed, EntryPointMemoryRegions, pruned>>

\* AnalyseMemoryRegions(ac, ep): an empty list, then the recursion from the root.
\* The contexts of the entry points are parsed anew, so that the functions of
\* two entry points are different objects.
Register(ep) ==
    /\ ep \notin registered
    /\ registered' = registered \cup {ep}
    /\ todo' = [todo EXCEPT ![ep] = {Root[ep]}]
    /\ UNCHANGED <<analysed, EntryPointMemoryRegions, pruned>>

\* Mutant: functions passed as arguments or assigned are not followed.
Visit_RootOnly(ep, f) ==
    /\ f \in todo[ep]
    /\ analysed' = [analysed EXCEPT ![ep] = @ \cup {f}]
    /\ todo' = [todo EXCEPT ![ep] = @ \ {f}]
    /\ EntryPointMemoryRegions' = [EntryPointMemoryRegions EXCEPT ![ep] = @ \cup Touches[f]]
    /\ UNCHANGED <<registered, pruned>>

\* AnalyseMemoryRegions(ac, ep, impl) for impl = f: calls, and functions that
\* appear as arguments or right-hand sides, are entered unless already analysed.
Visit(ep, f) ==
    /\ f \in todo[ep]
    /\ analysed' = [analysed EXCEPT ![ep] = @ \cup {f}]
    /\ todo' = [todo EXCEPT ![ep] = (@ \cup (Callees[f] \ Skipped)) \ (analysed[ep] \cup {f})]
    /\ EntryPointMemoryRegions' = [EntryPointMemoryRegions EXCEPT ![ep] = @ \cup Touches[f]]
    /\ UNCHANGED <<registered, pruned>>

\* The first loop is over.
Collected == registered = EntryPoint /\ \A ep \in EntryPoint : todo[ep] = {}

Partners(ep) == {q \in EntryPoint : <<ep, q>> \in Pairs \/ <<q, ep>> \in Pairs}

\* Mutant: entry points are pruned as soon as their own list is complete.
Prune_Early(ep) ==
    /\ ep \in registered \ pruned
    /\ todo[ep] = {}
    /\ EntryPointMemoryRegions' = [EntryPointMemoryRegions EXCEPT ![ep] =
            {v \in @ : \E q \in Partners(ep) : v \in EntryPointMemoryRegions[q]}]
    /\ pruned' = pruned \cup {ep}
    /\ UNCHANGED <<registered, todo, analysed>>

\* AnalyseMemoryRegionsWithPairInformation(ac, ep)
Prune(ep) ==
    /\ Collected
    /\ ep \notin pruned
    /\ EntryPointMemoryRegions' = [EntryPointMemoryRegions EXCEPT ![ep] =
            {v \in @ : \E q \in Partners(ep) : v \in EntryPointMemoryRegions[q]}]
    /\ pruned' = pruned \cup {ep}
    /\ UNCHANGED <<registered, todo, analysed>>

SANext ==
    \E ep \in EntryPoint :
        \/ Register(ep)
        \/ \E f \in Func : Visit(ep, f)
        \/ Prune(ep)

SASpec == SAInit /\ [][SANext]_SAvars

-----------------------------------------------------------------------------
(* Properties *)

\* The functions reachable from an entry point: those in every set that has its
\* root and is closed under calls.
Closed(S) == \A f \in S : Callees[f] \ Skipped \subseteq S
Reachable(ep) ==
    {f \in Func : \A S \in SUBSET Func : Root[ep] \in S /\ Closed(S) => f \in S}

Accessed(ep) == UNION {Touches[f] : f \in Reachable(ep)}

\* The list the instrumentation of an entry point works with is exactly what it
\* shares with a partner, whatever the order in which entry points are pruned.
PrunedExactly ==
    \A ep \in pruned :
        EntryPointMemoryRegions[ep] = Accessed(ep) \cap UNION {Accessed(q) : q \in Partners(ep)}

\* No region that both entry points of a pair touch is lost from either list.
SharedRegionsKept ==
    Collected => \A p \in Pairs :
        Accessed(p[1]) \cap Accessed(p[2]) \subseteq
            EntryPointMemoryRegions[p[1]] \cap EntryPointMemoryRegions[p[2]]
=============================================================================
