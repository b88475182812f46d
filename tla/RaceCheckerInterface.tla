------------------------ MODULE RaceCheckerInterface ------------------------
(***************************************************************************)
(* What whoop.py may rely on when WhoopRaceChecker.exe has ended: its exit *)
(* status and the check_racy_*.bpl files it has emitted for Corral.        *)
(* RaceChecker implements this contract, ToolChain uses it.                *)
(***************************************************************************)
Outcome == {"Done", "LocksetAnalysisError", "FatalError"}

Contract(Pair, findBugs, skipsRaceFree, outcome, emitted) ==
    /\ outcome \in Outcome
    /\ emitted \subseteq Pair
    /\ ~findBugs => emitted = {}
    /\ findBugs /\ ~skipsRaceFree /\ outcome # "FatalError" => emitted = Pair
    /\ findBugs /\ skipsRaceFree /\ outcome = "Done" => emitted = {}
=============================================================================
