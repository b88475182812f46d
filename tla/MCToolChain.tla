---------------------------- MODULE MCToolChain ----------------------------
(***************************************************************************)
(* Sets of command lines.  The first argument is driver.c unless said      *)
(* otherwise.                                                              *)
(***************************************************************************)
EXTENDS ToolChain

CONSTANTS p1, p2

Default == [input |-> "c", stopAt |-> "none", skipUntil |-> "none", keepTemps |-> FALSE,
            findBugs |-> FALSE, skipNonRacyPairs |-> FALSE, noInfer |-> FALSE, timeout |-> TRUE]

\* Every place to start from, with and without inference, Corral and --keep-temps,
\* every place to stop at, and inputs of later stages.
Checking == {[Default EXCEPT !.skipUntil = u, !.noInfer = n, !.keepTemps = k,
                             !.findBugs = b, !.skipNonRacyPairs = s] :
                u \in {"none", "clang", "smack", "engine", "cruncher", "raceChecker", "corral"},
                n \in BOOLEAN, k \in BOOLEAN, b \in BOOLEAN, s \in BOOLEAN}
            \cup {[Default EXCEPT !.stopAt = t] : t \in Range(Tools) \ {"corral"}}
            \cup {[Default EXCEPT !.input = i] : i \in {"bc", "bpl"}}

BplInput == {[Default EXCEPT !.input = "bpl"]}

\* A clean directory, some of, or everything that a run with --keep-temps leaves.
AllLeft == {{}, {"bc"}, File \ {"c"}}
=============================================================================
