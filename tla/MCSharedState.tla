--------------------------- MODULE MCSharedState ---------------------------
(***************************************************************************)
(* Three entry points that share helpers in a call cycle.  b is paired     *)
(* with a and with c, and c with itself: M3 is private to a, M2 to c but   *)
(* kept by its self pair, M5 only touched by a kernel function.            *)
(***************************************************************************)
EXTENDS SharedState, TLC

MCRoot    == ("a" :> "f_a") @@ ("b" :> "f_b") @@ ("c" :> "f_c")
MCFunc    == {"f_a", "f_b", "f_c", "helper", "loop", "mutex_lock"}
MCCallees == ("f_a" :> {"helper"}) @@ ("f_b" :> {"helper", "loop", "mutex_lock"})
             @@ ("f_c" :> {"loop"}) @@ ("helper" :> {"loop"}) @@ ("loop" :> {"loop", "helper"})
             @@ ("mutex_lock" :> {})
MCTouches == ("f_a" :> {"M0", "M3"}) @@ ("f_b" :> {"M1"}) @@ ("f_c" :> {"M1", "M2"})
             @@ ("helper" :> {"M0"}) @@ ("loop" :> {"M4"}) @@ ("mutex_lock" :> {"M5"})
MCRegion  == {"M0", "M1", "M2", "M3", "M4", "M5"}
MCPairs   == {<<"a", "b">>, <<"b", "c">>, <<"c", "c">>}
=============================================================================
