---------------------------- MODULE MCPairCheck ----------------------------
(***************************************************************************)
(* Instances of PairCheck.  The entry points stand for the combinations of *)
(* kernel-lock attributes that decide how a lock is treated:               *)
(*   "open"   under RTNL, resumes the device (ndo_open)                    *)
(*   "xmit"   transmit locked and under RTNL in Whoop's tables             *)
(*   "work"   no kernel lock, calls pm_runtime_*, ASSERT_RTNL and          *)
(*            netif_stop_queue                                             *)
(*   "plain"  no kernel lock and no kernel call                            *)
(***************************************************************************)
EXTENDS PairCheck, TLC

MCEntryPoint   == {"open", "xmit", "work", "plain"}
MCPowerLocked  == {}
MCRtnlLocked   == {"open", "xmit"}
MCTxLocked     == {"xmit"}
MCCallingPower == {"open", "work"}
MCCallingRtnl  == {"work"}
MCCallingTx    == {"work"}

\* The checks explored: a handler against the transmit function and against itself.
MCPairs == {<<"work", "xmit">>, <<"work", "work">>}

\* A driver without kernel locks.
PlainPairs == {<<"plain", "plain">>}

\* Addresses are interchangeable, and so are the driver's locks.
Symmetry == Permutations(DriverLock) \cup Permutations(Address)
=============================================================================
