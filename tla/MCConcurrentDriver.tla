------------------------- MODULE MCConcurrentDriver -------------------------
(***************************************************************************)
(* Instances of ConcurrentDriver.  The entry points stand for combinations *)
(* of kernel-lock attributes:                                              *)
(*   "xmit"     the transmit function                                      *)
(*   "suspend"  a runtime-PM callback                                      *)
(*   "work"     a handler that resumes the device, is reached under RTNL,  *)
(*              stops the queue and wakes it again                         *)
(*   "ioctl"    a handler that resumes the device                          *)
(*   "irq"      an interrupt handler that stops the queue                  *)
(*   "reset"    stops the queue and wakes it again                         *)
(*   "plain"    no kernel lock and no kernel call                          *)
(***************************************************************************)
EXTENDS ConcurrentDriver, TLC

MCEntryPoint   == {"xmit", "suspend", "work", "ioctl", "irq", "reset", "plain"}
MCPowerLocked  == {"suspend"}
MCRtnlLocked   == {"xmit"}
MCTxLocked     == {"xmit"}
MCCallingPower == {"work", "ioctl"}
MCCallingRtnl  == {"work"}
MCCallingTx    == {"work", "irq", "reset"}
MCRtnlCallers  == {"work"}
MCWakesQueue   == {"work", "reset"}

\* Addresses are interchangeable, and so are the driver's locks.
Symmetry == Permutations(DriverLock) \cup Permutations(Address)
=============================================================================
