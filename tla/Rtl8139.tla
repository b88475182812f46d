------------------------------ MODULE Rtl8139 ------------------------------
(***************************************************************************)
(* The RealTek 8139 network driver of the driver suite                     *)
(* (driversuite/net/ethernet/8139too/driver.c).  Five contexts share the   *)
(* private structure tp and the chip's registers:                          *)
(*                                                                         *)
(*   xmit    rtl8139_start_xmit, called by the network stack with the      *)
(*           transmit lock of the device held;                             *)
(*   isr     rtl8139_interrupt, holding tp->lock from entry to exit;       *)
(*   poll    rtl8139_poll, the NAPI context, holding tp->rx_lock;          *)
(*   worker  rtl8139_thread, the delayed work, holding the rtnl mutex;     *)
(*   ctl     open and close (under the rtnl mutex), suspend and resume.    *)
(*                                                                         *)
(* Only the critical sections of the interrupt handler and of the poll     *)
(* routine span several steps, because the chip moves in between; every    *)
(* other section under tp->lock is one step, guarded by isr.pc = "idle".   *)
(* Counters of packets and errors, register settings that carry no state   *)
(* of the protocol (MAC address, media, receive filter) and the contents   *)
(* of frames are left out.                                                 *)
(***************************************************************************)
EXTENDS Integers, FiniteSets

CONSTANTS
  NUM_TX_DESC,  \* transmit descriptors of the chip (4 in the driver)
  WIDTH,        \* cur_tx and dirty_tx are unsigned: they count modulo WIDTH
  MaxLead,      \* bound on cur_tx - dirty_tx, with packets given to a full ring
  RxRing,       \* frames the receive ring holds
  Loads,        \* the environments to consider, see load
  Budget        \* weight of the NAPI context (64 in the driver)

ASSUME Rtl8139Assumption ==
  /\ NUM_TX_DESC \in Nat \ {0} /\ MaxLead \in Nat /\ WIDTH \in Nat
  /\ NUM_TX_DESC < MaxLead /\ MaxLead + NUM_TX_DESC < WIDTH
  /\ WIDTH % NUM_TX_DESC = 0
  /\ RxRing \in Nat \ {0} /\ Budget \in Nat \ {0}
  /\ Loads \subseteq [rx : SUBSET {"good", "bad"}, tx : SUBSET {"ok", "abort"},
                     lead : 0 .. MaxLead, close : BOOLEAN, suspend : BOOLEAN,
                     link_change : BOOLEAN]

VARIABLES
  \* the chip
  TxStatus,    \* per descriptor: "host" after a reset, "queued", "ok", "abort"
  ChipCmd,     \* the enabled halves, a subset of {"tx", "rx"}
  halted,      \* an aborted packet stops the transmitter until TxClearAbt
  rx,          \* frames in the receive ring
  IntrStatus,  \* subset of {"RxOK", "TxOK", "TxErr"}; RxOK stands for RxAckBits
  IntrMask,    \* "none", "norx" (rtl8139_norx_intr_mask) or "all"
  \* struct rtl8139_private
  cur_tx, dirty_tx, watchdog_fired, have_thread,
  rings,       \* tx_bufs and rx_ring are allocated
  \* the kernel's view of the device
  link,        \* "down", "opening", "up", "closing"
  present,     \* FALSE between netif_device_detach and netif_device_attach
  stopped,     \* the transmit queue is stopped
  irq,         \* the interrupt handler is registered
  napi,        \* "off" (disabled), "idle", "sched", "poll"
  work,        \* the delayed work is pending
  \* where each context is
  xmit,        \* the entry start_xmit has read, or -1
  isr,         \* [pc, dirty, left, err]: the handler and its locals
  poll,        \* [pc, received, cmd]: rtl8139_rx and the ChipCmd it has read
  worker, ctl,
  \* The environment: which frames arrive, which results packets have (none: no
  \* packet is ever sent), how many the stack gives to the ring at most, whether
  \* the device is closed and suspended, and whether the chip reports link
  \* changes (HAS_LNK_CHNG) and needs no media thread.
  load,
  torn         \* history: resume cleared the counters while others used them

chip == <<TxStatus, ChipCmd, halted, rx, IntrStatus, IntrMask>>
tp == <<cur_tx, dirty_tx, watchdog_fired, have_thread, rings>>
kernel == <<link, present, stopped, irq, napi, work>>
contexts == <<xmit, isr, poll, worker, ctl>>
env == <<load, torn>>
vars == <<chip, tp, kernel, contexts, env>>

Desc == 0 .. NUM_TX_DESC - 1
Lead(c, d) == (c - d) % WIDTH
Entry(n) == n % NUM_TX_DESC

\* netif_running: the start bit is set before ndo_open, cleared before ndo_stop.
Running == link \in {"opening", "up"}

\* In D3 the registers read as ones and writes to them are lost.
Awake == ctl # "asleep"
W(reg, value) == IF Awake THEN value ELSE reg

\* The rtnl mutex and tp->rx_lock, free or held by a context in the middle of
\* its section; tp->lock is free when the handler is idle.
RtnlFree == link \notin {"opening", "closing"} /\ worker = "idle"
RxLockFree == poll.pc = "idle" /\ worker \in {"idle", "disable", "mask"}
LockFree == isr.pc = "idle"

IsrIdle == [pc |-> "idle", dirty |-> 0, left |-> 0, err |-> FALSE]
PollIdle == [pc |-> "idle", received |-> 0, cmd |-> {}]

Init ==
  /\ TxStatus = [e \in Desc |-> "host"] /\ ChipCmd = {} /\ halted = FALSE
  /\ rx = 0 /\ IntrStatus = {} /\ IntrMask = "none"
  /\ cur_tx = 0 /\ dirty_tx = 0
  /\ watchdog_fired = FALSE /\ have_thread = FALSE
  /\ rings = FALSE
  /\ link = "down" /\ present = TRUE /\ stopped = TRUE /\ irq = FALSE
  /\ napi = "off" /\ work = FALSE
  /\ xmit = -1 /\ isr = IsrIdle /\ poll = PollIdle
  /\ worker = "idle" /\ ctl = "idle" /\ load \in Loads /\ torn = FALSE

-----------------------------------------------------------------------------
(* rtl8139_hw_start, called by open, resume and the timeout task.  It holds  *)
(* no lock that keeps the handler or start_xmit out, so its three effects on *)
(* the chip are three steps.                                                 *)

\* rtl8139_chip_reset: the chip forgets the descriptors and pending events.
HwReset ==
  /\ TxStatus' = W(TxStatus, [e \in Desc |-> "host"])
  /\ ChipCmd' = W(ChipCmd, {})
  /\ halted' = W(halted, FALSE)
  /\ rx' = W(rx, 0)
  /\ IntrStatus' = W(IntrStatus, {})
  /\ IntrMask' = W(IntrMask, "none")

HwEnable ==
  /\ ChipCmd' = W(ChipCmd, {"tx", "rx"})
  /\ UNCHANGED <<TxStatus, halted, rx, IntrStatus, IntrMask>>

\* "make sure RxTx has started", and the interrupt mask.
HwUnmask ==
  /\ ChipCmd' = W(ChipCmd, {"tx", "rx"})
  /\ IntrMask' = W(IntrMask, "all")
  /\ UNCHANGED <<TxStatus, halted, rx, IntrStatus>>

hw_start(at, next) ==
  \/ at = "reset" /\ next = "enable" /\ HwReset
  \/ at = "enable" /\ next = "unmask" /\ HwEnable
  \/ at = "unmask" /\ next = "started" /\ HwUnmask

\* rtl8139_tx_clear, and the counters rtl8139_init_ring resets.
tx_clear == cur_tx' = 0 /\ dirty_tx' = 0

-----------------------------------------------------------------------------
(* rtl8139_open and rtl8139_close.                                          *)

\* A failing request_irq returns with nothing changed.
Open ==
  /\ ctl = "idle" /\ RtnlFree /\ link = "down"
  /\ link' = "opening" /\ irq' = TRUE /\ ctl' = "o_alloc"
  /\ UNCHANGED <<env, chip, tp, present, stopped, napi, work, xmit, isr, poll, worker>>

OpenNoMem ==
  /\ ctl = "o_alloc" /\ LockFree
  /\ link' = "down" /\ irq' = FALSE /\ ctl' = "idle"
  /\ UNCHANGED <<env, chip, tp, present, stopped, napi, work, xmit, isr, poll, worker>>

OpenAlloc ==
  /\ ctl = "o_alloc"
  /\ rings' = TRUE /\ napi' = "idle" /\ tx_clear /\ ctl' = "reset"
  /\ UNCHANGED <<env, chip, watchdog_fired, have_thread, link, present,
                 stopped, irq, work, xmit, isr, poll, worker>>

\* rtl8139_hw_start on behalf of open (link = "opening") or resume ("up").
CtlHwStart ==
  /\ hw_start(ctl, ctl')
  /\ UNCHANGED <<env, tp, kernel, xmit, isr, poll, worker>>

\* netif_start_queue and rtl8139_start_thread; the stack starts to use the
\* device when ndo_open has returned.
OpenDone ==
  /\ ctl = "started" /\ link = "opening"
  /\ stopped' = FALSE /\ link' = "up" /\ ctl' = "idle"
  /\ IF load.link_change
     THEN UNCHANGED <<have_thread, watchdog_fired, work>>
     ELSE have_thread' = TRUE /\ watchdog_fired' = FALSE /\ work' = TRUE
  /\ UNCHANGED <<env, chip, cur_tx, dirty_tx, rings, present, irq, napi,
                 xmit, isr, poll, worker>>

\* The stack waits for a transmission in progress before it calls ndo_stop.
Close ==
  /\ ctl = "idle" /\ RtnlFree /\ link = "up" /\ xmit = -1 /\ load.close
  /\ link' = "closing" /\ stopped' = TRUE /\ ctl' = "c_napi"
  /\ UNCHANGED <<env, chip, tp, present, irq, napi, work, xmit, isr, poll, worker>>

\* napi_disable waits until the context is neither scheduled nor running.
CloseNapi ==
  /\ ctl = "c_napi" /\ napi = "idle"
  /\ napi' = "off" /\ ctl' = "c_chip"
  /\ UNCHANGED <<env, chip, tp, link, present, stopped, irq, work, xmit, isr, poll, worker>>

CloseChip ==
  /\ ctl = "c_chip" /\ LockFree
  /\ ChipCmd' = {} /\ IntrMask' = "none" /\ ctl' = "c_free"
  /\ UNCHANGED <<env, TxStatus, halted, rx, IntrStatus, tp, kernel, xmit, isr, poll, worker>>

\* free_irq waits for a running handler; the rings go after it.
CloseFree ==
  /\ ctl = "c_free" /\ LockFree
  /\ irq' = FALSE /\ tx_clear /\ rings' = FALSE /\ link' = "down" /\ ctl' = "idle"
  /\ torn' = FALSE
  /\ UNCHANGED <<load, chip, watchdog_fired, have_thread, present, stopped,
                 napi, work, xmit, isr, poll, worker>>

-----------------------------------------------------------------------------
(* rtl8139_suspend and rtl8139_resume, called with user space frozen: no    *)
(* open or close is in progress, but neither takes the rtnl mutex.          *)

Suspend ==
  /\ ctl = "idle" /\ link = "up" /\ load.suspend
  /\ present' = FALSE /\ stopped' = TRUE /\ ctl' = "s_quiet"
  /\ UNCHANGED <<env, chip, tp, link, irq, napi, work, xmit, isr, poll, worker>>

\* Under tp->lock the chip is silenced.
SuspendQuiet ==
  /\ ctl = "s_quiet" /\ LockFree
  /\ IntrMask' = "none" /\ ChipCmd' = {} /\ ctl' = "s_sleep"
  /\ UNCHANGED <<env, TxStatus, halted, rx, IntrStatus, tp, kernel, xmit, isr, poll, worker>>

\* The chip goes to D3, under the feet of whoever still uses it.
SuspendSleep ==
  /\ ctl = "s_sleep" /\ ctl' = "asleep"
  /\ UNCHANGED <<env, chip, tp, kernel, xmit, isr, poll, worker>>

\* No interrupt, softirq or spinlock section is in the middle when the machine
\* sleeps.  The way back to D0 resets the chip.
ResumeWake ==
  /\ ctl = "asleep" /\ LockFree /\ RxLockFree /\ xmit = -1
  /\ ctl' = "r_ring"
  /\ TxStatus' = [e \in Desc |-> "host"] /\ ChipCmd' = {} /\ halted' = FALSE
  /\ rx' = 0 /\ IntrStatus' = {} /\ IntrMask' = "none"
  /\ UNCHANGED <<env, tp, kernel, xmit, isr, poll, worker>>

\* rtl8139_init_ring takes no lock.  A timeout task that has just restarted the
\* chip may have let the handler in, which goes on with its copy of dirty_tx.
ResumeRing ==
  /\ ctl = "r_ring" /\ ctl' = "reset" /\ tx_clear /\ torn' = ~LockFree
  /\ UNCHANGED <<load, chip, watchdog_fired, have_thread, rings, kernel,
                 xmit, isr, poll, worker>>

\* netif_device_attach wakes the queue of a running device.
ResumeAttach ==
  /\ ctl = "started" /\ link = "up"
  /\ present' = TRUE /\ stopped' = FALSE /\ ctl' = "idle"
  /\ UNCHANGED <<env, chip, tp, link, irq, napi, work, xmit, isr, poll, worker>>

-----------------------------------------------------------------------------
(* rtl8139_start_xmit: the entry is read, and the packet copied into its     *)
(* buffer, before tp->lock is taken.  An oversized packet is dropped there   *)
(* and changes nothing.  Two bounds: load.lead, and no packet is given to a  *)
(* ring whose counters are torn.                                             *)

XmitCopy ==
  /\ link = "up" /\ ~stopped /\ xmit = -1
  /\ Lead(cur_tx, dirty_tx) < load.lead /\ ~torn
  /\ xmit' = Entry(cur_tx)
  /\ UNCHANGED <<env, chip, tp, kernel, isr, poll, worker, ctl>>

Full(c, d) == (c - NUM_TX_DESC) % WIDTH = d
XmitPost ==
  /\ xmit # -1 /\ LockFree
  /\ TxStatus' = W(TxStatus, [TxStatus EXCEPT ![xmit] = "queued"])
  /\ cur_tx' = (cur_tx + 1) % WIDTH
  /\ stopped' = (stopped \/ Full(cur_tx', dirty_tx))
  /\ xmit' = -1
  /\ UNCHANGED <<env, ChipCmd, halted, rx, IntrStatus, IntrMask, dirty_tx, watchdog_fired,
                 have_thread, rings, link, present, irq, napi, work,
                 isr, poll, worker, ctl>>

\* start_xmit's section overlaps rtl8139_init_ring: cur_tx++ is no atomic update,
\* and the test for a full ring may read either counter before or after.
XmitRaces ==
  /\ ctl = "r_ring" /\ ctl' = "reset" /\ xmit # -1 /\ LockFree
  /\ TxStatus' = [TxStatus EXCEPT ![xmit] = "queued"]
  /\ cur_tx' \in {0, 1, (cur_tx + 1) % WIDTH} /\ dirty_tx' = 0 /\ torn' = TRUE
  /\ \E c \in {0, 1, (cur_tx + 1) % WIDTH}, d \in {0, dirty_tx} :
       stopped' = (stopped \/ Full(c, d))
  /\ xmit' = -1
  /\ UNCHANGED <<load, ChipCmd, halted, rx, IntrStatus, IntrMask, watchdog_fired,
                 have_thread, rings, link, present, irq, napi, work, isr, poll, worker>>

\* Mutant: the work is left to a thread the chip may not have.
tx_timeout_NoSchedule ==
  /\ link = "up" /\ present /\ stopped /\ xmit = -1
  /\ watchdog_fired' = TRUE
  /\ UNCHANGED <<env, chip, cur_tx, dirty_tx, have_thread, rings, link,
                 present, stopped, irq, napi, work, contexts>>

\* The stack's watchdog finds the queue stopped for too long and calls
\* rtl8139_tx_timeout with the transmit lock held.
tx_timeout ==
  /\ link = "up" /\ present /\ stopped /\ xmit = -1
  /\ watchdog_fired' = TRUE
  /\ work' = (work \/ ~have_thread)
  /\ UNCHANGED <<env, chip, cur_tx, dirty_tx, have_thread, rings, link,
                 present, stopped, irq, napi, contexts>>

-----------------------------------------------------------------------------
(* rtl8139_thread, with rtl8139_tx_timeout_task when the watchdog has fired. *)

\* Mutant: a device that has been closed is reset as well.
thread_NoRunningCheck ==
  /\ work /\ RtnlFree
  /\ IF watchdog_fired
     THEN /\ watchdog_fired' = FALSE /\ work' = FALSE
          /\ worker' = IF ~Awake \/ "tx" \in ChipCmd THEN "disable" ELSE "mask"
     ELSE work' = (Running /\ have_thread) /\ UNCHANGED <<watchdog_fired, worker>>
  /\ UNCHANGED <<env, chip, cur_tx, dirty_tx, have_thread, rings, link, present,
                 stopped, irq, napi, xmit, isr, poll, ctl>>

thread ==
  /\ work /\ RtnlFree
  /\ IF Running /\ watchdog_fired
     THEN /\ watchdog_fired' = FALSE /\ work' = FALSE
          /\ worker' = IF ~Awake \/ "tx" \in ChipCmd THEN "disable" ELSE "mask"
     ELSE work' = (Running /\ have_thread) /\ UNCHANGED <<watchdog_fired, worker>>
  /\ UNCHANGED <<env, chip, cur_tx, dirty_tx, have_thread, rings, link, present,
                 stopped, irq, napi, xmit, isr, poll, ctl>>

\* "disable Tx ASAP, if not already": ChipCmd was read with the transmitter on.
TaskDisable ==
  /\ worker = "disable" /\ worker' = "mask"
  /\ ChipCmd' = W(ChipCmd, {"rx"})
  /\ UNCHANGED <<env, TxStatus, halted, rx, IntrStatus, IntrMask, tp, kernel,
                 xmit, isr, poll, ctl>>

\* Takes tp->rx_lock, which it keeps up to TaskWake.
TaskMask ==
  /\ worker = "mask" /\ RxLockFree /\ worker' = "clear"
  /\ IntrMask' = W(IntrMask, "none")
  /\ UNCHANGED <<env, TxStatus, ChipCmd, halted, rx, IntrStatus, tp, kernel,
                 xmit, isr, poll, ctl>>

\* Mutant: the counters are cleared without tp->lock.
TaskClear_NoLock ==
  /\ worker = "clear" /\ worker' = "reset"
  /\ tx_clear /\ torn' = FALSE
  /\ UNCHANGED <<load, chip, watchdog_fired, have_thread, rings, kernel,
                 xmit, isr, poll, ctl>>

\* "Stop a shared interrupt from scavenging while we are."
TaskClear ==
  /\ worker = "clear" /\ LockFree /\ worker' = "reset"
  /\ tx_clear /\ torn' = FALSE
  /\ UNCHANGED <<load, chip, watchdog_fired, have_thread, rings, kernel,
                 xmit, isr, poll, ctl>>

\* The device is running here: close needs the rtnl mutex the thread holds.
TaskHwStart ==
  /\ hw_start(worker, worker')
  /\ UNCHANGED <<env, tp, kernel, xmit, isr, poll, ctl>>

\* netif_wake_queue; the thread reschedules itself.
TaskWake ==
  /\ worker = "started" /\ worker' = "idle"
  /\ stopped' = FALSE /\ work' = (work \/ have_thread)
  /\ UNCHANGED <<env, chip, tp, link, present, irq, napi, xmit, isr, poll, ctl>>

-----------------------------------------------------------------------------
(* rtl8139_interrupt.  The line is shared, so the handler may be called at   *)
(* any time while it is registered, by rtl8139_poll_controller as well; with *)
(* no event pending, and in D3 where the status reads 0xFFFF, it returns.    *)

IsrNotRunning ==
  /\ irq /\ LockFree /\ Awake /\ IntrStatus # {} /\ ~Running
  /\ IntrMask' = "none"
  /\ UNCHANGED <<env, TxStatus, ChipCmd, halted, rx, IntrStatus, tp, kernel, contexts>>

\* Acknowledges TxOK, leaves RxOK to the poll routine and TxErr to IsrDone.
Isr ==
  /\ irq /\ LockFree /\ Awake /\ IntrStatus # {} /\ Running
  /\ IntrStatus' = IntrStatus \ {"TxOK"}
  /\ IF "RxOK" \in IntrStatus /\ napi = "idle"
     THEN IntrMask' = "norx" /\ napi' = "sched"
     ELSE UNCHANGED <<IntrMask, napi>>
  /\ isr' = IF IntrStatus \cap {"TxOK", "TxErr"} = {} THEN IsrIdle
            ELSE [pc |-> "reap", dirty |-> dirty_tx, left |-> Lead(cur_tx, dirty_tx),
                  err |-> "TxErr" \in IntrStatus]
  /\ UNCHANGED <<env, TxStatus, ChipCmd, halted, rx, tp, link, present, stopped, irq, work,
                 xmit, poll, worker, ctl>>

\* One iteration of rtl8139_tx_interrupt's loop over finished descriptors.
Finished(e) == ~Awake \/ TxStatus[e] \in {"ok", "abort"}
IsrReap ==
  /\ isr.pc = "reap" /\ isr.left > 0 /\ Finished(Entry(isr.dirty))
  /\ isr' = [isr EXCEPT !.dirty = (@ + 1) % WIDTH, !.left = @ - 1]
  /\ IF TxStatus[Entry(isr.dirty)] = "abort"
     THEN halted' = W(halted, FALSE) /\ IntrStatus' = W(IntrStatus, IntrStatus \ {"TxErr"})
     ELSE UNCHANGED <<halted, IntrStatus>>
  /\ UNCHANGED <<env, TxStatus, ChipCmd, rx, IntrMask, tp, kernel, xmit, poll, worker, ctl>>

\* The loop ends; the debugging check moves an out-of-sync dirty pointer on,
\* and the queue is woken when anything was reaped.
LoopOver == isr.pc = "reap" /\ (isr.left = 0 \/ ~Finished(Entry(isr.dirty)))
Resync(d) == IF Lead(cur_tx, d) > NUM_TX_DESC THEN (d + NUM_TX_DESC) % WIDTH ELSE d
IsrWake ==
  /\ LoopOver
  /\ dirty_tx' = Resync(isr.dirty)
  /\ stopped' = (stopped /\ dirty_tx' = dirty_tx)
  /\ isr' = [isr EXCEPT !.pc = "done"]
  /\ UNCHANGED <<env, chip, cur_tx, watchdog_fired, have_thread, rings,
                 link, present, irq, napi, work, xmit, poll, worker, ctl>>

IsrDone ==
  /\ isr.pc = "done" /\ isr' = IsrIdle
  /\ IntrStatus' = W(IntrStatus, IF isr.err THEN IntrStatus \ {"TxErr"} ELSE IntrStatus)
  /\ UNCHANGED <<env, TxStatus, ChipCmd, halted, rx, IntrMask, tp, kernel,
                 xmit, poll, worker, ctl>>

-----------------------------------------------------------------------------
(* rtl8139_poll and rtl8139_rx.  EarlyRx is disabled, so a frame that is     *)
(* still being copied is not seen.                                           *)

Poll ==
  /\ napi = "sched" /\ RxLockFree
  /\ napi' = "poll"
  /\ poll' = [PollIdle EXCEPT !.pc =
                IF ~Awake \/ "RxOK" \in IntrStatus THEN "rx" ELSE "complete"]
  /\ UNCHANGED <<env, chip, tp, link, present, stopped, irq, work, xmit, isr, worker, ctl>>

\* Mutant: RxBufEmpty is not looked at.
RxLoops_NoEmptyCheck == Running /\ poll.received < Budget /\ Awake

\* Mutant: a device that is being closed is read as well.
RxLoops_NoRunningCheck == poll.received < Budget /\ Awake /\ rx > 0

RxLoops == Running /\ poll.received < Budget /\ Awake /\ rx > 0

RxFrame ==
  /\ poll.pc = "rx" /\ RxLoops /\ "good" \in load.rx
  /\ rx' = rx - 1
  /\ poll' = [poll EXCEPT !.pc = "ack", !.received = @ + 1]
  /\ UNCHANGED <<env, TxStatus, ChipCmd, halted, IntrStatus, IntrMask, tp, kernel,
                 xmit, isr, worker, ctl>>

isr_ack ==
  /\ IntrStatus' = W(IntrStatus, IntrStatus \ {"RxOK"})
  /\ UNCHANGED <<env, TxStatus, ChipCmd, halted, IntrMask, rx, tp, kernel,
                 xmit, isr, worker, ctl>>

RxAck == poll.pc = "ack" /\ isr_ack /\ poll' = [poll EXCEPT !.pc = "rx"]

\* rtl8139_rx_err: the receiver restarts with an empty ring.  ChipCmd is read and
\* written back, which undoes what the timeout task or suspend has written to it
\* in between.
RxErr ==
  /\ poll.pc = "rx" /\ RxLoops /\ "bad" \in load.rx
  /\ poll' = [pc |-> "restart", received |-> -1, cmd |-> ChipCmd]
  /\ UNCHANGED <<env, chip, tp, kernel, xmit, isr, worker, ctl>>

RxRestart ==
  /\ poll.pc = "restart"
  /\ ChipCmd' = W(ChipCmd, poll.cmd) /\ rx' = W(rx, 0)
  /\ poll' = [poll EXCEPT !.pc = "complete", !.cmd = {}]
  /\ UNCHANGED <<env, TxStatus, halted, IntrStatus, IntrMask, tp, kernel,
                 xmit, isr, worker, ctl>>

\* The end of the loop; when it has read nothing the event is acknowledged, a
\* step later, with whatever has arrived since.
RxOut ==
  /\ poll.pc = "rx" /\ ~RxLoops
  /\ poll' = [poll EXCEPT !.pc = IF poll.received = 0 THEN "out" ELSE "complete"]
  /\ UNCHANGED <<env, chip, tp, kernel, xmit, isr, worker, ctl>>

RxOutAck == poll.pc = "out" /\ isr_ack /\ poll' = [poll EXCEPT !.pc = "complete"]

\* Mutant: the receive interrupts are not unmasked.
PollComplete_KeepsMask ==
  /\ poll.pc = "complete" /\ poll.received < Budget /\ LockFree
  /\ napi' = "idle" /\ poll' = PollIdle
  /\ UNCHANGED <<env, TxStatus, ChipCmd, halted, rx, IntrStatus, IntrMask, tp, link, present, stopped,
                 irq, work, xmit, isr, worker, ctl>>

\* Under tp->lock: "Order is important since data can get interrupted again
\* when we think we are done."
PollComplete ==
  /\ poll.pc = "complete" /\ poll.received < Budget /\ LockFree
  /\ napi' = "idle" /\ IntrMask' = W(IntrMask, "all") /\ poll' = PollIdle
  /\ UNCHANGED <<env, TxStatus, ChipCmd, halted, rx, IntrStatus, tp, link, present, stopped,
                 irq, work, xmit, isr, worker, ctl>>

\* Mutant: a poll that used its budget up is not run again.
PollAgain_Completes ==
  /\ poll.pc = "complete" /\ poll.received >= Budget
  /\ napi' = "idle" /\ poll' = PollIdle
  /\ UNCHANGED <<env, chip, tp, link, present, stopped, irq, work, xmit, isr, worker, ctl>>

PollAgain ==
  /\ poll.pc = "complete" /\ poll.received >= Budget
  /\ napi' = "sched" /\ poll' = PollIdle
  /\ UNCHANGED <<env, chip, tp, link, present, stopped, irq, work, xmit, isr, worker, ctl>>

-----------------------------------------------------------------------------
(* The chip.  It sends queued descriptors in any order, and may also never   *)
(* send one; a frame for which the ring has no room raises RxOverflow, which *)
(* is among RxAckBits.                                                       *)

Sends(e, result) ==
  /\ result \in load.tx /\ Awake /\ "tx" \in ChipCmd /\ ~halted /\ TxStatus[e] = "queued"
  /\ TxStatus' = [TxStatus EXCEPT ![e] = result]
  /\ halted' = (result = "abort")
  /\ IntrStatus' = IntrStatus \cup {IF result = "ok" THEN "TxOK" ELSE "TxErr"}
  /\ UNCHANGED <<env, ChipCmd, rx, IntrMask, tp, kernel, contexts>>

Arrives ==
  /\ load.rx # {} /\ Awake /\ "rx" \in ChipCmd
  /\ rx' = IF rx < RxRing THEN rx + 1 ELSE rx
  /\ IntrStatus' = IntrStatus \cup {"RxOK"}
  /\ UNCHANGED <<env, TxStatus, ChipCmd, halted, IntrMask, tp, kernel, contexts>>

-----------------------------------------------------------------------------
Opening == Open \/ OpenNoMem \/ OpenAlloc \/ CtlHwStart \/ OpenDone
Closing == CloseNapi \/ CloseChip \/ CloseFree
Task == TaskDisable \/ TaskMask \/ TaskClear \/ TaskHwStart \/ TaskWake
Handler == IsrReap \/ IsrWake \/ IsrDone
Polling ==
  \/ Poll \/ RxFrame \/ RxAck \/ RxErr \/ RxRestart \/ RxOut \/ RxOutAck
  \/ PollComplete \/ PollAgain

Next ==
  \/ Opening \/ Close \/ Closing
  \/ Suspend \/ SuspendQuiet \/ SuspendSleep
  \/ ResumeWake \/ ResumeRing \/ ResumeAttach
  \/ XmitCopy \/ XmitPost \/ XmitRaces \/ tx_timeout
  \/ thread \/ Task
  \/ IsrNotRunning \/ Isr \/ Handler
  \/ Polling
  \/ \E e \in Desc, result \in {"ok", "abort"} : Sends(e, result)
  \/ Arrives

\* The line is asserted: an event is pending that the mask lets through.
Asserted ==
  \/ IntrMask = "all"
  \/ IntrMask = "norx" /\ IntrStatus \cap {"TxOK", "TxErr"} # {}

(* A context that has a spinlock or the rtnl mutex to wait for gets it in    *)
(* turn (ticket locks, queued mutex): strong fairness.  A running handler    *)
(* goes on, and an asserted line is served.  Nothing is assumed of the chip, *)
(* of the traffic or of the user.                                            *)
Fairness ==
  /\ WF_vars(Asserted /\ (Isr \/ IsrNotRunning)) /\ WF_vars(Handler)
  /\ SF_vars(Polling)
  /\ SF_vars(thread \/ Task)
  /\ SF_vars(XmitPost) /\ WF_vars(tx_timeout)
  /\ SF_vars(Closing)

Spec == Init /\ [][Next]_vars /\ Fairness

-----------------------------------------------------------------------------
\* Every variable has the type of the field of struct rtl8139_private, or of the
\* chip's register, that it stands for; a poll handles at most its budget of frames.
TypeOK ==
  /\ TxStatus \in [Desc -> {"host", "queued", "ok", "abort"}]
  /\ ChipCmd \subseteq {"tx", "rx"} /\ halted \in BOOLEAN /\ rx \in 0 .. RxRing
  /\ IntrStatus \subseteq {"RxOK", "TxOK", "TxErr"} /\ IntrMask \in {"none", "norx", "all"}
  /\ cur_tx \in 0 .. WIDTH - 1 /\ dirty_tx \in 0 .. WIDTH - 1
  /\ {watchdog_fired, have_thread, rings, present, stopped, irq, work, torn}
       \subseteq BOOLEAN
  /\ link \in {"down", "opening", "up", "closing"}
  /\ napi \in {"off", "idle", "sched", "poll"}
  /\ xmit \in Desc \cup {-1}
  /\ isr \in [pc : {"idle", "reap", "done"}, dirty : 0 .. WIDTH - 1,
              left : 0 .. WIDTH - 1, err : BOOLEAN]
  /\ poll \in [pc : {"idle", "rx", "ack", "restart", "out", "complete"},
               received : -1 .. Budget, cmd : SUBSET {"tx", "rx"}]
  /\ worker \in {"idle", "disable", "mask", "clear", "reset", "enable", "unmask", "started"}
  /\ ctl \in {"idle", "o_alloc", "c_napi", "c_chip", "c_free", "s_quiet", "s_sleep", "asleep",
              "r_ring", "reset", "enable", "unmask", "started"}

\* The dirty pointer never overtakes cur_tx, whichever of the handler, the
\* timeout task and close reset or advance the two counters last; only resume,
\* which clears them without tp->lock, may leave them torn.
DirtyNotAhead == ~torn => Lead(cur_tx, dirty_tx) <= MaxLead

\* The receive interrupts are masked only while a poll that will unmask them is
\* on its way: no interleaving of handler, poll, task and close leaves the
\* device deaf.
MaskedRxIsPolled == Awake /\ IntrMask = "norx" => napi \in {"sched", "poll"}

\* Once the rings are freed nothing can touch them: the chip is off, no
\* poll, transmission or timeout task is under way, and a handler called by
\* another device on the line finds no descriptor to reap.
FreedRingsUnused ==
  ~rings => /\ ChipCmd = {} /\ napi = "off" /\ poll.pc = "idle" /\ xmit = -1
            /\ worker = "idle" /\ isr.left = 0

\* A stopped queue is started again, whatever the chip does: by the handler, or
\* by the watchdog and the reset it asks for.  (After a resume that has torn the
\* counters the model gives the ring no packet until they are cleared again.)
InService == link = "up" /\ present
QueueRestarts == (InService /\ stopped) ~> (~InService \/ ~stopped)

\* While frames keep arriving the poll routine keeps reading them.
FramesRead == WF_vars(Arrives) =>
  ((InService /\ "rx" \in ChipCmd /\ rx > 0) ~> (~InService \/ poll.pc = "ack" \/ rx = 0))

\* rtl8139_close returns, although frames keep the poll routine scheduled.
CloseReturns == (link = "closing") ~> (link = "down")

\* The debugging check of rtl8139_tx_interrupt ("Out-of-sync dirty pointer"), made
\* when its loop is over: no more packets are on their way than there are
\* descriptors.
InSync == LoopOver => Lead(cur_tx, isr.dirty) <= NUM_TX_DESC
=============================================================================
