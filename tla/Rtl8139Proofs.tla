--------------------------- MODULE Rtl8139Proofs ---------------------------
(***************************************************************************)
(* For every number of descriptors, ring size, budget and environment, the *)
(* 8139 driver never masks the receive interrupts without a poll to unmask *)
(* them, nothing uses the rings once they are freed, every variable keeps  *)
(* its type, and dirty_tx never overtakes cur_tx, as long as resume has    *)
(* not cleared the two under a running handler or start_xmit.              *)
(*                                                                         *)
(* None of these is inductive.  The masks need to know that close has      *)
(* disabled NAPI before open enables it again; the rings need to know what *)
(* each context may be doing in each phase of open and close, which the    *)
(* rtnl mutex, napi_disable and free_irq decide.  IInv states that.  The   *)
(* counters wrap: they need the distance between them, which modular       *)
(* arithmetic keeps, and the handler's own copy of dirty_tx.               *)
(***************************************************************************)
EXTENDS Rtl8139, TLAPS

Shape ==
  /\ isr \in [pc : {"idle", "reap", "done"}, dirty : Int, left : Int, err : BOOLEAN]
  /\ poll \in [pc : {"idle", "rx", "ack", "restart", "out", "complete"}, received : Int,
               cmd : SUBSET {"tx", "rx"}]
  /\ cur_tx \in Int /\ dirty_tx \in Int /\ ChipCmd \in SUBSET {"tx", "rx"}
  /\ load \in Loads

\* The link follows the open, close, suspend or resume in progress.
Starts == {"reset", "enable", "unmask", "started"}
Phases ==
  /\ ctl = "idle" => link \in {"down", "up"}
  /\ ctl = "o_alloc" => link = "opening"
  /\ ctl \in Starts => link \in {"opening", "up"}
  /\ ctl \in {"c_napi", "c_chip", "c_free"} => link = "closing"
  /\ ctl \in {"s_quiet", "s_sleep", "asleep", "r_ring"} => link = "up"
  /\ ctl \in {"idle", "o_alloc", "c_napi", "c_chip", "c_free", "s_quiet", "s_sleep",
              "asleep", "r_ring"} \cup Starts

\* When the rings are there, and which context works only on an open device.
Rings ==
  /\ rings <=> link \in {"up", "closing"} \/ (link = "opening" /\ ctl \in Starts)
  /\ worker # "idle" => link = "up"
  /\ xmit # -1 => link = "up"

\* NAPI is disabled from napi_disable to napi_enable.
Napi ==
  /\ poll.pc # "idle" <=> napi = "poll"
  /\ napi = "off" <=> ~rings \/ ctl \in {"c_chip", "c_free"}
  /\ napi \in {"off", "idle", "sched", "poll"}

\* What close leaves in the chip, in the counters and to a late handler.
Closed ==
  /\ ~rings \/ ctl = "c_free" => ChipCmd = {}
  /\ ~rings => cur_tx = 0 /\ dirty_tx = 0 /\ isr.left = 0 /\ (isr.pc = "reap" => isr.dirty = 0)
  /\ isr.pc = "idle" => isr.left = 0

IInv == Shape /\ Phases /\ Rings /\ Napi /\ Closed /\ MaskedRxIsPolled

\* Init establishes the invariant.
LEMMA IInvInit == Init => IInv
BY DEF Init, IInv, Shape, Phases, Starts, Rings, Napi, Closed, MaskedRxIsPolled, Awake,
        IsrIdle, PollIdle

\* The unsigned difference of two cleared counters is zero.
LEMMA LeadEmpty == Lead(0, 0) = 0
BY SMT, Rtl8139Assumption DEF Lead

\* The out-of-sync check of rtl8139_tx_interrupt leaves an empty ring alone.
LEMMA ResyncEmpty == cur_tx = 0 => Resync(0) = 0
BY LeadEmpty, Rtl8139Assumption DEF Resync

\* Counters stay integers under the unsigned arithmetic of the driver.
LEMMA ModInt == \A n \in Int : n % WIDTH \in Int
BY SMT, Rtl8139Assumption

\* A step of the chip that leaves ChipCmd and the mask alone, like the transmission
\* of a packet or the arrival of a frame, keeps the invariant.
LEMMA IInvSame ==
  ASSUME IInv,
         UNCHANGED <<ChipCmd, IntrMask, load, cur_tx, dirty_tx, rings, link, napi, xmit, isr, poll, worker, ctl>>
  PROVE  IInv'
<1>1. Shape'
  BY Zenon DEF IInv, Shape
<1>2. Phases' /\ Rings'
  BY Zenon DEF IInv, Phases, Rings, Starts
<1>3. Napi' /\ Closed'
  BY Zenon DEF IInv, Napi, Closed
<1>4. MaskedRxIsPolled'
  BY Zenon DEF IInv, MaskedRxIsPolled, Awake
<1> QED
  BY <1>1, <1>2, <1>3, <1>4, Zenon DEF IInv

\* rtl8139_hw_start goes on by one step; it enables the chip or disables it, and it
\* never masks the receive interrupts alone.
LEMMA HwStarts ==
  \A at, next : hw_start(at, next) =>
    /\ at \in Starts \ {"started"} /\ next \in Starts \ {"reset"}
    /\ ChipCmd' \in {ChipCmd, {}, {"tx", "rx"}} /\ IntrMask' \in {IntrMask, "none", "all"}
BY Zenon DEF hw_start, HwReset, HwEnable, HwUnmask, W, Starts

\* Every step of every context preserves the invariant.
LEMMA IInvNext == IInv /\ [Next]_vars => IInv'
<1> SUFFICES ASSUME IInv, [Next]_vars PROVE IInv'
  BY Zenon
<1> USE DEF IInv, Shape, Phases, Rings, Napi, Closed, MaskedRxIsPolled, Awake, LockFree,
            RxLockFree, RtnlFree, Running, IsrIdle, PollIdle, Starts, env,
            chip, tp, kernel, contexts
<1>1. CASE Open
  BY <1>1, Zenon DEF Open
<1>2. CASE OpenNoMem
  BY <1>2, Zenon DEF OpenNoMem
<1>3. CASE OpenAlloc
  BY <1>3, Zenon DEF OpenAlloc, tx_clear
<1>4. CASE CtlHwStart
  <2>1. /\ hw_start(ctl, ctl')
        /\ UNCHANGED <<env, tp, kernel, xmit, isr, poll, worker>>
    BY <1>4, Zenon DEF CtlHwStart
  <2>2. /\ ctl \in Starts \ {"started"} /\ ctl' \in Starts \ {"reset"}
        /\ ChipCmd' \in {ChipCmd, {}, {"tx", "rx"}} /\ IntrMask' \in {IntrMask, "none", "all"}
    BY <2>1, HwStarts, Zenon
  <2>3. ChipCmd' \in SUBSET {"tx", "rx"}
    BY <2>2, Zenon
  <2>4. Shape'
    BY <2>1, <2>3, Zenon
  <2>5. Phases' /\ Rings'
    BY <2>1, <2>2, Zenon
  <2>6. Napi' /\ Closed'
    BY <2>1, <2>2, Zenon
  <2>7. MaskedRxIsPolled'
    BY <2>1, <2>2, Zenon
  <2>8. QED
    BY <2>4, <2>5, <2>6, <2>7, Zenon
<1>5. CASE OpenDone
  BY <1>5, Zenon DEF OpenDone
<1>6. CASE Close
  BY <1>6, Zenon DEF Close
<1>7. CASE CloseNapi
  BY <1>7, Zenon DEF CloseNapi
<1>8. CASE CloseChip
  BY <1>8, Zenon DEF CloseChip
<1>9. CASE CloseFree
  BY <1>9, Zenon DEF CloseFree, tx_clear
<1>10. CASE Suspend
  BY <1>10, Zenon DEF Suspend
<1>11. CASE SuspendQuiet
  BY <1>11, Zenon DEF SuspendQuiet
<1>12. CASE ResumeWake
  BY <1>12, Zenon DEF ResumeWake
<1>13. CASE ResumeRing
  <2>1. /\ ctl = "r_ring" /\ ctl' = "reset" /\ cur_tx' = 0 /\ dirty_tx' = 0
        /\ UNCHANGED <<load, chip, rings, kernel, xmit, isr, poll, worker>>
    BY <1>13, Zenon DEF ResumeRing, tx_clear
  <2>2. Shape'
    BY <2>1
  <2>3. Phases' /\ Rings'
    BY <2>1, Zenon
  <2>4. Napi' /\ Closed' /\ MaskedRxIsPolled'
    BY <2>1, Zenon
  <2>5. QED
    BY <2>2, <2>3, <2>4, Zenon
<1>14. CASE ResumeAttach
  BY <1>14, Zenon DEF ResumeAttach
<1>15. CASE XmitCopy
  BY <1>15, Zenon DEF XmitCopy
<1>16. CASE XmitPost
  BY <1>16, ModInt DEF XmitPost, W
<1>17. CASE tx_timeout
  <2>1. UNCHANGED <<ChipCmd, IntrMask, load, cur_tx, dirty_tx, rings, link, napi, xmit, isr, poll, worker, ctl>>
    BY <1>17, Zenon DEF tx_timeout
  <2>2. QED
    BY <2>1, IInvSame, Zenon
<1>18. CASE thread
  <2>1. /\ UNCHANGED <<chip, load, cur_tx, dirty_tx, rings, link, napi, xmit, isr, poll, ctl>>
        /\ worker' # "idle" => link = "up"
    BY <1>18, Zenon DEF thread
  <2>2. QED
    BY <2>1, Zenon
<1>19. CASE TaskMask
  BY <1>19, Zenon DEF TaskMask, W
<1>20. CASE TaskClear
  BY <1>20, Zenon DEF TaskClear, tx_clear
<1>21. CASE TaskHwStart
  <2>1. /\ hw_start(worker, worker')
        /\ UNCHANGED <<env, tp, kernel, xmit, isr, poll, ctl>>
    BY <1>21, Zenon DEF TaskHwStart
  <2>2. /\ worker \in Starts \ {"started"} /\ worker' \in Starts \ {"reset"}
        /\ ChipCmd' \in {ChipCmd, {}, {"tx", "rx"}} /\ IntrMask' \in {IntrMask, "none", "all"}
    BY <2>1, HwStarts, Zenon
  <2>3. ChipCmd' \in SUBSET {"tx", "rx"}
    BY <2>2, Zenon
  <2>4. Shape'
    BY <2>1, <2>3, Zenon
  <2>5. Phases' /\ Rings'
    BY <2>1, <2>2, Zenon
  <2>6. Napi' /\ Closed'
    BY <2>1, <2>2, Zenon
  <2>7. MaskedRxIsPolled'
    BY <2>1, <2>2, Zenon
  <2>8. QED
    BY <2>4, <2>5, <2>6, <2>7, Zenon
<1>22. CASE TaskWake
  BY <1>22, Zenon DEF TaskWake
<1>23. CASE IsrNotRunning
  BY <1>23, Zenon DEF IsrNotRunning
<1>24. CASE Isr
  <2> DEFINE left == Lead(cur_tx, dirty_tx)
  <2>1. left \in Int
    BY ModInt DEF Lead
  <2>2. ~rings => left = 0
    BY LeadEmpty, Zenon
  <2>3. \/ isr' = IsrIdle
        \/ isr' = [pc |-> "reap", dirty |-> dirty_tx, left |-> left, err |-> "TxErr" \in IntrStatus]
    BY <1>24, Zenon DEF Isr
  <2> HIDE DEF left
  <2>4. UNCHANGED <<load, ChipCmd, cur_tx, dirty_tx, rings, link, xmit, poll, worker, ctl>>
    BY <1>24, Zenon DEF Isr
  <2>5. \/ UNCHANGED <<IntrMask, napi>>
        \/ napi = "idle" /\ napi' = "sched"
    BY <1>24, Zenon DEF Isr
  <2>6. CASE isr' = IsrIdle
    BY <2>4, <2>5, <2>6
  <2>7. CASE isr' = [pc |-> "reap", dirty |-> dirty_tx, left |-> left, err |-> "TxErr" \in IntrStatus]
    <3>1. /\ isr'.pc = "reap" /\ isr'.dirty = dirty_tx /\ isr'.left = left
          /\ isr' \in [pc : {"idle", "reap", "done"}, dirty : Int, left : Int, err : BOOLEAN]
      BY <2>1, <2>7
    <3>2. QED
      BY <2>2, <2>4, <2>5, <3>1, Zenon
  <2>8. QED
    BY <2>3, <2>6, <2>7, Zenon
<1>25. CASE IsrReap
  <2>1. /\ isr.left > 0 /\ isr.pc = "reap"
        /\ isr' = [isr EXCEPT !.dirty = (@ + 1) % WIDTH, !.left = @ - 1]
        /\ UNCHANGED <<load, ChipCmd, IntrMask, tp, kernel, xmit, poll, worker, ctl>>
    BY <1>25, Zenon DEF IsrReap
  <2>2. rings
    BY <2>1
  <2>3. isr.dirty + 1 \in Int /\ isr.left - 1 \in Int
    OBVIOUS
  <2>4. (isr.dirty + 1) % WIDTH \in Int
    BY <2>3, ModInt, Zenon
  <2>5. Shape' /\ isr'.pc = "reap"
    BY <2>1, <2>3, <2>4, Zenon
  <2>6. Phases' /\ Rings' /\ Napi'
    BY <2>1, Zenon
  <2>7. Closed' /\ MaskedRxIsPolled'
    BY <2>1, <2>2, <2>5, Zenon
  <2>8. QED
    BY <2>5, <2>6, <2>7, Zenon
<1>26. CASE IsrWake
  <2>1. /\ isr.pc = "reap" /\ dirty_tx' = Resync(isr.dirty)
        /\ isr' = [isr EXCEPT !.pc = "done"]
        /\ UNCHANGED <<load, chip, cur_tx, rings, link, napi, xmit, poll, worker, ctl>>
    BY <1>26, Zenon DEF IsrWake, LoopOver
  <2>2. Resync(isr.dirty) \in Int
    BY ModInt, Rtl8139Assumption DEF Resync
  <2>3. ~rings => Resync(isr.dirty) = 0
    BY <2>1, ResyncEmpty, Zenon
  <2>4. Shape' /\ isr'.pc = "done" /\ isr'.left = isr.left
    BY <2>1, <2>2, Zenon
  <2>5. QED
    BY <2>1, <2>3, <2>4, Zenon
<1>27. CASE IsrDone
  BY <1>27 DEF IsrDone, W
<1>28. CASE Poll
  BY <1>28 DEF Poll
<1>29. CASE RxFrame
  <2>1. /\ poll.pc = "rx" /\ poll' = [poll EXCEPT !.pc = "ack", !.received = @ + 1]
        /\ UNCHANGED <<load, ChipCmd, IntrMask, tp, kernel, xmit, isr, worker, ctl>>
    BY <1>29, Zenon DEF RxFrame
  <2>2. poll.received + 1 \in Int
    OBVIOUS
  <2>3. /\ poll'.pc = "ack"
        /\ poll' \in [pc : {"idle", "rx", "ack", "restart", "out", "complete"}, received : Int,
                      cmd : SUBSET {"tx", "rx"}]
    BY <2>1, <2>2, Zenon
  <2>4. QED
    BY <2>1, <2>3, Zenon
<1>30. CASE RxAck
  BY <1>30, Zenon DEF RxAck, isr_ack, W
<1>31. CASE RxErr
  BY <1>31 DEF RxErr
<1>32. CASE RxOut
  BY <1>32 DEF RxOut
<1>33. CASE PollComplete
  BY <1>33, Zenon DEF PollComplete, W
<1>34. CASE PollAgain
  BY <1>34 DEF PollAgain
<1>35. ASSUME NEW e \in Desc, NEW result \in {"ok", "abort"}, Sends(e, result) PROVE IInv'
  <2>1. UNCHANGED <<ChipCmd, IntrMask, load, cur_tx, dirty_tx, rings, link, napi, xmit, isr, poll, worker, ctl>>
    BY <1>35, Zenon DEF Sends, env
  <2>2. QED
    BY <2>1, IInvSame, Zenon
<1>36. CASE Arrives
  <2>1. UNCHANGED <<ChipCmd, IntrMask, load, cur_tx, dirty_tx, rings, link, napi, xmit, isr, poll, worker, ctl>>
    BY <1>36, Zenon DEF Arrives, env
  <2>2. QED
    BY <2>1, IInvSame, Zenon
<1>37. CASE UNCHANGED vars
  <2>1. UNCHANGED <<ChipCmd, IntrMask, load, cur_tx, dirty_tx, rings, link, napi, xmit, isr, poll, worker, ctl>>
    BY <1>37, Zenon DEF vars, chip, env
  <2>2. QED
    BY <2>1, IInvSame, Zenon
<1>38. CASE SuspendSleep
  BY <1>38, Zenon DEF SuspendSleep
<1>39. CASE XmitRaces
  <2>1. cur_tx' \in Int
    BY <1>39, ModInt DEF XmitRaces
  <2>2. QED
    BY <1>39, <2>1 DEF XmitRaces
<1>40. CASE TaskDisable
  BY <1>40, Zenon DEF TaskDisable, W
<1>41. CASE RxRestart
  BY <1>41, Zenon DEF RxRestart, W
<1>42. CASE RxOutAck
  BY <1>42, Zenon DEF RxOutAck, isr_ack, W
<1> HIDE DEF IInv, Shape, Phases, Rings, Napi, Closed, MaskedRxIsPolled, Awake, LockFree,
            RxLockFree, RtnlFree, Running, IsrIdle, PollIdle, Starts, env,
            chip, tp, kernel, contexts
<1>43. QED
  BY <1>1, <1>2, <1>3, <1>4, <1>5, <1>6, <1>7, <1>8, <1>9, <1>10, <1>11, <1>12, <1>13, <1>14, <1>15, <1>16, <1>17, <1>18, <1>19, <1>20, <1>21, <1>22, <1>23, <1>24, <1>25, <1>26, <1>27, <1>28, <1>29, <1>30, <1>31, <1>32, <1>33, <1>34, <1>35, <1>36, <1>37, <1>38, <1>39, <1>40, <1>41, <1>42, Zenon DEF Next, Opening, Closing, Task, Handler, Polling

\* rtl8139_interrupt masks the receive interrupts only together with scheduling
\* the poll that unmasks them: the device never goes deaf.
THEOREM MaskedRx == Spec => []MaskedRxIsPolled
<1>1. IInv => MaskedRxIsPolled
  BY Zenon DEF IInv
<1>2. QED
  BY IInvInit, IInvNext, <1>1, PTL DEF Spec

\* When rtl8139_close has freed the rings, no context and not the chip uses them.
THEOREM FreedRings == Spec => []FreedRingsUnused
<1>1. IInv => FreedRingsUnused
  BY Zenon DEF IInv, FreedRingsUnused, Rings, Napi, Closed, Phases
<1>2. QED
  BY IInvInit, IInvNext, <1>1, PTL DEF Spec

-----------------------------------------------------------------------------
(* The transmit counters.  cur_tx and dirty_tx wrap around at WIDTH, so that *)
(* "dirty_tx is not ahead" is a statement about their unsigned difference:   *)
(* InStep adds what a transmission and a handler under way know of it.       *)

InStep ==
  /\ Lead(cur_tx, dirty_tx) <= MaxLead
  /\ xmit # -1 => Lead(cur_tx, dirty_tx) < MaxLead
  /\ isr.pc = "reap" => /\ isr.left = Lead(cur_tx, isr.dirty)
                        /\ isr.left <= Lead(cur_tx, dirty_tx)

Counters == ~torn => InStep

\* The values the reset of a counter, of the ring or of a context leaves.
LEMMA Zeros ==
  /\ 0 \in 0 .. WIDTH - 1 /\ 0 \in 0 .. RxRing
  /\ 0 \in -1 .. Budget /\ -1 \in -1 .. Budget
  /\ 0 <= MaxLead /\ 0 < MaxLead
BY Rtl8139Assumption

\* Reduction modulo WIDTH leaves a counter alone,
LEMMA Unwrapped == \A n \in 0 .. WIDTH - 1 : n % WIDTH = n
BY Rtl8139Assumption

\* takes WIDTH from one that has passed its largest value,
LEMMA Wrapped == \A n \in WIDTH .. 2 * WIDTH - 1 : n % WIDTH = n - WIDTH
BY Rtl8139Assumption

\* and adds WIDTH to a negative difference.
LEMMA Borrowed == \A n \in (-WIDTH) .. -1 : n % WIDTH = n + WIDTH
BY Rtl8139Assumption

\* The unsigned difference of two counters, by which of them is the larger.
LEMMA LeadIs ==
  \A c, d \in 0 .. WIDTH - 1 :
    /\ Lead(c, d) = IF d <= c THEN c - d ELSE c - d + WIDTH
    /\ Lead(c, d) \in 0 .. WIDTH - 1
<1> SUFFICES ASSUME NEW c \in 0 .. WIDTH - 1, NEW d \in 0 .. WIDTH - 1
             PROVE  /\ Lead(c, d) = IF d <= c THEN c - d ELSE c - d + WIDTH
                    /\ Lead(c, d) \in 0 .. WIDTH - 1
  BY Zenon
<1>1. CASE d <= c
  <2>1. c - d \in 0 .. WIDTH - 1
    BY <1>1, Rtl8139Assumption
  <2>2. Lead(c, d) = c - d
    BY <2>1, Unwrapped, Zenon DEF Lead
  <2>3. QED
    BY <1>1, <2>1, <2>2, Zenon
<1>2. CASE ~(d <= c)
  <2>1. c - d \in (-WIDTH) .. -1 /\ c - d + WIDTH \in 0 .. WIDTH - 1
    BY <1>2, Rtl8139Assumption
  <2>2. Lead(c, d) = c - d + WIDTH
    BY <2>1, Borrowed, Zenon DEF Lead
  <2>3. QED
    BY <1>2, <2>1, <2>2, Zenon
<1>3. QED
  BY <1>1, <1>2, Zenon

\* A counter that moves on, by one or by the ring's size, stays a counter.
LEMMA Moves ==
  \A n \in 0 .. WIDTH - 1, k \in 0 .. WIDTH - 1 :
    /\ (n + k) % WIDTH = IF n + k < WIDTH THEN n + k ELSE (n + k) - WIDTH
    /\ (n + k) % WIDTH \in 0 .. WIDTH - 1
<1> SUFFICES ASSUME NEW n \in 0 .. WIDTH - 1, NEW k \in 0 .. WIDTH - 1
             PROVE  /\ (n + k) % WIDTH = IF n + k < WIDTH THEN n + k ELSE (n + k) - WIDTH
                    /\ (n + k) % WIDTH \in 0 .. WIDTH - 1
  BY Zenon
<1>1. CASE n + k < WIDTH
  <2>1. n + k \in 0 .. WIDTH - 1
    BY <1>1, Rtl8139Assumption
  <2>2. QED
    BY <1>1, <2>1, Unwrapped, Zenon
<1>2. CASE ~(n + k < WIDTH)
  <2>1. n + k \in WIDTH .. 2 * WIDTH - 1 /\ (n + k) - WIDTH \in 0 .. WIDTH - 1
    BY <1>2, Rtl8139Assumption
  <2>2. (n + k) % WIDTH = (n + k) - WIDTH
    BY <2>1, Wrapped, Zenon
  <2>3. QED
    BY <1>2, <2>1, <2>2, Zenon
<1>3. QED
  BY <1>1, <1>2, Zenon

\* rtl8139_start_xmit: a posted packet adds one to the difference.
LEMMA LeadPost ==
  \A c, d \in 0 .. WIDTH - 1 :
    Lead(c, d) < MaxLead => Lead((c + 1) % WIDTH, d) = Lead(c, d) + 1
<1> SUFFICES ASSUME NEW c \in 0 .. WIDTH - 1, NEW d \in 0 .. WIDTH - 1, Lead(c, d) < MaxLead
             PROVE  Lead((c + 1) % WIDTH, d) = Lead(c, d) + 1
  BY Zenon
<1> DEFINE c1 == (c + 1) % WIDTH
<1>1. 1 \in 0 .. WIDTH - 1
  BY Rtl8139Assumption
<1>2. c1 = (IF c + 1 < WIDTH THEN c + 1 ELSE (c + 1) - WIDTH) /\ c1 \in 0 .. WIDTH - 1
  BY <1>1, Moves, Zenon
<1> HIDE DEF c1
<1>3. Lead(c1, d) = IF d <= c1 THEN c1 - d ELSE c1 - d + WIDTH
  BY <1>2, LeadIs, Zenon
<1>4. Lead(c, d) = IF d <= c THEN c - d ELSE c - d + WIDTH
  BY LeadIs, Zenon
<1>5. Lead(c1, d) = Lead(c, d) + 1
  BY <1>2, <1>3, <1>4, Rtl8139Assumption
<1>6. QED
  BY <1>5, Zenon DEF c1

\* rtl8139_tx_interrupt: the dirty pointer moved on by k lowers the difference.
LEMMA LeadReap ==
  \A c, d, k \in 0 .. WIDTH - 1 :
    k <= Lead(c, d) => Lead(c, (d + k) % WIDTH) = Lead(c, d) - k
<1> SUFFICES ASSUME NEW c \in 0 .. WIDTH - 1, NEW d \in 0 .. WIDTH - 1, NEW k \in 0 .. WIDTH - 1,
                    k <= Lead(c, d)
             PROVE  Lead(c, (d + k) % WIDTH) = Lead(c, d) - k
  BY Zenon
<1> DEFINE d1 == (d + k) % WIDTH
<1>1. d1 = (IF d + k < WIDTH THEN d + k ELSE (d + k) - WIDTH) /\ d1 \in 0 .. WIDTH - 1
  BY Moves, Zenon
<1> HIDE DEF d1
<1>2. Lead(c, d1) = IF d1 <= c THEN c - d1 ELSE c - d1 + WIDTH
  BY <1>1, LeadIs, Zenon
<1>3. Lead(c, d) = IF d <= c THEN c - d ELSE c - d + WIDTH
  BY LeadIs, Zenon
<1>4. Lead(c, d1) = Lead(c, d) - k
  BY <1>1, <1>2, <1>3, Rtl8139Assumption
<1>5. QED
  BY <1>4, Zenon DEF d1

\* The out-of-sync check moves the dirty pointer towards cur_tx, never past it.
LEMMA ResyncLead ==
  ASSUME cur_tx \in 0 .. WIDTH - 1, NEW d \in 0 .. WIDTH - 1
  PROVE  Resync(d) \in 0 .. WIDTH - 1 /\ Lead(cur_tx, Resync(d)) <= Lead(cur_tx, d)
<1>1. NUM_TX_DESC \in 0 .. WIDTH - 1
  BY Rtl8139Assumption
<1>2. Lead(cur_tx, d) \in 0 .. WIDTH - 1
  BY LeadIs, Zenon
<1>3. CASE Lead(cur_tx, d) > NUM_TX_DESC
  <2>1. Resync(d) = (d + NUM_TX_DESC) % WIDTH
    BY <1>3, Zenon DEF Resync
  <2>2. NUM_TX_DESC <= Lead(cur_tx, d)
    BY <1>1, <1>2, <1>3
  <2>3. Lead(cur_tx, (d + NUM_TX_DESC) % WIDTH) = Lead(cur_tx, d) - NUM_TX_DESC
    BY <1>1, <2>2, LeadReap, Zenon
  <2>4. (d + NUM_TX_DESC) % WIDTH \in 0 .. WIDTH - 1
    BY <1>1, Moves, Zenon
  <2>5. Lead(cur_tx, d) - NUM_TX_DESC <= Lead(cur_tx, d)
    BY <1>1, <1>2
  <2>6. QED
    BY <2>1, <2>3, <2>4, <2>5, Zenon
<1>4. CASE ~(Lead(cur_tx, d) > NUM_TX_DESC)
  <2>1. Resync(d) = d
    BY <1>4, Zenon DEF Resync
  <2>2. QED
    BY <1>2, <2>1
<1>5. QED
  BY <1>3, <1>4, Zenon

\* The entry of a counter is a descriptor.
LEMMA EntryDesc == \A n \in 0 .. WIDTH - 1 : Entry(n) \in Desc
BY Rtl8139Assumption DEF Entry, Desc

\* TypeOK with a name for every type, so that a step need only look into the types of
\* what it changes.
Status == {"host", "queued", "ok", "abort"}
Commands == SUBSET {"tx", "rx"}
Events == SUBSET {"RxOK", "TxOK", "TxErr"}
Masks == {"none", "norx", "all"}
Flag == BOOLEAN
Frames == 0 .. RxRing
Counter == 0 .. WIDTH - 1
Links == {"down", "opening", "up", "closing"}
Napis == {"off", "idle", "sched", "poll"}
Workers == {"idle", "disable", "mask", "clear", "reset", "enable", "unmask", "started"}
Ctls == {"idle", "o_alloc", "c_napi", "c_chip", "c_free", "s_quiet", "s_sleep", "asleep",
         "r_ring", "reset", "enable", "unmask", "started"}
Entries == Desc \cup {-1}
Handlers == [pc : {"idle", "reap", "done"}, dirty : 0 .. WIDTH - 1,
             left : 0 .. WIDTH - 1, err : BOOLEAN]
Polls == [pc : {"idle", "rx", "ack", "restart", "out", "complete"},
          received : -1 .. Budget, cmd : SUBSET {"tx", "rx"}]

Typed ==
  /\ TxStatus \in [Desc -> Status] /\ ChipCmd \in Commands /\ halted \in Flag
  /\ rx \in Frames /\ IntrStatus \in Events /\ IntrMask \in Masks
  /\ cur_tx \in Counter /\ dirty_tx \in Counter
  /\ watchdog_fired \in Flag /\ have_thread \in Flag /\ rings \in Flag
  /\ present \in Flag /\ stopped \in Flag /\ irq \in Flag /\ work \in Flag /\ torn \in Flag
  /\ link \in Links /\ napi \in Napis /\ xmit \in Entries
  /\ isr \in Handlers /\ poll \in Polls /\ worker \in Workers /\ ctl \in Ctls

\* The two forms of the type invariant agree.
LEMMA TypedIs == TypeOK <=> Typed
<1>1. TypeOK => Typed
  BY Zenon DEF TypeOK, Typed, Status, Commands, Events, Masks, Flag, Frames, Counter, Links,
               Napis, Workers, Ctls, Entries, Handlers, Polls
<1>2. Typed => TypeOK
  BY Zenon DEF TypeOK, Typed, Status, Commands, Events, Masks, Flag, Frames, Counter, Links,
               Napis, Workers, Ctls, Entries, Handlers, Polls
<1>3. QED
  BY <1>1, <1>2, Zenon

\* The values the contexts and the chip store have the type of what they are stored in.
LEMMA Values ==
  /\ [e \in Desc |-> "host"] \in [Desc -> Status]
  /\ {} \in Commands /\ {"tx", "rx"} \in Commands /\ {"rx"} \in Commands
  /\ {} \in Events /\ TRUE \in Flag /\ FALSE \in Flag
  /\ "none" \in Masks /\ "norx" \in Masks /\ "all" \in Masks
  /\ 0 \in Frames /\ 0 \in Counter /\ -1 \in Entries
<1>1. [e \in Desc |-> "host"] \in [Desc -> Status]
  BY Zenon DEF Status
<1>2. /\ {} \in Commands /\ {"tx", "rx"} \in Commands /\ {"rx"} \in Commands
      /\ {} \in Events /\ TRUE \in Flag /\ FALSE \in Flag
  BY Zenon DEF Commands, Events, Flag
<1>3. /\ "none" \in Masks /\ "norx" \in Masks /\ "all" \in Masks
      /\ 0 \in Frames /\ 0 \in Counter /\ -1 \in Entries
  BY Zeros, Zenon DEF Masks, Frames, Counter, Entries
<1>4. QED
  BY <1>1, <1>2, <1>3, Zenon

\* The phases of the link, of NAPI and of the contexts are among the ones listed.
LEMMA Places ==
  /\ "down" \in Links /\ "opening" \in Links /\ "up" \in Links /\ "closing" \in Links
  /\ "off" \in Napis /\ "idle" \in Napis /\ "sched" \in Napis /\ "poll" \in Napis
  /\ "idle" \in Workers /\ "disable" \in Workers /\ "mask" \in Workers
  /\ "clear" \in Workers /\ Starts \subseteq Workers /\ "reset" \in Workers
  /\ "idle" \in Ctls /\ "o_alloc" \in Ctls /\ "c_napi" \in Ctls /\ "c_chip" \in Ctls
  /\ "c_free" \in Ctls /\ "s_quiet" \in Ctls /\ "s_sleep" \in Ctls /\ "asleep" \in Ctls
  /\ "r_ring" \in Ctls /\ Starts \subseteq Ctls /\ "reset" \in Ctls
BY Zenon DEF Links, Napis, Workers, Ctls, Starts

\* The contexts at rest, and acknowledging events leaves a set of events.
LEMMA AtRest ==
  /\ IsrIdle \in Handlers /\ PollIdle \in Polls
  /\ \A t : \A s \in Events : s \ t \in Events
<1>1. IsrIdle \in Handlers
  BY Zeros, Zenon DEF IsrIdle, Handlers
<1>2. PollIdle \in Polls
  BY Zeros, Zenon DEF PollIdle, Polls
<1>3. \A t : \A s \in Events : s \ t \in Events
  BY Zenon DEF Events
<1>4. QED
  BY <1>1, <1>2, <1>3, Zenon

\* rtl8139_hw_start leaves registers of the right types, and its next step.
LEMMA HwStartTypes ==
  ASSUME Typed
  PROVE  \A at, next : hw_start(at, next) =>
           /\ TxStatus' \in [Desc -> Status] /\ ChipCmd' \in Commands /\ halted' \in Flag
           /\ rx' \in Frames /\ IntrStatus' \in Events /\ IntrMask' \in Masks
           /\ next \in Workers /\ next \in Ctls
BY Values, Zenon DEF Typed, hw_start, HwReset, HwEnable, HwUnmask, W, Workers, Ctls

\* Init gives every variable its type, and the counters are cleared.
LEMMA TypesInit == Init => Typed /\ Counters
<1> SUFFICES ASSUME Init PROVE Typed /\ Counters
  BY Zenon
<1>1. Typed
  BY Values, Places, AtRest, Zenon DEF Init, Typed
<1>2. Counters
  BY LeadEmpty, Zeros, Zenon DEF Init, Counters, InStep, IsrIdle
<1>3. QED
  BY <1>1, <1>2, Zenon

\* Every step of every context keeps the types.
LEMMA TypesNext == Typed /\ [Next]_vars => Typed'
<1> SUFFICES ASSUME Typed, [Next]_vars PROVE Typed'
  BY Zenon
<1> USE DEF Typed, chip, tp, kernel, contexts, env
<1>1. CASE Open
  BY <1>1, Values, Places, AtRest, Zenon DEF Open
<1>2. CASE OpenNoMem
  BY <1>2, Values, Places, AtRest, Zenon DEF OpenNoMem
<1>3. CASE OpenAlloc
  BY <1>3, Values, Places, AtRest, Zenon DEF OpenAlloc, tx_clear
<1>4. CASE CtlHwStart
  <2>1. /\ hw_start(ctl, ctl')
        /\ UNCHANGED <<env, tp, kernel, xmit, isr, poll, worker>>
    BY <1>4, Zenon DEF CtlHwStart
  <2>2. QED
    BY <2>1, HwStartTypes, Zenon DEF env
<1>5. CASE OpenDone
  BY <1>5, Values, Places, AtRest, Zenon DEF OpenDone
<1>6. CASE Close
  BY <1>6, Values, Places, AtRest, Zenon DEF Close
<1>7. CASE CloseNapi
  BY <1>7, Values, Places, AtRest, Zenon DEF CloseNapi
<1>8. CASE CloseChip
  BY <1>8, Values, Places, AtRest, Zenon DEF CloseChip
<1>9. CASE CloseFree
  BY <1>9, Values, Places, AtRest, Zenon DEF CloseFree, tx_clear
<1>10. CASE Suspend
  BY <1>10, Values, Places, AtRest, Zenon DEF Suspend
<1>11. CASE SuspendQuiet
  BY <1>11, Values, Places, AtRest, Zenon DEF SuspendQuiet
<1>12. CASE ResumeWake
  BY <1>12, Values, Places, AtRest, Zenon DEF ResumeWake
<1>13. CASE ResumeRing
  <2>1. torn' \in Flag
    BY <1>13, Zenon DEF ResumeRing, Flag
  <2>2. QED
    BY <1>13, <2>1, Values, Places, Zenon DEF ResumeRing, tx_clear
<1>14. CASE ResumeAttach
  BY <1>14, Values, Places, AtRest, Zenon DEF ResumeAttach
<1>15. CASE XmitCopy
  <2>1. Entry(cur_tx) \in Entries
    BY EntryDesc, Zenon DEF Entries, Counter
  <2>2. QED
    BY <1>15, <2>1, Zenon DEF XmitCopy
<1>16. CASE XmitPost
  <2>1. 1 \in 0 .. WIDTH - 1
    BY Rtl8139Assumption
  <2>2. (cur_tx + 1) % WIDTH \in Counter
    BY <2>1, Moves, Zenon DEF Counter
  <2>3. [TxStatus EXCEPT ![xmit] = "queued"] \in [Desc -> Status]
    BY Zenon DEF Status
  <2>4. stopped' \in Flag
    BY <1>16, Zenon DEF XmitPost, Flag
  <2>5. QED
    BY <1>16, <2>2, <2>3, <2>4, Values, Zenon DEF XmitPost, W
<1>17. CASE tx_timeout
  <2>1. work' \in Flag
    BY <1>17, Zenon DEF tx_timeout, Flag
  <2>2. QED
    BY <1>17, <2>1, Values, Zenon DEF tx_timeout
<1>18. CASE thread
  <2>1. work' \in Flag
    BY <1>18, Zenon DEF thread, Flag
  <2>2. watchdog_fired' \in Flag /\ worker' \in Workers
    BY <1>18, Values, Places, Zenon DEF thread
  <2>3. QED
    BY <1>18, <2>1, <2>2, Zenon DEF thread
<1>19. CASE TaskMask
  BY <1>19, Values, Places, AtRest, Zenon DEF TaskMask, W
<1>20. CASE TaskClear
  BY <1>20, Values, Places, AtRest, Zenon DEF TaskClear, tx_clear
<1>21. CASE TaskHwStart
  <2>1. /\ hw_start(worker, worker')
        /\ UNCHANGED <<env, tp, kernel, xmit, isr, poll, ctl>>
    BY <1>21, Zenon DEF TaskHwStart
  <2>2. QED
    BY <2>1, HwStartTypes, Zenon DEF env
<1>22. CASE TaskWake
  <2>1. work' \in Flag
    BY <1>22, Zenon DEF TaskWake, Flag
  <2>2. QED
    BY <1>22, <2>1, Values, Places, Zenon DEF TaskWake
<1>23. CASE IsrNotRunning
  BY <1>23, Values, Places, AtRest, Zenon DEF IsrNotRunning
<1>24. CASE Isr
  <2>1. Lead(cur_tx, dirty_tx) \in 0 .. WIDTH - 1
    BY LeadIs, Zenon DEF Counter
  <2>2. [pc |-> "reap", dirty |-> dirty_tx, left |-> Lead(cur_tx, dirty_tx),
         err |-> "TxErr" \in IntrStatus] \in Handlers
    BY <2>1 DEF Handlers, Counter
  <2>3. isr' \in Handlers
    BY <1>24, <2>2, AtRest, Zenon DEF Isr
  <2>4. IntrMask' \in Masks /\ napi' \in Napis /\ IntrStatus' \in Events
    BY <1>24, Values, Places, AtRest, Zenon DEF Isr
  <2>5. QED
    BY <1>24, <2>3, <2>4, Zenon DEF Isr
<1>25. CASE IsrReap
  <2>1. 1 \in 0 .. WIDTH - 1
    BY Rtl8139Assumption
  <2>2. isr.dirty \in 0 .. WIDTH - 1 /\ isr.left \in 0 .. WIDTH - 1
    BY Zenon DEF Handlers
  <2>3. (isr.dirty + 1) % WIDTH \in 0 .. WIDTH - 1
    BY <2>1, <2>2, Moves, Zenon
  <2>4. isr.left > 0
    BY <1>25, Zenon DEF IsrReap
  <2>5. isr.left - 1 \in 0 .. WIDTH - 1
    BY <2>2, <2>4, Rtl8139Assumption
  <2>6. isr' \in Handlers
    BY <1>25, <2>3, <2>5, Zenon DEF IsrReap, Handlers
  <2>7. halted' \in Flag /\ IntrStatus' \in Events
    BY <1>25, Values, AtRest, Zenon DEF IsrReap, W
  <2>8. QED
    BY <1>25, <2>6, <2>7, Zenon DEF IsrReap
<1>26. CASE IsrWake
  <2>1. isr.dirty \in 0 .. WIDTH - 1 /\ cur_tx \in 0 .. WIDTH - 1
    BY Zenon DEF Handlers, Counter
  <2>2. Resync(isr.dirty) \in Counter
    BY <2>1, ResyncLead, Zenon DEF Counter
  <2>3. isr' \in Handlers
    BY <1>26, Zenon DEF IsrWake, LoopOver, Handlers
  <2>4. stopped' \in Flag
    BY <1>26, Zenon DEF IsrWake, LoopOver, Flag
  <2>5. QED
    BY <1>26, <2>2, <2>3, <2>4, Zenon DEF IsrWake, LoopOver
<1>27. CASE IsrDone
  BY <1>27, Values, Places, AtRest, Zenon DEF IsrDone, W
<1>28. CASE Poll
  <2>1. poll' \in Polls
    BY <1>28, AtRest, Zenon DEF Poll, Polls
  <2>2. QED
    BY <1>28, <2>1, Places, Zenon DEF Poll
<1>29. CASE RxFrame
  <2>1. rx > 0 /\ poll.received < Budget
    BY <1>29, Zenon DEF RxFrame, RxLoops
  <2>2. poll.received \in -1 .. Budget /\ rx \in 0 .. RxRing
    BY Zenon DEF Polls, Frames
  <2>3. rx - 1 \in 0 .. RxRing /\ poll.received + 1 \in -1 .. Budget
    BY <2>1, <2>2, Rtl8139Assumption
  <2>4. rx' \in Frames /\ poll' \in Polls
    BY <1>29, <2>3, Zenon DEF RxFrame, Frames, Polls
  <2>5. QED
    BY <1>29, <2>4, Zenon DEF RxFrame
<1>30. CASE RxAck
  <2>1. poll' \in Polls
    BY <1>30, Zenon DEF RxAck, Polls
  <2>2. QED
    BY <1>30, <2>1, AtRest, Zenon DEF RxAck, isr_ack, W
<1>31. CASE RxErr
  <2>1. poll' \in Polls
    BY <1>31, Zeros, Zenon DEF RxErr, Polls, Commands
  <2>2. QED
    BY <1>31, <2>1, Zenon DEF RxErr
<1>32. CASE RxOut
  <2>1. poll' \in Polls
    BY <1>32, Zenon DEF RxOut, Polls
  <2>2. QED
    BY <1>32, <2>1, Zenon DEF RxOut
<1>33. CASE PollComplete
  BY <1>33, Values, Places, AtRest, Zenon DEF PollComplete, W
<1>34. CASE PollAgain
  BY <1>34, Values, Places, AtRest, Zenon DEF PollAgain
<1>35. ASSUME NEW e \in Desc, NEW result \in {"ok", "abort"}, Sends(e, result) PROVE Typed'
  <2>1. TxStatus' \in [Desc -> Status]
    BY <1>35, Zenon DEF Sends, Status
  <2>2. halted' \in Flag
    BY <1>35, Zenon DEF Sends, Flag
  <2>3. IntrStatus' \in Events
    BY <1>35, Zenon DEF Sends, Events
  <2>4. QED
    BY <1>35, <2>1, <2>2, <2>3, Zenon DEF Sends
<1>36. CASE Arrives
  <2>1. (IF rx < RxRing THEN rx + 1 ELSE rx) \in Frames
    BY Rtl8139Assumption DEF Frames
  <2>2. IntrStatus \cup {"RxOK"} \in Events
    BY Zenon DEF Events
  <2>3. QED
    BY <1>36, <2>1, <2>2, Zenon DEF Arrives
<1>37. CASE UNCHANGED vars
  BY <1>37, Zenon DEF vars
<1>38. CASE SuspendSleep
  BY <1>38, Places, Zenon DEF SuspendSleep
<1>39. CASE XmitRaces
  <2>1. 1 \in 0 .. WIDTH - 1
    BY Rtl8139Assumption
  <2>2. (cur_tx + 1) % WIDTH \in Counter
    BY <2>1, Moves, Zenon DEF Counter
  <2>3. cur_tx' \in Counter
    BY <1>39, <2>1, <2>2, Values, Zenon DEF XmitRaces, Counter
  <2>4. [TxStatus EXCEPT ![xmit] = "queued"] \in [Desc -> Status]
    BY Zenon DEF Status
  <2>5. stopped' \in Flag
    BY <1>39, Zenon DEF XmitRaces, Flag
  <2>6. QED
    BY <1>39, <2>3, <2>4, <2>5, Values, Places, Zenon DEF XmitRaces
<1>40. CASE TaskDisable
  BY <1>40, Values, Places, Zenon DEF TaskDisable, W
<1>41. CASE RxRestart
  <2>1. poll.cmd \in Commands
    BY Zenon DEF Polls, Commands
  <2>2. poll' \in Polls
    BY <1>41, Zenon DEF RxRestart, Polls
  <2>3. QED
    BY <1>41, <2>1, <2>2, Values, Zenon DEF RxRestart, W
<1>42. CASE RxOutAck
  <2>1. poll' \in Polls
    BY <1>42, Zenon DEF RxOutAck, Polls
  <2>2. QED
    BY <1>42, <2>1, AtRest, Zenon DEF RxOutAck, isr_ack, W
<1>43. QED
  BY <1>1, <1>2, <1>3, <1>4, <1>5, <1>6, <1>7, <1>8, <1>9, <1>10, <1>11, <1>12, <1>13, <1>14, <1>15, <1>16, <1>17, <1>18, <1>19, <1>20, <1>21, <1>22, <1>23, <1>24, <1>25, <1>26, <1>27, <1>28, <1>29, <1>30, <1>31, <1>32, <1>33, <1>34, <1>35, <1>36, <1>37, <1>38, <1>39, <1>40, <1>41, <1>42, Zenon DEF Next, Opening, Closing, Task, Handler, Polling

\* Every step keeps the difference of the counters within its bound: tp->lock keeps
\* them still while the handler reaps, and open finds them cleared.
LEMMA CountersNext == IInv /\ Typed /\ Counters /\ [Next]_vars => Counters'
<1> SUFFICES ASSUME IInv, Typed, Counters, [Next]_vars, ~torn' PROVE InStep'
  BY Zenon DEF Counters
<1> USE DEF Counters, InStep, LockFree, RxLockFree, IsrIdle, chip, tp, kernel, contexts, env
<1>1. CASE Open
  BY <1>1, Zenon DEF Open
<1>2. CASE OpenNoMem
  BY <1>2, Zenon DEF OpenNoMem
<1>3. CASE OpenAlloc
  <2>1. ~rings /\ link = "opening" /\ xmit = -1
    BY <1>3, Zenon DEF OpenAlloc, IInv, Phases, Starts, Rings
  <2>2. cur_tx = 0 /\ dirty_tx = 0
    BY <2>1, Zenon DEF IInv, Closed
  <2>3. UNCHANGED <<torn, cur_tx, dirty_tx, xmit, isr>>
    BY <1>3, <2>2, Zenon DEF OpenAlloc, tx_clear
  <2>4. QED
    BY <2>3, Zenon
<1>4. CASE CtlHwStart
  BY <1>4, Zenon DEF CtlHwStart
<1>5. CASE OpenDone
  BY <1>5, Zenon DEF OpenDone
<1>6. CASE Close
  BY <1>6, Zenon DEF Close
<1>7. CASE CloseNapi
  BY <1>7, Zenon DEF CloseNapi
<1>8. CASE CloseChip
  BY <1>8, Zenon DEF CloseChip
<1>9. CASE CloseFree
  BY <1>9, LeadEmpty, Zeros, Zenon DEF CloseFree, tx_clear
<1>10. CASE Suspend
  BY <1>10, Zenon DEF Suspend
<1>11. CASE SuspendQuiet
  BY <1>11, Zenon DEF SuspendQuiet
<1>12. CASE ResumeWake
  BY <1>12, Zenon DEF ResumeWake
<1>13. CASE ResumeRing
  BY <1>13, LeadEmpty, Zeros, Zenon DEF ResumeRing, tx_clear
<1>14. CASE ResumeAttach
  BY <1>14, Zenon DEF ResumeAttach
<1>15. CASE XmitCopy
  <2>1. /\ Lead(cur_tx, dirty_tx) < load.lead /\ ~torn
        /\ UNCHANGED <<cur_tx, dirty_tx, isr>>
    BY <1>15, Zenon DEF XmitCopy
  <2>2. load.lead \in 0 .. MaxLead
    BY Rtl8139Assumption, Zenon DEF IInv, Shape
  <2>3. Lead(cur_tx, dirty_tx) \in 0 .. WIDTH - 1
    BY LeadIs, Zenon DEF Typed, Counter
  <2>4. Lead(cur_tx, dirty_tx) < MaxLead
    BY <2>1, <2>2, <2>3, Rtl8139Assumption
  <2>5. QED
    BY <2>1, <2>4, Zenon
<1>16. CASE XmitPost
  <2>1. /\ ~torn /\ isr.pc = "idle" /\ isr' = isr /\ dirty_tx' = dirty_tx /\ xmit' = -1 /\ xmit # -1
        /\ cur_tx' = (cur_tx + 1) % WIDTH
    BY <1>16, Zenon DEF XmitPost
  <2>2. cur_tx \in 0 .. WIDTH - 1 /\ dirty_tx \in 0 .. WIDTH - 1
    BY Zenon DEF Typed, Counter, Handlers
  <2>3. Lead(cur_tx', dirty_tx') = Lead(cur_tx, dirty_tx) + 1
    BY <2>1, <2>2, LeadPost, Zenon
  <2>4. Lead(cur_tx, dirty_tx) \in Int
    BY <2>2, LeadIs
  <2>5. Lead(cur_tx, dirty_tx) + 1 <= MaxLead
    BY <2>1, <2>4, Rtl8139Assumption
  <2>6. isr'.pc # "reap"
    BY <2>1, Zenon
  <2>7. QED
    BY <2>1, <2>3, <2>5, <2>6, Zenon
<1>17. CASE tx_timeout
  BY <1>17, Zenon DEF tx_timeout
<1>18. CASE thread
  BY <1>18, Zenon DEF thread
<1>19. CASE TaskMask
  BY <1>19, Zenon DEF TaskMask, W
<1>20. CASE TaskClear
  BY <1>20, LeadEmpty, Zeros, Zenon DEF TaskClear, tx_clear
<1>21. CASE TaskHwStart
  BY <1>21, Zenon DEF TaskHwStart
<1>22. CASE TaskWake
  BY <1>22, Zenon DEF TaskWake
<1>23. CASE IsrNotRunning
  BY <1>23, Zenon DEF IsrNotRunning
<1>24. CASE Isr
  <2>1. UNCHANGED <<torn, cur_tx, dirty_tx, xmit>>
    BY <1>24, Zenon DEF Isr
  <2>2. \/ isr' = IsrIdle
        \/ isr' = [pc |-> "reap", dirty |-> dirty_tx, left |-> Lead(cur_tx, dirty_tx),
                   err |-> "TxErr" \in IntrStatus]
    BY <1>24, Zenon DEF Isr
  <2>3. isr'.pc = "reap" => isr'.dirty = dirty_tx /\ isr'.left = Lead(cur_tx, dirty_tx)
    BY <2>2
  <2>4. Lead(cur_tx, dirty_tx) <= Lead(cur_tx, dirty_tx)
    BY LeadIs, Rtl8139Assumption DEF Typed, Counter
  <2>5. QED
    BY <2>1, <2>3, <2>4, Zenon
<1>25. CASE IsrReap
  <2>1. /\ isr.pc = "reap" /\ isr.left > 0
        /\ isr' = [isr EXCEPT !.dirty = (@ + 1) % WIDTH, !.left = @ - 1]
        /\ UNCHANGED <<torn, cur_tx, dirty_tx, xmit>>
    BY <1>25, Zenon DEF IsrReap
  <2>2. /\ cur_tx \in 0 .. WIDTH - 1 /\ dirty_tx \in 0 .. WIDTH - 1
        /\ isr.dirty \in 0 .. WIDTH - 1 /\ isr.left \in 0 .. WIDTH - 1
        /\ isr \in [pc : {"idle", "reap", "done"}, dirty : 0 .. WIDTH - 1,
                    left : 0 .. WIDTH - 1, err : BOOLEAN]
    BY Zenon DEF Typed, Counter, Handlers
  <2>3. isr'.dirty = (isr.dirty + 1) % WIDTH /\ isr'.left = isr.left - 1
    BY <2>1, <2>2, Zenon
  <2>4. isr.left = Lead(cur_tx, isr.dirty) /\ isr.left <= Lead(cur_tx, dirty_tx)
    BY <2>1, Zenon
  <2>5. 1 \in 0 .. WIDTH - 1 /\ 1 <= isr.left
    BY <2>1, <2>2, Rtl8139Assumption
  <2>6. Lead(cur_tx, (isr.dirty + 1) % WIDTH) = isr.left - 1
    <3>1. 1 <= Lead(cur_tx, isr.dirty)
      BY <2>4, <2>5, Zenon
    <3>2. Lead(cur_tx, (isr.dirty + 1) % WIDTH) = Lead(cur_tx, isr.dirty) - 1
      BY <2>2, <2>5, <3>1, LeadReap, Zenon
    <3>3. QED
      BY <2>4, <3>2, Zenon
  <2>7. Lead(cur_tx, dirty_tx) \in 0 .. WIDTH - 1
    BY <2>2, LeadIs, Zenon
  <2>8. isr.left - 1 <= Lead(cur_tx, dirty_tx)
    BY <2>2, <2>4, <2>7, Rtl8139Assumption
  <2>9. QED
    BY <2>1, <2>3, <2>6, <2>8, Zenon
<1>26. CASE IsrWake
  <2>1. /\ isr.pc = "reap" /\ dirty_tx' = Resync(isr.dirty)
        /\ isr' = [isr EXCEPT !.pc = "done"]
        /\ UNCHANGED <<torn, cur_tx, xmit>>
    BY <1>26, Zenon DEF IsrWake, LoopOver
  <2>2. /\ cur_tx \in 0 .. WIDTH - 1 /\ dirty_tx \in 0 .. WIDTH - 1
        /\ isr.dirty \in 0 .. WIDTH - 1
        /\ isr \in [pc : {"idle", "reap", "done"}, dirty : 0 .. WIDTH - 1,
                    left : 0 .. WIDTH - 1, err : BOOLEAN]
    BY Zenon DEF Typed, Counter, Handlers
  <2>3. isr'.pc = "done"
    BY <2>1, <2>2, Zenon
  <2>4. Lead(cur_tx, isr.dirty) <= Lead(cur_tx, dirty_tx)
    BY <2>1, Zenon
  <2>5. Resync(isr.dirty) \in 0 .. WIDTH - 1 /\ Lead(cur_tx, Resync(isr.dirty)) <= Lead(cur_tx, isr.dirty)
    BY <2>2, ResyncLead, Zenon
  <2> DEFINE now == Lead(cur_tx, dirty_tx)
             seen == Lead(cur_tx, isr.dirty)
             after == Lead(cur_tx, Resync(isr.dirty))
  <2>6. now \in Int /\ seen \in Int /\ after \in Int
    <3>1. now \in 0 .. WIDTH - 1 /\ seen \in 0 .. WIDTH - 1 /\ after \in 0 .. WIDTH - 1
      BY <2>2, <2>5, LeadIs, Zenon
    <3> HIDE DEF now, seen, after
    <3>2. QED
      BY <3>1
  <2>7. after <= seen /\ seen <= now /\ now <= MaxLead /\ (xmit # -1 => now < MaxLead)
    BY <2>1, <2>4, <2>5, Zenon
  <2> HIDE DEF now, seen, after
  <2>8. after <= MaxLead /\ (xmit # -1 => after < MaxLead)
    BY <2>6, <2>7, Rtl8139Assumption
  <2>9. Lead(cur_tx', dirty_tx') = after
    BY <2>1, Zenon DEF after
  <2>10. QED
    BY <2>1, <2>3, <2>8, <2>9, Zenon
<1>27. CASE IsrDone
  BY <1>27, Zenon DEF IsrDone, W
<1>28. CASE Poll
  BY <1>28, Zenon DEF Poll
<1>29. CASE RxFrame
  BY <1>29, Zenon DEF RxFrame
<1>30. CASE RxAck
  BY <1>30, Zenon DEF RxAck, isr_ack, W
<1>31. CASE RxErr
  BY <1>31, Zenon DEF RxErr
<1>32. CASE RxOut
  BY <1>32, Zenon DEF RxOut
<1>33. CASE PollComplete
  BY <1>33, Zenon DEF PollComplete, W
<1>34. CASE PollAgain
  BY <1>34, Zenon DEF PollAgain
<1>35. ASSUME NEW e \in Desc, NEW result \in {"ok", "abort"}, Sends(e, result) PROVE InStep'
  BY <1>35, Zenon DEF Sends
<1>36. CASE Arrives
  BY <1>36, Zenon DEF Arrives
<1>37. CASE UNCHANGED vars
  BY <1>37, Zenon DEF vars
<1>38. CASE SuspendSleep
  BY <1>38, Zenon DEF SuspendSleep
<1>39. CASE XmitRaces
  BY <1>39, Zenon DEF XmitRaces
<1>40. CASE TaskDisable
  BY <1>40, Zenon DEF TaskDisable
<1>41. CASE RxRestart
  BY <1>41, Zenon DEF RxRestart
<1>42. CASE RxOutAck
  BY <1>42, Zenon DEF RxOutAck, isr_ack
<1>43. QED
  BY <1>1, <1>2, <1>3, <1>4, <1>5, <1>6, <1>7, <1>8, <1>9, <1>10, <1>11, <1>12, <1>13, <1>14, <1>15, <1>16, <1>17, <1>18, <1>19, <1>20, <1>21, <1>22, <1>23, <1>24, <1>25, <1>26, <1>27, <1>28, <1>29, <1>30, <1>31, <1>32, <1>33, <1>34, <1>35, <1>36, <1>37, <1>38, <1>39, <1>40, <1>41, <1>42, Zenon DEF Next, Opening, Closing, Task, Handler, Polling

\* The fields of struct rtl8139_private and the chip's registers keep their types; in
\* particular a poll never handles more than its budget.
THEOREM Rtl8139TypeCorrect == Spec => []TypeOK
BY IInvInit, IInvNext, TypesInit, TypesNext, CountersNext, TypedIs, PTL DEF Spec

\* Whichever of the handler, the timeout task, open, close and resume reset or advance
\* the counters last, dirty_tx is never ahead of cur_tx, unless rtl8139_init_ring on
\* resume has met a handler or start_xmit that was using the counters.
THEOREM DirtyStaysBehind == Spec => []DirtyNotAhead
<1>1. Counters => DirtyNotAhead
  BY Zenon DEF Counters, InStep, DirtyNotAhead
<1>2. QED
  BY IInvInit, IInvNext, TypesInit, TypesNext, CountersNext, <1>1, PTL DEF Spec
=============================================================================
