-------------------------------- MODULE Sx8 ---------------------------------
(***************************************************************************)
(* driversuite/block/sx8: the Promise SX8 block driver, from the probe to  *)
(* the removal of one adapter.  The request functions of the port queues   *)
(* and of the out-of-band queue, and the interrupt handler, all run under  *)
(* host->lock; ending a request may start a stopped queue, whose request   *)
(* function then runs inside its caller.  Those calls are the frames of    *)
(* the stack; the adapter works on its own between any two steps, and the  *)
(* work item fsm_task takes the lock only to read and write host->state.   *)
(***************************************************************************)
EXTENDS Naturals, Integers, Sequences, FiniteSets, FiniteSetsExt

CONSTANTS
    CARM_MAX_PORTS, CARM_MAX_REQ, CARM_MAX_REQ_SG, CARM_MAX_HOST_SG, RMSG_Q_LEN,
    TAG_SPACE,      \* 32: TAG_DECODE keeps five bits of a tag
    WIDTH,          \* 2^32: the width of the unsigned counters
    MaxQueue,       \* the values of the module parameter max_queue to consider
    Request,        \* the requests there may be at one time: pairs <<port, number>>
    SgEntries,        \* the numbers of scatter/gather entries each may map to
    HwDepth,        \* messages the adapter queues before it says Q_FULL
    Scans,          \* the sets of ports a channel scan may report a disk on
    Arrays,         \* the ports the adapter has an array on
    MayUnbind       \* the adapter may be unbound from the driver

ASSUME Sx8Assumption ==
    /\ {CARM_MAX_PORTS, CARM_MAX_REQ, CARM_MAX_REQ_SG, CARM_MAX_HOST_SG,
        RMSG_Q_LEN, TAG_SPACE, WIDTH, HwDepth} \subseteq Nat \ {0}
    /\ Request \subseteq (0 .. CARM_MAX_PORTS - 1) \X Nat
    /\ SgEntries \in [Request -> SUBSET (1 .. CARM_MAX_REQ_SG)]
    /\ MaxQueue \subseteq 1 .. CARM_MAX_REQ
    /\ CARM_MAX_REQ_SG < CARM_MAX_HOST_SG
    /\ Scans \subseteq SUBSET (0 .. CARM_MAX_PORTS - 1)
    /\ Arrays \subseteq 0 .. CARM_MAX_PORTS - 1
    /\ MayUnbind \in BOOLEAN

Port    == 0 .. CARM_MAX_PORTS - 1
OOB     == CARM_MAX_PORTS               \* host->oob_q
Queue   == Port \cup {OOB}
Tag     == 0 .. CARM_MAX_REQ - 1
Special == <<OOB, 0>>                   \* the request of an out-of-band message

CARM_MAX_WAIT_Q    == CARM_MAX_PORTS + 1
CARM_MSG_LOW_WATER == CARM_MAX_REQ \div 4
CARM_SG_LOW_WATER  == CARM_MAX_HOST_SG \div 4

VARIABLES
    max_queue,      \* the module parameter, fixed when the module is loaded
    state,          \* host->state, without its prefix HST_
    cur_scan_dev, dev_present, dev_active,
    msg_alloc, n_msgs, hw_sg_used, req,
    wait_q, wait_q_prod, wait_q_cons, resp_idx,
    stopped, rqs, oob,      \* block layer: stopped queues, the requests in them
    stack,                  \* what runs under host->lock, innermost call first
    hw, busy, ring, ring_in, intr,  \* adapter: messages, responses, CARM_INT_STAT
    work, fsm,              \* the work item: pending, and its local variables
    pci, held, comp, up, cleaned    \* the probing thread; disks that are up

scan == <<cur_scan_dev, dev_present, dev_active>>
tags == <<msg_alloc, n_msgs, hw_sg_used, req>>
wait == <<wait_q, wait_q_prod, wait_q_cons, stopped>>
card == <<hw, busy, ring, ring_in, intr>>
bind == <<pci, held, comp, up, cleaned>>
vars == <<max_queue, state, scan, tags, wait, resp_idx, rqs, oob, stack, card, work, fsm, bind>>

\* A message in the adapter's memory, and the slots of the response ring.
MsgType  == {"rw", "alloc_mem", "set_time", "get_fw_ver", "scan_chan", "array_info"}
Message  == [tag : Tag, rq : Request \cup {Special}, type : MsgType, array : Port \cup {-1}]
Answer   == [tag : Tag, ok : BOOLEAN, array : Port \cup {-1}]
NoAnswer == [tag |-> -1]                \* status 0xffffffff
Event    == [tag |-> -2]                \* an asynchronous event

HostState == {"INVALID", "PROBE_START", "ALLOC_BUF", "SYNC_TIME", "GET_FW_VER",
    "PORT_SCAN", "DEV_SCAN_START", "DEV_SCAN", "DEV_ACTIVATE", "PROBE_FINISHED", "ERROR"}

\* Mutant: the buffer is allocated twice.
Sends_AllocTwice == [ALLOC_BUF |-> "alloc_mem", SYNC_TIME |-> "alloc_mem",
             GET_FW_VER |-> "get_fw_ver", PORT_SCAN |-> "scan_chan", DEV_SCAN |-> "array_info"]

\* What fsm_task sends in a state, and the state the answer is expected in
\* and leads to (carm_handle_resp, carm_handle_generic, carm_handle_scan_chan).
Sends    == [ALLOC_BUF |-> "alloc_mem", SYNC_TIME |-> "set_time",
             GET_FW_VER |-> "get_fw_ver", PORT_SCAN |-> "scan_chan", DEV_SCAN |-> "array_info"]
Expected == [alloc_mem |-> "ALLOC_BUF", set_time |-> "SYNC_TIME",
             get_fw_ver |-> "GET_FW_VER", scan_chan |-> "PORT_SCAN", array_info |-> "DEV_SCAN"]
Leads    == [alloc_mem |-> "SYNC_TIME", set_time |-> "GET_FW_VER",
             get_fw_ver |-> "PORT_SCAN", scan_chan |-> "DEV_SCAN_START", array_info |-> "DEV_SCAN"]

Free == [n_elem |-> 0, rq |-> Special, type |-> "none"]   \* a request with no tag in use

\* Frames of the stack: a request function, carm_handle_responses at slot i
\* after n answers, and what a handler does after its carm_end_rq.
Rq(q)        == [fn |-> "rq", q |-> q]
Irq(i, n)    == [fn |-> "irq", idx |-> i, work |-> n]
Handle(y, a) == [fn |-> "handle", type |-> y, answer |-> a]

\* fsm_task: not running, in its switch, about to send, or about to write.  The
\* last step, to schedule itself again, is [pc |-> "reschedule"].
Idle      == [pc |-> "idle"]
FsmAt(l)  == [pc |-> l, state |-> fsm.state]
FsmSet(n) == [pc |-> "set", state |-> fsm.state, new |-> n]

-----------------------------------------------------------------------------
(* Tags and scatter/gather entries *)

\* Mutant: one bit of the tag too few is kept.
TAG_DECODE_OneBitLess(t) == t % (TAG_SPACE \div 2)

TAG_DECODE(t) == t % TAG_SPACE

\* carm_get_request: the tag it returns, or none.
FreeTags == {t \in 0 .. max_queue - 1 : t \notin msg_alloc}
CanGet   == hw_sg_used < CARM_MAX_HOST_SG - CARM_MAX_REQ_SG /\ FreeTags # {}
GetTag   == Min(FreeTags)

\* carm_put_request does nothing for a tag that is not active.  What a free
\* request holds is not read again, so the model clears it.
Tags == [alloc |-> msg_alloc, msgs |-> n_msgs, sg |-> hw_sg_used, req |-> req]

\* Mutant: the scatter/gather entries are not given back.
Put_KeepsEntries(t) ==
    IF t \in msg_alloc
    THEN [alloc |-> msg_alloc \ {t}, msgs |-> n_msgs - 1, sg |-> hw_sg_used,
          req |-> [req EXCEPT ![t] = Free]]
    ELSE Tags

Put(t) ==
    IF t \in msg_alloc
    THEN [alloc |-> msg_alloc \ {t}, msgs |-> n_msgs - 1, sg |-> hw_sg_used - req[t].n_elem,
          req |-> [req EXCEPT ![t] = Free]]
    ELSE Tags

SetTags(c) ==
    /\ msg_alloc' = c.alloc
    /\ n_msgs' = c.msgs
    /\ hw_sg_used' = c.sg
    /\ req' = c.req

InFlight(r) == \E t \in msg_alloc : req[t].rq = r
Q_FULL == Len(hw) >= HwDepth

-----------------------------------------------------------------------------
(* The queues that wait for a tag or for room in the adapter *)

\* Mutant: blk_stop_queue is left out.
carm_push_q_NotStopped(q) ==
    /\ UNCHANGED stopped
    /\ wait_q' = [wait_q EXCEPT ![wait_q_prod % CARM_MAX_WAIT_Q] = q]
    /\ wait_q_prod' = (wait_q_prod + 1) % WIDTH
    /\ UNCHANGED wait_q_cons

carm_push_q(q) ==
    /\ stopped' = stopped \cup {q}
    /\ wait_q' = [wait_q EXCEPT ![wait_q_prod % CARM_MAX_WAIT_Q] = q]
    /\ wait_q_prod' = (wait_q_prod + 1) % WIDTH
    /\ UNCHANGED wait_q_cons

\* Mutant: the queue that came last is started first.
carm_round_robin_Lifo(rest) ==
    IF wait_q_prod = wait_q_cons
    THEN stack' = rest /\ UNCHANGED wait
    ELSE LET q == wait_q[(wait_q_prod - 1) % CARM_MAX_WAIT_Q] IN
         /\ wait_q_prod' = (wait_q_prod - 1) % WIDTH
         /\ stopped' = stopped \ {q}
         /\ wait_q' = [wait_q EXCEPT ![(wait_q_prod - 1) % CARM_MAX_WAIT_Q] = OOB]
         /\ stack' = <<Rq(q)>> \o rest
         /\ UNCHANGED wait_q_cons

\* carm_pop_q and blk_start_queue: the request function of the queue that is
\* started runs at once, on top of the frames in rest.  The slot it leaves is
\* cleared, as nothing reads it again.
carm_round_robin(rest) ==
    IF wait_q_prod = wait_q_cons
    THEN stack' = rest /\ UNCHANGED wait
    ELSE LET q == wait_q[wait_q_cons % CARM_MAX_WAIT_Q] IN
         /\ wait_q_cons' = (wait_q_cons + 1) % WIDTH
         /\ stopped' = stopped \ {q}
         /\ wait_q' = [wait_q EXCEPT ![wait_q_cons % CARM_MAX_WAIT_Q] = OOB]
         /\ stack' = <<Rq(q)>> \o rest
         /\ UNCHANGED wait_q_prod

\* Mutant: the low-water mark itself is not low enough.
EndRq_BelowLowWater(c, rest) ==
    /\ SetTags(c)
    /\ IF \/ max_queue = 1
          \/ c.msgs < CARM_MSG_LOW_WATER /\ c.sg <= CARM_SG_LOW_WATER
       THEN carm_round_robin(rest)
       ELSE stack' = rest /\ UNCHANGED wait

\* carm_end_rq, once the request has been ended and its tag put with result c.
EndRq(c, rest) ==
    /\ SetTags(c)
    /\ IF \/ max_queue = 1
          \/ c.msgs <= CARM_MSG_LOW_WATER /\ c.sg <= CARM_SG_LOW_WATER
       THEN carm_round_robin(rest)
       ELSE stack' = rest /\ UNCHANGED wait

-----------------------------------------------------------------------------
(* carm_rq_fn and carm_oob_rq_fn, one turn of their loops per step *)

Top == Head(stack)
InRq(p) == stack # <<>> /\ Top = Rq(p)
Return  == stack' = Tail(stack)

\* The requests a request function can fetch; both leave when there is none.
Fetch(q) == IF q = OOB THEN oob ELSE rqs[q]

RqEmpty(q) ==
    /\ InRq(q) /\ Fetch(q) = <<>>
    /\ Return
    /\ UNCHANGED <<max_queue, state, scan, tags, wait, resp_idx, rqs, oob, card, work, fsm, bind>>

RqNoTag(p) ==
    /\ InRq(p) /\ rqs[p] # <<>> /\ ~CanGet
    /\ carm_push_q(p)
    /\ Return
    /\ UNCHANGED <<max_queue, state, scan, tags, resp_idx, rqs, oob, card, work, fsm, bind>>

\* blk_rq_map_sg or pci_map_sg fails: the request ends with -EIO and its tag,
\* which has no s/g entries yet, is put; the function returns.
RqMapFails(p) ==
    /\ InRq(p) /\ rqs[p] # <<>> /\ CanGet
    /\ rqs' = [rqs EXCEPT ![p] = Tail(@)]
    /\ EndRq(Tags, Tail(stack))
    /\ UNCHANGED <<max_queue, state, scan, resp_idx, oob, card, work, fsm, bind>>

\* carm_send_msg finds the adapter's queue full: the request is requeued; a
\* port's request gives its tag back, an out-of-band message keeps its own.
RqBusy(q) ==
    /\ InRq(q) /\ Fetch(q) # <<>> /\ (q = OOB \/ CanGet) /\ Q_FULL
    /\ carm_push_q(q)
    /\ Return
    /\ UNCHANGED <<max_queue, state, scan, tags, resp_idx, rqs, oob, card, work, fsm, bind>>

RqSend(p) ==
    /\ InRq(p) /\ rqs[p] # <<>> /\ CanGet /\ ~Q_FULL
    /\ \E n \in SgEntries[Head(rqs[p])] :
        /\ req' = [req EXCEPT ![GetTag] = [n_elem |-> n, rq |-> Head(rqs[p]), type |-> "rw"]]
        /\ hw_sg_used' = hw_sg_used + n
    /\ msg_alloc' = msg_alloc \cup {GetTag}
    /\ n_msgs' = n_msgs + 1
    /\ rqs' = [rqs EXCEPT ![p] = Tail(@)]
    /\ hw' = Append(hw, [tag |-> GetTag, rq |-> Head(rqs[p]), type |-> "rw", array |-> -1])
    /\ UNCHANGED <<max_queue, state, scan, wait, resp_idx, oob, stack,
                   busy, ring, ring_in, intr, work, fsm, bind>>

OobSend ==
    /\ InRq(OOB) /\ oob # <<>> /\ ~Q_FULL
    /\ hw' = Append(hw, Head(oob))
    /\ oob' = Tail(oob)
    /\ UNCHANGED <<max_queue, state, scan, tags, wait, resp_idx, rqs, stack,
                   busy, ring, ring_in, intr, work, fsm, bind>>

-----------------------------------------------------------------------------
(* carm_interrupt and carm_handle_responses, one slot of the ring per step *)

Interrupt ==
    /\ "irq" \in held /\ intr /\ stack = <<>>
    /\ intr' = FALSE
    /\ stack' = IF state = "INVALID" THEN <<>> ELSE <<Irq(resp_idx % RMSG_Q_LEN, 0)>>
    /\ UNCHANGED <<max_queue, state, scan, tags, wait, resp_idx, rqs, oob,
                   hw, busy, ring, ring_in, work, fsm, bind>>

InIrq == stack # <<>> /\ Top.fn = "irq"

\* Mutant: the index of the ring does not wrap.
NextSlot_NoWrap == <<Irq(Top.idx + 1, Top.work + 1)>> \o Tail(stack)

NextSlot == <<Irq((Top.idx + 1) % RMSG_Q_LEN, Top.work + 1)>> \o Tail(stack)

\* carm_handle_resp up to its carm_end_rq; out-of-band answers have more to do.
\* The slot is cleared with it: the ring has room for an answer to every tag,
\* so the adapter is not at this slot again before the code clears it.  The
\* returns for a handle that is no tag, and for a message type that the driver
\* does not send, are not taken: the adapter answers what it was sent.
HandleResp ==
    /\ InIrq /\ ring[Top.idx] \in Answer
    /\ LET a == ring[Top.idx]
           t == TAG_DECODE(a.tag)
           y == req[t].type
       IN  EndRq(Put(t), IF y \in DOMAIN Expected THEN <<Handle(y, a)>> \o NextSlot ELSE NextSlot)
    /\ ring' = [ring EXCEPT ![Top.idx] = NoAnswer]
    /\ UNCHANGED <<max_queue, state, scan, resp_idx, rqs, oob,
                   hw, busy, ring_in, intr, work, fsm, bind>>

SkipEvent ==
    /\ InIrq /\ ring[Top.idx] = Event
    /\ ring' = [ring EXCEPT ![Top.idx] = NoAnswer]
    /\ stack' = NextSlot
    /\ UNCHANGED <<max_queue, state, scan, tags, wait, resp_idx, rqs, oob,
                   hw, busy, ring_in, intr, work, fsm, bind>>

EndOfResponses ==
    /\ InIrq /\ ring[Top.idx] = NoAnswer
    /\ resp_idx' = (resp_idx + Top.work) % WIDTH
    /\ Return
    /\ UNCHANGED <<max_queue, state, scan, tags, wait, rqs, oob, card, work, fsm, bind>>

\* Mutant: ARRAY_NO_EXIST is not looked at.
ArrayExists_Any(a) == a.ok

ArrayExists(a) == a.ok /\ a.array \in Arrays

\* carm_handle_generic, carm_handle_scan_chan and carm_handle_array_info from
\* their carm_end_rq on; found is what the channel scan wrote to the message.
HandleRest ==
    /\ stack # <<>> /\ Top.fn = "handle"
    /\ LET y == Top.type
           a == Top.answer
       IN  /\ state' = IF y = "array_info" THEN state ELSE IF a.ok THEN Leads[y] ELSE "ERROR"
           /\ \E found \in IF y = "scan_chan" /\ a.ok THEN Scans ELSE {{}} :
                dev_present' = dev_present \cup found
           /\ dev_active' = IF y = "array_info" /\ ArrayExists(a) /\ cur_scan_dev \in Port
                            THEN dev_active \cup {cur_scan_dev} ELSE dev_active
    /\ work' = TRUE
    /\ Return
    /\ UNCHANGED <<max_queue, cur_scan_dev, tags, wait, resp_idx, rqs, oob, card, fsm, bind>>

-----------------------------------------------------------------------------
(* carm_fsm_task *)

FsmStart ==
    /\ work /\ fsm = Idle /\ stack = <<>>
    /\ work' = FALSE
    /\ fsm' = [pc |-> "switch", state |-> state]
    /\ UNCHANGED <<max_queue, state, scan, tags, wait, resp_idx, rqs, oob, stack, card, bind>>

\* Mutant: the scan looks at the same device again.
NextDev_SameAgain == {p \in dev_present : p >= cur_scan_dev}

NextDev == {p \in dev_present : p > cur_scan_dev}

FsmSwitch ==
    /\ fsm.pc = "switch"
    /\ fsm' = CASE fsm.state = "PROBE_START"    -> FsmSet("ALLOC_BUF")
                [] fsm.state = "DEV_SCAN_START" -> FsmSet("DEV_SCAN")
                [] fsm.state = "DEV_SCAN" /\ NextDev = {} -> FsmSet("DEV_ACTIVATE")
                [] fsm.state = "DEV_ACTIVATE"   -> FsmAt("activate")
                [] fsm.state \in DOMAIN Sends /\ (fsm.state = "DEV_SCAN" => NextDev # {}) -> FsmAt("get")
                [] fsm.state \in {"PROBE_FINISHED", "ERROR"} -> Idle
    /\ cur_scan_dev' = CASE fsm.state = "DEV_SCAN_START" -> -1
                         [] fsm.state = "DEV_SCAN" /\ NextDev # {} -> Min(NextDev)
                         [] OTHER -> cur_scan_dev
    /\ comp' = (comp \/ fsm.state = "PROBE_FINISHED")
    /\ UNCHANGED <<max_queue, state, dev_present, dev_active, tags, wait, resp_idx, rqs, oob,
                   stack, card, work, pci, held, up, cleaned>>

\* carm_get_special has found a tag.
GetSpecial ==
    /\ fsm.pc = "get" /\ stack = <<>> /\ CanGet
    /\ msg_alloc' = msg_alloc \cup {GetTag}
    /\ n_msgs' = n_msgs + 1
    /\ req' = [req EXCEPT ![GetTag].n_elem = 0]
    /\ fsm' = [pc |-> "got", state |-> fsm.state, tag |-> GetTag]
    /\ UNCHANGED <<max_queue, state, scan, hw_sg_used, wait, resp_idx, rqs, oob, stack, card, work, bind>>

\* No tag in 5000 tries, or blk_get_request fails and the tag is put back.
SpecialFails ==
    /\ stack = <<>>
    /\ fsm.pc = "got" \/ (fsm.pc = "get" /\ ~CanGet)
    /\ IF fsm.pc = "got" THEN SetTags(Put(fsm.tag)) ELSE UNCHANGED tags
    /\ fsm' = IF fsm.state = "DEV_SCAN" THEN FsmAt("err_out") ELSE FsmSet("ERROR")
    /\ UNCHANGED <<max_queue, state, scan, wait, resp_idx, rqs, oob, stack, card, work, bind>>

\* Mutant: a device whose array cannot be asked for ends the scan.
ArrayInfoFails_EndsScan ==
    /\ fsm.pc = "err_out" /\ stack = <<>>
    /\ state' = "ERROR"
    /\ fsm' = FsmSet("DEV_ACTIVATE")
    /\ UNCHANGED <<max_queue, scan, tags, wait, resp_idx, rqs, oob, stack, card, work, bind>>

\* carm_array_info writes HST_ERROR itself before its caller does.
ArrayInfoFails ==
    /\ fsm.pc = "err_out" /\ stack = <<>>
    /\ state' = "ERROR"
    /\ fsm' = FsmSet("ERROR")
    /\ UNCHANGED <<max_queue, scan, tags, wait, resp_idx, rqs, oob, stack, card, work, bind>>

\* Mutant: fsm_task itself moves on to the state the answer leads to.
SendSpecial_MovesOn ==
    /\ fsm.pc = "got" /\ stack = <<>>
    /\ LET y == Sends[fsm.state] IN
        /\ req' = [req EXCEPT ![fsm.tag] = [n_elem |-> @.n_elem, rq |-> Special, type |-> y]]
        /\ oob' = <<[tag |-> fsm.tag, rq |-> Special, type |-> y,
                     array |-> IF y = "array_info" THEN cur_scan_dev ELSE -1]>> \o oob
    /\ stack' = IF OOB \in stopped THEN <<>> ELSE <<Rq(OOB)>>
    /\ fsm' = FsmSet(Leads[Sends[fsm.state]])
    /\ UNCHANGED <<max_queue, state, scan, msg_alloc, n_msgs, hw_sg_used, wait, resp_idx, rqs,
                   card, work, bind>>

\* carm_send_special and carm_array_info fill the message and hand its request
\* to the head of oob_q, which runs unless it is stopped.
SendSpecial ==
    /\ fsm.pc = "got" /\ stack = <<>>
    /\ LET y == Sends[fsm.state] IN
        /\ req' = [req EXCEPT ![fsm.tag] = [n_elem |-> @.n_elem, rq |-> Special, type |-> y]]
        /\ oob' = <<[tag |-> fsm.tag, rq |-> Special, type |-> y,
                     array |-> IF y = "array_info" THEN cur_scan_dev ELSE -1]>> \o oob
    /\ stack' = IF OOB \in stopped THEN <<>> ELSE <<Rq(OOB)>>
    /\ fsm' = Idle
    /\ UNCHANGED <<max_queue, state, scan, msg_alloc, n_msgs, hw_sg_used, wait, resp_idx, rqs,
                   card, work, bind>>

\* HST_DEV_ACTIVATE: add_disk for each active port in turn.
AddDisk ==
    /\ fsm.pc = "activate"
    /\ IF dev_active \subseteq up
       THEN fsm' = FsmSet("PROBE_FINISHED") /\ UNCHANGED up
       ELSE up' = up \cup {Min(dev_active \ up)} /\ UNCHANGED fsm
    /\ UNCHANGED <<max_queue, state, scan, tags, wait, resp_idx, rqs, oob, stack, card, work,
                   pci, held, comp, cleaned>>

FsmWrite ==
    /\ fsm.pc = "set" /\ stack = <<>>
    /\ state' = fsm.new
    /\ fsm' = [pc |-> "reschedule"]
    /\ UNCHANGED <<max_queue, scan, tags, wait, resp_idx, rqs, oob, stack, card, work, bind>>

\* schedule_work, outside host->lock
Reschedule ==
    /\ fsm.pc = "reschedule"
    /\ work' = TRUE
    /\ fsm' = Idle
    /\ UNCHANGED <<max_queue, state, scan, tags, wait, resp_idx, rqs, oob, stack, card, bind>>

-----------------------------------------------------------------------------
(* carm_init_one and carm_remove_one *)

\* The steps of the probe, what each leaves behind when it succeeds and when
\* it fails, and where its failure enters the list of releases.
NextStage == [device |-> "regions", regions |-> "dma_mask", dma_mask |-> "host", host |-> "mmio",
              mmio |-> "shm", shm |-> "oob_q", oob_q |-> "blkdev", blkdev |-> "disks",
              disks |-> "irq", irq |-> "hw", hw |-> "wait"]
Gains(s)  == CASE s \in {"dma_mask", "hw"} -> {} [] s = "blkdev" -> {"major", "blkdev"} [] OTHER -> {s}
Leaves(s) == CASE s = "blkdev" -> {"major"} [] s = "disks" -> {"disks"} [] OTHER -> {}
Release   == <<"irq", "disks", "blkdev", "major", "oob_q", "shm", "mmio", "host", "regions", "device">>

\* Mutant: a failing request_irq jumps past carm_free_disks.
ErrOut_KeepsDisks == [device |-> 11, regions |-> 10, dma_mask |-> 9, host |-> 9, mmio |-> 8, shm |-> 7,
              oob_q |-> 6, blkdev |-> 4, disks |-> 2, irq |-> 3, hw |-> 1]

ErrOut    == [device |-> 11, regions |-> 10, dma_mask |-> 9, host |-> 9, mmio |-> 8, shm |-> 7,
              oob_q |-> 6, blkdev |-> 4, disks |-> 2, irq |-> 2, hw |-> 1]

\* carm_init_host is the last stage: it starts the state machine.
ProbeStage ==
    /\ pci \in DOMAIN NextStage
    /\ held' = held \cup Gains(pci)
    /\ pci' = NextStage[pci]
    /\ state' = IF pci = "hw" THEN "PROBE_START" ELSE state
    /\ work' = (pci = "hw")
    /\ UNCHANGED <<max_queue, scan, tags, wait, resp_idx, rqs, oob, stack, card, fsm, comp, up, cleaned>>

ProbeFails ==
    /\ pci \in DOMAIN NextStage
    /\ held' = (held \cup Leaves(pci)) \ {Release[i] : i \in ErrOut[pci] .. Len(Release)}
    /\ pci' = "failed"
    /\ UNCHANGED <<max_queue, state, scan, tags, wait, resp_idx, rqs, oob, stack, card, work, fsm,
                   comp, up, cleaned>>

\* wait_for_completion returns, and later carm_remove_one frees the interrupt.
Unbind ==
    /\ MayUnbind /\ pci = "wait" /\ comp /\ stack = <<>>
    /\ pci' = "removing"
    /\ held' = held \ {"irq"}
    /\ UNCHANGED <<max_queue, state, scan, tags, wait, resp_idx, rqs, oob, stack, card, work, fsm,
                   comp, up, cleaned>>

\* carm_free_disks: del_gendisk, then blk_cleanup_queue, which runs the queue
\* and waits until its requests have ended.
Drained(p) == rqs[p] = <<>> /\ \A r \in Request : r[1] = p => ~InFlight(r)

DelGendisk(p) ==
    /\ pci = "removing" /\ p = Cardinality(cleaned) /\ p \in up /\ stack = <<>>
    /\ up' = up \ {p}
    /\ stack' = IF rqs[p] = <<>> \/ p \in stopped THEN <<>> ELSE <<Rq(p)>>
    /\ UNCHANGED <<max_queue, state, scan, tags, wait, resp_idx, rqs, oob, card, work, fsm,
                   pci, held, comp, cleaned>>

CleanupQueue(p) ==
    /\ pci = "removing" /\ p = Cardinality(cleaned) /\ p \notin up /\ stack = <<>> /\ Drained(p)
    /\ cleaned' = cleaned \cup {p}
    /\ UNCHANGED <<max_queue, state, scan, tags, wait, resp_idx, rqs, oob, stack, card, work, fsm,
                   pci, held, comp, up>>

\* oob_q is drained as well before the host is freed.
FreeHost ==
    /\ pci = "removing" /\ cleaned = Port /\ oob = <<>> /\ ~InFlight(Special)
    /\ pci' = "gone"
    /\ held' = held \ {"disks", "blkdev", "major", "oob_q", "shm", "mmio", "host", "regions", "device"}
    /\ UNCHANGED <<max_queue, state, scan, tags, wait, resp_idx, rqs, oob, stack, card, work, fsm,
                   comp, up, cleaned>>

-----------------------------------------------------------------------------
(* The block layer and the adapter *)

Submit(r) ==
    LET p == r[1] IN
    /\ p \in up /\ stack = <<>>
    /\ ~InFlight(r) /\ \A i \in DOMAIN rqs[p] : rqs[p][i] # r
    /\ rqs' = [rqs EXCEPT ![p] = Append(@, r)]
    /\ stack' = IF p \in stopped THEN <<>> ELSE <<Rq(p)>>
    /\ UNCHANGED <<max_queue, state, scan, tags, wait, resp_idx, oob, card, work, fsm, bind>>

Take ==
    /\ hw # <<>>
    /\ busy' = busy \cup {Head(hw)}
    /\ hw' = Tail(hw)
    /\ UNCHANGED <<max_queue, state, scan, tags, wait, resp_idx, rqs, oob, stack,
                   ring, ring_in, intr, work, fsm, bind>>

\* Messages are answered in any order; only out-of-band answers tell success
\* from failure.  The adapter gives back the handle of the message, and writes
\* no status that is neither an answer nor an event.
Respond(t) ==
    /\ ring[ring_in] = NoAnswer
    /\ \E m \in busy :
        /\ m.tag = t
        /\ busy' = busy \ {m}
        /\ \E ok \in IF m.type = "rw" THEN {TRUE} ELSE BOOLEAN :
            ring' = [ring EXCEPT ![ring_in] = [tag |-> m.tag, ok |-> ok, array |-> m.array]]
    /\ ring_in' = (ring_in + 1) % RMSG_Q_LEN
    /\ intr' = TRUE
    /\ UNCHANGED <<max_queue, state, scan, tags, wait, resp_idx, rqs, oob, stack, hw, work, fsm, bind>>

\* An interrupt with an event, or with nothing while the adapter is set up;
\* a bound: events come before the first message of the probe is answered.
AdapterEvent ==
    /\ "irq" \in held /\ stack = <<>> /\ ~intr /\ state \in {"INVALID", "ALLOC_BUF"}
    /\ \A i \in DOMAIN ring : ring[i] = NoAnswer
    /\ intr' = TRUE
    /\ IF state = "INVALID"
       THEN UNCHANGED <<ring, ring_in>>
       ELSE /\ ring' = [ring EXCEPT ![ring_in] = Event]
            /\ ring_in' = (ring_in + 1) % RMSG_Q_LEN
    /\ UNCHANGED <<max_queue, state, scan, tags, wait, resp_idx, rqs, oob, stack, hw, busy, work, fsm, bind>>

-----------------------------------------------------------------------------

Init ==
    /\ max_queue \in MaxQueue
    /\ state = "INVALID" /\ cur_scan_dev = 0 /\ dev_present = {} /\ dev_active = {}
    /\ msg_alloc = {} /\ n_msgs = 0 /\ hw_sg_used = 0
    /\ req = [t \in Tag |-> Free]
    /\ wait_q = [i \in 0 .. CARM_MAX_WAIT_Q - 1 |-> OOB]
    /\ wait_q_prod = 0 /\ wait_q_cons = 0 /\ stopped = {}
    /\ resp_idx = 0 /\ ring_in = 0
    /\ rqs = [p \in Port |-> <<>>] /\ oob = <<>> /\ stack = <<>>
    /\ hw = <<>> /\ busy = {} /\ intr = FALSE
    /\ ring = [i \in 0 .. RMSG_Q_LEN - 1 |-> NoAnswer]
    /\ work = FALSE /\ fsm = Idle
    /\ pci = "device" /\ held = {} /\ comp = FALSE /\ up = {} /\ cleaned = {}

RunRq    == \/ \E q \in Queue : RqEmpty(q) \/ RqBusy(q)
            \/ \E p \in Port : RqNoTag(p) \/ RqMapFails(p) \/ RqSend(p)
            \/ OobSend
RunIrq   == HandleResp \/ SkipEvent \/ EndOfResponses \/ HandleRest
Locked   == RunRq \/ RunIrq
Message_ == GetSpecial \/ SpecialFails \/ ArrayInfoFails \/ SendSpecial
Fsm      == FsmStart \/ FsmSwitch \/ Message_ \/ AddDisk \/ FsmWrite \/ Reschedule
Unwind   == (\E p \in Port : DelGendisk(p) \/ CleanupQueue(p)) \/ FreeHost
Bind     == ProbeStage \/ ProbeFails \/ Unbind \/ Unwind
Adapter  == Take \/ (\E t \in Tag : Respond(t)) \/ AdapterEvent

Next == Locked \/ Interrupt \/ Fsm \/ Bind \/ Adapter \/ \E r \in Request : Submit(r)

\* host->lock is a ticket lock: whoever spins for it gets it.  Interrupts and
\* work items are run, and the adapter answers every message.
Fairness ==
    /\ WF_vars(Locked)
    /\ SF_vars(Interrupt)
    /\ SF_vars(Fsm)
    /\ WF_vars(Take)
    /\ \A t \in Tag : WF_vars(Respond(t))

Spec == Init /\ [][Next]_vars /\ Fairness

-----------------------------------------------------------------------------
(* Properties *)

Frame == {Rq(q) : q \in Queue}
         \cup [fn : {"irq"}, idx : 0 .. RMSG_Q_LEN - 1, work : Nat]
         \cup [fn : {"handle"}, type : DOMAIN Expected, answer : Answer]

\* Every variable has the type of the field of struct carm_host it stands for.
TypeOK ==
    /\ max_queue \in MaxQueue /\ state \in HostState
    /\ cur_scan_dev \in Port \cup {-1} /\ dev_present \subseteq Port /\ dev_active \subseteq Port
    /\ msg_alloc \subseteq Tag /\ n_msgs \in 0 .. CARM_MAX_REQ /\ hw_sg_used \in Nat
    /\ req \in [Tag -> [n_elem : 0 .. CARM_MAX_REQ_SG, rq : Request \cup {Special},
                        type : MsgType \cup {"none"}]]
    /\ wait_q \in [0 .. CARM_MAX_WAIT_Q - 1 -> Queue]
    /\ {wait_q_prod, wait_q_cons, resp_idx} \subseteq 0 .. WIDTH - 1
    /\ stopped \subseteq Queue
    /\ rqs \in [Port -> Seq(Request)] /\ oob \in Seq(Message) /\ stack \in Seq(Frame)
    /\ hw \in Seq(Message) /\ busy \subseteq Message /\ intr \in BOOLEAN
    /\ ring \in [0 .. RMSG_Q_LEN - 1 -> Answer \cup {NoAnswer, Event}]
    /\ ring_in \in 0 .. RMSG_Q_LEN - 1
    /\ work \in BOOLEAN /\ comp \in BOOLEAN
    /\ fsm \in {Idle} \cup [pc : {"reschedule"}]
               \cup [pc : {"switch", "get", "err_out", "activate"}, state : HostState]
               \cup [pc : {"got"}, state : DOMAIN Sends, tag : Tag]
               \cup [pc : {"set"}, state : HostState, new : HostState]
    /\ up \subseteq Port /\ cleaned \subseteq Port
    /\ pci \in DOMAIN NextStage \cup {"wait", "failed", "removing", "gone"}
    /\ held \subseteq DOMAIN NextStage \cup {"major"}

\* The counters that decide whether a queue may send are exact, and the
\* adapter's limit on scatter/gather entries is obeyed (carm_get_request).
Accounting ==
    /\ n_msgs = Cardinality(msg_alloc)
    /\ hw_sg_used = MapThenSumSet(LAMBDA t : req[t].n_elem, msg_alloc)
    /\ hw_sg_used <= CARM_MAX_HOST_SG

\* What the adapter holds or has answered belongs to an allocated tag and to
\* the request that was sent with it, and no two of them share a tag: a
\* response ends the request it answers (TAG_ENCODE, carm_handle_resp).
Outstanding == {hw[i] : i \in DOMAIN hw} \cup busy
AnswersOwnRequest ==
    /\ \A m \in Outstanding : m.tag \in msg_alloc /\ req[m.tag].rq = m.rq
    /\ \A m, n \in Outstanding : m.tag = n.tag => m = n
    /\ \A i \in DOMAIN ring : ring[i] \in Answer =>
        /\ ring[i].tag \in msg_alloc
        /\ \A m \in Outstanding : m.tag # ring[i].tag

\* The queues between wait_q_cons and wait_q_prod are the stopped ones, each
\* once: no slot of wait_q is overrun and no queue waits twice (carm_push_q).
WaitingAt(i) == (i - wait_q_cons) % WIDTH < (wait_q_prod - wait_q_cons) % WIDTH
Waiting == {i \in 0 .. WIDTH - 1 : WaitingAt(i)}
WaitersKept ==
    /\ {wait_q[i % CARM_MAX_WAIT_Q] : i \in Waiting} = stopped
    /\ Cardinality(Waiting) = Cardinality(stopped)

\* A queue waits only while a message is outstanding whose answer will start
\* it: no wake-up is lost between carm_push_q and carm_end_rq.
NoLostWakeup == stack = <<>> /\ stopped # {} => Outstanding # {} \/ \E i \in DOMAIN ring : ring[i] \in Answer

\* The assertions of the answer handlers: the host is still in the state the
\* message was sent in.
HandlersInState ==
    \A i \in DOMAIN stack : stack[i].fn = "handle" => state = Expected[stack[i].type]

\* fsm_task writes the new state over the one it has read, or over the error
\* of its own carm_array_info: it never overwrites what a handler wrote.
FsmOwnsState == fsm.pc = "set" => state = fsm.state \/ (state = "ERROR" /\ fsm.new = "ERROR")

\* A port is activated only if the adapter has an array on it, although the
\* handler goes by cur_scan_dev and not by the array the answer is about.
ActivatesArrays == dev_active \subseteq Arrays \cap dev_present

\* When the host is freed nothing that uses it is left, and a probe that
\* fails or an adapter that is unbound leaves no resource behind.
FreedQuiet ==
    /\ pci \in {"failed", "gone"} => held = {}
    /\ "host" \notin held => stack = <<>> /\ ~work /\ fsm = Idle /\ msg_alloc = {} /\ oob = <<>>

\* enum host_states: "we never leave here".
ErrorIsFinal == [][state = "ERROR" => state' = "ERROR"]_vars

\* carm_rq_fn: a queue that is stopped is called "again later, eventually",
\* as long as the adapter is bound.
CalledAgain == \A p \in Arrays : p \in stopped ~> p \notin stopped \/ "irq" \notin held

\* The same with the default of one queued command, where carm_end_rq starts a
\* waiting queue whenever a request ends.
CalledAgainByDefault ==
    \A p \in Arrays : max_queue = 1 /\ p \in stopped ~> p \notin stopped \/ "irq" \notin held

\* The probe that has started its state machine completes or ends in HST_ERROR.
ProbeEnds == pci = "wait" ~> comp \/ state = "ERROR"

=============================================================================
