----------------------------- MODULE Sx8Proofs -----------------------------
(***************************************************************************)
(* The inductive invariant of the SX8 driver, for every number of ports,   *)
(* tags, queued commands and ring slots, in three parts: the types; who    *)
(* owns a tag; and whose turn it is to write host->state.                  *)
(*                                                                         *)
(* With max_queue within the tags TAG_DECODE can tell apart: an answer of  *)
(* the adapter ends the request it belongs to, and the state machine of    *)
(* the SX8 driver and the handlers of the adapter's answers take turns,    *)
(* although fsm_task reads host->state and writes it in two separate       *)
(* critical sections.  The turn is a token: the pending work item, the     *)
(* running fsm_task, the tag of the one out-of-band message, or the frame  *)
(* of the handler that is about to end it.                                 *)
(***************************************************************************)
EXTENDS Sx8, WellFoundedInduction, TLAPS

-----------------------------------------------------------------------------
(* Lemmas on the operators *)

\* A set of natural numbers that is not empty has a least element.
LEMMA Least ==
    ASSUME NEW N, N \subseteq Nat, N # {}
    PROVE  \E n \in N : \A m \in N : n <= m
<1> DEFINE R == {ss \in Nat \X Nat : ss[1] < ss[2]}
<1>2. IsWellFoundedOn(R, Nat)
  BY NatLessThanWellFounded, Zenon DEF OpToRel
<1>m. PICK n \in N : \A m \in N : ~ (<<m, n>> \in R)
  <2> HIDE DEF R
  <2> QED
    BY <1>2, WFMin, Zenon
<1>3. \A m \in N : n <= m
  <2> TAKE m \in N
  <2>1. m \in Nat /\ n \in Nat
    BY Zenon
  <2>2. <<m, n>> \notin R
    BY <1>m, Zenon
  <2>3. m < n => <<m, n>> \in R
    BY <2>1, Zenon
  <2> QED
    BY <2>1, <2>2, <2>3
<1> QED
  BY <1>3, Zenon

\* carm_get_request and the scan of the devices pick the lowest of a set that
\* is not empty, and get a member of it.
LEMMA MinMember ==
    ASSUME NEW S, S \subseteq Int, NEW b \in Int, \A x \in S : x >= b, S # {}
    PROVE  Min(S) \in S
<1> DEFINE N == {x \in Nat : x + b \in S}
<1>1. N # {} /\ N \subseteq Nat
  <2>1. PICK x \in S : TRUE
    BY Zenon
  <2>2. x - b \in Nat /\ (x - b) + b = x
    BY <2>1
  <2> QED
    BY <2>2, Zenon
<1>3. PICK n \in N : \A m \in N : n <= m
  <2> HIDE DEF N
  <2> QED
    BY <1>1, Least, Zenon
<1>4. n + b \in S
  BY Zenon
<1>5. \A y \in S : n + b <= y
  <2> TAKE y \in S
  <2>1. y - b \in N
    OBVIOUS
  <2> QED
    BY <2>1, <1>3
<1> QED
  BY <1>4, <1>5, Zenon DEF Min

\* A counter reduced to its width, or to a slot of its ring, is below it.
LEMMA Remainder ==
    \A n \in Nat, w \in Nat \ {0} : n % w \in Nat /\ n % w \in 0 .. w - 1
OBVIOUS

\* A sequence is a function on the numbers up to its length.
LEMMA SeqLength ==
    ASSUME NEW S, NEW s \in Seq(S)
    PROVE  /\ Len(s) \in Nat /\ s \in [1 .. Len(s) -> S] /\ DOMAIN s = 1 .. Len(s)
           /\ \A i \in 1 .. Len(s) : s[i] \in S
           /\ s # <<>> => Len(s) \in Nat \ {0}
OBVIOUS

\* What a sequence that is not empty starts with, and what follows.
LEMMA SeqHeadTail ==
    ASSUME NEW S, NEW s \in Seq(S), s # <<>>
    PROVE  /\ Head(s) \in S /\ Head(s) = s[1] /\ Tail(s) \in Seq(S) /\ Len(Tail(s)) = Len(s) - 1
           /\ \A i \in 1 .. Len(Tail(s)) : Tail(s)[i] = s[i + 1]
OBVIOUS

\* A call pushes its frame on the stack.
LEMMA Push ==
    ASSUME NEW S, NEW s \in Seq(S), NEW e \in S
    PROVE  /\ <<e>> \o s \in Seq(S)
           /\ Len(<<e>> \o s) = Len(s) + 1
           /\ DOMAIN (<<e>> \o s) = 1 .. Len(s) + 1
           /\ (<<e>> \o s)[1] = e
           /\ \A i \in 2 .. Len(s) + 1 : (<<e>> \o s)[i] = s[i - 1]
OBVIOUS

\* Taking the first element off moves the others up by one.
LEMMA Pop ==
    ASSUME NEW S, NEW s \in Seq(S), s # <<>>
    PROVE  /\ Head(s) = s[1] /\ Head(s) \in S /\ 1 \in DOMAIN s
           /\ \A i \in DOMAIN Tail(s) : i \in Int /\ i + 1 \in DOMAIN s /\ i + 1 # 1 /\ Tail(s)[i] = s[i + 1]
<1>1. Len(s) \in Nat \ {0} /\ DOMAIN s = 1 .. Len(s)
  BY SeqLength, Zenon
<1>2. /\ Head(s) = s[1] /\ Head(s) \in S
      /\ DOMAIN Tail(s) = 1 .. Len(s) - 1 /\ \A i \in 1 .. Len(s) - 1 : Tail(s)[i] = s[i + 1]
  BY SeqHeadTail, SeqLength
<1> QED
  BY <1>1, <1>2

-----------------------------------------------------------------------------
(* The inductive invariant *)

FsmType == {Idle} \cup [pc : {"reschedule"}] \cup [pc : {"switch"}, state : HostState]
           \cup [pc : {"activate"}, state : {"DEV_ACTIVATE"}]
           \cup [pc : {"err_out"}, state : {"DEV_SCAN"}]
           \cup [pc : {"get"}, state : DOMAIN Sends]
           \cup [pc : {"got"}, state : DOMAIN Sends, tag : Tag]
           \cup [pc : {"set"}, state : HostState, new : HostState]

\* Types of what the argument reads; every tag in use is below max_queue.
HostTypes ==
    /\ max_queue \in MaxQueue /\ state \in HostState /\ work \in BOOLEAN
    /\ cur_scan_dev \in Port \cup {-1} /\ dev_present \subseteq Port
    /\ msg_alloc \subseteq 0 .. max_queue - 1
    /\ req \in [Tag -> [n_elem : Nat, rq : Request \cup {Special}, type : MsgType \cup {"none"}]]
    /\ fsm \in FsmType
QueueTypes ==
    /\ rqs \in [Port -> Seq(Request)] /\ oob \in Seq(Message) /\ stack \in Seq(Frame)
    /\ wait_q \in [0 .. CARM_MAX_WAIT_Q - 1 -> Queue]
    /\ wait_q_prod \in Nat /\ wait_q_cons \in Nat
CardTypes ==
    /\ hw \in Seq(Message) /\ busy \subseteq Message
    /\ ring \in [0 .. RMSG_Q_LEN - 1 -> Answer \cup {NoAnswer, Event}]
    /\ ring_in \in 0 .. RMSG_Q_LEN - 1 /\ resp_idx \in Nat
Types == HostTypes /\ QueueTypes /\ CardTypes

\* A message with tag t is in oob_q or in the adapter, or answered, or about
\* to be filled in by fsm_task.
InOob(t)  == \E i \in DOMAIN oob : oob[i].tag = t
InHw(t)   == \E i \in DOMAIN hw : hw[i].tag = t
InBusy(t) == \E m \in busy : m.tag = t
InRing(t) == \E i \in DOMAIN ring : ring[i] \in Answer /\ ring[i].tag = t
Got(t)    == fsm.pc = "got" /\ fsm.tag = t

\* It is in one of these places only and its tag is allocated; no place holds
\* a tag twice; the message is about the request that has the tag.
Placed ==
    /\ \A t \in Tag : InOob(t) => t \in msg_alloc /\ ~InHw(t) /\ ~InBusy(t) /\ ~InRing(t) /\ ~Got(t)
    /\ \A t \in Tag : InHw(t) => t \in msg_alloc /\ ~InBusy(t) /\ ~InRing(t) /\ ~Got(t)
    /\ \A t \in Tag : InBusy(t) => t \in msg_alloc /\ ~InRing(t) /\ ~Got(t)
    /\ \A t \in Tag : InRing(t) => t \in msg_alloc /\ ~Got(t)
    /\ \A t \in Tag : Got(t) => t \in msg_alloc
Once ==
    /\ \A i, j \in DOMAIN oob : oob[i].tag = oob[j].tag => i = j
    /\ \A i, j \in DOMAIN hw : hw[i].tag = hw[j].tag => i = j
    /\ \A m, n \in busy : m.tag = n.tag => m = n
    /\ \A i, j \in DOMAIN ring : ring[i] \in Answer /\ ring[j] \in Answer /\ ring[i].tag = ring[j].tag => i = j
Meant ==
    /\ \A i \in DOMAIN oob : req[oob[i].tag].rq = oob[i].rq
    /\ \A i \in DOMAIN hw : req[hw[i].tag].rq = hw[i].rq
    /\ \A m \in busy : req[m.tag].rq = m.rq
Owned == Placed /\ Once /\ Meant

\* Where the turn of the state machine is.
Sent(t)    == req[t].type \in DOMAIN Expected
Handles(i) == stack[i].fn = "handle"
Quiet      == ~work /\ fsm = Idle
NoSent     == \A t \in Tag : ~Sent(t)
NoHandle   == \A i \in DOMAIN stack : ~Handles(i)
Started    == pci \in {"wait", "removing", "gone"}

Turns ==
    /\ \A t \in Tag : t \notin msg_alloc \/ Got(t) => ~Sent(t)
    /\ \A s, t \in Tag : Sent(s) /\ Sent(t) => s = t
    /\ \A t \in Tag : Sent(t) => Quiet /\ state = Expected[req[t].type] /\ NoHandle
    /\ \A i, j \in DOMAIN stack : Handles(i) /\ Handles(j) => i = j
    /\ \A i \in DOMAIN stack : Handles(i) => Quiet /\ state = Expected[stack[i].type]
    /\ work => fsm = Idle
    /\ fsm.pc \in {"switch", "get", "got", "err_out", "activate"} => state = fsm.state
    /\ fsm.pc = "set" => FsmOwnsState /\ fsm.state # "ERROR" /\ fsm.new # "INVALID"
    /\ ~Started => Quiet /\ state = "INVALID" /\ NoSent /\ NoHandle
    /\ Started => state # "INVALID"

IInv == Types /\ Owned /\ Turns

-----------------------------------------------------------------------------
(* Types *)

\* The frames of the stack are told apart by their function.
LEMMA Frames ==
    /\ \A q \in Queue : Rq(q) \in Frame /\ Rq(q).fn = "rq"
    /\ \A i \in 0 .. RMSG_Q_LEN - 1, n \in Nat : Irq(i, n) \in Frame /\ Irq(i, n).fn = "irq"
    /\ \A y \in DOMAIN Expected, a \in Answer :
        Handle(y, a) \in Frame /\ Handle(y, a).fn = "handle" /\ Handle(y, a).type = y
    /\ \A f \in Frame : f.fn = "irq" => f.idx \in 0 .. RMSG_Q_LEN - 1 /\ f.work \in Nat
    /\ \A f \in Frame : f.fn = "handle" => f.type \in DOMAIN Expected /\ f.answer \in Answer
BY DEF Frame, Rq, Irq, Handle

\* What carm_handle_responses goes on with is a stack again.
LEMMA NextSlotType ==
    ASSUME Types, InIrq
    PROVE  /\ NextSlot \in Seq(Frame) /\ Len(NextSlot) = Len(stack)
           /\ DOMAIN NextSlot = DOMAIN stack
           /\ NextSlot[1].fn = "irq"
           /\ \A i \in 2 .. Len(stack) : NextSlot[i] = stack[i]
           /\ Top.idx \in 0 .. RMSG_Q_LEN - 1
<1>1. stack \in Seq(Frame) /\ stack # <<>> /\ Top \in Frame
  BY SeqHeadTail, Zenon DEF Types, QueueTypes, InIrq, Top
<1>2. Top.idx \in 0 .. RMSG_Q_LEN - 1 /\ Top.work \in Nat
  BY <1>1, Frames, Zenon DEF InIrq
<1>3. (Top.idx + 1) % RMSG_Q_LEN \in 0 .. RMSG_Q_LEN - 1 /\ Top.work + 1 \in Nat
  BY <1>2, Sx8Assumption
<1> DEFINE f == Irq((Top.idx + 1) % RMSG_Q_LEN, Top.work + 1)
<1>4. f \in Frame /\ f.fn = "irq"
  BY <1>3, Frames, Zenon
<1>5. /\ Tail(stack) \in Seq(Frame) /\ Len(Tail(stack)) = Len(stack) - 1 /\ Len(stack) \in Nat
      /\ \A i \in 1 .. Len(stack) - 1 : Tail(stack)[i] = stack[i + 1]
      /\ DOMAIN stack = 1 .. Len(stack)
  BY <1>1, SeqHeadTail, SeqLength, Zenon
<1>6. NextSlot = <<f>> \o Tail(stack)
  BY Zenon DEF NextSlot
<1> HIDE DEF f
<1> QED
  BY <1>2, <1>4, <1>5, <1>6, Push

\* carm_end_rq takes the counters its caller gives it and starts one waiting
\* queue at most.
LEMMA EndRqTypes ==
    ASSUME Types, NEW c, NEW rest \in Seq(Frame), EndRq(c, rest)
    PROVE  /\ msg_alloc' = c.alloc /\ req' = c.req
           /\ stack' = rest \/ \E q \in Queue : stack' = <<Rq(q)>> \o rest
           /\ stack' \in Seq(Frame)
           /\ wait_q' \in [0 .. CARM_MAX_WAIT_Q - 1 -> Queue]
           /\ wait_q_prod' \in Nat /\ wait_q_cons' \in Nat
<1>0. msg_alloc' = c.alloc /\ req' = c.req
  BY Zenon DEF EndRq, SetTags
<1> DEFINE q == wait_q[wait_q_cons % CARM_MAX_WAIT_Q]
<1>1. CARM_MAX_WAIT_Q \in Nat \ {0} /\ WIDTH \in Nat \ {0} /\ OOB \in Queue
  BY Sx8Assumption DEF CARM_MAX_WAIT_Q, Queue
<1>2. /\ wait_q_cons % CARM_MAX_WAIT_Q \in 0 .. CARM_MAX_WAIT_Q - 1
      /\ (wait_q_cons + 1) % WIDTH \in Nat
  BY <1>1 DEF Types, QueueTypes
<1>3. q \in Queue
  BY <1>2, Zenon DEF Types, QueueTypes
<1>4. CASE stack' = rest /\ UNCHANGED wait
  BY <1>0, <1>4, Zenon DEF Types, QueueTypes, wait
<1>5. CASE /\ wait_q_cons' = (wait_q_cons + 1) % WIDTH
           /\ wait_q' = [wait_q EXCEPT ![wait_q_cons % CARM_MAX_WAIT_Q] = OOB]
           /\ stack' = <<Rq(q)>> \o rest
           /\ UNCHANGED wait_q_prod
  <2>1. stack' \in Seq(Frame)
    BY <1>3, <1>5, Frames, Push, Zenon
  <2>2. wait_q' \in [0 .. CARM_MAX_WAIT_Q - 1 -> Queue]
    BY <1>1, <1>2, <1>5, Zenon DEF Types, QueueTypes
  <2> QED
    BY <1>0, <1>2, <1>3, <1>5, <2>1, <2>2, Zenon DEF Types, QueueTypes
<1> QED
  BY <1>4, <1>5, Zenon DEF EndRq, carm_round_robin

\* carm_get_request returns a tag that is below max_queue and was free.
LEMMA GetTagFree ==
    ASSUME Types, CanGet
    PROVE  GetTag \in 0 .. max_queue - 1 /\ GetTag \in Tag /\ GetTag \notin msg_alloc
<1>1. max_queue \in Nat /\ max_queue <= CARM_MAX_REQ /\ CARM_MAX_REQ \in Nat
  BY Sx8Assumption DEF Types, HostTypes
<1>2. FreeTags \subseteq Int /\ FreeTags # {} /\ 0 \in Int /\ \A x \in FreeTags : x >= 0
  BY <1>1 DEF FreeTags, CanGet
<1>3. Min(FreeTags) \in FreeTags
  BY <1>2, MinMember, Zenon
<1> QED
  BY <1>1, <1>3 DEF GetTag, FreeTags, Tag

\* What an allocated tag leads to when it is put, or not (carm_put_request).
LEMMA PutTypes ==
    ASSUME Types, NEW t \in Tag
    PROVE  /\ Put(t).alloc = msg_alloc \ {t}
           /\ Put(t).req \in [Tag -> [n_elem : Nat, rq : Request \cup {Special},
                                     type : MsgType \cup {"none"}]]
           /\ \A s \in Tag \ {t} : Put(t).req[s] = req[s]
           /\ t \in msg_alloc => Put(t).req[t].type = "none"
           /\ t \notin msg_alloc => Put(t).req[t] = req[t]
<1>1. Free \in [n_elem : Nat, rq : Request \cup {Special}, type : MsgType \cup {"none"}] /\ Free.type = "none"
  BY Zenon DEF Free
<1> QED
  BY <1>1, Zenon DEF Put, Tags, Types, HostTypes

\* The tables of the state machine: a message is expected in the state it is
\* sent in, and none of them leads to the state before the probe.
LEMMA Tables ==
    /\ \A y \in DOMAIN Expected :
        /\ y \in MsgType /\ y # "rw" /\ y # "none"
        /\ Expected[y] \in HostState \ {"INVALID", "ERROR"}
        /\ Leads[y] \in HostState \ {"INVALID", "ERROR"}
    /\ \A s \in DOMAIN Sends :
        /\ Sends[s] \in DOMAIN Expected /\ Expected[Sends[s]] = s
        /\ s \in HostState \ {"INVALID", "ERROR"}
BY DEF Expected, Leads, Sends, MsgType, HostState

\* The state machine is started by the last stage of the probe only.
LEMMA Stages == \A s \in DOMAIN NextStage :
    /\ s \notin {"wait", "removing", "gone"}
    /\ NextStage[s] \in {"wait", "removing", "gone"} <=> s = "hw"
BY DEF NextStage

\* Where the switch of fsm_task leads: it is done, or adds the disks, or asks
\* for a tag, or goes on to another state from one that is not HST_ERROR.
LEMMA Switched ==
    ASSUME FsmSwitch, fsm.state \in HostState \ {"INVALID"}
    PROVE  \/ fsm' = Idle
           \/ fsm' = FsmAt("activate") /\ fsm.state = "DEV_ACTIVATE"
           \/ fsm' = FsmAt("get") /\ fsm.state \in DOMAIN Sends
           \/ fsm.state # "ERROR" /\ \E n \in {"ALLOC_BUF", "DEV_SCAN", "DEV_ACTIVATE"} : fsm' = FsmSet(n)
<1>1. fsm.state \in {"PROBE_START", "DEV_SCAN_START", "DEV_ACTIVATE", "PROBE_FINISHED", "ERROR"} \cup DOMAIN Sends
  BY Zenon DEF HostState, Sends
<1>2. CASE fsm.state = "PROBE_START"
  BY <1>2 DEF FsmSwitch
<1>3. CASE fsm.state = "DEV_SCAN_START"
  BY <1>3 DEF FsmSwitch
<1>4. CASE fsm.state = "DEV_ACTIVATE"
  BY <1>4 DEF FsmSwitch
<1>5. CASE fsm.state \in {"PROBE_FINISHED", "ERROR"}
  BY <1>5, Zenon DEF FsmSwitch, Sends
<1>6. CASE fsm.state \in DOMAIN Sends
  <2>1. fsm.state \notin {"PROBE_START", "DEV_SCAN_START", "DEV_ACTIVATE", "PROBE_FINISHED", "ERROR"}
    BY <1>6, Zenon DEF Sends
  <2> QED
    BY <1>6, <2>1 DEF FsmSwitch
<1> QED
  BY <1>1, <1>2, <1>3, <1>4, <1>5, <1>6, Zenon

\* The type invariant of the argument holds after every step.
LEMMA TypesNext ==
    ASSUME IInv, [Next]_vars
    PROVE  Types'
<1> USE DEF IInv, Types
<1>1. CASE UNCHANGED vars
  BY <1>1, Zenon DEF HostTypes, QueueTypes, CardTypes, vars, scan, tags, wait, card, bind
<1>r. ASSUME Return, stack # <<>>
      PROVE  stack' \in Seq(Frame)
  BY <1>r, SeqHeadTail, Zenon DEF Return, QueueTypes
<1>2. CASE \E q \in Queue : RqEmpty(q)
  BY <1>2, <1>r, Zenon DEF RqEmpty, InRq, HostTypes, QueueTypes, CardTypes, vars, scan, tags, wait, card, bind
<1>p. ASSUME NEW q \in Queue, carm_push_q(q)
      PROVE  /\ wait_q' \in [0 .. CARM_MAX_WAIT_Q - 1 -> Queue]
             /\ wait_q_prod' \in Nat /\ wait_q_cons' \in Nat
  <2>1. (wait_q_prod + 1) % WIDTH \in Nat
    BY Sx8Assumption DEF QueueTypes
  <2> QED
    BY <1>p, <2>1, Zenon DEF carm_push_q, QueueTypes
<1>3. CASE \E p \in Port : RqNoTag(p)
  BY <1>3, <1>r, <1>p, Zenon DEF RqNoTag, InRq, HostTypes, QueueTypes, CardTypes, Queue, vars, scan, tags, wait, card, bind
<1>4. CASE \E q \in Queue : RqBusy(q)
  BY <1>4, <1>r, <1>p, Zenon DEF RqBusy, InRq, HostTypes, QueueTypes, CardTypes, vars, scan, tags, wait, card, bind
<1>5. ASSUME NEW p \in Port, RqMapFails(p)
      PROVE  Types'
  <2>1. Tail(stack) \in Seq(Frame)
    BY <1>5, SeqHeadTail, Zenon DEF RqMapFails, InRq, QueueTypes
  <2>e. EndRq(Tags, Tail(stack)) /\ Tags.alloc = msg_alloc /\ Tags.req = req
    BY <1>5, Zenon DEF RqMapFails, Tags
  <2>2. /\ msg_alloc' = msg_alloc /\ req' = req /\ stack' \in Seq(Frame)
        /\ wait_q' \in [0 .. CARM_MAX_WAIT_Q - 1 -> Queue]
        /\ wait_q_prod' \in Nat /\ wait_q_cons' \in Nat
    BY <2>1, <2>e, EndRqTypes, Zenon
  <2>3. rqs' \in [Port -> Seq(Request)]
    BY <1>5, SeqHeadTail, Zenon DEF RqMapFails, QueueTypes
  <2> QED
    BY <1>5, <2>2, <2>3, Zenon DEF RqMapFails, HostTypes, QueueTypes, CardTypes, scan, card
<1>6. ASSUME NEW p \in Port, RqSend(p)
      PROVE  Types'
  <2>1. GetTag \in 0 .. max_queue - 1 /\ GetTag \in Tag
    BY <1>6, GetTagFree, Zenon DEF RqSend
  <2>2. Head(rqs[p]) \in Request /\ rqs' \in [Port -> Seq(Request)]
    BY <1>6, SeqHeadTail, Zenon DEF RqSend, QueueTypes
  <2>3. PICK n \in 1 .. CARM_MAX_REQ_SG :
            req' = [req EXCEPT ![GetTag] = [n_elem |-> n, rq |-> Head(rqs[p]), type |-> "rw"]]
    BY <1>6, <2>2, Sx8Assumption, Zenon DEF RqSend
  <2>4. HostTypes'
    <3>1. [n_elem |-> n, rq |-> Head(rqs[p]), type |-> "rw"] \in
              [n_elem : Nat, rq : Request \cup {Special}, type : MsgType \cup {"none"}]
      BY <2>2, Sx8Assumption DEF MsgType
    <3>2. req' \in [Tag -> [n_elem : Nat, rq : Request \cup {Special}, type : MsgType \cup {"none"}]]
      BY <2>3, <3>1, Zenon DEF HostTypes
    <3>3. msg_alloc' \subseteq 0 .. max_queue - 1
      BY <1>6, <2>1, Zenon DEF RqSend, HostTypes
    <3> QED
      BY <1>6, <3>2, <3>3, Zenon DEF RqSend, HostTypes, scan
  <2>5. hw' \in Seq(Message)
    <3>1. [tag |-> GetTag, rq |-> Head(rqs[p]), type |-> "rw", array |-> -1] \in Message
      BY <2>1, <2>2, Zenon DEF Message, MsgType
    <3> QED
      BY <1>6, <3>1 DEF RqSend, CardTypes
  <2> QED
    BY <1>6, <2>2, <2>4, <2>5, Zenon DEF RqSend, QueueTypes, CardTypes, wait
<1>7. CASE OobSend
  <2>1. oob' \in Seq(Message) /\ hw' \in Seq(Message)
    BY <1>7, SeqHeadTail DEF OobSend, QueueTypes, CardTypes
  <2> QED
    BY <1>7, <2>1, Zenon DEF OobSend, HostTypes, QueueTypes, CardTypes, scan, tags, wait
<1>8. CASE Interrupt
  <2>1. resp_idx % RMSG_Q_LEN \in 0 .. RMSG_Q_LEN - 1
    BY Sx8Assumption DEF CardTypes
  <2>2. Irq(resp_idx % RMSG_Q_LEN, 0) \in Frame
    BY <2>1, Frames, Zenon
  <2>3. stack' \in Seq(Frame)
    BY <1>8, <2>2 DEF Interrupt
  <2> QED
    BY <1>8, <2>3, Zenon DEF Interrupt, HostTypes, QueueTypes, CardTypes, scan, tags, wait
<1>a. ASSUME InIrq, ring' = [ring EXCEPT ![Top.idx] = NoAnswer]
      PROVE  ring' \in [0 .. RMSG_Q_LEN - 1 -> Answer \cup {NoAnswer, Event}]
  BY <1>a, NextSlotType, Zenon DEF CardTypes
<1>9. CASE HandleResp
  <2> DEFINE a == ring[Top.idx]
             t == TAG_DECODE(a.tag)
             y == req[t].type
             rest == IF y \in DOMAIN Expected THEN <<Handle(y, a)>> \o NextSlot ELSE NextSlot
  <2>1. a \in Answer /\ EndRq(Put(t), rest)
    BY <1>9, Zenon DEF HandleResp
  <2>2. t \in Tag
    <3>1. a.tag \in Tag
      BY <2>1, Zenon DEF Answer
    <3>2. \A x \in Nat, z \in Nat \ {0} : x % z \in Nat /\ x % z <= x
      OBVIOUS
    <3> QED
      BY <3>1, <3>2, Sx8Assumption DEF TAG_DECODE, Tag
  <2>3. rest \in Seq(Frame)
    BY <1>9, <2>1, NextSlotType, Frames, Push, Zenon DEF HandleResp
  <2> HIDE DEF rest, t
  <2>4. /\ msg_alloc' = Put(t).alloc /\ req' = Put(t).req /\ stack' \in Seq(Frame)
        /\ wait_q' \in [0 .. CARM_MAX_WAIT_Q - 1 -> Queue]
        /\ wait_q_prod' \in Nat /\ wait_q_cons' \in Nat
    BY <2>1, <2>3, EndRqTypes, Zenon
  <2>5. HostTypes'
    BY <1>9, <2>2, <2>4, PutTypes, Zenon DEF HandleResp, HostTypes, scan
  <2> QED
    BY <1>9, <1>a, <2>4, <2>5, Zenon DEF HandleResp, QueueTypes, CardTypes
<1>10. CASE SkipEvent
  BY <1>10, <1>a, NextSlotType, Zenon DEF SkipEvent, HostTypes, QueueTypes, CardTypes, scan, tags, wait
<1>11. CASE EndOfResponses
  <2>1. resp_idx' \in Nat
    <3>1. Top \in Frame /\ Top.fn = "irq"
      BY <1>11, SeqHeadTail, Zenon DEF EndOfResponses, InIrq, Top, QueueTypes
    <3>2. resp_idx \in Nat /\ Top.work \in Nat /\ WIDTH \in Nat \ {0}
      BY <3>1, Frames, Sx8Assumption, Zenon DEF CardTypes
    <3>3. resp_idx + Top.work \in Nat
      BY <3>2
    <3>4. (resp_idx + Top.work) % WIDTH \in Nat
      BY <3>2, <3>3, Remainder, Zenon
    <3> QED
      BY <1>11, <3>2, <3>4, Zenon DEF EndOfResponses
  <2> QED
    BY <1>11, <1>r, <2>1, Zenon DEF EndOfResponses, InIrq, HostTypes, QueueTypes, CardTypes, vars, scan, tags, wait, card, bind
<1>12. CASE HandleRest
  <2>1. Top \in Frame /\ Top.fn = "handle" /\ stack # <<>>
    BY <1>12, SeqHeadTail, Zenon DEF HandleRest, Top, QueueTypes
  <2>2. Top.type \in DOMAIN Expected
    BY <2>1, Frames, Zenon
  <2>3. state' \in HostState
    <3>1. Leads[Top.type] \in HostState /\ "ERROR" \in HostState
      BY <2>2, Tables, Zenon DEF HostState
    <3> QED
      BY <1>12, <3>1, Zenon DEF HandleRest, HostTypes
  <2>4. dev_present' \subseteq Port
    BY <1>12, Sx8Assumption DEF HandleRest, HostTypes, Port
  <2>5. work' = TRUE /\ Return
    BY <1>12, Zenon DEF HandleRest
  <2>6. UNCHANGED <<max_queue, cur_scan_dev, tags, wait, resp_idx, rqs, oob, card, fsm>>
    BY <1>12, Zenon DEF HandleRest
  <2> QED
    BY <1>r, <2>1, <2>3, <2>4, <2>5, <2>6, Zenon DEF HostTypes, QueueTypes, CardTypes, tags, wait, card
<1>13. CASE FsmStart
  <2>1. fsm' \in FsmType
    BY <1>13, Zenon DEF FsmStart, FsmType, HostTypes
  <2> QED
    BY <1>13, <2>1, Zenon DEF FsmStart, HostTypes, QueueTypes, CardTypes, scan, tags, wait, card
<1>14. CASE FsmSwitch
  <2>1. fsm \in FsmType /\ fsm.pc = "switch"
    BY <1>14, Zenon DEF FsmSwitch, HostTypes
  <2>2. fsm.state \in HostState
    BY <2>1 DEF FsmType, Idle
  <2>3. fsm.state # "INVALID"
    BY <2>1 DEF Turns, Quiet, Idle
  <2>4. fsm' \in FsmType
    BY <1>14, <2>1, <2>2, <2>3, Switched DEF FsmSet, FsmAt, FsmType, HostState
  <2>5. cur_scan_dev' \in Port \cup {-1}
    <3>1. ASSUME NextDev # {}
          PROVE  Min(NextDev) \in Port
      <4>0. NextDev \subseteq Port
        BY Zenon DEF NextDev, HostTypes
      <4>1. NextDev \subseteq Int /\ 0 \in Int /\ \A x \in NextDev : x >= 0
        BY <4>0, Sx8Assumption DEF Port
      <4>2. Min(NextDev) \in NextDev
        BY <3>1, <4>1, MinMember, Zenon
      <4> QED
        BY <4>0, <4>2, Zenon
    <3> QED
      BY <1>14, <3>1, Zenon DEF FsmSwitch, HostTypes
  <2>6. UNCHANGED <<max_queue, state, dev_present, tags, wait, resp_idx, rqs, oob, stack, card, work>>
    BY <1>14, Zenon DEF FsmSwitch
  <2> QED
    BY <2>4, <2>5, <2>6, Zenon DEF HostTypes, QueueTypes, CardTypes, tags, wait, card
<1>15. CASE GetSpecial
  <2>1. GetTag \in 0 .. max_queue - 1 /\ GetTag \in Tag
    BY <1>15, GetTagFree, Zenon DEF GetSpecial
  <2>2. fsm.state \in DOMAIN Sends
    BY <1>15 DEF GetSpecial, HostTypes, FsmType, Idle
  <2>3. fsm' \in FsmType
    BY <1>15, <2>1, <2>2, Zenon DEF GetSpecial, FsmType
  <2>4. req' \in [Tag -> [n_elem : Nat, rq : Request \cup {Special}, type : MsgType \cup {"none"}]]
    BY <1>15, <2>1, Zenon DEF GetSpecial, HostTypes
  <2>5. msg_alloc' \subseteq 0 .. max_queue - 1
    BY <1>15, <2>1, Zenon DEF GetSpecial, HostTypes
  <2> QED
    BY <1>15, <2>3, <2>4, <2>5, Zenon DEF GetSpecial, HostTypes, QueueTypes, CardTypes, scan, wait, card
<1>16. CASE SpecialFails
  <2>1. fsm.state \in HostState
    BY <1>16, Tables DEF SpecialFails, HostTypes, FsmType, Idle
  <2>2. fsm' \in FsmType /\ state' \in HostState
    BY <1>16, <2>1, Zenon DEF SpecialFails, FsmAt, FsmSet, FsmType, HostState, HostTypes
  <2>3. /\ msg_alloc' \subseteq msg_alloc
        /\ req' \in [Tag -> [n_elem : Nat, rq : Request \cup {Special}, type : MsgType \cup {"none"}]]
    <3>1. CASE fsm.pc = "got"
      <4>1. fsm.tag \in Tag
        BY <3>1 DEF HostTypes, FsmType, Idle
      <4> QED
        BY <1>16, <3>1, <4>1, PutTypes DEF SpecialFails, SetTags
    <3>2. CASE fsm.pc # "got"
      BY <1>16, <3>2, Zenon DEF SpecialFails, tags, HostTypes
    <3> QED
      BY <3>1, <3>2, Zenon
  <2>4. UNCHANGED <<max_queue, scan, wait, resp_idx, rqs, oob, stack, card, work>>
    BY <1>16, Zenon DEF SpecialFails
  <2> QED
    BY <2>2, <2>3, <2>4, Zenon DEF HostTypes, QueueTypes, CardTypes, scan, wait, card
<1>17. CASE SendSpecial
  <2> DEFINE y == Sends[fsm.state]
             m == [tag |-> fsm.tag, rq |-> Special, type |-> y,
                   array |-> IF y = "array_info" THEN cur_scan_dev ELSE -1]
  <2>1. fsm.tag \in Tag /\ fsm.state \in DOMAIN Sends
    BY <1>17 DEF SendSpecial, HostTypes, FsmType, Idle
  <2>2. y \in MsgType
    BY <2>1, Tables, Zenon
  <2>3. m \in Message
    BY <2>1, <2>2, Zenon DEF Message, HostTypes
  <2>4. req' = [req EXCEPT ![fsm.tag] = [n_elem |-> @.n_elem, rq |-> Special, type |-> y]]
    BY <1>17, Zenon DEF SendSpecial
  <2>5. oob' = <<m>> \o oob
    BY <1>17, Zenon DEF SendSpecial
  <2>6. OOB \in Queue
    BY Zenon DEF Queue
  <2>7. stack' \in Seq(Frame)
    BY <1>17, <2>6, Frames DEF SendSpecial
  <2> HIDE DEF y, m
  <2>8. oob' \in Seq(Message)
    BY <2>3, <2>5, Push, Zenon DEF QueueTypes
  <2>9. req' \in [Tag -> [n_elem : Nat, rq : Request \cup {Special}, type : MsgType \cup {"none"}]]
    BY <2>1, <2>2, <2>4, Zenon DEF HostTypes
  <2> QED
    BY <1>17, <2>7, <2>8, <2>9, Zenon DEF SendSpecial, HostTypes, QueueTypes, CardTypes, FsmType, scan, wait, card
<1>18. CASE AddDisk
  <2>1. fsm' \in FsmType
    BY <1>18 DEF AddDisk, HostTypes, FsmType, FsmSet, HostState, Idle
  <2> QED
    BY <1>18, <2>1, Zenon DEF AddDisk, HostTypes, QueueTypes, CardTypes, scan, tags, wait, card
<1>e. CASE ArrayInfoFails
  <2>1. fsm' \in FsmType
    BY <1>e DEF ArrayInfoFails, HostTypes, FsmType, FsmSet, HostState, Idle
  <2> QED
    BY <1>e, <2>1, Zenon DEF ArrayInfoFails, HostState, HostTypes, QueueTypes, CardTypes, scan, tags, wait, card
<1>19. CASE FsmWrite
  <2>1. state' \in HostState
    BY <1>19 DEF FsmWrite, HostTypes, FsmType, Idle
  <2> QED
    BY <1>19, <2>1, Zenon DEF FsmWrite, HostTypes, QueueTypes, CardTypes, FsmType, scan, tags, wait, card
<1>s. CASE Reschedule
  BY <1>s, Zenon DEF Reschedule, HostTypes, QueueTypes, CardTypes, FsmType, scan, tags, wait, card
<1>20. CASE ProbeStage
  <2>1. state' \in HostState /\ work' \in BOOLEAN
    BY <1>20, Zenon DEF ProbeStage, HostTypes, HostState
  <2> QED
    BY <1>20, <2>1, Zenon DEF ProbeStage, HostTypes, QueueTypes, CardTypes, scan, tags, wait, card
<1>21. CASE ProbeFails \/ Unbind \/ FreeHost
  BY <1>21, Zenon DEF ProbeFails, Unbind, FreeHost, HostTypes, QueueTypes, CardTypes, scan, tags, wait, card
<1>22. CASE \E p \in Port : CleanupQueue(p)
  BY <1>22, Zenon DEF CleanupQueue, HostTypes, QueueTypes, CardTypes, scan, tags, wait, card
<1>c. \A p \in Port : <<Rq(p)>> \in Seq(Frame) /\ <<>> \in Seq(Frame)
  BY Frames DEF Queue
<1>23. CASE \E p \in Port : DelGendisk(p)
  BY <1>23, <1>c, Zenon DEF DelGendisk, HostTypes, QueueTypes, CardTypes, scan, tags, wait, card
<1>24. ASSUME NEW r \in Request, Submit(r)
       PROVE  Types'
  <2>1. r[1] \in Port
    BY Sx8Assumption, Zenon DEF Port
  <2>2. rqs' \in [Port -> Seq(Request)]
    BY <1>24, <2>1 DEF Submit, QueueTypes
  <2>3. stack' \in Seq(Frame)
    BY <1>24, <1>c, <2>1, Zenon DEF Submit
  <2> QED
    BY <1>24, <2>2, <2>3, Zenon DEF Submit, HostTypes, QueueTypes, CardTypes, scan, tags, wait, card
<1>25. CASE Take
  <2>1. hw' \in Seq(Message) /\ busy' \subseteq Message
    BY <1>25, SeqHeadTail, Zenon DEF Take, CardTypes
  <2> QED
    BY <1>25, <2>1, Zenon DEF Take, HostTypes, QueueTypes, CardTypes, scan, tags, wait
<1>i. (ring_in + 1) % RMSG_Q_LEN \in 0 .. RMSG_Q_LEN - 1
  BY Sx8Assumption DEF CardTypes
<1>26. ASSUME NEW t \in Tag, Respond(t)
       PROVE  Types'
  <2>1. PICK m \in busy, ok \in BOOLEAN :
            ring' = [ring EXCEPT ![ring_in] = [tag |-> m.tag, ok |-> ok, array |-> m.array]]
            /\ busy' = busy \ {m}
    BY <1>26, Zenon DEF Respond
  <2>2. [tag |-> m.tag, ok |-> ok, array |-> m.array] \in Answer
    BY Zenon DEF Answer, Message, CardTypes
  <2>3. ring' \in [0 .. RMSG_Q_LEN - 1 -> Answer \cup {NoAnswer, Event}]
    BY <2>1, <2>2, Zenon DEF CardTypes
  <2> QED
    BY <1>26, <1>i, <2>1, <2>3, Zenon DEF Respond, HostTypes, QueueTypes, CardTypes, scan, tags, wait
<1>27. CASE AdapterEvent
  <2>1. ring' \in [0 .. RMSG_Q_LEN - 1 -> Answer \cup {NoAnswer, Event}] /\ ring_in' \in 0 .. RMSG_Q_LEN - 1
    BY <1>27, <1>i, Zenon DEF AdapterEvent, CardTypes
  <2> QED
    BY <1>27, <2>1, Zenon DEF AdapterEvent, HostTypes, QueueTypes, CardTypes, scan, tags, wait
<1> QED
  BY <1>1, <1>2, <1>3, <1>4, <1>5, <1>6, <1>7, <1>8, <1>9, <1>10, <1>11, <1>12, <1>13, <1>14,
     <1>15, <1>16, <1>17, <1>18, <1>e, <1>19, <1>s, <1>20, <1>21, <1>22, <1>23, <1>24, <1>25, <1>26, <1>27
 , Zenon DEF Next, Locked, RunRq, RunIrq, Fsm, Message_, Bind, Unwind, Adapter

-----------------------------------------------------------------------------
(* Who owns a tag: every message is in one place at a time, under a tag    *)
(* that is allocated to it: in the out-of-band queue, in the adapter's     *)
(* memory, being worked on, in the response ring, or about to be filled in.*)

\* max_queue is within the tags that TAG_DECODE tells apart.
TagsFit == MaxQueue \subseteq 1 .. TAG_SPACE

\* TAG_DECODE then gives back the tag the message was sent with.
LEMMA Decoded ==
    ASSUME TagsFit, HostTypes, NEW t \in msg_alloc
    PROVE  TAG_DECODE(t) = t
<1>1. t \in 0 .. max_queue - 1 /\ max_queue \in 1 .. TAG_SPACE /\ TAG_SPACE \in Nat \ {0}
  BY Sx8Assumption, Zenon DEF TagsFit, HostTypes
<1>2. \A x \in Nat, z \in Nat \ {0} : x < z => x % z = x
  OBVIOUS
<1> QED
  BY <1>1, <1>2 DEF TAG_DECODE

\* Messages, answers and the tags in use have tags of the host's table.
LEMMA MessageTags ==
    ASSUME Types
    PROVE  /\ msg_alloc \subseteq Tag
           /\ \A i \in DOMAIN oob : oob[i].tag \in Tag
           /\ \A i \in DOMAIN hw : hw[i].tag \in Tag
           /\ \A m \in busy : m.tag \in Tag
           /\ \A a \in Answer : a.tag \in Tag
<1>1. msg_alloc \subseteq Tag
  <2>1. max_queue \in Nat /\ max_queue <= CARM_MAX_REQ /\ CARM_MAX_REQ \in Nat
    BY Sx8Assumption DEF Types, HostTypes
  <2> QED
    BY <2>1 DEF Types, HostTypes, Tag
<1>2. (\A m \in Message : m.tag \in Tag) /\ (\A a \in Answer : a.tag \in Tag)
  BY Zenon DEF Message, Answer
<1>3. \A i \in DOMAIN oob : oob[i] \in Message
  BY SeqLength, Zenon DEF Types, QueueTypes
<1>4. \A i \in DOMAIN hw : hw[i] \in Message
  BY SeqLength, Zenon DEF Types, CardTypes
<1>5. \A m \in busy : m \in Message
  BY Zenon DEF Types, CardTypes
<1> QED
  BY <1>1, <1>2, <1>3, <1>4, <1>5, Zenon

\* An empty slot and an event are not answers.
LEMMA NotAnswers == NoAnswer \notin Answer /\ Event \notin Answer
BY Sx8Assumption, Zenon DEF NoAnswer, Event, Answer, Tag

\* A step that moves no message and gets no tag for fsm_task keeps them owned.
LEMMA OwnedStutter ==
    ASSUME Owned, UNCHANGED <<msg_alloc, req, oob, hw, busy, ring>>, fsm' = fsm \/ fsm'.pc # "got"
    PROVE  Owned'
BY Zenon DEF Owned, Placed, Once, Meant, InOob, InHw, InBusy, InRing, Got

\* A message appended to the adapter's queue, when its tag is not there yet.
LEMMA Queued ==
    ASSUME Types, Once, NEW m \in Message, hw' = Append(hw, m), ~InHw(m.tag)
    PROVE  /\ \A t \in Tag : InHw(t)' <=> InHw(t) \/ t = m.tag
           /\ \A i, j \in DOMAIN hw' : hw'[i].tag = hw'[j].tag => i = j
           /\ \A i \in DOMAIN hw' : hw'[i] = m \/ \E j \in DOMAIN hw : hw'[i] = hw[j]
<1>1. hw \in Seq(Message) /\ DOMAIN hw = 1 .. Len(hw) /\ Len(hw) \in Nat
  BY SeqLength, Zenon DEF Types, CardTypes
<1>2. /\ DOMAIN hw' = 1 .. Len(hw) + 1 /\ hw'[Len(hw) + 1] = m
      /\ \A i \in 1 .. Len(hw) : hw'[i] = hw[i]
  BY <1>1
<1>3. \A t \in Tag : InHw(t)' <=> InHw(t) \/ t = m.tag
  BY <1>1, <1>2 DEF InHw
<1>4. \A i, j \in DOMAIN hw' : hw'[i].tag = hw'[j].tag => i = j
  BY <1>1, <1>2 DEF Once, InHw
<1>5. \A i \in DOMAIN hw' : hw'[i] = m \/ \E j \in DOMAIN hw : hw'[i] = hw[j]
  BY <1>1, <1>2
<1> QED
  BY <1>3, <1>4, <1>5, Zenon

\* A message is in one place at a time, under an allocated tag, after every step.
LEMMA OwnedNext ==
    ASSUME TagsFit, IInv, Types', [Next]_vars
    PROVE  Owned'
<1>0. /\ Types /\ Placed /\ Once /\ Meant /\ Turns
      /\ HostTypes /\ QueueTypes /\ CardTypes /\ fsm \in FsmType
  BY Zenon DEF IInv, Owned, Types, HostTypes
<1>t. /\ msg_alloc \subseteq Tag
      /\ \A i \in DOMAIN oob : oob[i].tag \in Tag
      /\ \A i \in DOMAIN hw : hw[i].tag \in Tag
      /\ \A m \in busy : m.tag \in Tag
  BY <1>0, MessageTags, Zenon
<1>u. ASSUME UNCHANGED <<msg_alloc, req, oob, hw, busy, ring>>, fsm' = fsm \/ fsm'.pc # "got"
      PROVE  Owned'
  BY <1>0, <1>u, OwnedStutter, Zenon DEF Owned
<1>1. CASE UNCHANGED vars
  BY <1>1, <1>u, Zenon DEF vars, tags, card
<1>2. CASE (\E q \in Queue : RqEmpty(q) \/ RqBusy(q)) \/ (\E p \in Port : RqNoTag(p))
  BY <1>2, <1>u, Zenon DEF RqEmpty, RqBusy, RqNoTag, tags, card
<1>3. ASSUME NEW p \in Port, RqMapFails(p)
      PROVE  Owned'
  BY <1>3, <1>u, Zenon DEF RqMapFails, EndRq, SetTags, Tags, card
<1>4. ASSUME NEW p \in Port, RqSend(p)
      PROVE  Owned'
  <2> DEFINE g == GetTag
             m == [tag |-> g, rq |-> Head(rqs[p]), type |-> "rw", array |-> -1]
  <2>1. g \in Tag /\ g \notin msg_alloc
    BY <1>0, <1>4, GetTagFree, Zenon DEF RqSend
  <2>2. hw' = Append(hw, m) /\ m.tag = g
    BY <1>4, Zenon DEF RqSend
  <2>3. m \in Message
    <3>1. Head(rqs[p]) \in Request
      BY <1>0, <1>4, SeqHeadTail, Zenon DEF RqSend, QueueTypes
    <3> QED
      BY <2>1, <3>1, Zenon DEF Message, MsgType
  <2>4. req'[g].rq = m.rq /\ \A t \in Tag \ {g} : req'[t] = req[t]
    BY <1>0, <1>4, <2>1 DEF RqSend, HostTypes
  <2>5. /\ msg_alloc' = msg_alloc \cup {g}
        /\ UNCHANGED <<oob, busy, ring, fsm>>
    BY <1>4, Zenon DEF RqSend
  <2> HIDE DEF g, m
  <2>6. ~InOob(g) /\ ~InHw(g) /\ ~InBusy(g) /\ ~InRing(g) /\ ~Got(g)
    BY <1>0, <2>1, Zenon DEF Placed
  <2>7. /\ \A t \in Tag : InHw(t)' <=> InHw(t) \/ t = g
        /\ \A i, j \in DOMAIN hw' : hw'[i].tag = hw'[j].tag => i = j
        /\ \A i \in DOMAIN hw' : hw'[i] = m \/ \E j \in DOMAIN hw : hw'[i] = hw[j]
    BY <1>0, <2>2, <2>3, <2>6, Queued, Zenon
  <2>8. \A t \in Tag : (InOob(t)' <=> InOob(t)) /\ (InBusy(t)' <=> InBusy(t))
                      /\ (InRing(t)' <=> InRing(t)) /\ (Got(t)' <=> Got(t))
    BY <2>5, Zenon DEF InOob, InBusy, InRing, Got
  <2>9. Placed'
    BY <1>0, <2>1, <2>5, <2>6, <2>7, <2>8, Zenon DEF Placed
  <2>10. Once'
    BY <1>0, <2>5, <2>7, Zenon DEF Once
  <2>11. Meant'
    <3>1. \A i \in DOMAIN oob : oob[i].tag \in Tag \ {g}
      BY <1>t, <2>6, Zenon DEF InOob
    <3>2. \A i \in DOMAIN hw : hw[i].tag \in Tag \ {g}
      BY <1>t, <2>6, Zenon DEF InHw
    <3>3. \A n \in busy : n.tag \in Tag \ {g}
      BY <1>t, <2>6, Zenon DEF InBusy
    <3>4. \A i \in DOMAIN hw' : req'[hw'[i].tag].rq = hw'[i].rq
      BY <1>0, <2>2, <2>4, <2>7, <3>2 DEF Meant
    <3> QED
      BY <1>0, <2>4, <2>5, <3>1, <3>3, <3>4, Zenon DEF Meant
  <2> QED
    BY <2>9, <2>10, <2>11, Zenon DEF Owned
<1>5. CASE OobSend
  <2> DEFINE m == Head(oob)
  <2>1. hw' = Append(hw, m) /\ oob \in Seq(Message) /\ oob # <<>> /\ oob' = Tail(oob)
        /\ UNCHANGED <<msg_alloc, req, busy, ring, fsm>>
    BY <1>0, <1>5, Zenon DEF OobSend, QueueTypes, tags
  <2>2. /\ m = oob[1] /\ m \in Message /\ 1 \in DOMAIN oob
        /\ \A i \in DOMAIN oob' : i \in Int /\ i + 1 \in DOMAIN oob /\ i + 1 # 1 /\ oob'[i] = oob[i + 1]
    BY <2>1, Pop, Zenon
  <2> HIDE DEF m
  <2>3. m.tag \in Tag /\ InOob(m.tag)
    BY <1>t, <2>2, Zenon DEF InOob
  <2>4. ~InHw(m.tag) /\ ~InBusy(m.tag) /\ ~InRing(m.tag) /\ ~Got(m.tag) /\ m.tag \in msg_alloc
    BY <1>0, <2>3, Zenon DEF Placed
  <2>5. /\ \A t \in Tag : InHw(t)' <=> InHw(t) \/ t = m.tag
        /\ \A i, j \in DOMAIN hw' : hw'[i].tag = hw'[j].tag => i = j
        /\ \A i \in DOMAIN hw' : hw'[i] = m \/ \E j \in DOMAIN hw : hw'[i] = hw[j]
    BY <1>0, <2>1, <2>2, <2>4, Queued, Zenon
  <2>6. \A t \in Tag : InOob(t)' => InOob(t) /\ t # m.tag
    BY <1>0, <2>2, Zenon DEF InOob, Once
  <2>7. \A t \in Tag : (InBusy(t)' <=> InBusy(t)) /\ (InRing(t)' <=> InRing(t)) /\ (Got(t)' <=> Got(t))
    BY <2>1, Zenon DEF InBusy, InRing, Got
  <2>8. Placed'
    BY <1>0, <2>1, <2>4, <2>5, <2>6, <2>7, Zenon DEF Placed
  <2>9. \A i, j \in DOMAIN oob' : oob'[i].tag = oob'[j].tag => i = j
    <3> TAKE i, j \in DOMAIN oob'
    <3>1. oob[i + 1].tag = oob[j + 1].tag => i + 1 = j + 1
      BY <1>0, <2>2, Zenon DEF Once
    <3> QED
      BY <2>2, <3>1
  <2>10. Once'
    BY <1>0, <2>1, <2>5, <2>9, Zenon DEF Once
  <2>11. Meant'
    BY <1>0, <2>1, <2>2, <2>5 DEF Meant
  <2> QED
    BY <2>8, <2>10, <2>11, Zenon DEF Owned
<1>6. CASE Interrupt \/ EndOfResponses \/ HandleRest
  BY <1>6, <1>u, Zenon DEF Interrupt, EndOfResponses, HandleRest, tags, card
<1>r. DOMAIN ring = 0 .. RMSG_Q_LEN - 1
  BY <1>0, Zenon DEF CardTypes
<1>c. ASSUME InIrq, ring' = [ring EXCEPT ![Top.idx] = NoAnswer]
      PROVE  /\ \A t \in Tag : InRing(t)' => InRing(t) /\ (ring[Top.idx] \in Answer => t # ring[Top.idx].tag)
             /\ \A i, j \in DOMAIN ring' :
                    ring'[i] \in Answer /\ ring'[j] \in Answer /\ ring'[i].tag = ring'[j].tag => i = j
  <2>1. Top.idx \in DOMAIN ring
    BY <1>0, <1>c, <1>r, NextSlotType, Zenon
  <2>2. DOMAIN ring' = DOMAIN ring /\ ring'[Top.idx] \notin Answer
        /\ \A i \in DOMAIN ring \ {Top.idx} : ring'[i] = ring[i]
    BY <1>0, <1>c, <2>1, NotAnswers, Zenon DEF CardTypes
  <2> QED
    BY <1>0, <2>1, <2>2, Zenon DEF InRing, Once
<1>7. CASE HandleResp
  <2> DEFINE a == ring[Top.idx]
             t == TAG_DECODE(a.tag)
  <2>1. a \in Answer /\ msg_alloc' = Put(t).alloc /\ req' = Put(t).req
        /\ ring' = [ring EXCEPT ![Top.idx] = NoAnswer] /\ InIrq
        /\ UNCHANGED <<oob, hw, busy, fsm>>
    BY <1>7, Zenon DEF HandleResp, EndRq, SetTags
  <2>2. Top.idx \in DOMAIN ring
    BY <1>0, <1>r, <2>1, NextSlotType, Zenon
  <2>3. a.tag \in Tag /\ InRing(a.tag)
    BY <1>0, <2>1, <2>2, MessageTags, Zenon DEF InRing
  <2>4. a.tag \in msg_alloc /\ ~InOob(a.tag) /\ ~InHw(a.tag) /\ ~InBusy(a.tag) /\ ~Got(a.tag)
    BY <1>0, <2>3, Zenon DEF Placed
  <2>5. t = a.tag
    BY <1>0, <2>4, Decoded, Zenon
  <2>6. /\ \A s \in Tag : InRing(s)' => InRing(s) /\ s # a.tag
        /\ \A i, j \in DOMAIN ring' :
               ring'[i] \in Answer /\ ring'[j] \in Answer /\ ring'[i].tag = ring'[j].tag => i = j
    BY <1>c, <2>1, Zenon
  <2> HIDE DEF a, t
  <2>7. msg_alloc' = msg_alloc \ {t} /\ \A s \in Tag \ {t} : req'[s] = req[s]
    BY <1>0, <2>1, <2>3, <2>5, PutTypes, Zenon
  <2>8. \A s \in Tag : (InOob(s)' <=> InOob(s)) /\ (InHw(s)' <=> InHw(s))
                      /\ (InBusy(s)' <=> InBusy(s)) /\ (Got(s)' <=> Got(s))
    BY <2>1, Zenon DEF InOob, InHw, InBusy, Got
  <2>9. Placed'
    BY <1>0, <2>4, <2>5, <2>6, <2>7, <2>8, Zenon DEF Placed
  <2>10. Once'
    BY <1>0, <2>1, <2>6, Zenon DEF Once
  <2>11. Meant'
    <3>1. /\ \A i \in DOMAIN oob : oob[i].tag \in Tag \ {t}
          /\ \A i \in DOMAIN hw : hw[i].tag \in Tag \ {t}
          /\ \A m \in busy : m.tag \in Tag \ {t}
      BY <1>t, <2>4, <2>5, Zenon DEF InOob, InHw, InBusy
    <3> QED
      BY <1>0, <2>1, <2>7, <3>1, Zenon DEF Meant
  <2> QED
    BY <2>9, <2>10, <2>11, Zenon DEF Owned
<1>8. CASE SkipEvent
  <2>1. /\ UNCHANGED <<msg_alloc, req, oob, hw, busy, fsm>>
        /\ ring' = [ring EXCEPT ![Top.idx] = NoAnswer] /\ InIrq
    BY <1>8, Zenon DEF SkipEvent, tags
  <2>2. Placed'
    BY <1>0, <1>c, <2>1, Zenon DEF Placed, InOob, InHw, InBusy, Got
  <2>3. Once' /\ Meant'
    BY <1>0, <1>c, <2>1, Zenon DEF Once, Meant
  <2> QED
    BY <2>2, <2>3, Zenon DEF Owned
<1>9. CASE FsmStart \/ FsmSwitch \/ AddDisk \/ FsmWrite \/ Reschedule \/ ArrayInfoFails
  <2>1. fsm' = fsm \/ fsm'.pc # "got"
    <3>1. CASE FsmStart \/ AddDisk \/ FsmWrite \/ Reschedule \/ ArrayInfoFails
      BY <3>1 DEF FsmStart, AddDisk, FsmWrite, Reschedule, ArrayInfoFails, FsmSet, Idle
    <3>2. CASE FsmSwitch
      <4>1. fsm.state \in HostState /\ fsm.state # "INVALID"
        BY <1>0, <3>2 DEF FsmSwitch, FsmType, Idle, Turns, Quiet
      <4> QED
        BY <3>2, <4>1, Switched DEF FsmSet, FsmAt, Idle
    <3> QED
      BY <1>9, <3>1, <3>2, Zenon
  <2>2. UNCHANGED <<tags, oob, card>>
    BY <1>9, Zenon DEF FsmStart, FsmSwitch, AddDisk, FsmWrite, Reschedule, ArrayInfoFails
  <2> QED
    BY <1>u, <2>1, <2>2, Zenon DEF tags, card
<1>10. CASE GetSpecial
  <2> DEFINE g == GetTag
  <2>1. g \in Tag /\ g \notin msg_alloc
    BY <1>0, <1>10, GetTagFree, Zenon DEF GetSpecial
  <2>2. /\ msg_alloc' = msg_alloc \cup {g} /\ fsm'.pc = "got" /\ fsm'.tag = g /\ fsm.pc = "get"
        /\ UNCHANGED <<oob, hw, busy, ring>>
    BY <1>10, Zenon DEF GetSpecial, card
  <2>3. \A t \in Tag : req'[t].rq = req[t].rq
    BY <1>0, <1>10, <2>1, Zenon DEF GetSpecial, HostTypes
  <2> HIDE DEF g
  <2>4. \A t \in Tag : Got(t)' <=> t = g
    BY <2>2, Zenon DEF Got
  <2>5. \A t \in Tag : (InOob(t)' <=> InOob(t)) /\ (InHw(t)' <=> InHw(t))
                      /\ (InBusy(t)' <=> InBusy(t)) /\ (InRing(t)' <=> InRing(t))
    BY <2>2, Zenon DEF InOob, InHw, InBusy, InRing
  <2>6. Placed'
    BY <1>0, <2>1, <2>2, <2>4, <2>5, Zenon DEF Placed
  <2>7. Once'
    BY <1>0, <2>2, Zenon DEF Once
  <2>8. Meant'
    BY <1>0, <1>t, <2>2, <2>3, Zenon DEF Meant
  <2> QED
    BY <2>6, <2>7, <2>8, Zenon DEF Owned
<1>11. CASE SpecialFails
  <2>1. UNCHANGED <<oob, hw, busy, ring>> /\ fsm'.pc # "got"
    BY <1>11, Zenon DEF SpecialFails, FsmAt, FsmSet, card
  <2>2. CASE fsm.pc = "got"
    <3> DEFINE t == fsm.tag
    <3>1. t \in Tag /\ Got(t)
      BY <1>0, <2>2 DEF FsmType, Idle, Got
    <3>2. t \in msg_alloc /\ ~InOob(t) /\ ~InHw(t) /\ ~InBusy(t) /\ ~InRing(t)
      BY <1>0, <3>1, Zenon DEF Placed
    <3>3. msg_alloc' = Put(t).alloc /\ req' = Put(t).req
      BY <1>11, <2>2, Zenon DEF SpecialFails, SetTags
    <3>4. msg_alloc' = msg_alloc \ {t} /\ \A s \in Tag \ {t} : req'[s] = req[s]
      BY <1>0, <3>1, <3>3, PutTypes, Zenon
    <3> HIDE DEF t
    <3>5. \A s \in Tag : (InOob(s)' <=> InOob(s)) /\ (InHw(s)' <=> InHw(s))
                        /\ (InBusy(s)' <=> InBusy(s)) /\ (InRing(s)' <=> InRing(s)) /\ ~Got(s)'
      BY <2>1, Zenon DEF InOob, InHw, InBusy, InRing, Got
    <3>6. Placed'
      BY <1>0, <3>2, <3>4, <3>5, Zenon DEF Placed
    <3>7. Once'
      BY <1>0, <2>1, Zenon DEF Once
    <3>8. /\ \A i \in DOMAIN oob : oob[i].tag \in Tag \ {t}
          /\ \A i \in DOMAIN hw : hw[i].tag \in Tag \ {t}
          /\ \A m \in busy : m.tag \in Tag \ {t}
      BY <1>t, <3>2, Zenon DEF InOob, InHw, InBusy
    <3>9. Meant'
      BY <1>0, <2>1, <3>4, <3>8, Zenon DEF Meant
    <3> QED
      BY <3>6, <3>7, <3>9, Zenon DEF Owned
  <2>3. CASE fsm.pc # "got"
    BY <1>11, <1>u, <2>1, <2>3, Zenon DEF SpecialFails, tags
  <2> QED
    BY <2>2, <2>3, Zenon
<1>12. CASE SendSpecial
  <2> DEFINE t == fsm.tag
             y == Sends[fsm.state]
             m == [tag |-> t, rq |-> Special, type |-> y,
                   array |-> IF y = "array_info" THEN cur_scan_dev ELSE -1]
  <2>1. t \in Tag /\ Got(t) /\ fsm.state \in DOMAIN Sends
    BY <1>0, <1>12 DEF SendSpecial, FsmType, Idle, Got
  <2>2. t \in msg_alloc /\ ~InOob(t) /\ ~InHw(t) /\ ~InBusy(t) /\ ~InRing(t)
    BY <1>0, <2>1, Zenon DEF Placed
  <2>3. /\ oob' = <<m>> \o oob /\ m.tag = t /\ m.rq = Special
        /\ UNCHANGED <<msg_alloc, hw, busy, ring>> /\ fsm'.pc # "got"
    BY <1>12, Zenon DEF SendSpecial, card, Idle
  <2>4. req'[t].rq = Special /\ \A s \in Tag \ {t} : req'[s] = req[s]
    BY <1>0, <1>12, <2>1, Zenon DEF SendSpecial, HostTypes
  <2>5. m \in Message
    <3>1. y \in MsgType
      BY <2>1, Tables, Zenon
    <3> QED
      BY <1>0, <2>1, <3>1, Zenon DEF Message, HostTypes
  <2> HIDE DEF t, y, m
  <2>6. oob \in Seq(Message) /\ DOMAIN oob = 1 .. Len(oob) /\ Len(oob) \in Nat
    BY <1>0, SeqLength, Zenon DEF QueueTypes
  <2>7. /\ DOMAIN oob' = 1 .. Len(oob) + 1 /\ oob'[1] = m
        /\ \A i \in 2 .. Len(oob) + 1 : oob'[i] = oob[i - 1]
    BY <2>3, <2>5, <2>6, Push
  <2>8. \A i \in DOMAIN oob' : i \in Int /\ (i # 1 => i - 1 \in DOMAIN oob /\ oob'[i] = oob[i - 1])
    BY <2>6, <2>7
  <2>9. /\ \A i \in DOMAIN oob : oob[i].tag \in Tag \ {t}
        /\ \A i \in DOMAIN hw : hw[i].tag \in Tag \ {t}
        /\ \A n \in busy : n.tag \in Tag \ {t}
    BY <1>t, <2>2, Zenon DEF InOob, InHw, InBusy
  <2>10. \A s \in Tag : InOob(s)' => InOob(s) \/ s = t
    BY <2>3, <2>7, <2>8, Zenon DEF InOob
  <2>11. \A s \in Tag : (InHw(s)' <=> InHw(s)) /\ (InBusy(s)' <=> InBusy(s))
                       /\ (InRing(s)' <=> InRing(s)) /\ ~Got(s)'
    BY <2>3, Zenon DEF InHw, InBusy, InRing, Got
  <2>12. Placed'
    BY <1>0, <2>2, <2>3, <2>10, <2>11, Zenon DEF Placed
  <2>13. \A i, j \in DOMAIN oob' : oob'[i].tag = oob'[j].tag => i = j
    <3> TAKE i, j \in DOMAIN oob'
    <3>1. i # 1 /\ j # 1 => (oob[i - 1].tag = oob[j - 1].tag => i - 1 = j - 1)
      BY <1>0, <2>8, Zenon DEF Once
    <3>2. (i # 1 => oob'[i].tag # t) /\ (j # 1 => oob'[j].tag # t)
      BY <2>8, <2>9, Zenon
    <3> QED
      BY <2>3, <2>7, <2>8, <3>1, <3>2
  <2>14. Once'
    BY <1>0, <2>3, <2>13, Zenon DEF Once
  <2>15. \A i \in DOMAIN oob' : req'[oob'[i].tag].rq = oob'[i].rq
    BY <1>0, <2>3, <2>4, <2>7, <2>8, <2>9 DEF Meant
  <2>16. Meant'
    BY <1>0, <2>3, <2>4, <2>9, <2>15, Zenon DEF Meant
  <2> QED
    BY <2>12, <2>14, <2>16, Zenon DEF Owned
<1>13. CASE Bind \/ \E r \in Request : Submit(r)
  <2>1. UNCHANGED <<tags, oob, card, fsm>>
    BY <1>13, Zenon DEF Bind, Unwind, ProbeStage, ProbeFails, Unbind, DelGendisk, CleanupQueue, FreeHost, Submit
  <2> QED
    BY <1>u, <2>1, Zenon DEF tags, card
<1>14. CASE Take
  <2> DEFINE m == Head(hw)
  <2>1. hw \in Seq(Message) /\ hw # <<>> /\ hw' = Tail(hw) /\ busy' = busy \cup {m}
        /\ UNCHANGED <<msg_alloc, req, oob, ring, fsm>>
    BY <1>0, <1>14, Zenon DEF Take, CardTypes, tags
  <2>2. /\ m = hw[1] /\ 1 \in DOMAIN hw
        /\ \A i \in DOMAIN hw' : i \in Int /\ i + 1 \in DOMAIN hw /\ i + 1 # 1 /\ hw'[i] = hw[i + 1]
    BY <2>1, Pop, Zenon
  <2> HIDE DEF m
  <2>3. m.tag \in Tag /\ InHw(m.tag)
    BY <1>t, <2>2, Zenon DEF InHw
  <2>4. ~InOob(m.tag) /\ ~InBusy(m.tag) /\ ~InRing(m.tag) /\ ~Got(m.tag) /\ m.tag \in msg_alloc
    BY <1>0, <2>3, Zenon DEF Placed
  <2>5. \A t \in Tag : InHw(t)' => InHw(t) /\ t # m.tag
    BY <1>0, <2>2 DEF InHw, Once
  <2>6. \A t \in Tag : InBusy(t)' <=> InBusy(t) \/ t = m.tag
    BY <2>1, Zenon DEF InBusy
  <2>7. \A t \in Tag : (InOob(t)' <=> InOob(t)) /\ (InRing(t)' <=> InRing(t)) /\ (Got(t)' <=> Got(t))
    BY <2>1, Zenon DEF InOob, InRing, Got
  <2>8. Placed'
    BY <1>0, <2>1, <2>4, <2>5, <2>6, <2>7, Zenon DEF Placed
  <2>9. \A i, j \in DOMAIN hw' : hw'[i].tag = hw'[j].tag => i = j
    <3> TAKE i, j \in DOMAIN hw'
    <3>1. hw[i + 1].tag = hw[j + 1].tag => i + 1 = j + 1
      BY <1>0, <2>2, Zenon DEF Once
    <3> QED
      BY <2>2, <3>1
  <2>10. \A n, o \in busy' : n.tag = o.tag => n = o
    BY <1>0, <2>1, <2>4, Zenon DEF Once, InBusy
  <2>11. Once'
    BY <1>0, <2>1, <2>9, <2>10, Zenon DEF Once
  <2>12. Meant'
    BY <1>0, <2>1, <2>2, Zenon DEF Meant
  <2> QED
    BY <2>8, <2>11, <2>12, Zenon DEF Owned
<1>15. ASSUME NEW t \in Tag, Respond(t)
       PROVE  Owned'
  <2>1. PICK m \in busy, ok \in BOOLEAN :
            /\ ring' = [ring EXCEPT ![ring_in] = [tag |-> m.tag, ok |-> ok, array |-> m.array]]
            /\ busy' = busy \ {m}
    BY <1>15, Zenon DEF Respond
  <2>2. ring[ring_in] = NoAnswer /\ UNCHANGED <<msg_alloc, req, oob, hw, fsm>>
    BY <1>15, Zenon DEF Respond, tags
  <2> DEFINE a == [tag |-> m.tag, ok |-> ok, array |-> m.array]
  <2>3. ring'[ring_in] = a /\ a.tag = m.tag /\ ring_in \in DOMAIN ring /\ DOMAIN ring' = DOMAIN ring
        /\ \A i \in DOMAIN ring \ {ring_in} : ring'[i] = ring[i]
    BY <1>0, <2>1, Zenon DEF CardTypes
  <2>4. m.tag \in Tag /\ InBusy(m.tag)
    BY <1>t, Zenon DEF InBusy
  <2>5. ~InOob(m.tag) /\ ~InHw(m.tag) /\ ~InRing(m.tag) /\ ~Got(m.tag) /\ m.tag \in msg_alloc
    BY <1>0, <2>4, Zenon DEF Placed
  <2> HIDE DEF a
  <2>6. \A s \in Tag : InRing(s)' => InRing(s) \/ s = m.tag
    BY <2>3, Zenon DEF InRing
  <2>7. \A s \in Tag : InBusy(s)' => InBusy(s) /\ s # m.tag
    BY <1>0, <2>1, Zenon DEF InBusy, Once
  <2>8. \A s \in Tag : (InOob(s)' <=> InOob(s)) /\ (InHw(s)' <=> InHw(s)) /\ (Got(s)' <=> Got(s))
    BY <2>2, Zenon DEF InOob, InHw, Got
  <2>9. Placed'
    BY <1>0, <2>2, <2>5, <2>6, <2>7, <2>8, Zenon DEF Placed
  <2>10. \A i, j \in DOMAIN ring' :
             ring'[i] \in Answer /\ ring'[j] \in Answer /\ ring'[i].tag = ring'[j].tag => i = j
    BY <1>0, <2>3, <2>5, Zenon DEF Once, InRing
  <2>11. Once'
    BY <1>0, <2>1, <2>2, <2>10, Zenon DEF Once
  <2>12. Meant'
    BY <1>0, <2>1, <2>2, Zenon DEF Meant
  <2> QED
    BY <2>9, <2>11, <2>12, Zenon DEF Owned
<1>16. CASE AdapterEvent
  <2>1. /\ UNCHANGED <<msg_alloc, req, oob, hw, busy, fsm>>
        /\ ring' = ring \/ ring' = [ring EXCEPT ![ring_in] = Event]
    BY <1>16, Zenon DEF AdapterEvent, tags
  <2>2. \A i \in DOMAIN ring' : ring'[i] \in Answer => i \in DOMAIN ring /\ ring[i] = ring'[i]
    BY <1>0, <2>1, NotAnswers, Zenon DEF CardTypes
  <2>3. \A t \in Tag : InRing(t)' => InRing(t)
    BY <2>2, Zenon DEF InRing
  <2>4. Placed'
    BY <1>0, <2>1, <2>3, Zenon DEF Placed, InOob, InHw, InBusy, Got
  <2>5. Once' /\ Meant'
    BY <1>0, <2>1, <2>2 DEF Once, Meant
  <2> QED
    BY <2>4, <2>5, Zenon DEF Owned
<1> QED
  BY <1>1, <1>2, <1>3, <1>4, <1>5, <1>6, <1>7, <1>8, <1>9, <1>10, <1>11, <1>12, <1>13, <1>14,
     <1>15, <1>16
 , Zenon DEF Next, Locked, RunRq, RunIrq, Fsm, Message_, Adapter

-----------------------------------------------------------------------------
(* Whose turn it is *)

\* The handlers on the stack s are handlers of the present stack, perhaps
\* under or above other frames.
Keeps(s) == \E d \in Int : \A i \in DOMAIN s :
                s[i].fn = "handle" => i - d \in DOMAIN stack /\ stack[i - d] = s[i]

\* Calling a request function, returning, and going to the next slot of the
\* ring enter no handler.
LEMMA KeepsHandlers ==
    ASSUME Types
    PROVE  /\ Keeps(stack) /\ Keeps(<<>>)
           /\ stack # <<>> => Keeps(Tail(stack))
           /\ InIrq => Keeps(NextSlot)
           /\ \A q \in Queue, s \in Seq(Frame) : Keeps(s) => Keeps(<<Rq(q)>> \o s)
           /\ \A f \in Frame : f.fn # "handle" => Keeps(<<f>>)
<1>0. stack \in Seq(Frame) /\ DOMAIN stack = 1 .. Len(stack) /\ Len(stack) \in Nat
  BY SeqLength, Zenon DEF Types, QueueTypes
<1>1. Keeps(stack)
  <2>1. \A i \in DOMAIN stack : stack[i].fn = "handle" => i - 0 \in DOMAIN stack /\ stack[i - 0] = stack[i]
    BY <1>0
  <2> QED
    BY <2>1 DEF Keeps
<1>2. Keeps(<<>>)
  <2>1. \A i \in DOMAIN <<>> : FALSE
    OBVIOUS
  <2> QED
    BY <2>1, 0 \in Int, Zenon DEF Keeps
<1>3. ASSUME stack # <<>>
      PROVE  Keeps(Tail(stack))
  <2>1. DOMAIN Tail(stack) = 1 .. Len(stack) - 1 /\ \A i \in 1 .. Len(stack) - 1 : Tail(stack)[i] = stack[i + 1]
    BY <1>0, <1>3, SeqHeadTail, SeqLength, Zenon
  <2>2. \A i \in DOMAIN Tail(stack) : i - (-1) \in DOMAIN stack /\ stack[i - (-1)] = Tail(stack)[i]
    BY <1>0, <2>1
  <2> QED
    BY <2>2, -1 \in Int, Zenon DEF Keeps
<1>4. ASSUME InIrq
      PROVE  Keeps(NextSlot)
  <2>1. \A i \in DOMAIN NextSlot :
            NextSlot[i].fn = "handle" => i - 0 \in DOMAIN stack /\ stack[i - 0] = NextSlot[i]
    BY <1>0, <1>4, NextSlotType
  <2> QED
    BY <2>1, 0 \in Int, Zenon DEF Keeps
<1>5. ASSUME NEW q \in Queue, NEW s \in Seq(Frame), Keeps(s)
      PROVE  Keeps(<<Rq(q)>> \o s)
  <2> DEFINE r == <<Rq(q)>> \o s
  <2>1. PICK d \in Int : \A i \in DOMAIN s : s[i].fn = "handle" => i - d \in DOMAIN stack /\ stack[i - d] = s[i]
    BY <1>5, Zenon DEF Keeps
  <2>2. /\ DOMAIN r = 1 .. Len(s) + 1 /\ r[1].fn = "rq"
        /\ \A i \in 2 .. Len(s) + 1 : r[i] = s[i - 1]
        /\ DOMAIN s = 1 .. Len(s) /\ Len(s) \in Nat
    BY Push, Frames, SeqLength
  <2> HIDE DEF r
  <2>3. ASSUME NEW i \in DOMAIN r, r[i].fn = "handle"
        PROVE  i - (d + 1) \in DOMAIN stack /\ stack[i - (d + 1)] = r[i]
    <3>1. i \in 2 .. Len(s) + 1
      BY <2>2, <2>3
    <3>2. i - 1 \in DOMAIN s /\ r[i] = s[i - 1]
      BY <2>2, <3>1
    <3>3. (i - 1) - d \in DOMAIN stack /\ stack[(i - 1) - d] = s[i - 1]
      BY <2>1, <2>3, <3>2, Zenon
    <3>4. (i - 1) - d = i - (d + 1)
      BY <3>1
    <3> QED
      BY <3>2, <3>3, <3>4, Zenon
  <2>4. d + 1 \in Int
    OBVIOUS
  <2>5. Keeps(r)
    BY <2>3, <2>4, Zenon DEF Keeps
  <2> QED
    BY <2>5, Zenon DEF r
<1>6. ASSUME NEW f \in Frame, f.fn # "handle"
      PROVE  Keeps(<<f>>)
  <2>1. \A i \in DOMAIN <<f>> : <<f>>[i].fn # "handle"
    BY <1>6
  <2> QED
    BY <2>1, 0 \in Int, Zenon DEF Keeps
<1> QED
  BY <1>1, <1>2, <1>3, <1>4, <1>5, <1>6, Zenon

\* A step of neither the state machine nor a handler leaves the turn where it is.
LEMMA TurnsKept ==
    ASSUME Types', Turns, Keeps(stack'), UNCHANGED <<state, work, fsm>>, Started' <=> Started,
           \A t \in Tag : Sent(t)' => Sent(t) /\ req'[t].type = req[t].type /\ t \in msg_alloc'
    PROVE  Turns'
<1>1. PICK d \in Int : \A i \in DOMAIN stack' :
          stack'[i].fn = "handle" => i - d \in DOMAIN stack /\ stack[i - d] = stack'[i]
  BY Zenon DEF Keeps
<1> USE DEF Handles
<1>2. NoHandle => NoHandle'
  BY <1>1, Zenon DEF NoHandle
<1>3. NoSent => NoSent'
  BY Zenon DEF NoSent
<1>4. \A t \in Tag : t \notin msg_alloc' \/ Got(t)' => ~Sent(t)'
  BY Zenon DEF Turns, Got
<1>5. \A i, j \in DOMAIN stack' : Handles(i)' /\ Handles(j)' => i = j
  <2>1. DOMAIN stack' \subseteq Int
    BY SeqLength DEF Types, QueueTypes
  <2> SUFFICES ASSUME NEW i \in DOMAIN stack', NEW j \in DOMAIN stack', Handles(i)', Handles(j)'
               PROVE  i = j
    BY Zenon
  <2>2. i - d = j - d
    BY <1>1 DEF Turns
  <2> QED
    BY <2>1, <2>2
<1>6. \A i \in DOMAIN stack' : Handles(i)' => Quiet' /\ state' = Expected[stack'[i].type]
  BY <1>1 DEF Turns, Quiet
<1> QED
  BY <1>2, <1>3, <1>4, <1>5, <1>6, Zenon DEF Turns, Quiet, FsmOwnsState

\* At most one of the work item, fsm_task, the out-of-band message and its
\* handler is active, after every step.
LEMMA TurnsNext ==
    ASSUME TagsFit, IInv, Types', [Next]_vars
    PROVE  Turns'
<1>0. Types /\ Placed /\ Turns /\ HostTypes /\ fsm \in FsmType /\ stack \in Seq(Frame)
  BY Zenon DEF IInv, Owned, Types, HostTypes, QueueTypes
<1>d. DOMAIN stack = 1 .. Len(stack) /\ Len(stack) \in Nat
  BY <1>0, SeqLength, Zenon
<1>s. \A t \in Tag : Sent(t) => t \in msg_alloc
  BY <1>0, Zenon DEF Turns
<1>q. \/ Quiet
      \/ NoSent /\ NoHandle /\ Started
  BY <1>0, Zenon DEF Turns, NoSent, NoHandle
<1>u. ASSUME UNCHANGED <<msg_alloc, req, state, work, fsm, pci>>, Keeps(stack')
      PROVE  Turns'
  BY <1>0, <1>u, <1>s, TurnsKept, Zenon DEF Started, Sent
<1>1. CASE UNCHANGED vars
  BY <1>0, <1>1, <1>u, KeepsHandlers, Zenon DEF vars, tags, bind
<1>2. CASE (\E q \in Queue : RqEmpty(q) \/ RqBusy(q)) \/ (\E p \in Port : RqNoTag(p)) \/ EndOfResponses
  <2>1. stack # <<>> /\ stack' = Tail(stack) /\ UNCHANGED <<tags, state, work, fsm, bind>>
    BY <1>2, Zenon DEF RqEmpty, RqBusy, RqNoTag, EndOfResponses, InRq, InIrq, Return
  <2> QED
    BY <1>0, <2>1, <1>u, KeepsHandlers, Zenon DEF tags, bind
<1>e. ASSUME NEW c, NEW rest \in Seq(Frame), EndRq(c, rest), Keeps(rest)
      PROVE  Keeps(stack')
  BY <1>0, <1>e, EndRqTypes, KeepsHandlers, Zenon
<1>3. ASSUME NEW p \in Port, RqMapFails(p)
      PROVE  Turns'
  <2>1. EndRq(Tags, Tail(stack)) /\ stack # <<>> /\ UNCHANGED <<state, work, fsm, bind>>
    BY <1>3, Zenon DEF RqMapFails, InRq
  <2>2. UNCHANGED <<msg_alloc, req>>
    BY <2>1, Zenon DEF EndRq, SetTags, Tags
  <2>3. Tail(stack) \in Seq(Frame) /\ Keeps(Tail(stack))
    BY <2>1, <1>0, KeepsHandlers, SeqHeadTail, Zenon
  <2>4. Keeps(stack')
    BY <2>1, <2>3, <1>e, Zenon
  <2> QED
    BY <2>1, <2>2, <2>4, <1>u, Zenon DEF bind
<1>4. ASSUME NEW p \in Port, RqSend(p)
      PROVE  Turns'
  <2>1. GetTag \in Tag /\ GetTag \notin msg_alloc
    BY <1>0, <1>4, GetTagFree, Zenon DEF RqSend
  <2>2. UNCHANGED <<state, work, fsm, pci, stack>> /\ msg_alloc \subseteq msg_alloc'
    BY <1>4, Zenon DEF RqSend, bind
  <2>3. req'[GetTag].type = "rw" /\ \A t \in Tag \ {GetTag} : req'[t] = req[t]
    BY <1>4, <2>1 DEF RqSend, Types, HostTypes
  <2>4. \A t \in Tag : Sent(t)' => Sent(t) /\ req'[t].type = req[t].type /\ t \in msg_alloc'
    BY <2>2, <2>3, <1>s, Tables, Zenon DEF Sent
  <2> QED
    BY <1>0, <2>2, <2>4, TurnsKept, KeepsHandlers, Zenon DEF Started
<1>5. CASE OobSend \/ Take \/ (\E t \in Tag : Respond(t)) \/ AdapterEvent \/ Unbind \/ FreeHost
           \/ (\E p \in Port : CleanupQueue(p)) \/ ProbeFails
  <2>1. UNCHANGED <<tags, state, work, fsm, stack>>
    BY <1>5, Zenon DEF OobSend, Take, Respond, AdapterEvent, Unbind, FreeHost, CleanupQueue, ProbeFails
  <2>2. Started' <=> Started
    <3>1. CASE Unbind \/ FreeHost \/ ProbeFails
      BY <3>1, Zenon DEF Unbind, FreeHost, ProbeFails, Started, NextStage
    <3>2. CASE UNCHANGED pci
      BY <3>2, Zenon DEF Started
    <3> QED
      BY <1>5, <3>1, <3>2, Zenon DEF OobSend, Take, Respond, AdapterEvent, CleanupQueue, bind
  <2> QED
    BY <1>0, <2>1, <2>2, <1>s, TurnsKept, KeepsHandlers, Zenon DEF tags, Sent
<1>6. CASE Interrupt
  <2>1. resp_idx % RMSG_Q_LEN \in 0 .. RMSG_Q_LEN - 1
    BY <1>0, Sx8Assumption, Remainder, Zenon DEF Types, CardTypes
  <2>2. Keeps(stack')
    BY <1>0, <1>6, <2>1, Frames, KeepsHandlers, Zenon DEF Interrupt
  <2> QED
    BY <1>6, <2>2, <1>u, Zenon DEF Interrupt, tags, bind
<1>7. CASE SkipEvent
  BY <1>0, <1>7, <1>u, KeepsHandlers, Zenon DEF SkipEvent, tags, bind
<1>8. CASE (\E p \in Port : DelGendisk(p)) \/ (\E r \in Request : Submit(r))
  <2>1. \A p \in Port : Keeps(<<Rq(p)>>) /\ Keeps(<<>>)
    BY <1>0, Frames, KeepsHandlers, Zenon DEF Queue
  <2>2. \A r \in Request : r[1] \in Port
    BY Sx8Assumption, Zenon DEF Port
  <2>3. Keeps(stack')
    BY <1>8, <2>1, <2>2, Zenon DEF DelGendisk, Submit
  <2>4. UNCHANGED <<tags, state, work, fsm, pci>>
    BY <1>8, Zenon DEF DelGendisk, Submit, bind
  <2> QED
    BY <2>3, <2>4, <1>u, Zenon DEF tags
<1>9. CASE HandleResp
  <2> DEFINE a == ring[Top.idx]
             t == TAG_DECODE(a.tag)
             y == req[t].type
             rest == IF y \in DOMAIN Expected THEN <<Handle(y, a)>> \o NextSlot ELSE NextSlot
  <2>1. a \in Answer /\ EndRq(Put(t), rest) /\ InIrq /\ UNCHANGED <<state, work, fsm, pci>>
    BY <1>9, Zenon DEF HandleResp, bind
  <2>2. Top.idx \in DOMAIN ring
    BY <1>0, <2>1, NextSlotType, Zenon DEF Types, CardTypes
  <2>3. t \in Tag /\ t \in msg_alloc
    <3>1. a.tag \in Tag /\ InRing(a.tag)
      BY <1>0, <2>1, <2>2, MessageTags, Zenon DEF InRing
    <3>2. a.tag \in msg_alloc
      BY <1>0, <3>1, Zenon DEF Placed
    <3> QED
      BY <1>0, <3>1, <3>2, Decoded, Zenon
  <2>4. NextSlot \in Seq(Frame) /\ Keeps(NextSlot)
    BY <1>0, <2>1, NextSlotType, KeepsHandlers, Zenon
  <2> HIDE DEF a, t
  <2>5. rest \in Seq(Frame)
    BY <2>1, <2>4, Frames, Push, Zenon
  <2>6. /\ msg_alloc' = msg_alloc \ {t} /\ req'[t].type = "none"
        /\ \A s \in Tag \ {t} : req'[s] = req[s]
        /\ stack' = rest \/ \E q \in Queue : stack' = <<Rq(q)>> \o rest
    <3> HIDE DEF rest
    <3>1. /\ msg_alloc' = Put(t).alloc /\ req' = Put(t).req
          /\ stack' = rest \/ \E q \in Queue : stack' = <<Rq(q)>> \o rest
      BY <1>0, <2>1, <2>5, EndRqTypes, Zenon
    <3> QED
      BY <1>0, <2>3, <3>1, PutTypes, Zenon
  <2>7. CASE ~Sent(t)
    <3>1. rest = NextSlot
      BY <2>7, Zenon DEF Sent
    <3>2. Keeps(stack')
      BY <2>1, <2>4, <3>1, <1>e, Zenon
    <3>3. \A s \in Tag : Sent(s)' => Sent(s) /\ req'[s].type = req[s].type /\ s \in msg_alloc'
      BY <2>6, <1>s, Tables, Zenon DEF Sent
    <3> QED
      BY <1>0, <2>1, <3>2, <3>3, TurnsKept, Zenon DEF Started
  <2>8. CASE Sent(t)
    <3>1. Quiet /\ state = Expected[y] /\ NoHandle /\ Started /\ y \in DOMAIN Expected
      BY <1>0, <2>3, <2>8, Zenon DEF Turns, NoSent, Sent
    <3>2. NoSent'
      BY <1>0, <2>3, <2>6, <2>8, Tables, Zenon DEF Turns, NoSent, Sent
    <3>3. \A i \in DOMAIN NextSlot : NextSlot[i].fn # "handle"
      BY <2>4, <3>1, Zenon DEF Keeps, NoHandle, Handles
    <3>4. rest = <<Handle(y, a)>> \o NextSlot
      BY <3>1, Zenon
    <3>5. Handle(y, a) \in Frame /\ Handle(y, a).type = y
      BY <2>1, <3>1, Frames, Zenon
    <3> HIDE DEF rest
    <3>6. /\ DOMAIN rest = 1 .. Len(rest) /\ Len(rest) \in Nat /\ rest[1].type = y
          /\ \A i \in DOMAIN rest : rest[i].fn = "handle" => i = 1
      BY <2>4, <3>3, <3>4, <3>5, Push, SeqLength
    <3>7. \E k \in Int : \A i \in DOMAIN stack' : Handles(i)' => i = k /\ stack'[i].type = y
      <4>1. CASE stack' = rest
        BY <1>0, <3>6, <4>1, 1 \in Int, Zenon DEF Handles
      <4>2. ASSUME NEW q \in Queue, stack' = <<Rq(q)>> \o rest
            PROVE  \A i \in DOMAIN stack' : Handles(i)' => i = 2 /\ stack'[i].type = y
        <5>1. /\ DOMAIN stack' = 1 .. Len(rest) + 1 /\ stack'[1].fn = "rq"
              /\ \A i \in 2 .. Len(rest) + 1 : stack'[i] = rest[i - 1]
          BY <2>5, <4>2, Push, Frames
        <5> QED
          BY <3>6, <5>1 DEF Handles
      <4> QED
        BY <2>6, <4>1, <4>2, 2 \in Int, Zenon
    <3> QED
      BY <1>0, <2>1, <3>1, <3>2, <3>7, Zenon DEF Turns, Quiet, Started, NoSent, FsmOwnsState, Idle, Got
  <2> QED
    BY <2>7, <2>8, Zenon
<1>n. ASSUME UNCHANGED <<stack, req>>, NoSent, NoHandle
      PROVE  NoSent' /\ NoHandle'
  BY <1>n, Zenon DEF NoSent, NoHandle, Sent, Handles
<1>w. ASSUME NoSent', NoHandle', Started', state' # "INVALID", work' => fsm' = Idle,
             fsm'.pc \in {"switch", "get", "got", "err_out", "activate"} => state' = fsm'.state,
             fsm'.pc = "set" => FsmOwnsState' /\ fsm'.state # "ERROR" /\ fsm'.new # "INVALID"
      PROVE  Turns'
  BY <1>w, Zenon DEF Turns, NoSent, NoHandle
<1>10. CASE HandleRest
  <2>1. stack # <<>> /\ Top.fn = "handle" /\ stack' = Tail(stack) /\ work' = TRUE
        /\ UNCHANGED <<msg_alloc, req, fsm, pci>>
    BY <1>10, Zenon DEF HandleRest, Return, tags, bind
  <2>2. 1 \in DOMAIN stack /\ Handles(1) /\ Top.type \in DOMAIN Expected
    BY <1>0, <2>1, SeqHeadTail, SeqLength, Frames DEF Handles, Top
  <2>3. Quiet /\ NoSent /\ Started
    BY <1>0, <2>2, Zenon DEF Turns, NoSent, NoHandle
  <2>4. NoHandle'
    <3>1. DOMAIN Tail(stack) = 1 .. Len(stack) - 1 /\ \A i \in 1 .. Len(stack) - 1 : Tail(stack)[i] = stack[i + 1]
      BY <1>0, <2>1, SeqHeadTail, SeqLength, Zenon
    <3>2. \A i \in DOMAIN stack' : i + 1 \in DOMAIN stack /\ i + 1 # 1 /\ stack'[i] = stack[i + 1]
      BY <1>0, <2>1, <3>1, SeqLength
    <3> QED
      BY <1>0, <2>2, <3>2, Zenon DEF Turns, NoHandle, Handles
  <2>5. NoSent'
    BY <2>1, <2>3, Zenon DEF NoSent, Sent
  <2>6. state' # "INVALID"
    <3>1. Leads[Top.type] # "INVALID" /\ state # "INVALID"
      BY <1>0, <2>2, <2>3, Tables, Zenon DEF Turns
    <3> QED
      BY <1>10, <3>1, Zenon DEF HandleRest
  <2> QED
    BY <2>1, <2>3, <2>4, <2>5, <2>6, <1>w, Zenon DEF Quiet, Idle, Started
<1>11. CASE FsmStart
  <2>1. work /\ work' = FALSE /\ fsm' = [pc |-> "switch", state |-> state]
        /\ UNCHANGED <<stack, req, state, pci>>
    BY <1>11, Zenon DEF FsmStart, tags, bind
  <2>2. NoSent /\ NoHandle /\ Started
    BY <1>q, <2>1, Zenon DEF Quiet
  <2>3. state # "INVALID"
    BY <1>0, <2>2, Zenon DEF Turns
  <2> QED
    BY <2>1, <2>2, <2>3, <1>n, <1>w, Zenon DEF Started
<1>f. ASSUME fsm # Idle
      PROVE  NoSent /\ NoHandle /\ Started /\ ~work /\ state # "INVALID"
  BY <1>0, <1>f, <1>q, Zenon DEF Turns, Quiet
<1>g. fsm.pc \in {"switch", "get", "got", "err_out", "activate"} => state = fsm.state
  BY <1>0, Zenon DEF Turns
<1>12. CASE FsmSwitch
  <2>1. fsm.pc = "switch" /\ UNCHANGED <<stack, req, state, pci, work>>
    BY <1>12, Zenon DEF FsmSwitch, tags
  <2>2. fsm # Idle /\ fsm.state \in HostState /\ state = fsm.state
    BY <1>0, <2>1 DEF FsmType, Idle, Turns
  <2>3. NoSent /\ NoHandle /\ Started /\ ~work /\ state # "INVALID"
    BY <1>f, <2>2, Zenon
  <2>4. /\ fsm'.pc \in {"switch", "get", "got", "err_out", "activate"} => state' = fsm'.state
        /\ fsm'.pc = "set" => FsmOwnsState' /\ fsm'.state # "ERROR" /\ fsm'.new # "INVALID"
    BY <1>12, <2>1, <2>2, <2>3, Switched DEF FsmSet, FsmAt, Idle, FsmOwnsState
  <2> QED
    BY <2>1, <2>3, <2>4, <1>n, <1>w, Zenon DEF Started
<1>13. CASE GetSpecial
  <2>1. fsm.pc = "get" /\ fsm'.pc = "got" /\ fsm'.state = fsm.state /\ UNCHANGED <<stack, state, pci, work>>
    BY <1>0, <1>13, Zenon DEF GetSpecial, bind
  <2>2. NoSent /\ NoHandle /\ Started /\ ~work /\ state # "INVALID" /\ state = fsm.state
    BY <1>f, <1>g, <2>1 DEF Idle
  <2>3. \A t \in Tag : req'[t].type = req[t].type
    BY <1>0, <1>13, Zenon DEF GetSpecial, Types, HostTypes
  <2>4. NoSent' /\ NoHandle'
    BY <2>1, <2>2, <2>3, Zenon DEF NoSent, NoHandle, Sent, Handles
  <2> QED
    BY <2>1, <2>2, <2>4, <1>w, Zenon DEF Started
<1>14. CASE SpecialFails
  <2>1. fsm.pc \in {"get", "got"} /\ fsm' \in {FsmAt("err_out"), FsmSet("ERROR")}
        /\ UNCHANGED <<state, stack, pci, work>>
    BY <1>14, Zenon DEF SpecialFails, bind
  <2>2. NoSent /\ NoHandle /\ Started /\ ~work /\ state # "INVALID" /\ state = fsm.state
    BY <1>f, <1>g, <2>1 DEF Idle
  <2>3. fsm.state \in DOMAIN Sends
    BY <1>0, <2>1 DEF FsmType, Idle
  <2>4. NoSent'
    <3>1. CASE fsm.pc = "got"
      <4>1. fsm.tag \in Tag /\ req' = Put(fsm.tag).req
        BY <1>0, <1>14, <3>1 DEF SpecialFails, SetTags, FsmType, Idle
      <4> QED
        BY <1>0, <2>2, <4>1, PutTypes, Tables DEF NoSent, Sent
    <3>2. CASE fsm.pc # "got"
      BY <1>14, <2>2, <3>2, Zenon DEF SpecialFails, tags, NoSent, Sent
    <3> QED
      BY <3>1, <3>2, Zenon
  <2>5. NoHandle'
    BY <2>1, <2>2, Zenon DEF NoHandle, Handles
  <2>6. fsm'.state = fsm.state /\ fsm'.pc \in {"err_out", "set"} /\ (fsm'.pc = "set" => fsm'.new = "ERROR")
    BY <2>1 DEF FsmAt, FsmSet
  <2> QED
    BY <2>1, <2>2, <2>3, <2>4, <2>5, <2>6, <1>w, Tables, Zenon DEF Started, FsmOwnsState
<1>15. CASE SendSpecial
  <2> DEFINE t == fsm.tag
             y == Sends[fsm.state]
  <2>1. /\ fsm.pc = "got" /\ fsm' = Idle /\ UNCHANGED <<state, pci, work, msg_alloc>>
        /\ stack' = <<>> \/ stack' = <<Rq(OOB)>>
    BY <1>15, Zenon DEF SendSpecial, bind
  <2>2. NoSent /\ NoHandle /\ Started /\ ~work /\ state # "INVALID" /\ state = fsm.state
    BY <1>f, <1>g, <2>1 DEF Idle
  <2>3. t \in Tag /\ fsm.state \in DOMAIN Sends
    BY <1>0, <2>1 DEF FsmType, Idle
  <2>4. t \in msg_alloc
    BY <1>0, <2>1, <2>3, Zenon DEF Placed, Got
  <2>5. req'[t].type = y /\ \A s \in Tag \ {t} : req'[s] = req[s]
    BY <1>15, <2>3, Zenon DEF SendSpecial, Types, HostTypes
  <2>6. state' = Expected[req'[t].type]
    BY <2>1, <2>2, <2>3, <2>5, Tables, Zenon
  <2>7. \A s \in Tag : Sent(s)' => s = t
    BY <2>2, <2>5, Zenon DEF NoSent, Sent
  <2>8. NoHandle'
    <3>1. Rq(OOB).fn # "handle"
      BY Frames, Zenon DEF Queue
    <3> QED
      BY <2>1, <3>1 DEF NoHandle, Handles
  <2> QED
    BY <2>1, <2>2, <2>4, <2>6, <2>7, <2>8, Zenon DEF Turns, Quiet, Idle, Got, Started, NoHandle
<1>16. CASE AddDisk
  <2>1. fsm.pc = "activate" /\ UNCHANGED <<stack, req, msg_alloc, state, pci, work>>
        /\ (fsm' = fsm \/ fsm' = FsmSet("PROBE_FINISHED"))
    BY <1>16, Zenon DEF AddDisk, tags
  <2>2. NoSent /\ NoHandle /\ Started /\ ~work /\ state # "INVALID" /\ state = fsm.state
    BY <1>f, <1>g, <2>1 DEF Idle
  <2>3. fsm.state = "DEV_ACTIVATE"
    BY <1>0, <2>1 DEF FsmType, Idle
  <2> QED
    BY <2>1, <2>2, <2>3, <1>n, <1>w DEF Started, FsmSet, FsmOwnsState
<1>y. CASE ArrayInfoFails
  <2>1. fsm.pc = "err_out" /\ UNCHANGED <<stack, req, pci, work>> /\ state' = "ERROR" /\ fsm' = FsmSet("ERROR")
    BY <1>y, Zenon DEF ArrayInfoFails, tags, bind
  <2>2. NoSent /\ NoHandle /\ Started /\ ~work
    BY <1>f, <2>1 DEF Idle
  <2>3. fsm.state = "DEV_SCAN"
    BY <1>0, <2>1 DEF FsmType, Idle
  <2> QED
    BY <2>1, <2>2, <2>3, <1>n, <1>w, Zenon DEF Started, FsmSet, FsmOwnsState
<1>17. CASE FsmWrite
  <2>1. fsm.pc = "set" /\ UNCHANGED <<stack, req, pci, work>> /\ state' = fsm.new /\ fsm'.pc = "reschedule"
    BY <1>17, Zenon DEF FsmWrite, tags, bind
  <2>2. NoSent /\ NoHandle /\ Started /\ ~work
    BY <1>f, <2>1 DEF Idle
  <2>3. fsm.new # "INVALID"
    BY <1>0, <2>1, Zenon DEF Turns
  <2> QED
    BY <2>1, <2>2, <2>3, <1>n, <1>w, Zenon DEF Started
<1>x. CASE Reschedule
  <2>1. fsm.pc = "reschedule" /\ UNCHANGED <<stack, req, pci, state>> /\ fsm' = Idle
    BY <1>x, Zenon DEF Reschedule, tags, bind
  <2>2. NoSent /\ NoHandle /\ Started /\ state # "INVALID"
    BY <1>f, <2>1 DEF Idle
  <2> QED
    BY <2>1, <2>2, <1>n, <1>w, Zenon DEF Started, Idle
<1>18. CASE ProbeStage
  <2>1. pci \in DOMAIN NextStage /\ pci' = NextStage[pci] /\ UNCHANGED <<stack, req, msg_alloc, fsm>>
        /\ state' = (IF pci = "hw" THEN "PROBE_START" ELSE state) /\ work' = (pci = "hw")
    BY <1>18, Zenon DEF ProbeStage, tags
  <2>2. ~Started /\ (Started' <=> pci = "hw")
    BY <2>1, Stages, Zenon DEF Started
  <2>3. Quiet /\ state = "INVALID" /\ NoSent /\ NoHandle
    BY <1>0, <2>2, Zenon DEF Turns
  <2>4. NoSent' /\ NoHandle'
    BY <2>1, <2>3, <1>n, Zenon
  <2> QED
    BY <2>1, <2>2, <2>3, <2>4, Zenon DEF Turns, Quiet, Idle, Got, NoSent, NoHandle
<1> QED
  BY <1>1, <1>2, <1>3, <1>4, <1>5, <1>6, <1>7, <1>8, <1>9, <1>10, <1>11, <1>12, <1>13, <1>14,
     <1>15, <1>16, <1>y, <1>17, <1>x, <1>18
 , Zenon DEF Next, Locked, RunRq, RunIrq, Fsm, Message_, Bind, Unwind, Adapter

-----------------------------------------------------------------------------
(* Theorems *)

\* Before the probe nothing is sent and the state machine is not running.
LEMMA IInvInit == Init => IInv
<1> SUFFICES ASSUME Init PROVE IInv
  BY Zenon
<1>1. Free \in [n_elem : Nat, rq : Request \cup {Special}, type : MsgType \cup {"none"}] /\ Free.type = "none"
  BY Zenon DEF Free
<1>2. HostTypes
  <2>1. cur_scan_dev \in Port
    BY Sx8Assumption DEF Init, Port
  <2> QED
    BY <1>1, <2>1, Zenon DEF Init, HostTypes, HostState, FsmType
<1>3. QueueTypes
  BY DEF Init, QueueTypes, Queue
<1>4. CardTypes
  BY Sx8Assumption DEF Init, CardTypes
<1>5. Owned
  <2>1. NoAnswer \notin Answer
    BY Sx8Assumption, Zenon DEF NoAnswer, Answer, Tag
  <2>2. /\ \A t \in Tag : ~InOob(t) /\ ~InHw(t) /\ ~InBusy(t) /\ ~InRing(t) /\ ~Got(t)
        /\ DOMAIN oob = {} /\ DOMAIN hw = {} /\ busy = {} /\ \A i \in DOMAIN ring : ring[i] \notin Answer
    BY <2>1 DEF Init, InOob, InHw, InBusy, InRing, Got, Idle
  <2> QED
    BY <2>2, Zenon DEF Owned, Placed, Once, Meant
<1>6. Turns
  <2>1. NoSent /\ NoHandle /\ ~Started /\ Quiet /\ state = "INVALID" /\ fsm.pc = "idle"
    BY <1>1, Tables DEF Init, NoSent, Sent, NoHandle, Handles, Started, Quiet, Idle
  <2> QED
    BY <2>1, Zenon DEF Turns, NoSent, NoHandle, Quiet
<1> QED
  BY <1>2, <1>3, <1>4, <1>5, <1>6, Zenon DEF IInv, Types

\* Every step keeps the inductive invariant.
LEMMA IInvNext ==
    ASSUME TagsFit, IInv, [Next]_vars
    PROVE  IInv'
BY TypesNext, OwnedNext, TurnsNext, Zenon DEF IInv

\* The inductive invariant holds throughout.
LEMMA IInvAlways ==
    ASSUME TagsFit
    PROVE  Spec => []IInv
BY IInvInit, IInvNext, PTL DEF Spec

\* carm_handle_resp ends the request that the adapter has answered, in
\* whatever order the answers come, for every max_queue whose tags fit.
THEOREM AnswersMatch ==
    ASSUME TagsFit
    PROVE  Spec => []AnswersOwnRequest
<1>1. IInv => AnswersOwnRequest
  <2> SUFFICES ASSUME IInv PROVE AnswersOwnRequest
    BY Zenon
  <2>0. Types /\ Placed /\ Once /\ Meant
    BY Zenon DEF IInv, Owned
  <2>1. \A m \in Outstanding : m.tag \in Tag /\ (InHw(m.tag) \/ InBusy(m.tag)) /\ req[m.tag].rq = m.rq
    BY <2>0, MessageTags DEF Outstanding, InHw, InBusy, Meant
  <2>2. \A m, n \in Outstanding : m.tag = n.tag => m = n
    <3> TAKE m, n \in Outstanding
    <3>1. m.tag \in Tag /\ n.tag \in Tag
      BY <2>1, Zenon
    <3>2. ~(InHw(m.tag) /\ InBusy(m.tag))
      BY <2>0, <3>1, Zenon DEF Placed
    <3> QED
      BY <2>0, <3>2, Zenon DEF Outstanding, InHw, InBusy, Once
  <2>3. \A i \in DOMAIN ring : ring[i] \in Answer => ring[i].tag \in Tag /\ InRing(ring[i].tag)
    BY <2>0, MessageTags, Zenon DEF InRing
  <2> QED
    BY <2>0, <2>1, <2>2, <2>3, Zenon DEF Placed, AnswersOwnRequest
<1> QED
  BY <1>1, IInvAlways, PTL

\* The assertions of the handlers hold: the state cannot change between the
\* sending of an out-of-band message and the handling of its answer.
THEOREM HandlersFindState ==
    ASSUME TagsFit
    PROVE  Spec => []HandlersInState
<1>1. IInv => HandlersInState
  BY Zenon DEF IInv, Turns, Handles, HandlersInState
<1> QED
  BY <1>1, IInvAlways, PTL

\* Between the two critical sections of fsm_task no handler writes the state.
THEOREM FsmTaskOwnsState ==
    ASSUME TagsFit
    PROVE  Spec => []FsmOwnsState
<1>1. IInv => FsmOwnsState
  BY Zenon DEF IInv, Turns, FsmOwnsState
<1> QED
  BY <1>1, IInvAlways, PTL

\* HST_ERROR is never left, whatever fails at whatever time.
THEOREM ErrorStays ==
    ASSUME TagsFit
    PROVE  Spec => ErrorIsFinal
<1>1. ASSUME IInv, [Next]_vars, state = "ERROR"
      PROVE  state' = "ERROR"
  <2>1. CASE HandleRest
    <3>1. stack \in Seq(Frame) /\ stack # <<>> /\ Top.fn = "handle"
      BY <1>1, <2>1, Zenon DEF HandleRest, IInv, Types, QueueTypes
    <3>2. 1 \in DOMAIN stack /\ Handles(1) /\ stack[1].type \in DOMAIN Expected
      BY <3>1, SeqHeadTail, SeqLength, Frames DEF Handles, Top
    <3> QED
      BY <1>1, <3>2, Tables, Zenon DEF IInv, Turns
  <2>2. CASE ArrayInfoFails
    BY <1>1, <2>2, Zenon DEF ArrayInfoFails
  <2>3. CASE FsmWrite
    BY <1>1, <2>3, Zenon DEF FsmWrite, IInv, Turns, FsmOwnsState
  <2>4. CASE ProbeStage
    BY <1>1, <2>4, Zenon DEF ProbeStage, IInv, Turns, Started, NextStage
  <2>5. CASE UNCHANGED state
    BY <1>1, <2>5, Zenon
  <2>6. CASE RunRq \/ HandleResp \/ SkipEvent \/ EndOfResponses \/ Interrupt
    BY <2>5, <2>6, Zenon DEF RunRq, RqEmpty, RqBusy, RqNoTag, RqMapFails, RqSend, OobSend, HandleResp,
                      SkipEvent, EndOfResponses, Interrupt
  <2>7. CASE FsmStart \/ FsmSwitch \/ GetSpecial \/ SpecialFails \/ SendSpecial \/ AddDisk \/ Reschedule
    BY <2>5, <2>7, Zenon DEF FsmStart, FsmSwitch, GetSpecial, SpecialFails, SendSpecial, AddDisk, Reschedule
  <2>8. CASE ProbeFails \/ Unbind \/ Unwind \/ Adapter \/ \E r \in Request : Submit(r)
    BY <2>5, <2>8, Zenon DEF ProbeFails, Unbind, Unwind, DelGendisk, CleanupQueue, FreeHost, Adapter, Take,
                      Respond, AdapterEvent, Submit
  <2> QED
    BY <1>1, <2>1, <2>2, <2>3, <2>4, <2>5, <2>6, <2>7, <2>8
   , Zenon DEF Next, Locked, RunIrq, Fsm, Message_, Bind, vars
<1>2. IInv /\ [Next]_vars => [state = "ERROR" => state' = "ERROR"]_vars
  BY <1>1, Zenon
<1> QED
  BY <1>2, IInvAlways, PTL DEF Spec, ErrorIsFinal

=============================================================================
