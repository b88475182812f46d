---------------------------- MODULE Sx8WaitProofs ----------------------------
(***************************************************************************)
(* The queues that wait for a tag or for room in the adapter, up to the    *)
(* wrap of wait_q_prod: none is lost from wait_q, and none waits without   *)
(* an answer to come that starts it.                                       *)
(*                                                                         *)
(* The first follows from Waits and Running: a request function runs for a *)
(* queue that is not stopped, so that a queue is pushed once, and as many  *)
(* slots as queues suffice.  The second needs Woken.  A queue is stopped   *)
(* only while a message is in the adapter; when the last answer has been   *)
(* handled every tag is free, because every tag in use is somewhere        *)
(* (Located) and the state machine has no message under way once there are *)
(* disks (Kinds, Disks).  Then the counters are below their low-water      *)
(* marks, and the queue that carm_end_rq starts has a request and can send *)
(* it (Awake).                                                             *)
(***************************************************************************)
EXTENDS Sx8ResourceProofs

-----------------------------------------------------------------------------
(* The queues that wait *)

\* wait_q_prod has not reached the value from which it wraps.
NoWrap == wait_q_prod + 1 < WIDTH

\* The queues between wait_q_cons and wait_q_prod are the stopped ones, each once.
Waiters == wait_q_cons .. wait_q_prod - 1
Slot(i) == wait_q[i % CARM_MAX_WAIT_Q]
Waits ==
    /\ wait_q_cons <= wait_q_prod /\ wait_q_prod < WIDTH
    /\ \A i, j \in Waiters : Slot(i) = Slot(j) => i = j
    /\ stopped = {Slot(i) : i \in Waiters}

\* A count is so many times the slots, and the slot it is in.
LEMMA Division ==
    ASSUME NEW n \in Nat, n > 0, NEW a \in Nat
    PROVE  a = n * (a \div n) + (a % n) /\ a \div n \in Int /\ a % n \in Int
OBVIOUS

\* Fewer than n apart, two counts are in different slots of n.
LEMMA SlotsDiffer ==
    ASSUME NEW n \in Nat, n > 0, NEW a \in Nat, NEW b \in Nat, a < b, b - a < n
    PROVE  a % n # b % n
<1> SUFFICES ASSUME a % n = b % n PROVE FALSE
  BY Zenon
<1> DEFINE x == a \div n
           y == b \div n
<1>1. a = n * x + (a % n) /\ b = n * y + (b % n) /\ x \in Int /\ y \in Int /\ a % n \in Int
  <2>1. a = n * (a \div n) + (a % n) /\ a \div n \in Int /\ a % n \in Int
    BY Division, Zenon
  <2>2. b = n * (b \div n) + (b % n) /\ b \div n \in Int
    BY Division, Zenon
  <2> QED
    BY <2>1, <2>2, Zenon
<1> HIDE DEF x, y
<1>2. b - a = n * (y - x)
  BY <1>1
<1>3. y - x > 0
  BY <1>1, <1>2
<1>4. n * (y - x) >= n
  BY <1>1, <1>3
<1> QED
  BY <1>2, <1>4

\* A count below the width is not reduced.
LEMMA NotWrapped == \A n \in 0 .. WIDTH - 1 : n % WIDTH = n
BY Sx8Assumption

\* Counts that are in range, and the slot of each.
LEMMA WaiterFacts ==
    ASSUME Types, Waits
    PROVE  /\ CARM_MAX_WAIT_Q \in Nat /\ CARM_MAX_WAIT_Q > 0 /\ WIDTH \in Nat \ {0}
           /\ wait_q_cons \in Nat /\ wait_q_prod \in Nat
           /\ Waiters \subseteq Nat
           /\ \A i \in Nat : i % CARM_MAX_WAIT_Q \in 0 .. CARM_MAX_WAIT_Q - 1 /\ Slot(i) \in Queue
           /\ stopped \subseteq Queue
<1>1. CARM_MAX_WAIT_Q \in Nat /\ CARM_MAX_WAIT_Q > 0
  BY Sx8Assumption DEF CARM_MAX_WAIT_Q
<1>2. WIDTH \in Nat \ {0}
  BY Sx8Assumption, Zenon
<1>3. wait_q_cons \in Nat /\ wait_q_prod \in Nat /\ wait_q \in [0 .. CARM_MAX_WAIT_Q - 1 -> Queue]
  BY Zenon DEF Types, QueueTypes
<1>4. Waiters \subseteq Nat
  BY <1>3 DEF Waiters
<1>5. CARM_MAX_WAIT_Q \in Nat \ {0}
  BY <1>1
<1>6. \A i \in Nat : i % CARM_MAX_WAIT_Q \in 0 .. CARM_MAX_WAIT_Q - 1
  BY <1>5, Remainder, Zenon
<1>7. \A i \in Nat : Slot(i) \in Queue
  BY <1>3, <1>6, Zenon DEF Slot
<1>8. stopped \subseteq Queue
  BY <1>4, <1>7, Zenon DEF Waits
<1> QED
  BY <1>1, <1>2, <1>3, <1>4, <1>6, <1>7, <1>8, Zenon

\* There are as many waiters as stopped queues, and no more than there are slots.
LEMMA WaitersBound ==
    ASSUME Types, Waits
    PROVE  /\ Cardinality(Waiters) = Cardinality(stopped)
           /\ wait_q_prod - wait_q_cons <= CARM_MAX_WAIT_Q
           /\ \A q \in Queue \ stopped : wait_q_prod - wait_q_cons < CARM_MAX_WAIT_Q
<1> DEFINE f == [i \in Waiters |-> Slot(i)]
<1>0. wait_q_cons \in Nat /\ wait_q_prod \in Nat /\ wait_q_cons <= wait_q_prod /\ stopped \in SUBSET Queue
  BY WaiterFacts, Zenon DEF Waits
<1>1. IsFiniteSet(Waiters) /\ Cardinality(Waiters) = wait_q_prod - wait_q_cons
  <2>1. wait_q_cons \in Int /\ wait_q_prod - 1 \in Int
    BY <1>0
  <2>2. /\ IsFiniteSet(Waiters)
        /\ Cardinality(Waiters) = IF wait_q_cons > wait_q_prod - 1 THEN 0 ELSE (wait_q_prod - 1) - wait_q_cons + 1
    BY <2>1, FS_Interval, Zenon DEF Waiters
  <2> QED
    BY <1>0, <2>2
<1>2. f \in Bijection(Waiters, stopped)
  <2>1. f \in [Waiters -> stopped] /\ \A t \in stopped : \E i \in Waiters : f[i] = t
    BY Zenon DEF Waits
  <2>2. \A i, j \in Waiters : f[i] = f[j] => i = j
    BY Zenon DEF Waits
  <2> QED
    BY <2>1, <2>2, Zenon DEF Bijection, Injection, Surjection, IsInjective
<1>3. Cardinality(stopped) = Cardinality(Waiters) /\ IsFiniteSet(stopped)
  BY <1>1, <1>2, FS_Bijection, Zenon DEF ExistsBijection
<1>4. IsFiniteSet(Queue) /\ Cardinality(Queue) = CARM_MAX_WAIT_Q /\ CARM_MAX_WAIT_Q \in Nat
  <2>1. CARM_MAX_PORTS \in Nat \ {0}
    BY Sx8Assumption, Zenon
  <2>2. Queue = 0 .. CARM_MAX_PORTS /\ 0 \in Int /\ CARM_MAX_PORTS \in Int
    BY <2>1 DEF Queue, Port, OOB
  <2>3. /\ IsFiniteSet(Queue)
        /\ Cardinality(Queue) = IF 0 > CARM_MAX_PORTS THEN 0 ELSE CARM_MAX_PORTS - 0 + 1
    BY <2>2, FS_Interval, Zenon
  <2> QED
    BY <2>1, <2>3 DEF CARM_MAX_WAIT_Q
<1>5. Cardinality(stopped) <= Cardinality(Queue) /\ (Cardinality(Queue) = Cardinality(stopped) => Queue = stopped)
  BY <1>0, <1>4, FS_Subset, Zenon
<1>6. wait_q_prod - wait_q_cons <= CARM_MAX_WAIT_Q
  BY <1>0, <1>1, <1>3, <1>4, <1>5
<1>7. ASSUME NEW q \in Queue \ stopped
      PROVE  wait_q_prod - wait_q_cons < CARM_MAX_WAIT_Q
  <2>1. wait_q_prod - wait_q_cons # CARM_MAX_WAIT_Q
    BY <1>1, <1>3, <1>4, <1>5, <1>7, Zenon
  <2> QED
    BY <1>0, <1>4, <1>6, <2>1
<1> QED
  BY <1>3, <1>6, <1>7, Zenon

\* carm_push_q takes a slot that no waiter has.
LEMMA WaitsPush ==
    ASSUME Types, Waits, NoWrap, NEW q \in Queue \ stopped, carm_push_q(q)
    PROVE  Waits' /\ stopped' = stopped \cup {q}
<1> DEFINE n == CARM_MAX_WAIT_Q
           c == wait_q_cons
           p == wait_q_prod
<1>0. n \in Nat /\ n > 0 /\ c \in Nat /\ p \in Nat /\ c <= p /\ p - c < n /\ Waiters \subseteq Nat /\ WIDTH \in Nat \ {0}
  BY WaiterFacts, WaitersBound, Zenon DEF Waits
<1>1. /\ stopped' = stopped \cup {q} /\ wait_q' = [wait_q EXCEPT ![p % n] = q]
      /\ wait_q_prod' = (p + 1) % WIDTH /\ wait_q_cons' = c
  BY Zenon DEF carm_push_q
<1>2. wait_q_prod' = p + 1 /\ p + 1 < WIDTH
  <2>1. p + 1 \in 0 .. WIDTH - 1 /\ p + 1 < WIDTH
    BY <1>0 DEF NoWrap
  <2> QED
    BY <1>1, <2>1, NotWrapped, Zenon
<1>3. Waiters' = Waiters \cup {p} /\ p \notin Waiters
  BY <1>0, <1>1, <1>2 DEF Waiters
<1>4. wait_q \in [0 .. n - 1 -> Queue] /\ p % n \in 0 .. n - 1
  BY <1>0, WaiterFacts, Zenon DEF Types, QueueTypes
<1>5. wait_q'[p % n] = q
  BY <1>1, <1>4, Zenon
<1>6. ASSUME NEW i \in Waiters
      PROVE  wait_q'[i % n] = wait_q[i % n] /\ wait_q[i % n] \in stopped
  <2>1. i \in Nat /\ i < p /\ p - i < n
    BY <1>0 DEF Waiters
  <2>2. i % n # p % n
    BY <1>0, <2>1, SlotsDiffer, Zenon
  <2>3. i % n \in 0 .. n - 1
    BY <2>1, WaiterFacts, Zenon
  <2> HIDE DEF n, p
  <2> QED
    BY <1>1, <1>4, <2>2, <2>3, Zenon DEF Waits, Slot, n
<1>7. \A i, j \in Waiters' : wait_q'[i % n] = wait_q'[j % n] => i = j
  <2>1. \A i, j \in Waiters : wait_q'[i % n] = wait_q'[j % n] => i = j
    BY <1>6, Zenon DEF Waits, Slot
  <2>2. \A i \in Waiters : wait_q'[i % n] # q
    BY <1>6, Zenon
  <2> HIDE DEF n, p
  <2> QED
    BY <1>3, <1>5, <2>1, <2>2, Zenon
<1>8. stopped' = {wait_q'[i % n] : i \in Waiters'}
  <2>1. stopped = {wait_q[i % n] : i \in Waiters}
    BY Zenon DEF Waits, Slot
  <2>2. stopped = {wait_q'[i % n] : i \in Waiters}
    BY <1>6, <2>1, Zenon
  <2> HIDE DEF n, p
  <2> QED
    BY <1>1, <1>3, <1>5, <2>2, Zenon
<1>9. wait_q_cons' <= wait_q_prod'
  BY <1>0, <1>1, <1>2
<1> QED
  BY <1>1, <1>2, <1>7, <1>8, <1>9, Zenon DEF Waits, Slot

\* carm_pop_q leaves the other waiters in their slots.
LEMMA WaitsPop ==
    ASSUME Types, Waits, NEW rest, carm_round_robin(rest)
    PROVE  /\ Waits'
           /\ \/ stack' = rest /\ UNCHANGED stopped /\ stopped = {}
              \/ \E q \in stopped : stopped' = stopped \ {q} /\ stack' = <<Rq(q)>> \o rest
<1> DEFINE n == CARM_MAX_WAIT_Q
           c == wait_q_cons
           p == wait_q_prod
           q == wait_q[c % n]
<1>0. n \in Nat /\ n > 0 /\ c \in Nat /\ p \in Nat /\ c <= p /\ p - c <= n /\ Waiters \subseteq Nat /\ WIDTH \in Nat \ {0} /\ p < WIDTH
  BY WaiterFacts, WaitersBound, Zenon DEF Waits
<1>1. CASE p = c
  <2>1. Waiters = {}
    BY <1>0, <1>1 DEF Waiters
  <2>2. stopped = {}
    BY <2>1, Zenon DEF Waits
  <2>3. stack' = rest /\ UNCHANGED wait
    BY <1>1, Zenon DEF carm_round_robin
  <2> QED
    BY <2>2, <2>3, Zenon DEF wait, Waits, Waiters, Slot
<1>2. CASE p # c
  <2>1. /\ wait_q_cons' = (c + 1) % WIDTH /\ stopped' = stopped \ {q} /\ wait_q_prod' = p
        /\ wait_q' = [wait_q EXCEPT ![c % n] = OOB] /\ stack' = <<Rq(q)>> \o rest
    BY <1>2, Zenon DEF carm_round_robin
  <2>2. wait_q_cons' = c + 1 /\ c + 1 <= p
    <3> HIDE DEF n, c, p, q
    <3>1. c + 1 <= p
      BY <1>0, <1>2
    <3>2. c + 1 \in 0 .. WIDTH - 1
      BY <1>0, <3>1
    <3> QED
      BY <2>1, <3>1, <3>2, NotWrapped, Zenon
  <2>3. Waiters = Waiters' \cup {c} /\ c \notin Waiters'
    <3>1. c \in Nat /\ p \in Nat /\ wait_q_prod' = p
      BY <1>0, <2>1, Zenon
    <3> QED
      BY <2>2, <3>1 DEF Waiters
  <2>4. wait_q \in [0 .. n - 1 -> Queue] /\ c % n \in 0 .. n - 1
    BY <1>0, WaiterFacts, Zenon DEF Types, QueueTypes
  <2>5. ASSUME NEW i \in Waiters'
        PROVE  wait_q'[i % n] = wait_q[i % n] /\ wait_q[i % n] # q
    <3>1. i \in Nat /\ c < i /\ i - c < n
      BY <1>0, <2>1, <2>2 DEF Waiters
    <3>2. c % n # i % n
      BY <1>0, <3>1, SlotsDiffer, Zenon
    <3>3. i % n \in 0 .. n - 1
      BY <3>1, WaiterFacts, Zenon
    <3>4. wait_q[i % n] # q
      BY <2>3, Zenon DEF Waits, Slot
    <3> HIDE DEF n, c
    <3> QED
      BY <2>1, <2>4, <3>2, <3>3, <3>4, Zenon
  <2>6. \A i, j \in Waiters' : wait_q'[i % n] = wait_q'[j % n] => i = j
    BY <2>3, <2>5, Zenon DEF Waits, Slot
  <2>7. stopped' = {wait_q'[i % n] : i \in Waiters'} /\ q \in stopped
    <3>1. stopped = {wait_q[i % n] : i \in Waiters}
      BY Zenon DEF Waits, Slot
    <3>2. {wait_q'[i % n] : i \in Waiters'} = {wait_q[i % n] : i \in Waiters'}
      BY <2>5, Zenon
    <3> HIDE DEF n, c
    <3> QED
      BY <2>1, <2>3, <2>5, <3>1, <3>2, Zenon
  <2>8. wait_q_cons' <= wait_q_prod' /\ wait_q_prod' < WIDTH
    BY <1>0, <2>1, <2>2
  <2>9. Waits'
    BY <2>6, <2>7, <2>8, Zenon DEF Waits, Slot
  <2> QED
    BY <2>1, <2>7, <2>9, Zenon
<1> QED
  BY <1>1, <1>2, Zenon

\* The request functions on the stack s are those of different queues, none of
\* which is in S.
Runs(s, S) ==
    /\ \A i \in DOMAIN s : s[i].fn = "rq" => s[i].q \notin S
    /\ \A i, j \in DOMAIN s : s[i].fn = "rq" /\ s[j].fn = "rq" /\ s[i].q = s[j].q => i = j

\* The frame of a request function says whose it is.
LEMMA RqFields == \A q : Rq(q).fn = "rq" /\ Rq(q).q = q
BY DEF Rq

\* A request function that returns may then be stopped.
LEMMA RunsTail ==
    ASSUME NEW S, NEW s \in Seq(Frame), s # <<>>, Runs(s, S)
    PROVE  /\ Runs(Tail(s), S)
           /\ \A q \in Queue : Head(s) = Rq(q) => q \notin S /\ Runs(Tail(s), S \cup {q})
<1>1. /\ Head(s) = s[1] /\ 1 \in DOMAIN s
      /\ \A i \in DOMAIN Tail(s) : i \in Int /\ i + 1 \in DOMAIN s /\ i + 1 # 1 /\ Tail(s)[i] = s[i + 1]
  BY Pop, Zenon
<1>2. \A i, j \in DOMAIN Tail(s) :
          Tail(s)[i].fn = "rq" /\ Tail(s)[j].fn = "rq" /\ Tail(s)[i].q = Tail(s)[j].q => i = j
  <2> SUFFICES ASSUME NEW i \in DOMAIN Tail(s), NEW j \in DOMAIN Tail(s),
                      Tail(s)[i].fn = "rq", Tail(s)[j].fn = "rq", Tail(s)[i].q = Tail(s)[j].q
               PROVE  i = j
    BY Zenon
  <2>1. i + 1 = j + 1 /\ i \in Int /\ j \in Int
    BY <1>1, Zenon DEF Runs
  <2> QED
    BY <2>1
<1>3. \A i \in DOMAIN Tail(s) : Tail(s)[i].fn = "rq" => Tail(s)[i].q \notin S
  BY <1>1, Zenon DEF Runs
<1>4. ASSUME NEW q \in Queue, Head(s) = Rq(q)
      PROVE  q \notin S /\ \A i \in DOMAIN Tail(s) : Tail(s)[i].fn = "rq" => Tail(s)[i].q # q
  <2>1. s[1].fn = "rq" /\ s[1].q = q
    BY <1>1, <1>4, RqFields, Zenon
  <2> QED
    BY <1>1, <2>1, Zenon DEF Runs
<1> QED
  BY <1>2, <1>3, <1>4, Zenon DEF Runs

\* A frame that is no request function changes nothing.
LEMMA RunsPush ==
    ASSUME NEW S, NEW s \in Seq(Frame), NEW f \in Frame, f.fn # "rq", Runs(s, S)
    PROVE  Runs(<<f>> \o s, S)
<1> DEFINE r == <<f>> \o s
<1>1. /\ DOMAIN r = 1 .. Len(s) + 1 /\ r[1] = f
      /\ \A i \in 2 .. Len(s) + 1 : r[i] = s[i - 1]
      /\ DOMAIN s = 1 .. Len(s) /\ Len(s) \in Nat
  BY Push, SeqLength
<1> HIDE DEF r
<1>2. \A i \in DOMAIN r : r[i].fn = "rq" => i \in Int /\ i - 1 \in DOMAIN s /\ r[i] = s[i - 1]
  <2> SUFFICES ASSUME NEW i \in DOMAIN r, r[i].fn = "rq"
               PROVE  i \in Int /\ i - 1 \in DOMAIN s /\ r[i] = s[i - 1]
    BY Zenon
  <2>1. i # 1
    BY <1>1, Zenon
  <2> QED
    BY <1>1, <2>1
<1>3. \A i, j \in DOMAIN r : r[i].fn = "rq" /\ r[j].fn = "rq" /\ r[i].q = r[j].q => i = j
  <2> SUFFICES ASSUME NEW i \in DOMAIN r, NEW j \in DOMAIN r, r[i].fn = "rq", r[j].fn = "rq", r[i].q = r[j].q
               PROVE  i = j
    BY Zenon
  <2>1. i - 1 = j - 1 /\ i \in Int /\ j \in Int
    BY <1>2, Zenon DEF Runs
  <2> QED
    BY <2>1
<1>4. Runs(r, S)
  BY <1>2, <1>3, Zenon DEF Runs
<1> QED
  BY <1>4, Zenon DEF r

\* The request function of a queue that is started.
LEMMA RunsCall ==
    ASSUME NEW S, NEW s \in Seq(Frame), NEW q \in Queue, q \notin S, Runs(s, S \cup {q})
    PROVE  Runs(<<Rq(q)>> \o s, S)
<1> DEFINE r == <<Rq(q)>> \o s
<1>1. /\ DOMAIN r = 1 .. Len(s) + 1 /\ r[1] = Rq(q)
      /\ \A i \in 2 .. Len(s) + 1 : r[i] = s[i - 1]
      /\ DOMAIN s = 1 .. Len(s) /\ Len(s) \in Nat
  BY Frames, Push, SeqLength
<1>q. r[1].q = q
  BY <1>1, RqFields, Zenon
<1> HIDE DEF r
<1>2. \A i \in DOMAIN r : i = 1 \/ (i \in Int /\ i - 1 \in DOMAIN s /\ r[i] = s[i - 1])
  BY <1>1
<1>3. \A i \in DOMAIN r : i # 1 /\ r[i].fn = "rq" => r[i].q # q /\ r[i].q \notin S
  BY <1>2, Zenon DEF Runs
<1>4. \A i, j \in DOMAIN r : r[i].fn = "rq" /\ r[j].fn = "rq" /\ r[i].q = r[j].q => i = j
  <2> SUFFICES ASSUME NEW i \in DOMAIN r, NEW j \in DOMAIN r, r[i].fn = "rq", r[j].fn = "rq", r[i].q = r[j].q
               PROVE  i = j
    BY Zenon
  <2>1. CASE i = 1 \/ j = 1
    BY <1>q, <1>3, <2>1, Zenon
  <2>2. CASE i # 1 /\ j # 1
    <3>1. i - 1 = j - 1 /\ i \in Int /\ j \in Int
      BY <1>2, <2>2, Zenon DEF Runs
    <3> QED
      BY <3>1
  <2> QED
    BY <2>1, <2>2, Zenon
<1>5. Runs(r, S)
  BY <1>q, <1>3, <1>4, Zenon DEF Runs
<1> QED
  BY <1>5, Zenon DEF r

\* The stack on which nothing runs, and the one on which one function does.
LEMMA RunsOne ==
    ASSUME NEW S
    PROVE  /\ Runs(<<>>, S)
           /\ \A f \in Frame : f.fn # "rq" => Runs(<<f>>, S)
           /\ \A q \in Queue : q \notin S => Runs(<<Rq(q)>>, S)
<1>1. Runs(<<>>, S)
  BY DEF Runs
<1>2. \A f : DOMAIN <<f>> = {1} /\ <<f>>[1] = f
  OBVIOUS
<1>3. \A f \in Frame : f.fn # "rq" => Runs(<<f>>, S)
  BY <1>2, Zenon DEF Runs
<1>4. \A q \in Queue : q \notin S => Runs(<<Rq(q)>>, S)
  <2> SUFFICES ASSUME NEW q \in Queue, q \notin S
               PROVE  Runs(<<Rq(q)>>, S)
    BY Zenon
  <2>1. Rq(q).q = q
    BY RqFields, Zenon
  <2> DEFINE s == <<Rq(q)>>
  <2>2. DOMAIN s = {1} /\ s[1] = Rq(q)
    OBVIOUS
  <2> HIDE DEF s
  <2>3. Runs(s, S)
    BY <2>1, <2>2, Zenon DEF Runs
  <2> QED
    BY <2>3, Zenon DEF s
<1> QED
  BY <1>1, <1>3, <1>4, Zenon

\* A request function runs for a queue that is not stopped, and not inside itself.
Running == Runs(stack, stopped)

\* carm_end_rq starts the queue that has waited longest, or none.
LEMMA EndRqWaits ==
    ASSUME Types, Waits, NEW c, NEW rest \in Seq(Frame), Runs(rest, stopped), EndRq(c, rest)
    PROVE  Waits' /\ Running'
<1>1. CASE stack' = rest /\ UNCHANGED wait
  <2>1. UNCHANGED <<wait_q, wait_q_prod, wait_q_cons, stopped>>
    BY <1>1, Zenon DEF wait
  <2> QED
    BY <1>1, <2>1, Zenon DEF Waits, Waiters, Slot, Running
<1>2. CASE carm_round_robin(rest)
  <2>1. /\ Waits'
        /\ \/ stack' = rest /\ UNCHANGED stopped /\ stopped = {}
           \/ \E q \in stopped : stopped' = stopped \ {q} /\ stack' = <<Rq(q)>> \o rest
    BY <1>2, WaitsPop, Zenon
  <2>2. CASE stack' = rest /\ UNCHANGED stopped
    BY <2>1, <2>2, Zenon DEF Running
  <2>3. ASSUME NEW q \in stopped, stopped' = stopped \ {q}, stack' = <<Rq(q)>> \o rest
        PROVE  Running'
    <3>1. q \in Queue /\ (stopped \ {q}) \cup {q} = stopped /\ q \notin stopped \ {q}
      BY WaiterFacts, Zenon
    <3>2. Runs(<<Rq(q)>> \o rest, stopped \ {q})
      BY <3>1, RunsCall, Zenon
    <3> QED
      BY <2>3, <3>2, Zenon DEF Running
  <2> QED
    BY <2>1, <2>2, <2>3, Zenon
<1> QED
  BY <1>1, <1>2, Zenon DEF EndRq

\* The waiting queues are the stopped ones as long as wait_q_prod does not wrap.
LEMMA WaitsNext ==
    ASSUME Types, Waits, Running, NoWrap, [Next]_vars
    PROVE  Waits' /\ Running'
<1>0. stack \in Seq(Frame) /\ \A p \in Port : p \in Queue
  BY Zenon DEF Types, QueueTypes, Queue
<1>o. OOB \in Queue
  BY Zenon DEF Queue
<1>w. UNCHANGED wait => Waits' /\ UNCHANGED stopped
  BY Zenon DEF wait, Waits, Waiters, Slot
<1>s. UNCHANGED wait /\ UNCHANGED stack => Waits' /\ Running'
  BY <1>w, Zenon DEF Running
<1>t. UNCHANGED wait /\ stack # <<>> /\ stack' = Tail(stack) => Waits' /\ Running'
  BY <1>0, <1>w, RunsTail, Zenon DEF Running
<1>c. ASSUME NEW q \in Queue, UNCHANGED wait, stack' = <<>> \/ (q \notin stopped /\ stack' = <<Rq(q)>>)
      PROVE  Waits' /\ Running'
  BY <1>c, <1>w, RunsOne, Zenon DEF Running
<1>n. ASSUME InIrq
      PROVE  NextSlot \in Seq(Frame) /\ Runs(NextSlot, stopped)
  <2>1. Top \in Frame /\ Top.fn = "irq" /\ stack # <<>> /\ Tail(stack) \in Seq(Frame)
    BY <1>0, <1>n, SeqHeadTail, Zenon DEF InIrq, Top
  <2>2. Top.idx + 1 \in Nat /\ Top.work + 1 \in Nat /\ RMSG_Q_LEN \in Nat \ {0}
    <3>1. Top.idx \in 0 .. RMSG_Q_LEN - 1 /\ Top.work \in Nat
      BY <2>1, Frames, Zenon
    <3> QED
      BY <3>1, Sx8Assumption
  <2>3. (Top.idx + 1) % RMSG_Q_LEN \in 0 .. RMSG_Q_LEN - 1
    BY <2>2, Remainder, Zenon
  <2> DEFINE f == Irq((Top.idx + 1) % RMSG_Q_LEN, Top.work + 1)
  <2>4. f \in Frame /\ f.fn = "irq"
    BY <2>2, <2>3, Frames, Zenon
  <2> HIDE DEF f
  <2>5. Runs(Tail(stack), stopped)
    BY <1>0, <2>1, RunsTail, Zenon DEF Running
  <2>6. f.fn # "rq"
    BY <2>4, Zenon
  <2>7. Runs(<<f>> \o Tail(stack), stopped) /\ <<f>> \o Tail(stack) \in Seq(Frame)
    BY <2>1, <2>4, <2>5, <2>6, RunsPush, Push, Zenon
  <2> QED
    BY <2>7, Zenon DEF NextSlot, f
<1>1. CASE \/ UNCHANGED vars \/ FsmStart \/ FsmSwitch \/ GetSpecial \/ SpecialFails \/ ArrayInfoFails
           \/ AddDisk \/ FsmWrite \/ Reschedule \/ ProbeStage \/ ProbeFails \/ Unbind \/ FreeHost \/ Adapter
           \/ \E p \in Port : CleanupQueue(p) \/ RqSend(p)
           \/ OobSend
  BY <1>1, <1>s, Zenon DEF vars, FsmStart, FsmSwitch, GetSpecial, SpecialFails, ArrayInfoFails, AddDisk, FsmWrite,
     Reschedule, ProbeStage, ProbeFails, Unbind, FreeHost, Adapter, Take, Respond, AdapterEvent, CleanupQueue, RqSend, OobSend
<1>2. CASE (\E q \in Queue : RqEmpty(q)) \/ EndOfResponses \/ HandleRest
  BY <1>2, <1>t, Zenon DEF RqEmpty, InRq, EndOfResponses, InIrq, HandleRest, Return
<1>3. ASSUME NEW q \in Queue, InRq(q), carm_push_q(q), Return
      PROVE  Waits' /\ Running'
  <2>1. stack # <<>> /\ Head(stack) = Rq(q) /\ stack' = Tail(stack)
    BY <1>3, Zenon DEF InRq, Top, Return
  <2>2. q \notin stopped /\ Runs(Tail(stack), stopped \cup {q})
    BY <1>0, <1>3, <2>1, RunsTail, Zenon DEF Running
  <2>3. Waits' /\ stopped' = stopped \cup {q}
    BY <1>3, <2>2, WaitsPush, Zenon
  <2> QED
    BY <2>1, <2>2, <2>3, Zenon DEF Running
<1>4. CASE (\E q \in Queue : RqBusy(q)) \/ (\E p \in Port : RqNoTag(p))
  BY <1>0, <1>3, <1>4, Zenon DEF RqBusy, RqNoTag
<1>5. ASSUME NEW p \in Port, RqMapFails(p)
      PROVE  Waits' /\ Running'
  <2>1. stack # <<>> /\ EndRq(Tags, Tail(stack))
    BY <1>5, Zenon DEF RqMapFails, InRq
  <2>2. Tail(stack) \in Seq(Frame) /\ Runs(Tail(stack), stopped)
    BY <1>0, <2>1, SeqHeadTail, RunsTail, Zenon DEF Running
  <2> QED
    BY <2>1, <2>2, EndRqWaits, Zenon
<1>6. CASE HandleResp
  <2> DEFINE a == ring[Top.idx]
             t == TAG_DECODE(a.tag)
             y == req[t].type
             rest == IF y \in DOMAIN Expected THEN <<Handle(y, a)>> \o NextSlot ELSE NextSlot
  <2>1. InIrq /\ a \in Answer /\ EndRq(Put(t), rest)
    BY <1>6, Zenon DEF HandleResp
  <2>2. NextSlot \in Seq(Frame) /\ Runs(NextSlot, stopped)
    BY <1>n, <2>1, Zenon
  <2>3. y \in DOMAIN Expected => Handle(y, a) \in Frame /\ Handle(y, a).fn # "rq"
    <3>1. y \in DOMAIN Expected => Handle(y, a) \in Frame /\ Handle(y, a).fn = "handle"
      BY <2>1, Frames, Zenon
    <3> QED
      BY <3>1
  <2> HIDE DEF a, t, y
  <2>4. rest \in Seq(Frame) /\ Runs(rest, stopped)
    <3>1. CASE y \in DOMAIN Expected
      BY <2>2, <2>3, <3>1, RunsPush, Push, Zenon
    <3>2. CASE y \notin DOMAIN Expected
      BY <2>2, <3>2, Zenon
    <3> QED
      BY <3>1, <3>2, Zenon
  <2> HIDE DEF rest
  <2> QED
    BY <2>1, <2>4, EndRqWaits, Zenon
<1>7. CASE SkipEvent
  <2>1. InIrq /\ stack' = NextSlot /\ UNCHANGED wait
    BY <1>7, Zenon DEF SkipEvent
  <2> QED
    BY <1>n, <1>w, <2>1, Zenon DEF Running
<1>8. CASE Interrupt
  <2>1. resp_idx % RMSG_Q_LEN \in 0 .. RMSG_Q_LEN - 1
    BY Sx8Assumption, Remainder, Zenon DEF Types, CardTypes
  <2> DEFINE f == Irq(resp_idx % RMSG_Q_LEN, 0)
  <2>2. f \in Frame /\ f.fn = "irq"
    BY <2>1, Frames, 0 \in Nat, Zenon
  <2>3. f.fn # "rq"
    BY <2>2
  <2>4. UNCHANGED wait /\ (stack' = <<>> \/ stack' = <<f>>)
    BY <1>8, Zenon DEF Interrupt
  <2> HIDE DEF f
  <2> QED
    BY <1>w, <2>2, <2>3, <2>4, RunsOne, Zenon DEF Running
<1>9. CASE SendSpecial \/ (\E p \in Port : DelGendisk(p))
  <2>1. CASE SendSpecial
    BY <1>c, <1>o, <2>1, Zenon DEF SendSpecial
  <2>2. ASSUME NEW p \in Port, DelGendisk(p)
        PROVE  Waits' /\ Running'
    BY <1>0, <1>c, <2>2, Zenon DEF DelGendisk
  <2> QED
    BY <1>9, <2>1, <2>2, Zenon
<1>10. ASSUME NEW r \in Request, Submit(r)
       PROVE  Waits' /\ Running'
  <2>1. r[1] \in Queue
    BY Sx8Assumption DEF Queue, Port
  <2> QED
    BY <1>c, <1>10, <2>1, Zenon DEF Submit
<1> QED
  BY <1>1, <1>2, <1>4, <1>5, <1>6, <1>7, <1>8, <1>9, <1>10,
     Zenon DEF Next, Locked, RunRq, RunIrq, Fsm, Message_, Bind, Unwind

\* A count less than WIDTH steps behind another is found by taking the
\* difference modulo WIDTH, as the unsigned subtraction of the code does.
LEMMA Distance ==
    ASSUME NEW n \in Nat, n > 0, NEW a \in 0 .. n - 1, NEW b \in 0 .. n - 1
    PROVE  /\ a <= b => (b - a) % n = b - a
           /\ b < a => (b - a) % n = b - a + n
<1>1. ASSUME a <= b PROVE (b - a) % n = b - a
  BY <1>1
<1>2. ASSUME b < a PROVE (b - a) % n = b - a + n
  BY <1>2
<1> QED
  BY <1>1, <1>2, Zenon

\* Before the wrap, the counts that WaitersKept looks at are those from
\* wait_q_cons up to wait_q_prod.
LEMMA WaitingIsWaiters ==
    ASSUME Types, Ranges, Waits
    PROVE  Waiting = Waiters
<1>1. /\ wait_q_cons \in 0 .. WIDTH - 1 /\ wait_q_prod \in 0 .. WIDTH - 1
      /\ WIDTH \in Nat /\ WIDTH > 0 /\ wait_q_cons <= wait_q_prod
  <2>1. WIDTH \in Nat /\ WIDTH > 0
    BY Sx8Assumption
  <2> QED
    BY <2>1, Zenon DEF Waits, Ranges, WaitRange
<1> DEFINE c == wait_q_cons
           p == wait_q_prod
<1>2. (p - c) % WIDTH = p - c
  BY <1>1, Distance, Zenon
<1>3. ASSUME NEW i \in 0 .. WIDTH - 1
      PROVE  WaitingAt(i) <=> i \in c .. p - 1
  <2>1. /\ c <= i => (i - c) % WIDTH = i - c
        /\ i < c => (i - c) % WIDTH = i - c + WIDTH
    BY <1>1, Distance, Zenon
  <2> DEFINE d == (i - c) % WIDTH
  <2>2. WaitingAt(i) <=> d < p - c
    BY <1>2, Zenon DEF WaitingAt
  <2>3. (c <= i => d = i - c) /\ (i < c => d = i - c + WIDTH)
    BY <2>1, Zenon
  <2> HIDE DEF d
  <2>4. d < p - c <=> i \in c .. p - 1
    BY <1>1, <2>3
  <2> QED
    BY <2>2, <2>4, Zenon
<1>4. c .. p - 1 \subseteq 0 .. WIDTH - 1
  BY <1>1
<1> QED
  BY <1>3, <1>4, Zenon DEF Waiting, Waiters

\* No queue waits when the host is allocated.
LEMMA QueuedInit == Init => Waits /\ Running
<1> SUFFICES ASSUME Init PROVE Waits /\ Running
  BY Zenon
<1>1. wait_q_prod = 0 /\ wait_q_cons = 0 /\ stopped = {} /\ stack = <<>>
  BY Zenon DEF Init
<1>2. Waiters = {}
  BY <1>1 DEF Waiters
<1>3. wait_q_cons <= wait_q_prod /\ wait_q_prod < WIDTH
  BY <1>1, Sx8Assumption
<1>4. Waits
  BY <1>1, <1>2, <1>3, Zenon DEF Waits
<1> QED
  BY <1>1, <1>4, RunsOne, Zenon DEF Running

\* The queues between wait_q_cons and wait_q_prod are those that carm_push_q
\* has stopped and carm_round_robin has not started, none is lost and none is
\* there twice, as long as wait_q_prod has not wrapped.
THEOREM WaitersAreKept ==
    ASSUME TagsFit
    PROVE  Spec /\ []NoWrap => []WaitersKept
<1>1. Whole => Types /\ Ranges
  BY Zenon DEF Whole, IInv
<1>2. Types /\ Ranges /\ Waits => WaitersKept
  <2> SUFFICES ASSUME Types, Ranges, Waits PROVE WaitersKept
    BY Zenon
  <2>1. Waiting = Waiters
    BY WaitingIsWaiters, Zenon
  <2>2. Cardinality(Waiters) = Cardinality(stopped)
    BY WaitersBound, Zenon
  <2> QED
    BY <2>1, <2>2, Zenon DEF WaitersKept, Waits, Slot
<1>3. Types /\ Waits /\ Running /\ NoWrap /\ [Next]_vars => Waits' /\ Running'
  BY WaitsNext, Zenon
<1>4. Spec => []Whole
  BY WholeAlways, Zenon
<1> QED
  BY <1>1, <1>2, <1>3, <1>4, QueuedInit, PTL DEF Spec

-----------------------------------------------------------------------------
(* No wake-up is lost *)

\* The state machine has come to adding the disks.
Activated == state \in {"DEV_ACTIVATE", "PROBE_FINISHED"}

\* Every tag in use is somewhere; what is in oob_q is a message of the state
\* machine and what is in the adapter a message; reads and writes, disks and
\* their requests exist only once the disks are added, a state the state
\* machine does not leave.
Somewhere(t) == InOob(t) \/ InHw(t) \/ InBusy(t) \/ InRing(t) \/ Got(t)
Located == \A t \in msg_alloc : Somewhere(t)
Kinds ==
    /\ \A t \in Tag : InOob(t) => Sent(t)
    /\ \A t \in Tag : InHw(t) => req[t].type # "none"
    /\ \A t \in Tag : req[t].type = "rw" => Activated
Rests == fsm.pc = "set" => fsm.state # "PROBE_FINISHED" /\ (fsm.state = "DEV_ACTIVATE" => fsm.new = "PROBE_FINISHED")
Disks ==
    /\ Rests
    /\ up # {} => Activated
    /\ \A p \in Port : rqs[p] # <<>> => Activated

\* The states a message is sent in come before.
LEMMA SentEarly ==
    /\ \A s \in DOMAIN Sends : s \notin {"DEV_ACTIVATE", "PROBE_FINISHED"}
    /\ \A y \in DOMAIN Expected : Expected[y] \notin {"DEV_ACTIVATE", "PROBE_FINISHED"}
BY DEF Sends, Expected

\* Once the disks are added no message of the state machine is under way.
LEMMA ActivatedQuiet ==
    ASSUME IInv, Activated
    PROVE  /\ NoSent /\ NoHandle /\ fsm.pc \notin {"get", "got", "err_out"}
           /\ Started
<1>0. Turns /\ stack \in Seq(Frame) /\ fsm \in FsmType
  BY Zenon DEF IInv, Types, HostTypes, QueueTypes
<1>1. NoSent
  BY <1>0, SentEarly, Zenon DEF Turns, NoSent, Sent, Activated
<1>2. NoHandle
  <2>1. ASSUME NEW i \in DOMAIN stack, Handles(i)
        PROVE  FALSE
    <3>1. stack[i] \in Frame
      BY <1>0, <2>1, SeqLength, Zenon
    <3>2. stack[i].type \in DOMAIN Expected /\ state = Expected[stack[i].type]
      BY <1>0, <2>1, <3>1, Frames, Zenon DEF Turns, Handles
    <3> QED
      BY <3>2, SentEarly, Zenon DEF Activated
  <2> QED
    BY <2>1, Zenon DEF NoHandle
<1>3. fsm.pc \notin {"get", "got", "err_out"}
  <2> SUFFICES ASSUME fsm.pc \in {"get", "got", "err_out"} PROVE FALSE
    BY Zenon
  <2>1. fsm.state \in DOMAIN Sends
    BY <1>0 DEF FsmType, Idle, Sends
  <2>2. state = fsm.state
    BY <1>0, Zenon DEF Turns
  <2> QED
    BY <2>1, <2>2, SentEarly, Zenon DEF Activated
<1>4. Started
  BY <1>0, Zenon DEF Turns, Activated
<1> QED
  BY <1>1, <1>2, <1>3, <1>4, Zenon

\* Neither an answer nor fsm_task takes the host back from there.
LEMMA ActivatedStays ==
    ASSUME IInv, Rests, Activated, [Next]_vars
    PROVE  Activated'
<1>0. Turns /\ stack \in Seq(Frame) /\ NoHandle /\ fsm.pc # "err_out" /\ Started
  BY ActivatedQuiet, Zenon DEF IInv, Types, QueueTypes
<1>1. CASE UNCHANGED state
  BY <1>1, Zenon DEF Activated
<1>2. CASE HandleRest
  <2>1. 1 \in DOMAIN stack /\ Handles(1)
    BY <1>0, <1>2, Pop, Zenon DEF HandleRest, Top, Handles
  <2> QED
    BY <1>0, <2>1, Zenon DEF NoHandle
<1>3. CASE ArrayInfoFails
  BY <1>0, <1>3, Zenon DEF ArrayInfoFails
<1>4. CASE FsmWrite
  <2>1. fsm.pc = "set" /\ state' = fsm.new /\ FsmOwnsState
    BY <1>0, <1>4, Zenon DEF FsmWrite, Turns
  <2>2. state = fsm.state
    BY <2>1, Zenon DEF FsmOwnsState, Activated
  <2> QED
    BY <2>1, <2>2, Zenon DEF Rests, Activated
<1>5. CASE ProbeStage
  BY <1>0, <1>5, Stages, Zenon DEF ProbeStage, Started
<1>6. CASE Locked /\ ~HandleRest
  BY <1>1, <1>6, Zenon DEF Locked, RunRq, RunIrq, RqEmpty, RqBusy, RqNoTag, RqMapFails, RqSend, OobSend,
     HandleResp, SkipEvent, EndOfResponses
<1>7. CASE Fsm /\ ~ArrayInfoFails /\ ~FsmWrite
  BY <1>1, <1>7, Zenon DEF Fsm, Message_, FsmStart, FsmSwitch, GetSpecial, SpecialFails, SendSpecial, AddDisk, Reschedule
<1>8. CASE UNCHANGED vars \/ Interrupt \/ (Bind /\ ~ProbeStage) \/ Adapter \/ \E r \in Request : Submit(r)
  BY <1>1, <1>8, Zenon DEF vars, Interrupt, Bind, ProbeFails, Unbind, Unwind, DelGendisk, CleanupQueue, FreeHost,
     Adapter, Take, Respond, AdapterEvent, Submit
<1> QED
  BY <1>2, <1>3, <1>4, <1>5, <1>6, <1>7, <1>8, Zenon DEF Next

\* fsm_task leaves HST_DEV_ACTIVATE only for HST_PROBE_FINISHED, and that not at all.
LEMMA RestsNext ==
    ASSUME IInv, Rests, [Next]_vars
    PROVE  Rests'
<1>0. Turns /\ fsm \in FsmType
  BY Zenon DEF IInv, Types, HostTypes
<1>1. CASE UNCHANGED fsm
  BY <1>1, Zenon DEF Rests
<1>2. CASE FsmStart \/ GetSpecial \/ SendSpecial \/ FsmWrite \/ Reschedule
  <2>1. fsm'.pc # "set"
    BY <1>2 DEF FsmStart, GetSpecial, SendSpecial, FsmWrite, Reschedule, Idle
  <2> QED
    BY <2>1, Zenon DEF Rests
<1>3. CASE FsmSwitch
  <2>1. fsm.pc = "switch" /\ fsm.state \in HostState \ {"INVALID"}
    <3>1. fsm.pc = "switch" /\ state = fsm.state
      BY <1>0, <1>3, Zenon DEF FsmSwitch, Turns
    <3>2. fsm.state \in HostState
      BY <1>0, <3>1 DEF FsmType, Idle
    <3>3. fsm # Idle
      BY <3>1 DEF Idle
    <3>4. Started
      BY <1>0, <3>3, Zenon DEF Turns, Quiet
    <3> QED
      BY <1>0, <3>1, <3>2, <3>4, Zenon DEF Turns
  <2>2. fsm'.pc = "set" => fsm.state \notin {"DEV_ACTIVATE", "PROBE_FINISHED"} /\ fsm'.state = fsm.state
    BY <1>3, <2>1 DEF FsmSwitch, FsmSet, FsmAt, Idle, Sends, HostState
  <2> QED
    BY <2>2, Zenon DEF Rests
<1>4. CASE SpecialFails \/ ArrayInfoFails
  <2>1. fsm.pc \in {"get", "got", "err_out"} /\ fsm' \in {FsmAt("err_out"), FsmSet("ERROR")}
    BY <1>4, Zenon DEF SpecialFails, ArrayInfoFails
  <2>2. fsm.state \in DOMAIN Sends
    BY <1>0, <2>1 DEF FsmType, Idle, Sends
  <2>3. fsm'.state = fsm.state
    BY <2>1 DEF FsmAt, FsmSet
  <2> QED
    BY <2>2, <2>3, SentEarly, Zenon DEF Rests
<1>5. CASE AddDisk
  <2>1. CASE UNCHANGED fsm
    BY <1>1, <2>1, Zenon
  <2>2. CASE fsm' = FsmSet("PROBE_FINISHED")
    <3>1. fsm.pc = "activate"
      BY <1>5, Zenon DEF AddDisk
    <3>2. fsm.state = "DEV_ACTIVATE"
      BY <1>0, <3>1 DEF FsmType, Idle
    <3>3. fsm'.state = fsm.state /\ fsm'.new = "PROBE_FINISHED"
      BY <2>2 DEF FsmSet
    <3> QED
      BY <3>2, <3>3 DEF Rests
  <2> QED
    BY <1>5, <2>1, <2>2, Zenon DEF AddDisk
<1>6. CASE Locked
  BY <1>1, <1>6, Zenon DEF Locked, RunRq, RunIrq, RqEmpty, RqBusy, RqNoTag, RqMapFails, RqSend, OobSend,
     HandleResp, SkipEvent, EndOfResponses, HandleRest
<1>7. CASE UNCHANGED vars \/ Interrupt \/ Bind \/ Adapter \/ \E r \in Request : Submit(r)
  BY <1>1, <1>7, Zenon DEF vars, Interrupt, Bind, ProbeStage, ProbeFails, Unbind, Unwind, DelGendisk, CleanupQueue,
     FreeHost, Adapter, Take, Respond, AdapterEvent, Submit
<1> QED
  BY <1>2, <1>3, <1>4, <1>5, <1>6, <1>7, Zenon DEF Next, Fsm, Message_

\* Disks are added, and requests come to them, only in those states.
LEMMA DisksNext ==
    ASSUME IInv, Disks, [Next]_vars
    PROVE  Disks'
<1>0. Turns /\ fsm \in FsmType /\ rqs \in [Port -> Seq(Request)] /\ Rests
  BY Zenon DEF IInv, Types, HostTypes, QueueTypes, Disks
<1>1. Rests' /\ (Activated => Activated')
  BY <1>0, RestsNext, ActivatedStays, Zenon
<1>2. up' # {} => Activated'
  <2>1. CASE up' \subseteq up
    BY <1>1, <2>1, Zenon DEF Disks
  <2>2. CASE AddDisk
    <3>1. fsm.pc = "activate" /\ UNCHANGED state /\ state = fsm.state
      BY <1>0, <2>2, Zenon DEF AddDisk, Turns
    <3>2. fsm.state = "DEV_ACTIVATE"
      BY <1>0, <3>1 DEF FsmType, Idle
    <3> QED
      BY <3>1, <3>2, Zenon DEF Activated
  <2>3. CASE Locked
    BY <2>1, <2>3, Zenon DEF Locked, RunRq, RunIrq, RqEmpty, RqBusy, RqNoTag, RqMapFails, RqSend, OobSend,
       HandleResp, SkipEvent, EndOfResponses, HandleRest, bind
  <2>4. CASE Fsm /\ ~AddDisk
    BY <2>1, <2>4, Zenon DEF Fsm, Message_, FsmStart, FsmSwitch, GetSpecial, SpecialFails, ArrayInfoFails,
       SendSpecial, FsmWrite, Reschedule, bind
  <2>5. CASE UNCHANGED vars \/ Interrupt \/ Bind \/ Adapter \/ \E r \in Request : Submit(r)
    BY <2>1, <2>5, Zenon DEF vars, Interrupt, Bind, ProbeStage, ProbeFails, Unbind, Unwind, DelGendisk, CleanupQueue,
       FreeHost, Adapter, Take, Respond, AdapterEvent, Submit, bind
  <2> QED
    BY <2>2, <2>3, <2>4, <2>5, Zenon DEF Next
<1>3. ASSUME NEW p \in Port, rqs'[p] # <<>>
      PROVE  Activated'
  <2>1. CASE rqs[p] # <<>>
    BY <1>1, <2>1, Zenon DEF Disks
  <2>2. CASE rqs[p] = <<>>
    <3>0. CASE UNCHANGED rqs
      BY <1>3, <2>1, <3>0, Zenon
    <3>1. ASSUME NEW q \in Port, rqs[q] # <<>>, rqs' = [rqs EXCEPT ![q] = Tail(rqs[q])]
          PROVE  Activated'
      BY <1>1, <3>1, Zenon DEF Disks
    <3>2. ASSUME NEW r \in Request, Submit(r)
          PROVE  Activated'
      BY <1>1, <3>2, Zenon DEF Submit, Disks
    <3>3. CASE Locked
      BY <3>0, <3>1, <3>3, Zenon DEF Locked, RunRq, RunIrq, RqEmpty, RqBusy, RqNoTag, RqMapFails, RqSend, OobSend,
         HandleResp, SkipEvent, EndOfResponses, HandleRest
    <3>4. CASE Fsm
      BY <3>0, <3>4, Zenon DEF Fsm, Message_, FsmStart, FsmSwitch, GetSpecial, SpecialFails, ArrayInfoFails, SendSpecial, AddDisk, FsmWrite, Reschedule
    <3>5. CASE UNCHANGED vars \/ Interrupt \/ Bind \/ Adapter
      BY <3>0, <3>5, Zenon DEF vars, Interrupt, Bind, ProbeStage, ProbeFails, Unbind, Unwind, DelGendisk, CleanupQueue,
         FreeHost, Adapter, Take, Respond, AdapterEvent
    <3> QED
      BY <3>2, <3>3, <3>4, <3>5, Zenon DEF Next
  <2> QED
    BY <2>1, <2>2, Zenon
<1> QED
  BY <1>1, <1>2, <1>3, Zenon DEF Disks

\* A tag that is allocated is somewhere: no step drops a message or an answer
\* without putting its tag.
LEMMA LocatedNext ==
    ASSUME TagsFit, IInv, Located, [Next]_vars
    PROVE  Located'
<1>0. Types /\ Placed /\ Once /\ HostTypes /\ QueueTypes /\ CardTypes
  BY Zenon DEF IInv, Owned, Types
<1>l. \A t \in msg_alloc : Somewhere(t)
  BY Zenon DEF Located
<1>g. SUFFICES \A t \in msg_alloc' : Somewhere(t)'
  BY <1>g, Zenon DEF Located
<1>u. ASSUME UNCHANGED <<msg_alloc, oob, hw, busy, ring, fsm>>
      PROVE  \A t \in msg_alloc' : Somewhere(t)'
  BY <1>l, <1>u, Zenon DEF Somewhere, InOob, InHw, InBusy, InRing, Got
<1>1. CASE UNCHANGED vars \/ Interrupt \/ Bind \/ \E r \in Request : Submit(r)
  BY <1>1, <1>u, Zenon DEF vars, tags, card, Interrupt, Bind, ProbeStage, ProbeFails,
     Unbind, Unwind, DelGendisk, CleanupQueue, FreeHost, Submit
<1>2. CASE \/ \E q \in Queue : RqEmpty(q) \/ RqBusy(q)
           \/ \E p \in Port : RqNoTag(p) \/ RqMapFails(p)
           \/ EndOfResponses \/ HandleRest
  BY <1>2, <1>u, Zenon DEF RqEmpty, RqBusy, RqNoTag, RqMapFails, EndRq, SetTags, Tags, EndOfResponses, HandleRest,
     tags, card
<1>3. ASSUME NEW p \in Port, RqSend(p)
      PROVE  \A t \in msg_alloc' : Somewhere(t)'
  <2> DEFINE m == [tag |-> GetTag, rq |-> Head(rqs[p]), type |-> "rw", array |-> -1]
  <2>1. GetTag \in Tag /\ GetTag \notin msg_alloc
    BY <1>0, <1>3, GetTagFree, Zenon DEF RqSend
  <2>2. hw' = Append(hw, m) /\ m.tag = GetTag /\ msg_alloc' = msg_alloc \cup {GetTag} /\ UNCHANGED <<oob, busy, ring, fsm>>
    BY <1>3, Zenon DEF RqSend
  <2>3. m \in Message
    <3>1. Head(rqs[p]) \in Request
      BY <1>0, <1>3, SeqHeadTail, Zenon DEF RqSend, QueueTypes
    <3> QED
      BY <2>1, <3>1, Zenon DEF Message, MsgType
  <2> HIDE DEF m
  <2>4. \A t \in Tag : InHw(t)' <=> InHw(t) \/ t = GetTag
    BY <1>0, <2>1, <2>2, <2>3, Queued, Zenon DEF Placed
  <2>5. msg_alloc \subseteq Tag
    BY <1>0, MessageTags, Zenon
  <2> QED
    BY <1>l, <2>1, <2>2, <2>4, <2>5, Zenon DEF Somewhere, InOob, InBusy, InRing, Got
<1>4. CASE OobSend
  <2> DEFINE m == Head(oob)
  <2>1. /\ hw' = Append(hw, m) /\ oob \in Seq(Message) /\ oob # <<>> /\ oob' = Tail(oob)
        /\ UNCHANGED <<msg_alloc, busy, ring, fsm>>
    BY <1>0, <1>4, Zenon DEF OobSend, QueueTypes, tags
  <2>2. m = oob[1] /\ m \in Message /\ 1 \in DOMAIN oob
    BY <2>1, Pop, Zenon
  <2>3. \A i \in DOMAIN oob : oob[i] = m \/ \E j \in DOMAIN oob' : oob'[j] = oob[i]
    <3>1. /\ DOMAIN oob = 1 .. Len(oob) /\ Len(oob) \in Nat /\ Len(oob') = Len(oob) - 1 /\ DOMAIN oob' = 1 .. Len(oob')
          /\ \A i \in 1 .. Len(oob') : oob'[i] = oob[i + 1]
      BY <2>1, SeqHeadTail, SeqLength
    <3>2. ASSUME NEW i \in DOMAIN oob, i # 1
          PROVE  i - 1 \in DOMAIN oob' /\ oob'[i - 1] = oob[i]
      BY <3>1, <3>2
    <3> QED
      BY <2>2, <3>2, Zenon
  <2> HIDE DEF m
  <2>4. m.tag \in Tag /\ InOob(m.tag)
    BY <1>0, <2>2, MessageTags, Zenon DEF InOob
  <2>5. \A t \in Tag : InHw(t)' <=> InHw(t) \/ t = m.tag
    BY <1>0, <2>1, <2>2, <2>4, Queued, Zenon DEF Placed
  <2>6. \A t : InOob(t) => InOob(t)' \/ t = m.tag
    BY <2>3, Zenon DEF InOob
  <2>7. msg_alloc \subseteq Tag
    BY <1>0, MessageTags, Zenon
  <2> QED
    BY <1>l, <2>1, <2>5, <2>6, <2>7, Zenon DEF Somewhere, InBusy, InRing, Got
<1>5. CASE Take
  <2>1. /\ hw \in Seq(Message) /\ hw # <<>> /\ hw' = Tail(hw) /\ busy' = busy \cup {Head(hw)}
        /\ UNCHANGED <<msg_alloc, oob, ring, fsm>>
    BY <1>0, <1>5, Zenon DEF Take, CardTypes, tags
  <2>2. \A i \in DOMAIN hw : hw[i] = Head(hw) \/ \E j \in DOMAIN hw' : hw'[j] = hw[i]
    <3>1. /\ DOMAIN hw = 1 .. Len(hw) /\ Len(hw) \in Nat /\ Len(hw') = Len(hw) - 1 /\ DOMAIN hw' = 1 .. Len(hw')
          /\ Head(hw) = hw[1] /\ \A i \in 1 .. Len(hw') : hw'[i] = hw[i + 1]
      BY <2>1, SeqHeadTail, SeqLength
    <3>2. ASSUME NEW i \in DOMAIN hw, i # 1
          PROVE  i - 1 \in DOMAIN hw' /\ hw'[i - 1] = hw[i]
      BY <3>1, <3>2
    <3> QED
      BY <3>1, <3>2, Zenon
  <2>3. \A t : InHw(t) => InHw(t)' \/ InBusy(t)'
    BY <2>1, <2>2, Zenon DEF InHw, InBusy
  <2>4. \A t : InBusy(t) => InBusy(t)'
    BY <2>1, Zenon DEF InBusy
  <2> QED
    BY <1>l, <2>1, <2>3, <2>4, Zenon DEF Somewhere, InOob, InRing, Got
<1>6. ASSUME NEW s \in Tag, Respond(s)
      PROVE  \A t \in msg_alloc' : Somewhere(t)'
  <2>1. PICK m \in busy, ok \in BOOLEAN :
            /\ ring' = [ring EXCEPT ![ring_in] = [tag |-> m.tag, ok |-> ok, array |-> m.array]]
            /\ busy' = busy \ {m}
    BY <1>6, Zenon DEF Respond
  <2>2. UNCHANGED <<msg_alloc, oob, hw, fsm>> /\ ring[ring_in] = NoAnswer
    BY <1>6, Zenon DEF Respond, tags
  <2> DEFINE a == [tag |-> m.tag, ok |-> ok, array |-> m.array]
  <2>3. a \in Answer /\ a.tag = m.tag
    BY <1>0, Zenon DEF CardTypes, Message, Answer
  <2>4. /\ DOMAIN ring' = DOMAIN ring /\ ring_in \in DOMAIN ring /\ ring'[ring_in] = a
        /\ \A i \in DOMAIN ring : i # ring_in => ring'[i] = ring[i]
    BY <1>0, <2>1, Zenon DEF CardTypes
  <2> HIDE DEF a
  <2>5. \A t : InRing(t) => InRing(t)'
    BY <2>2, <2>4, NotAnswers, Zenon DEF InRing
  <2>6. \A t : InBusy(t) => InBusy(t)' \/ InRing(t)'
    BY <2>1, <2>3, <2>4, Zenon DEF InRing, InBusy
  <2> QED
    BY <1>l, <2>2, <2>5, <2>6, Zenon DEF Somewhere, InOob, InHw, Got
<1>7. CASE SkipEvent \/ AdapterEvent
  <2>1. UNCHANGED <<msg_alloc, oob, hw, busy, fsm>>
    BY <1>7, Zenon DEF SkipEvent, AdapterEvent, tags
  <2>r. ring_in \in DOMAIN ring
    BY <1>0, Zenon DEF CardTypes
  <2>2. \/ UNCHANGED ring
        \/ \E i, e : ring[i] \notin Answer /\ ring' = [ring EXCEPT ![i] = e]
    BY <1>7, <2>r, NotAnswers, Zenon DEF SkipEvent, AdapterEvent
  <2>3. \A t : InRing(t) => InRing(t)'
    BY <1>0, <2>2, Zenon DEF InRing, CardTypes
  <2> QED
    BY <1>l, <2>1, <2>3, Zenon DEF Somewhere, InOob, InHw, InBusy, Got
<1>8. CASE HandleResp
  <2> DEFINE i == Top.idx
             t == ring[i].tag
  <2>1. ring[i] \in Answer /\ ring' = [ring EXCEPT ![i] = NoAnswer] /\ UNCHANGED <<oob, hw, busy, fsm>>
    BY <1>8, Zenon DEF HandleResp
  <2>2. i \in DOMAIN ring
    BY <1>0, <1>8, NextSlotType, Zenon DEF HandleResp, CardTypes
  <2>3. t \in Tag /\ t \in msg_alloc
    BY <1>0, <2>1, <2>2, MessageTags, Zenon DEF Placed, InRing
  <2>4. TAG_DECODE(t) = t
    BY <1>0, <2>3, Decoded, Zenon
  <2>5. msg_alloc' = msg_alloc \ {t}
    <3>1. SetTags(Put(TAG_DECODE(t)))
      BY <1>8, Zenon DEF HandleResp, EndRq
    <3> QED
      BY <1>0, <2>3, <2>4, <3>1, PutTypes, Zenon DEF SetTags
  <2> HIDE DEF t
  <2>6. \A s : InRing(s) /\ s # t => InRing(s)'
    BY <1>0, <2>1, <2>2, Zenon DEF InRing, CardTypes, t
  <2> QED
    BY <1>l, <2>1, <2>5, <2>6, Zenon DEF Somewhere, InOob, InHw, InBusy, Got
<1>9. CASE FsmStart \/ FsmSwitch \/ AddDisk \/ FsmWrite \/ Reschedule \/ ArrayInfoFails
  <2>1. UNCHANGED <<msg_alloc, oob, hw, busy, ring>> /\ fsm.pc # "got"
    BY <1>9 DEF FsmStart, FsmSwitch, AddDisk, FsmWrite, Reschedule, ArrayInfoFails, tags, card, Idle
  <2> QED
    BY <1>l, <2>1, Zenon DEF Somewhere, InOob, InHw, InBusy, InRing, Got
<1>10. CASE GetSpecial
  <2>1. UNCHANGED <<oob, hw, busy, ring>> /\ fsm.pc # "got" /\ msg_alloc' = msg_alloc \cup {GetTag}
    BY <1>10 DEF GetSpecial, card
  <2>2. fsm'.pc = "got" /\ fsm'.tag = GetTag
    BY <1>10, Zenon DEF GetSpecial
  <2>3. \A t \in msg_alloc : Somewhere(t)'
    BY <1>l, <2>1, Zenon DEF Somewhere, InOob, InHw, InBusy, InRing, Got
  <2>4. \A t \in msg_alloc' : t \in msg_alloc \/ t = fsm'.tag
    BY <2>1, <2>2, Zenon
  <2> QED
    BY <2>2, <2>3, <2>4, Zenon DEF Somewhere, Got
<1>11. CASE SpecialFails
  <2>1. UNCHANGED <<oob, hw, busy, ring>>
    BY <1>11, Zenon DEF SpecialFails, card
  <2>2. CASE fsm.pc = "got"
    <3>1. fsm.tag \in Tag
      BY <1>0, <2>2 DEF HostTypes, FsmType, Idle
    <3>2. msg_alloc' = msg_alloc \ {fsm.tag}
      BY <1>0, <1>11, <2>2, <3>1, PutTypes, Zenon DEF SpecialFails, SetTags
    <3> QED
      BY <1>l, <2>1, <3>2, Zenon DEF Somewhere, InOob, InHw, InBusy, InRing, Got
  <2>3. CASE fsm.pc # "got"
    <3>1. UNCHANGED msg_alloc
      BY <1>11, <2>3, Zenon DEF SpecialFails, tags
    <3> QED
      BY <1>l, <2>1, <2>3, <3>1, Zenon DEF Somewhere, InOob, InHw, InBusy, InRing, Got
  <2> QED
    BY <2>2, <2>3, Zenon
<1>12. CASE SendSpecial
  <2> DEFINE y == Sends[fsm.state]
             m == [tag |-> fsm.tag, rq |-> Special, type |-> y,
                   array |-> IF y = "array_info" THEN cur_scan_dev ELSE -1]
  <2>1. UNCHANGED <<msg_alloc, hw, busy, ring>> /\ oob' = <<m>> \o oob /\ fsm.pc = "got"
    BY <1>12, Zenon DEF SendSpecial, card
  <2>2. m.tag = fsm.tag
    BY Zenon
  <2> HIDE DEF m
  <2>3. /\ 1 \in DOMAIN oob' /\ oob'[1] = m
        /\ \A i \in DOMAIN oob : i + 1 \in DOMAIN oob' /\ oob'[i + 1] = oob[i]
    <3>1. oob \in Seq(Message) /\ Len(oob) \in Nat /\ DOMAIN oob = 1 .. Len(oob)
      BY <1>0, SeqLength, Zenon DEF QueueTypes
    <3> QED
      BY <2>1, <3>1
  <2>4. \A t : Got(t) => InOob(t)'
    BY <2>2, <2>3, Zenon DEF Got, InOob
  <2>5. \A t : InOob(t) => InOob(t)'
    BY <2>3, Zenon DEF InOob
  <2> QED
    BY <1>l, <2>1, <2>4, <2>5, Zenon DEF Somewhere, InHw, InBusy, InRing
<1> QED
  BY <1>1, <1>2, <1>3, <1>4, <1>5, <1>6, <1>7, <1>8, <1>9, <1>10, <1>11, <1>12,
     Zenon DEF Next, Locked, RunRq, RunIrq, Fsm, Message_, Adapter

\* The request of a message that waits to be sent or taken does not change, and
\* reads and writes are sent for the requests of a disk.
LEMMA ReqStays ==
    ASSUME TagsFit, IInv, [Next]_vars
    PROVE  /\ \A t \in Tag : InOob(t) \/ InHw(t) => req'[t] = req[t]
           /\ \A t \in Tag : req'[t].type = "rw" => req[t].type = "rw" \/ \E p \in Port : rqs[p] # <<>>
<1> DEFINE Stays == \A t \in Tag : InOob(t) \/ InHw(t) => req'[t] = req[t]
           Sends_ == \A t \in Tag : req'[t].type = "rw" => req[t].type = "rw" \/ \E p \in Port : rqs[p] # <<>>
<1>0. Types /\ Placed /\ HostTypes /\ fsm \in FsmType /\ CardTypes
  BY Zenon DEF IInv, Owned, Types, HostTypes
<1>u. UNCHANGED req => Stays /\ Sends_
  BY Zenon
<1>1. CASE UNCHANGED vars \/ Interrupt \/ Adapter \/ Bind \/ \E r \in Request : Submit(r)
  BY <1>1, <1>u, Zenon DEF vars, tags, Interrupt, Adapter, Take, Respond, AdapterEvent, Bind, ProbeStage, ProbeFails,
     Unbind, Unwind, DelGendisk, CleanupQueue, FreeHost, Submit
<1>2. CASE \/ \E q \in Queue : RqEmpty(q) \/ RqBusy(q)
           \/ \E p \in Port : RqNoTag(p) \/ RqMapFails(p)
           \/ OobSend \/ SkipEvent \/ EndOfResponses \/ HandleRest
  BY <1>2, <1>u, Zenon DEF RqEmpty, RqBusy, RqNoTag, RqMapFails, EndRq, SetTags, Tags, OobSend, SkipEvent,
     EndOfResponses, HandleRest, tags
<1>3. ASSUME NEW p \in Port, RqSend(p)
      PROVE  Stays /\ Sends_
  <2>1. GetTag \in Tag /\ GetTag \notin msg_alloc /\ rqs[p] # <<>>
    BY <1>0, <1>3, GetTagFree, Zenon DEF RqSend
  <2>2. \A t \in Tag \ {GetTag} : req'[t] = req[t]
    BY <1>0, <1>3, <2>1, Zenon DEF RqSend, HostTypes
  <2>3. \A t \in Tag : InOob(t) \/ InHw(t) => t # GetTag
    BY <1>0, <2>1, Zenon DEF Placed
  <2> QED
    BY <2>1, <2>2, <2>3, Zenon
<1>p. ASSUME NEW t \in Tag, SetTags(Put(t)), ~InOob(t), ~InHw(t)
      PROVE  Stays /\ Sends_
  <2>1. req' = Put(t).req
    BY <1>p, Zenon DEF SetTags
  <2>2. \A s \in Tag \ {t} : req'[s] = req[s]
    BY <1>0, <2>1, PutTypes, Zenon
  <2>3. req'[t].type = "rw" => req[t].type = "rw"
    BY <1>0, <2>1, PutTypes, Zenon
  <2> QED
    BY <1>p, <2>2, <2>3, Zenon
<1>4. CASE HandleResp
  <2> DEFINE t == ring[Top.idx].tag
  <2>1. ring[Top.idx] \in Answer /\ Top.idx \in DOMAIN ring
    BY <1>0, <1>4, NextSlotType, Zenon DEF HandleResp, CardTypes
  <2>2. t \in Tag /\ InRing(t)
    BY <1>0, <2>1, MessageTags, Zenon DEF InRing
  <2>3. t \in msg_alloc /\ ~InOob(t) /\ ~InHw(t)
    BY <1>0, <2>2, Zenon DEF Placed
  <2>4. TAG_DECODE(t) = t
    BY <1>0, <2>3, Decoded, Zenon
  <2>5. SetTags(Put(TAG_DECODE(t)))
    BY <1>4, Zenon DEF HandleResp, EndRq
  <2> HIDE DEF t
  <2>6. SetTags(Put(t))
    BY <2>4, <2>5, Zenon
  <2> QED
    BY <1>p, <2>2, <2>3, <2>6, Zenon
<1>5. CASE FsmStart \/ FsmSwitch \/ AddDisk \/ FsmWrite \/ Reschedule \/ ArrayInfoFails
  BY <1>5, <1>u, Zenon DEF FsmStart, FsmSwitch, AddDisk, FsmWrite, Reschedule, ArrayInfoFails, tags
<1>6. CASE GetSpecial
  <2>1. GetTag \in Tag /\ GetTag \notin msg_alloc
    BY <1>0, <1>6, GetTagFree, Zenon DEF GetSpecial
  <2>2. req'[GetTag].type = req[GetTag].type /\ \A t \in Tag \ {GetTag} : req'[t] = req[t]
    BY <1>0, <1>6, <2>1 DEF GetSpecial, HostTypes
  <2>3. \A t \in Tag : InOob(t) \/ InHw(t) => t # GetTag
    BY <1>0, <2>1, Zenon DEF Placed
  <2> QED
    BY <2>2, <2>3, Zenon
<1>7. CASE fsm.pc = "got" /\ (SpecialFails \/ SendSpecial)
  <2>1. fsm.tag \in Tag
    BY <1>0, <1>7 DEF FsmType, Idle
  <2>2. ~InOob(fsm.tag) /\ ~InHw(fsm.tag)
    BY <1>0, <1>7, <2>1, Zenon DEF Placed, Got
  <2>3. CASE SpecialFails
    BY <1>7, <1>p, <2>1, <2>2, <2>3, Zenon DEF SpecialFails
  <2>4. CASE SendSpecial
    <3>1. req'[fsm.tag].type = Sends[fsm.state] /\ \A t \in Tag \ {fsm.tag} : req'[t] = req[t]
      BY <1>0, <2>1, <2>4, Zenon DEF SendSpecial, HostTypes
    <3>2. fsm.state \in DOMAIN Sends
      BY <1>0, <1>7 DEF FsmType, Idle
    <3>3. Sends[fsm.state] # "rw"
      BY <3>2, Tables, Zenon
    <3> QED
      BY <2>2, <3>1, <3>3, Zenon
  <2> QED
    BY <1>7, <2>3, <2>4, Zenon
<1>8. CASE fsm.pc # "got" /\ SpecialFails
  BY <1>8, <1>u, Zenon DEF SpecialFails, tags
<1>9. SendSpecial => fsm.pc = "got"
  BY Zenon DEF SendSpecial
<1> QED
  BY <1>1, <1>2, <1>3, <1>4, <1>5, <1>6, <1>7, <1>8, <1>9, Zenon DEF Next, Locked, RunRq, RunIrq, Fsm, Message_

\* Messages come to oob_q from fsm_task, and to the adapter from there or from
\* the request function of a disk.
LEMMA PlacesNext ==
    ASSUME IInv, [Next]_vars
    PROVE  /\ \A t \in Tag : InOob(t)' => InOob(t) \/ Sent(t)'
           /\ \A t \in Tag : InHw(t)' => InHw(t) \/ InOob(t) \/ req'[t].type = "rw"
<1> DEFINE ToOob == \A t \in Tag : InOob(t)' => InOob(t) \/ Sent(t)'
           ToHw == \A t \in Tag : InHw(t)' => InHw(t) \/ InOob(t) \/ req'[t].type = "rw"
<1>0. Types /\ Once /\ Placed /\ HostTypes /\ QueueTypes /\ CardTypes /\ fsm \in FsmType
  BY Zenon DEF IInv, Owned, Types, HostTypes
<1>o. UNCHANGED oob => ToOob
  BY Zenon DEF InOob
<1>h. UNCHANGED hw => ToHw
  BY Zenon DEF InHw
<1>1. CASE UNCHANGED vars \/ Interrupt \/ Bind \/ (Adapter /\ ~Take) \/ \E r \in Request : Submit(r)
  BY <1>1, <1>o, <1>h, Zenon DEF vars, card, Interrupt, Bind, ProbeStage, ProbeFails,
     Unbind, Unwind, DelGendisk, CleanupQueue, FreeHost, Submit, Adapter, Respond, AdapterEvent
<1>2. CASE \/ \E q \in Queue : RqEmpty(q) \/ RqBusy(q)
           \/ \E p \in Port : RqNoTag(p) \/ RqMapFails(p)
           \/ RunIrq
  BY <1>2, <1>o, <1>h, Zenon DEF RqEmpty, RqBusy, RqNoTag, RqMapFails, RunIrq, HandleResp, SkipEvent, EndOfResponses,
     HandleRest, card
<1>3. CASE FsmStart \/ FsmSwitch \/ AddDisk \/ FsmWrite \/ Reschedule \/ ArrayInfoFails \/ GetSpecial \/ SpecialFails
  BY <1>3, <1>o, <1>h, Zenon DEF FsmStart, FsmSwitch, AddDisk, FsmWrite, Reschedule, ArrayInfoFails, GetSpecial, SpecialFails, card
<1>4. ASSUME NEW p \in Port, RqSend(p)
      PROVE  ToOob /\ ToHw
  <2> DEFINE m == [tag |-> GetTag, rq |-> Head(rqs[p]), type |-> "rw", array |-> -1]
  <2>1. GetTag \in Tag /\ GetTag \notin msg_alloc
    BY <1>0, <1>4, GetTagFree, Zenon DEF RqSend
  <2>2. hw' = Append(hw, m) /\ m.tag = GetTag /\ UNCHANGED oob
    BY <1>4, Zenon DEF RqSend
  <2>3. m \in Message
    <3>1. Head(rqs[p]) \in Request
      BY <1>0, <1>4, SeqHeadTail, Zenon DEF RqSend, QueueTypes
    <3> QED
      BY <2>1, <3>1, Zenon DEF Message, MsgType
  <2>4. req'[GetTag].type = "rw"
    BY <1>0, <1>4, <2>1 DEF RqSend, HostTypes
  <2> HIDE DEF m
  <2>5. \A t \in Tag : InHw(t)' <=> InHw(t) \/ t = GetTag
    BY <1>0, <2>1, <2>2, <2>3, Queued, Zenon DEF Placed
  <2> QED
    BY <1>o, <2>2, <2>4, <2>5, Zenon
<1>5. CASE OobSend
  <2> DEFINE m == Head(oob)
  <2>1. hw' = Append(hw, m) /\ oob \in Seq(Message) /\ oob # <<>> /\ oob' = Tail(oob)
    BY <1>0, <1>5, Zenon DEF OobSend, QueueTypes
  <2>2. /\ m = oob[1] /\ m \in Message /\ 1 \in DOMAIN oob
        /\ \A i \in DOMAIN oob' : i + 1 \in DOMAIN oob /\ oob'[i] = oob[i + 1]
    BY <2>1, Pop, Zenon
  <2> HIDE DEF m
  <2>3. m.tag \in Tag /\ InOob(m.tag)
    BY <1>0, <2>2, MessageTags, Zenon DEF InOob
  <2>4. \A t \in Tag : InHw(t)' <=> InHw(t) \/ t = m.tag
    BY <1>0, <2>1, <2>2, <2>3, Queued, Zenon DEF Placed
  <2>5. \A t : InOob(t)' => InOob(t)
    BY <2>2, Zenon DEF InOob
  <2> QED
    BY <2>3, <2>4, <2>5, Zenon
<1>6. CASE Take
  <2>1. hw \in Seq(Message) /\ hw # <<>> /\ hw' = Tail(hw) /\ UNCHANGED oob
    BY <1>0, <1>6, Zenon DEF Take, CardTypes
  <2>2. \A i \in DOMAIN hw' : i + 1 \in DOMAIN hw /\ hw'[i] = hw[i + 1]
    BY <2>1, Pop, Zenon
  <2>3. \A t : InHw(t)' => InHw(t)
    BY <2>2, Zenon DEF InHw
  <2> QED
    BY <1>o, <2>1, <2>3, Zenon
<1>7. CASE SendSpecial
  <2> DEFINE y == Sends[fsm.state]
             m == [tag |-> fsm.tag, rq |-> Special, type |-> y,
                   array |-> IF y = "array_info" THEN cur_scan_dev ELSE -1]
  <2>1. UNCHANGED hw /\ oob' = <<m>> \o oob /\ fsm.pc = "got"
    BY <1>7, Zenon DEF SendSpecial, card
  <2>2. m.tag = fsm.tag
    BY Zenon
  <2> HIDE DEF m
  <2>3. fsm.tag \in Tag /\ fsm.state \in DOMAIN Sends
    BY <1>0, <2>1 DEF FsmType, Idle
  <2>4. req'[fsm.tag].type \in DOMAIN Expected
    <3>1. req'[fsm.tag].type = y
      BY <1>0, <1>7, <2>3, Zenon DEF SendSpecial, HostTypes
    <3>2. y \in DOMAIN Expected
      BY <2>3, Tables, Zenon
    <3> HIDE DEF y
    <3> QED
      BY <3>1, <3>2, Zenon
  <2>5. \A i \in DOMAIN oob' : oob'[i] = m \/ \E j \in DOMAIN oob : oob'[i] = oob[j]
    <3>1. oob \in Seq(Message) /\ Len(oob) \in Nat /\ DOMAIN oob = 1 .. Len(oob)
      BY <1>0, SeqLength, Zenon DEF QueueTypes
    <3> QED
      BY <2>1, <3>1
  <2>6. \A t : InOob(t)' => InOob(t) \/ t = fsm.tag
    BY <2>2, <2>5, Zenon DEF InOob
  <2> QED
    BY <1>h, <2>1, <2>4, <2>6, Zenon DEF Sent
<1> QED
  BY <1>1, <1>2, <1>3, <1>4, <1>5, <1>6, <1>7, Zenon DEF Next, Locked, RunRq, Fsm, Message_

\* Every message keeps its kind on its way.
LEMMA KindsNext ==
    ASSUME TagsFit, IInv, Kinds, Disks, [Next]_vars
    PROVE  Kinds'
<1>1. Activated => Activated'
  BY ActivatedStays, Zenon DEF Disks
<1>2. ASSUME NEW t \in Tag, InOob(t)'
      PROVE  Sent(t)'
  <2>1. CASE InOob(t)
    BY <2>1, ReqStays, Zenon DEF Kinds, Sent
  <2> QED
    BY <1>2, <2>1, PlacesNext, Zenon
<1>3. ASSUME NEW t \in Tag, InHw(t)'
      PROVE  req'[t].type # "none"
  <2>1. CASE InHw(t)
    BY <2>1, ReqStays, Zenon DEF Kinds
  <2>2. CASE InOob(t)
    BY <2>2, ReqStays, Tables, Zenon DEF Kinds, Sent
  <2> QED
    BY <1>3, <2>1, <2>2, PlacesNext, Zenon
<1>4. ASSUME NEW t \in Tag, req'[t].type = "rw"
      PROVE  Activated'
  BY <1>1, <1>4, ReqStays, Zenon DEF Kinds, Disks
<1> QED
  BY <1>2, <1>3, <1>4, Zenon DEF Kinds

\* The adapter has a message or an answer to one.
Answered == \E i \in DOMAIN ring : ring[i] \in Answer
Flying   == Outstanding # {} \/ Answered

\* A queue that waits is that of a disk and has a request; when nothing is in
\* the adapter any more, one that has a request runs.
Kept  == \A p \in stopped : p \in Port /\ rqs[p] # <<>> /\ Activated
Runner == \E p \in Port : InRq(p) /\ rqs[p] # <<>>
Awake == Kept /\ (stopped # {} /\ ~Flying => Runner)

\* What is in the adapter is flying.
LEMMA FlyingTags ==
    ASSUME ~Flying
    PROVE  \A t : ~InHw(t) /\ ~InBusy(t) /\ ~InRing(t)
BY Zenon DEF Flying, Outstanding, Answered, InHw, InBusy, InRing

\* A host with disks and nothing in the adapter has all its tags and entries,
\* and the adapter takes a message.
LEMMA IdleHost ==
    ASSUME IInv, Counts, Located, Kinds, Activated, ~Flying
    PROVE  msg_alloc = {} /\ n_msgs = 0 /\ hw_sg_used = 0 /\ CanGet /\ ~Q_FULL
<1>0. Types /\ HostTypes /\ CardTypes /\ NoSent /\ fsm.pc \notin {"get", "got"}
  BY ActivatedQuiet, Zenon DEF IInv, Types
<1>1. msg_alloc = {}
  <2>1. msg_alloc \subseteq Tag
    BY <1>0, MessageTags, Zenon
  <2>2. \A t \in Tag : ~InOob(t)
    BY <1>0, Zenon DEF Kinds, NoSent
  <2> QED
    BY <1>0, <2>1, <2>2, FlyingTags, Zenon DEF Located, Somewhere, Got
<1>2. n_msgs = 0 /\ hw_sg_used = 0
  <2>1. req \in [Tag -> RequestType]
    BY <1>0, Zenon DEF HostTypes, RequestType
  <2> QED
    BY <1>1, <2>1, EntriesNone, FS_EmptySet, Zenon DEF Counts
<1>3. CanGet
  <2>1. max_queue \in Nat \ {0} /\ 0 < CARM_MAX_HOST_SG - CARM_MAX_REQ_SG
    BY <1>0, Sx8Assumption DEF HostTypes
  <2>2. 0 \in 0 .. max_queue - 1
    BY <2>1
  <2> QED
    BY <1>1, <1>2, <2>1, <2>2, Zenon DEF CanGet, FreeTags
<1>4. ~Q_FULL
  <2>1. \A i \in DOMAIN hw : FALSE
    BY Zenon DEF Flying, Outstanding
  <2>2. Len(hw) \in Nat /\ DOMAIN hw = 1 .. Len(hw)
    BY <1>0, SeqLength, Zenon DEF CardTypes
  <2>3. HwDepth \in Nat \ {0}
    BY Sx8Assumption, Zenon
  <2>4. Len(hw) = 0
    BY <2>1, <2>2
  <2> QED
    BY <2>3, <2>4 DEF Q_FULL
<1> QED
  BY <1>1, <1>2, <1>3, <1>4, Zenon

\* A message that is sent is in the adapter.
LEMMA AppendFlies ==
    ASSUME Types, NEW m \in Message, hw' = Append(hw, m)
    PROVE  Flying'
<1>1. hw \in Seq(Message) /\ Len(hw) \in Nat
  BY SeqLength, Zenon DEF Types, CardTypes
<1>2. Len(hw) + 1 \in DOMAIN hw'
  BY <1>1
<1> QED
  BY <1>2, Zenon DEF Flying, Outstanding

\* So is that of a disk's request.
LEMMA SendFlies ==
    ASSUME Types, NEW p \in Port, RqSend(p)
    PROVE  Flying'
<1>1. GetTag \in Tag
  BY GetTagFree, Zenon DEF RqSend
<1>2. Head(rqs[p]) \in Request
  BY SeqHeadTail, Zenon DEF RqSend, Types, QueueTypes
<1>3. [tag |-> GetTag, rq |-> Head(rqs[p]), type |-> "rw", array |-> -1] \in Message
  BY <1>1, <1>2, Zenon DEF Message, MsgType
<1> QED
  BY <1>3, AppendFlies, Zenon DEF RqSend

\* Only carm_handle_resp takes an answer.
LEMMA FlyingNext ==
    ASSUME IInv, [Next]_vars, ~HandleResp, Flying
    PROVE  Flying'
<1>0. Types /\ CardTypes /\ QueueTypes
  BY Zenon DEF IInv, Types
<1>u. CASE UNCHANGED <<hw, busy, ring>>
  BY <1>u, Zenon DEF Flying, Outstanding, Answered
<1>1. CASE UNCHANGED vars \/ Interrupt \/ Bind \/ \E r \in Request : Submit(r)
  BY <1>1, <1>u, Zenon DEF vars, card, Interrupt, Bind, ProbeStage, ProbeFails,
     Unbind, Unwind, DelGendisk, CleanupQueue, FreeHost, Submit
<1>2. CASE \/ \E q \in Queue : RqEmpty(q) \/ RqBusy(q)
           \/ \E p \in Port : RqNoTag(p) \/ RqMapFails(p)
           \/ EndOfResponses \/ HandleRest
  BY <1>2, <1>u, Zenon DEF RqEmpty, RqBusy, RqNoTag, RqMapFails, EndOfResponses, HandleRest, card
<1>3. CASE Fsm
  BY <1>3, <1>u, Zenon DEF Fsm, Message_, FsmStart, FsmSwitch, AddDisk, FsmWrite, Reschedule, ArrayInfoFails, GetSpecial, SpecialFails, SendSpecial, card
<1>4. CASE \E p \in Port : RqSend(p)
  BY <1>0, <1>4, SendFlies, Zenon
<1>5. CASE OobSend
  <2>1. Head(oob) \in Message
    BY <1>0, <1>5, SeqHeadTail, Zenon DEF OobSend, QueueTypes
  <2> QED
    BY <1>0, <1>5, <2>1, AppendFlies, Zenon DEF OobSend
<1>6. CASE Take
  BY <1>6, Zenon DEF Take, Flying, Outstanding
<1>7. ASSUME NEW s \in Tag, Respond(s)
      PROVE  Flying'
  <2>1. PICK m \in busy, ok \in BOOLEAN : ring' = [ring EXCEPT ![ring_in] = [tag |-> m.tag, ok |-> ok, array |-> m.array]]
    BY <1>7, Zenon DEF Respond
  <2>2. [tag |-> m.tag, ok |-> ok, array |-> m.array] \in Answer
    BY <1>0, Zenon DEF CardTypes, Message, Answer
  <2> QED
    BY <1>0, <2>1, <2>2, Zenon DEF CardTypes, Flying, Answered
<1>8. CASE SkipEvent \/ AdapterEvent
  <2>1. UNCHANGED <<hw, busy>>
    BY <1>8, Zenon DEF SkipEvent, AdapterEvent
  <2>r. ring_in \in DOMAIN ring
    BY <1>0, Zenon DEF CardTypes
  <2>2. \/ UNCHANGED ring
        \/ \E i, e : ring[i] \notin Answer /\ ring' = [ring EXCEPT ![i] = e]
    BY <1>8, <2>r, NotAnswers, Zenon DEF SkipEvent, AdapterEvent
  <2>3. Answered => Answered'
    BY <1>0, <2>2, Zenon DEF Answered, CardTypes
  <2> QED
    BY <2>1, <2>3, Zenon DEF Flying, Outstanding
<1> QED
  BY <1>1, <1>2, <1>3, <1>4, <1>5, <1>6, <1>7, <1>8, Zenon DEF Next, Locked, RunRq, RunIrq, Adapter

\* With no message under way the counters are at or below the low-water marks:
\* carm_end_rq starts a queue if one waits.
LEMMA StartsOne ==
    ASSUME Types, Waits, NEW c, NEW rest, EndRq(c, rest)
    PROVE  /\ stopped' \subseteq stopped
           /\ c.msgs = 0 /\ c.sg = 0 => stopped' = {} \/ \E q \in stopped : stack' = <<Rq(q)>> \o rest
<1>1. ASSUME carm_round_robin(rest)
      PROVE  stopped' \subseteq stopped /\ (stopped' = {} \/ \E q \in stopped : stack' = <<Rq(q)>> \o rest)
  BY <1>1, WaitsPop, Zenon
<1>2. CARM_MSG_LOW_WATER \in Nat /\ CARM_SG_LOW_WATER \in Nat
  BY Sx8Assumption DEF CARM_MSG_LOW_WATER, CARM_SG_LOW_WATER
<1>3. 0 <= CARM_MSG_LOW_WATER /\ 0 <= CARM_SG_LOW_WATER
  BY <1>2
<1>4. ASSUME c.msgs = 0, c.sg = 0
      PROVE  carm_round_robin(rest)
  BY <1>3, <1>4, Zenon DEF EndRq
<1>5. carm_round_robin(rest) \/ UNCHANGED wait
  BY Zenon DEF EndRq
<1> QED
  BY <1>1, <1>4, <1>5, Zenon DEF wait

\* A queue that a request has been put in is not empty.
LEMMA AppendedNotEmpty ==
    ASSUME NEW S, NEW s \in Seq(S), NEW e \in S
    PROVE  Append(s, e) # <<>>
<1>1. Len(Append(s, e)) = Len(s) + 1 /\ Len(s) \in Nat
  OBVIOUS
<1>2. Len(<<>>) = 0
  OBVIOUS
<1> QED
  BY <1>1, <1>2

\* The queue that is started runs at once.
LEMMA StartedRuns ==
    ASSUME Kept, NEW rest \in Seq(Frame), NEW q \in stopped, stack' = <<Rq(q)>> \o rest, rqs'[q] = rqs[q]
    PROVE  Runner'
<1>1. q \in Port /\ q \in Queue /\ rqs[q] # <<>>
  BY Zenon DEF Kept, Queue
<1>2. Rq(q) \in Frame
  BY <1>1, Frames, Zenon
<1>3. stack' # <<>> /\ Head(stack') = Rq(q)
  BY <1>2, Push, SeqHeadTail, SeqLength
<1>4. \E p \in Port : stack' # <<>> /\ Head(stack') = Rq(p) /\ rqs'[p] # <<>>
  BY <1>1, <1>3, Zenon
<1> QED
  BY <1>4, Zenon DEF Runner, InRq, Top, Rq

\* The out-of-band queue never waits: its message is the only one.
LEMMA OobNeverWaits ==
    ASSUME IInv, Kinds
    PROVE  ~RqBusy(OOB)
<1> SUFFICES ASSUME RqBusy(OOB) PROVE FALSE
  BY Zenon
<1>0. Types /\ Placed /\ Turns /\ CardTypes /\ QueueTypes /\ HostTypes
  BY Zenon DEF IInv, Owned, Types
<1>1. oob # <<>> /\ Q_FULL
  BY Zenon DEF RqBusy, Fetch
<1>2. 1 \in DOMAIN oob
  BY <1>0, <1>1, Pop, Zenon DEF QueueTypes
<1>3. 1 \in DOMAIN hw
  <2>1. Len(hw) \in Nat /\ DOMAIN hw = 1 .. Len(hw)
    BY <1>0, SeqLength, Zenon DEF CardTypes
  <2>2. HwDepth \in Nat \ {0}
    BY Sx8Assumption, Zenon
  <2>3. Len(hw) >= 1
    BY <1>1, <2>1, <2>2 DEF Q_FULL
  <2> QED
    BY <2>1, <2>3
<1> DEFINE s == oob[1].tag
           t == hw[1].tag
<1>4. s \in Tag /\ t \in Tag /\ InOob(s) /\ InHw(t)
  BY <1>0, <1>2, <1>3, MessageTags, Zenon DEF InOob, InHw
<1> HIDE DEF s, t
<1>5. Sent(s) /\ ~Activated
  <2>1. Sent(s)
    BY <1>4, Zenon DEF Kinds
  <2>2. state = Expected[req[s].type] /\ req[s].type \in DOMAIN Expected
    BY <1>0, <1>4, <2>1, Zenon DEF Turns, Sent
  <2> QED
    BY <2>1, <2>2, SentEarly, Zenon DEF Activated
<1>6. Sent(t)
  <2>1. req[t].type \in MsgType /\ req[t].type # "rw"
    <3>1. req[t].type \in MsgType \cup {"none"}
      BY <1>0, <1>4, Zenon DEF HostTypes
    <3> QED
      BY <1>4, <1>5, <3>1, Zenon DEF Kinds
  <2> QED
    BY <2>1 DEF Sent, MsgType, Expected
<1>7. s = t
  BY <1>0, <1>4, <1>5, <1>6, Zenon DEF Turns
<1> QED
  BY <1>0, <1>4, <1>7, Zenon DEF Placed

\* An answer, once handled, starts a queue if it was the last one.
LEMMA AwakeHandled ==
    ASSUME TagsFit, IInv, Counts', Types', Waits, Located, Kinds, Rests, Awake, HandleResp
    PROVE  Awake'
<1>0. /\ Types /\ Placed /\ CardTypes /\ HostTypes /\ Kept
  BY Zenon DEF IInv, Owned, Types, Awake
<1> DEFINE i == Top.idx
           a == ring[i]
           y == req[TAG_DECODE(a.tag)].type
           rest == IF y \in DOMAIN Expected THEN <<Handle(y, a)>> \o NextSlot ELSE NextSlot
           c == Put(TAG_DECODE(a.tag))
<1>1. /\ InIrq /\ a \in Answer /\ EndRq(c, rest) /\ ring' = [ring EXCEPT ![i] = NoAnswer]
      /\ UNCHANGED <<oob, hw, busy, fsm, rqs, state>>
  BY Zenon DEF HandleResp
<1>2. rest \in Seq(Frame)
  <2>1. NextSlot \in Seq(Frame)
    BY <1>0, <1>1, NextSlotType, Zenon
  <2>2. CASE y \in DOMAIN Expected
    <3>1. Handle(y, a) \in Frame
      BY <1>1, <2>2, Frames, Zenon
    <3> QED
      BY <2>1, <2>2, <3>1, Push, Zenon
  <2>3. CASE y \notin DOMAIN Expected
    BY <2>1, <2>3, Zenon
  <2> QED
    BY <2>2, <2>3, Zenon
<1>3. i \in DOMAIN ring
  BY <1>0, <1>1, NextSlotType, Zenon DEF CardTypes
<1>4. a.tag \in Tag /\ a.tag \in msg_alloc
  BY <1>0, <1>1, <1>3, MessageTags, Zenon DEF Placed, InRing
<1>5. TAG_DECODE(a.tag) = a.tag
  BY <1>0, <1>4, Decoded, Zenon
<1>6. msg_alloc' = c.alloc /\ n_msgs' = c.msgs /\ hw_sg_used' = c.sg
  BY <1>1, Zenon DEF EndRq, SetTags
<1>7. msg_alloc' = msg_alloc \ {a.tag}
  <2>1. Put(a.tag).alloc = msg_alloc \ {a.tag}
    BY <1>0, <1>4, PutTypes, Zenon
  <2> QED
    BY <1>5, <1>6, <2>1, Zenon
<1> HIDE DEF rest, c, y
<1>8. /\ stopped' \subseteq stopped
      /\ c.msgs = 0 /\ c.sg = 0 => stopped' = {} \/ \E q \in stopped : stack' = <<Rq(q)>> \o rest
  BY <1>0, <1>1, StartsOne, Zenon
<1>9. Kept'
  BY <1>0, <1>1, <1>8, Zenon DEF Kept, Activated
<1>10. ASSUME stopped' # {}, ~Flying'
       PROVE  Runner'
  <2>1. Activated
    BY <1>0, <1>8, <1>10, Zenon DEF Kept
  <2>2. NoSent /\ fsm.pc \notin {"get", "got"}
    BY <2>1, ActivatedQuiet, Zenon
  <2>3. Outstanding = {} /\ \A j \in DOMAIN ring : ring[j] \in Answer => j = i
    <3>1. Outstanding' = {} /\ ~Answered'
      BY <1>10, Zenon DEF Flying
    <3>2. Outstanding' = Outstanding
      BY <1>1, Zenon DEF Outstanding
    <3>3. DOMAIN ring' = DOMAIN ring /\ \A j \in DOMAIN ring : j # i => ring'[j] = ring[j]
      BY <1>1, Zenon
    <3>4. \A j \in DOMAIN ring : j # i => ring[j] \notin Answer
      BY <3>1, <3>3, Zenon DEF Answered
    <3> QED
      BY <3>1, <3>2, <3>4, Zenon
  <2>4. \A t : ~InHw(t) /\ ~InBusy(t)
    BY <2>3, Zenon DEF Outstanding, InHw, InBusy
  <2>5. \A t : InRing(t) => t = a.tag
    BY <2>3, Zenon DEF InRing
  <2>6. \A t \in Tag : ~InOob(t) /\ ~Got(t)
    BY <2>2, Zenon DEF Kinds, NoSent, Got
  <2>7. msg_alloc \subseteq Tag
    BY <1>0, MessageTags, Zenon
  <2>8. msg_alloc' = {}
    BY <1>7, <2>4, <2>5, <2>6, <2>7, Zenon DEF Located, Somewhere
  <2>9. n_msgs' = 0 /\ hw_sg_used' = 0
    <3>1. req' \in [Tag -> RequestType]
      BY Zenon DEF Types, HostTypes, RequestType
    <3>2. Entries(req', {}) = 0 /\ Cardinality({}) = 0
      BY <3>1, EntriesNone, FS_EmptySet, Zenon
    <3>3. n_msgs' = Cardinality(msg_alloc') /\ hw_sg_used' = Entries(req', msg_alloc')
      BY Zenon DEF Counts
    <3> QED
      BY <2>8, <3>2, <3>3, Zenon
  <2>10. PICK q \in stopped : stack' = <<Rq(q)>> \o rest
    BY <1>6, <1>8, <1>10, <2>9, Zenon
  <2>11. rqs'[q] = rqs[q]
    BY <1>1, Zenon
  <2> QED
    BY <1>0, <1>2, <2>10, <2>11, StartedRuns, Zenon
<1> QED
  BY <1>9, <1>10, Zenon DEF Awake

\* Every other step leaves the answers, and a queue that waits keeps its
\* requests; it waits only while a message is in the adapter.
LEMMA AwakeOther ==
    ASSUME TagsFit, IInv, Counts, Waits, Running, Located, Kinds, Disks, Awake, [Next]_vars, ~HandleResp
    PROVE  Awake'
<1>0. /\ Types /\ stack \in Seq(Frame) /\ rqs \in [Port -> Seq(Request)]
      /\ Kept /\ (stopped # {} /\ ~Flying => Runner)
  BY Zenon DEF IInv, Types, QueueTypes, Awake
<1>a. Activated => Activated'
  BY ActivatedStays, Zenon DEF Disks
<1>f. Flying => Flying'
  BY FlyingNext, Zenon
<1>p. \A p \in Port : p \in Queue /\ p # OOB
  BY Sx8Assumption DEF Queue, Port, OOB
<1>r. Runner => stack # <<>> /\ Top.fn = "rq"
  BY RqFields, Zenon DEF Runner, InRq
<1>k. ASSUME stopped' \subseteq stopped, \A p \in stopped : rqs'[p] # <<>>
      PROVE  Kept'
  BY <1>0, <1>a, <1>k, Zenon DEF Kept
<1>u. ASSUME UNCHANGED <<stopped, stack, rqs>>
      PROVE  Awake'
  <2>1. Kept'
    BY <1>0, <1>k, <1>u, Zenon DEF Kept
  <2>2. Runner => Runner'
    BY <1>u, Zenon DEF Runner, InRq, Top
  <2> QED
    BY <1>0, <1>f, <1>u, <2>1, <2>2, Zenon DEF Awake
<1>n. ASSUME UNCHANGED stopped, stack = <<>> \/ Top.fn # "rq", \A p \in stopped : rqs'[p] # <<>>
      PROVE  Awake'
  BY <1>0, <1>f, <1>k, <1>n, <1>r, Zenon DEF Awake
<1>1. CASE \/ UNCHANGED vars \/ FsmStart \/ FsmSwitch \/ GetSpecial \/ SpecialFails \/ ArrayInfoFails
           \/ AddDisk \/ FsmWrite \/ Reschedule \/ ProbeStage \/ ProbeFails \/ Unbind \/ FreeHost \/ Adapter \/ OobSend \/ \E p \in Port : CleanupQueue(p)
  BY <1>1, <1>u, Zenon DEF vars, wait, FsmStart, FsmSwitch, GetSpecial, SpecialFails, ArrayInfoFails, AddDisk, FsmWrite,
     Reschedule, ProbeStage, ProbeFails, Unbind, FreeHost, Adapter, Take, Respond, AdapterEvent, OobSend, CleanupQueue
<1>2. CASE Interrupt \/ SendSpecial \/ (\E p \in Port : DelGendisk(p)) \/ SkipEvent \/ EndOfResponses \/ HandleRest
  <2>1. UNCHANGED <<stopped, rqs>>
    BY <1>2, Zenon DEF wait, Interrupt, SendSpecial, DelGendisk, SkipEvent, EndOfResponses, HandleRest
  <2>2. stack = <<>> \/ Top.fn # "rq"
    <3>1. stack = <<>> \/ Top.fn = "irq" \/ Top.fn = "handle"
      BY <1>2, Zenon DEF Interrupt, SendSpecial, DelGendisk, SkipEvent, EndOfResponses, HandleRest, InIrq
    <3> QED
      BY <3>1
  <2> QED
    BY <1>0, <1>n, <2>1, <2>2, Zenon DEF Kept
<1>3. ASSUME NEW r \in Request, Submit(r)
      PROVE  Awake'
  <2>1. UNCHANGED stopped /\ stack = <<>> /\ rqs' = [rqs EXCEPT ![r[1]] = Append(@, r)]
    BY <1>3, Zenon DEF Submit, wait
  <2>2. \A s \in Seq(Request) : Append(s, r) # <<>>
    BY AppendedNotEmpty, Zenon
  <2>3. \A p \in Port : rqs[p] \in Seq(Request)
    BY <1>0, Zenon
  <2>4. ASSUME NEW p \in stopped
        PROVE  rqs'[p] # <<>>
    <3>1. p \in Port /\ rqs[p] # <<>> /\ rqs[p] \in Seq(Request)
      BY <1>0, <2>3, Zenon DEF Kept
    <3>2. rqs'[p] = rqs[p] \/ rqs'[p] = Append(rqs[p], r)
      BY <1>0, <2>1, <3>1, Zenon
    <3> QED
      BY <2>2, <3>1, <3>2, Zenon
  <2> QED
    BY <1>n, <2>1, <2>4, Zenon
<1>4. ASSUME NEW q \in Queue, RqEmpty(q)
      PROVE  Awake'
  <2>1. UNCHANGED <<stopped, rqs>> /\ stack # <<>> /\ Top = Rq(q) /\ Fetch(q) = <<>>
    BY <1>4, Zenon DEF RqEmpty, InRq, wait
  <2>2. ~Runner
    <3>1. ASSUME NEW p \in Port, InRq(p), rqs[p] # <<>>
          PROVE  FALSE
      <4>1. p = q
        BY <2>1, <3>1, RqFields, Zenon DEF InRq
      <4> QED
        BY <1>p, <2>1, <3>1, <4>1, Zenon DEF Fetch
    <3> QED
      BY <3>1, Zenon DEF Runner
  <2>3. Kept'
    BY <1>0, <1>k, <2>1, Zenon DEF Kept
  <2> QED
    BY <1>0, <1>f, <2>1, <2>2, <2>3, Zenon DEF Awake
<1>5. ASSUME NEW p \in Port, InRq(p), rqs[p] # <<>>, Flying, carm_push_q(p), UNCHANGED rqs
      PROVE  Awake'
  <2>1. stopped' = stopped \cup {p}
    BY <1>5, Zenon DEF carm_push_q
  <2>2. Activated'
    BY <1>5, <1>a, Zenon DEF Disks
  <2>3. Kept'
    BY <1>0, <1>5, <2>1, <2>2, Zenon DEF Kept
  <2> QED
    BY <1>5, <1>f, <2>3, Zenon DEF Awake
<1>6. ASSUME NEW p \in Port, rqs[p] # <<>>, ~CanGet \/ Q_FULL
      PROVE  Flying
  BY <1>6, IdleHost, Zenon DEF Disks
<1>7. CASE (\E q \in Queue : RqBusy(q)) \/ (\E p \in Port : RqNoTag(p))
  <2>1. ASSUME NEW p \in Port, RqNoTag(p)
        PROVE  Awake'
    BY <1>5, <1>6, <2>1, Zenon DEF RqNoTag
  <2>2. ASSUME NEW q \in Queue, RqBusy(q)
        PROVE  Awake'
    <3>1. q \in Port
      BY <2>2, OobNeverWaits, Zenon DEF Queue
    <3>2. InRq(q) /\ rqs[q] # <<>> /\ Q_FULL /\ carm_push_q(q) /\ UNCHANGED rqs
      BY <1>p, <2>2, <3>1, Zenon DEF RqBusy, Fetch
    <3> QED
      BY <1>5, <1>6, <3>1, <3>2, Zenon
  <2> QED
    BY <1>7, <2>1, <2>2, Zenon
<1>t. ASSUME NEW p \in Port, InRq(p)
      PROVE  p \notin stopped /\ stack # <<>> /\ Tail(stack) \in Seq(Frame)
  <2>1. stack # <<>> /\ Head(stack) = Rq(p)
    BY <1>t, Zenon DEF InRq, Top
  <2> QED
    BY <1>0, <1>p, <2>1, RunsTail, SeqHeadTail, Zenon DEF Running
<1>8. ASSUME NEW p \in Port, RqSend(p)
      PROVE  Awake'
  <2>1. InRq(p) /\ UNCHANGED stopped /\ rqs' = [rqs EXCEPT ![p] = Tail(@)]
    BY <1>8, Zenon DEF RqSend, wait
  <2>2. Kept'
    BY <1>0, <1>k, <1>t, <2>1, Zenon DEF Kept
  <2>3. Flying'
    BY <1>0, <1>8, SendFlies, Zenon
  <2> QED
    BY <2>2, <2>3, Zenon DEF Awake
<1>9. ASSUME NEW p \in Port, RqMapFails(p)
      PROVE  Awake'
  <2>1. InRq(p) /\ EndRq(Tags, Tail(stack)) /\ rqs' = [rqs EXCEPT ![p] = Tail(@)]
    BY <1>9, Zenon DEF RqMapFails
  <2>2. /\ stopped' \subseteq stopped
        /\ Tags.msgs = 0 /\ Tags.sg = 0 => stopped' = {} \/ \E q \in stopped : stack' = <<Rq(q)>> \o Tail(stack)
    BY <1>0, <2>1, StartsOne, Zenon
  <2>3. \A q \in stopped : rqs'[q] = rqs[q]
    BY <1>0, <1>t, <2>1, Zenon DEF Kept
  <2>4. Kept'
    BY <1>0, <1>k, <2>2, <2>3, Zenon DEF Kept
  <2>5. ASSUME stopped' # {}, ~Flying
        PROVE  Runner'
    <3>1. Activated
      BY <1>0, <2>2, <2>5, Zenon DEF Kept
    <3>2. n_msgs = 0 /\ hw_sg_used = 0
      BY <2>5, <3>1, IdleHost, Zenon
    <3>3. Tags.msgs = 0 /\ Tags.sg = 0
      BY <3>2, Zenon DEF Tags
    <3>4. PICK q \in stopped : stack' = <<Rq(q)>> \o Tail(stack)
      BY <2>2, <2>5, <3>3, Zenon
    <3>5. Tail(stack) \in Seq(Frame) /\ rqs'[q] = rqs[q]
      BY <1>t, <2>1, <2>3, Zenon
    <3> QED
      BY <1>0, <3>4, <3>5, StartedRuns, Zenon
  <2> QED
    BY <1>f, <2>4, <2>5, Zenon DEF Awake
<1> QED
  BY <1>1, <1>2, <1>3, <1>4, <1>7, <1>8, <1>9,
     Zenon DEF Next, Locked, RunRq, RunIrq, Fsm, Message_, Bind, Unwind

\* Whatever waits in the host waits for something.
Woken == Located /\ Kinds /\ Disks /\ Awake

\* Nothing waits when the host is allocated.
LEMMA WokenInit == Init => Woken
<1> SUFFICES ASSUME Init PROVE Woken
  BY Zenon
<1>1. Located /\ Disks
  <2>1. fsm.pc # "set"
    BY DEF Init, Idle
  <2> QED
    BY <2>1, Zenon DEF Init, Located, Disks, Rests
<1>2. Kinds
  <2>1. DOMAIN oob = {} /\ DOMAIN hw = {} /\ \A t \in Tag : req[t].type = "none"
    BY DEF Init, Free
  <2>2. \A t : ~InOob(t) /\ ~InHw(t)
    BY <2>1, Zenon DEF InOob, InHw
  <2>3. \A t \in Tag : req[t].type # "rw"
    BY <2>1
  <2> QED
    BY <2>2, <2>3, Zenon DEF Kinds
<1>3. Awake
  BY Zenon DEF Init, Awake, Kept
<1> QED
  BY <1>1, <1>2, <1>3, Zenon DEF Woken

\* A queue that carm_push_q has stopped is started again: whenever nothing runs
\* under host->lock, a message is with the adapter or answered, and the answer
\* starts a queue.  This is as long as wait_q_prod has not wrapped.
THEOREM NoWakeupIsLost ==
    ASSUME TagsFit
    PROVE  Spec /\ []NoWrap => []NoLostWakeup
<1>1. Whole => IInv /\ Types /\ Counts
  BY Zenon DEF Whole, IInv
<1>2. Awake => NoLostWakeup
  BY Zenon DEF Awake, Runner, InRq, Flying, Answered, NoLostWakeup
<1>3. Types /\ Waits /\ Running /\ NoWrap /\ [Next]_vars => Waits' /\ Running'
  BY WaitsNext, Zenon
<1>4. IInv /\ Types' /\ Counts /\ Counts' /\ Waits /\ Running /\ Woken /\ [Next]_vars => Woken'
  <2> SUFFICES ASSUME IInv, Types', Counts, Counts', Waits, Running, Woken, [Next]_vars
               PROVE  Woken'
    BY Zenon
  <2>0. Located /\ Kinds /\ Disks /\ Rests /\ Awake
    BY Zenon DEF Woken, Disks
  <2>1. Located' /\ Kinds' /\ Disks'
    BY <2>0, LocatedNext, KindsNext, DisksNext, Zenon
  <2>2. Awake'
    BY <2>0, AwakeHandled, AwakeOther, Zenon
  <2> QED
    BY <2>1, <2>2, Zenon DEF Woken
<1>5. Woken => Awake
  BY Zenon DEF Woken
<1>6. Spec => []Whole
  BY WholeAlways, Zenon
<1> QED
  BY <1>1, <1>2, <1>3, <1>4, <1>5, <1>6, QueuedInit, WokenInit, PTL DEF Spec

==============================================================================
